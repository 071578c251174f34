------------------------------- MODULE BtMng --------------------------------
(***************************************************************************)
(* The management side of the Bluetooth virtual net device (btdev.c,       *)
(* btdev.h): devices are created and deleted through the management file,  *)
(* and their data files are opened and released, concurrently.             *)
(*                                                                         *)
(* bitmap_lock serialises creation and deletion.  Opening a data file      *)
(* takes no lock: it walks the device list, then claims the open limits of *)
(* the io_file one atomic operation at a time.  The io_file of a minor     *)
(* number is allocated once and outlives the devices that use it.          *)
(***************************************************************************)
EXTENDS Integers, FiniteSets, FiniteSetsExt

CONSTANTS
  MaxNum,   \* BT_VIRNET_MAX_NUM
  Vnet,     \* struct bt_virnet objects with their net_device
  File,     \* open file descriptions of data files
  Thread,   \* threads that call ioctl on the management file
  None      \* no object

ASSUME MngAssumption ==
  /\ MaxNum \in Nat /\ MaxNum >= 1
  /\ IsFiniteSet(Vnet) /\ IsFiniteSet(File)
  /\ None \notin Vnet \cup Thread

VARIABLES
  table, num,   \* struct bt_table
  bitmap,       \* the bits that are set
  lock,         \* the holder of bitmap_lock
  alive,        \* Vnet objects that are allocated
  id,           \* Vnet -> minor number
  state,        \* Vnet -> enum bt_virnet_state
  up,           \* Vnet -> IFF_UP of its net_device
  tpc, tv,      \* Thread -> where its ioctl is, and the device it works on
  read_open_limit, write_open_limit,   \* minor number -> the limits of its io_file
  fpc,          \* File -> where open or release is, "open" or "closed"
  mode,         \* File -> O_ACCMODE
  fid,          \* File -> minor number of its inode
  fv,           \* File -> the device it found, later private_data
  bad           \* a freed or unlinked device was accessed

mngVars  == <<table, num, bitmap, lock, tpc, tv>>
devVars  == <<alive, id, state, up>>
fileVars == <<read_open_limit, write_open_limit, fpc, mode, fid, fv>>
vars     == <<mngVars, devVars, fileVars, bad>>

Minor == 1 .. MaxNum

\* The steps of bt_io_file_open and bt_io_file_release in which they use the device.
Opening   == {"read", "readLost", "write", "writeLost", "up"}
Releasing == {"releaseWrite", "releaseState"}

TypeOK ==
  /\ table \subseteq Vnet /\ alive \subseteq Vnet
  /\ num \in 0 .. MaxNum
  /\ bitmap \subseteq 0 .. MaxNum
  /\ lock \in Thread \cup {None}
  /\ id \in [Vnet -> Minor \cup {None}]
  /\ state \in [Vnet -> {"created", "connected", "disconnected", "disabled", "deleted"}]
  /\ up \in [Vnet -> BOOLEAN]
  /\ tpc \in [Thread -> {"idle", "create", "delete", "destroy", "all", "allDestroy"}]
  /\ tv \in [Thread -> Vnet \cup {None}]
  /\ read_open_limit \in [Minor -> Int] /\ write_open_limit \in [Minor -> Int]
  /\ fpc \in [File -> Opening \cup Releasing \cup {"open", "closed"}]
  /\ mode \in [File -> {"r", "w", "rw"}]
  /\ fid \in [File -> Minor]
  /\ fv \in [File -> Vnet \cup {None}]
  /\ bad \in BOOLEAN

\* bt_module_init: bit 0 is the management file.
Init ==
  /\ table = {} /\ num = 0 /\ bitmap = {0} /\ lock = None
  /\ alive = {}
  /\ id = [v \in Vnet |-> None]
  /\ state = [v \in Vnet |-> "deleted"]
  /\ up = [v \in Vnet |-> FALSE]
  /\ tpc = [t \in Thread |-> "idle"] /\ tv = [t \in Thread |-> None]
  /\ read_open_limit = [i \in Minor |-> 1] /\ write_open_limit = [i \in Minor |-> 1]
  /\ fpc = [f \in File |-> "closed"]
  /\ mode = [f \in File |-> "r"]
  /\ fid = [f \in File |-> 1]
  /\ fv = [f \in File |-> None]
  /\ bad = FALSE

-----------------------------------------------------------------------------
(* Creation and deletion.                                                  *)

\* bt_get_unused_id: the lowest clear bit, or -1.
bt_get_unused_id ==
  LET unused == (0 .. MaxNum) \ bitmap IN IF unused = {} THEN -1 ELSE Min(unused)

\* bt_virnet_create: ring, net device and io_file for minor number i.  register_netdev
\* refuses a name that is in use.
bt_virnet_create(v, i) ==
  /\ v \notin alive
  /\ \A w \in alive : id[w] # i
  /\ alive' = alive \cup {v}
  /\ id' = [id EXCEPT ![v] = i]
  /\ state' = [state EXCEPT ![v] = "created"]
  /\ up' = [up EXCEPT ![v] = FALSE]

\* bt_virnet_destroy: the ring, the net device and the device are freed.
bt_virnet_destroy(v) ==
  /\ alive' = alive \ {v}
  /\ id' = [id EXCEPT ![v] = None]
  /\ state' = [state EXCEPT ![v] = "deleted"]
  /\ up' = [up EXCEPT ![v] = FALSE]

\* Mutant: the limit is not tested.
CreateRegisterNoLimit(t, v) ==
  /\ tpc[t] = "idle" /\ lock = None
  /\ bt_virnet_create(v, bt_get_unused_id)
  /\ lock' = t
  /\ tpc' = [tpc EXCEPT ![t] = "create"]
  /\ tv' = [tv EXCEPT ![t] = v]
  /\ UNCHANGED <<table, num, bitmap, fileVars, bad>>

\* bt_cmd_create_virnet up to bt_virnet_create: from here the network stack knows
\* the device.  A failed allocation changes nothing.
CreateRegister(t, v) ==
  /\ tpc[t] = "idle" /\ lock = None
  /\ num # MaxNum
  /\ bt_virnet_create(v, bt_get_unused_id)
  /\ lock' = t
  /\ tpc' = [tpc EXCEPT ![t] = "create"]
  /\ tv' = [tv EXCEPT ![t] = v]
  /\ UNCHANGED <<table, num, bitmap, fileVars, bad>>

\* bt_table_add_device, bt_set_bit.  Its test for a duplicate name never succeeds.
CreateAdd(t) ==
  /\ tpc[t] = "create"
  /\ table' = table \cup {tv[t]}
  /\ num' = num + 1
  /\ bitmap' = bitmap \cup {id[tv[t]]}
  /\ lock' = None
  /\ tpc' = [tpc EXCEPT ![t] = "idle"]
  /\ tv' = [tv EXCEPT ![t] = None]
  /\ UNCHANGED <<devVars, fileVars, bad>>

\* bt_cmd_delete_virnet: bt_table_find runs before bitmap_lock is taken.
DeleteFind(t, v) ==
  /\ tpc[t] = "idle"
  /\ v \in table
  /\ tpc' = [tpc EXCEPT ![t] = "delete"]
  /\ tv' = [tv EXCEPT ![t] = v]
  /\ UNCHANGED <<table, num, bitmap, lock, devVars, fileVars, bad>>

\* bt_table_remove_device under bitmap_lock.  Another thread may have deleted the
\* device since it was found.
DeleteRemove(t) ==
  /\ tpc[t] = "delete" /\ lock = None
  /\ IF tv[t] \in table
       THEN /\ table' = table \ {tv[t]}
            /\ num' = num - 1
            /\ lock' = t
            /\ tpc' = [tpc EXCEPT ![t] = "destroy"]
            /\ UNCHANGED bad
       ELSE bad' = TRUE /\ UNCHANGED <<table, num, lock, tpc>>
  /\ UNCHANGED <<bitmap, tv, devVars, fileVars>>

\* bt_virnet_destroy, bt_clear_bit.
DeleteDestroy(t) ==
  /\ tpc[t] = "destroy"
  /\ bt_virnet_destroy(tv[t])
  /\ bitmap' = bitmap \ {id[tv[t]]}
  /\ lock' = None
  /\ tpc' = [tpc EXCEPT ![t] = "idle"]
  /\ tv' = [tv EXCEPT ![t] = None]
  /\ UNCHANGED <<table, num, fileVars, bad>>

\* bt_table_delete_all takes the locks.
DeleteAllLock(t) ==
  /\ tpc[t] = "idle" /\ lock = None
  /\ lock' = t
  /\ tpc' = [tpc EXCEPT ![t] = "all"]
  /\ UNCHANGED <<table, num, bitmap, tv, devVars, fileVars, bad>>

\* __bt_table_delete_all, one device: list_del and bt_clear_bit ...
DeleteAllRemove(t, v) ==
  /\ tpc[t] = "all"
  /\ v \in table
  /\ table' = table \ {v}
  /\ bitmap' = bitmap \ {id[v]}
  /\ tpc' = [tpc EXCEPT ![t] = "allDestroy"]
  /\ tv' = [tv EXCEPT ![t] = v]
  /\ UNCHANGED <<num, lock, devVars, fileVars, bad>>

\* ... then bt_virnet_destroy.
DeleteAllDestroy(t) ==
  /\ tpc[t] = "allDestroy"
  /\ bt_virnet_destroy(tv[t])
  /\ tpc' = [tpc EXCEPT ![t] = "all"]
  /\ tv' = [tv EXCEPT ![t] = None]
  /\ UNCHANGED <<table, num, bitmap, lock, fileVars, bad>>

\* Mutant: the count is not reset.
DeleteAllEndKeep(t) ==
  /\ tpc[t] = "all"
  /\ table = {}
  /\ lock' = None
  /\ tpc' = [tpc EXCEPT ![t] = "idle"]
  /\ UNCHANGED <<table, num, bitmap, tv, devVars, fileVars, bad>>

DeleteAllEnd(t) ==
  /\ tpc[t] = "all"
  /\ table = {}
  /\ num' = 0
  /\ lock' = None
  /\ tpc' = [tpc EXCEPT ![t] = "idle"]
  /\ UNCHANGED <<table, bitmap, tv, devVars, fileVars, bad>>

-----------------------------------------------------------------------------
(* Data files.                                                             *)

Reads(f)  == mode[f] \in {"r", "rw"}
Writes(f) == mode[f] \in {"w", "rw"}

FileGoto(f, l) == fpc' = [fpc EXCEPT ![f] = l]

\* The struct file is gone, after release or a failed open.
Close(f) ==
  /\ FileGoto(f, "closed")
  /\ mode' = [mode EXCEPT ![f] = "r"]
  /\ fid' = [fid EXCEPT ![f] = 1]
  /\ fv' = [fv EXCEPT ![f] = None]

\* bt_io_file_open of minor number i walks the list and finds device v.
OpenFind(f, m, i, v) ==
  /\ fpc[f] = "closed"
  /\ v \in table /\ id[v] = i
  /\ mode' = [mode EXCEPT ![f] = m]
  /\ fid' = [fid EXCEPT ![f] = i]
  /\ fv' = [fv EXCEPT ![f] = v]
  /\ FileGoto(f, IF m = "w" THEN "write" ELSE "read")
  /\ UNCHANGED <<read_open_limit, write_open_limit, mngVars, devVars, bad>>

\* Mutant: the limit is taken by whoever finds it not negative.
OpenReadTwice(f) ==
  /\ fpc[f] = "read" /\ fv[f] \in alive
  /\ read_open_limit' = [read_open_limit EXCEPT ![fid[f]] = @ - 1]
  /\ FileGoto(f, IF read_open_limit[fid[f]] < 0 THEN "readLost"
                 ELSE IF Writes(f) THEN "write" ELSE "up")
  /\ UNCHANGED <<write_open_limit, mode, fid, fv, mngVars, devVars, bad>>

\* atomic_dec_and_test(&read_open_limit)
OpenRead(f) ==
  /\ fpc[f] = "read" /\ fv[f] \in alive
  /\ read_open_limit' = [read_open_limit EXCEPT ![fid[f]] = @ - 1]
  /\ FileGoto(f, IF read_open_limit[fid[f]] # 1 THEN "readLost"
                 ELSE IF Writes(f) THEN "write" ELSE "up")
  /\ UNCHANGED <<write_open_limit, mode, fid, fv, mngVars, devVars, bad>>

\* "has been opened for read twice already": -EBUSY.
OpenReadLost(f) ==
  /\ fpc[f] = "readLost" /\ fv[f] \in alive
  /\ read_open_limit' = [read_open_limit EXCEPT ![fid[f]] = @ + 1]
  /\ Close(f)
  /\ UNCHANGED <<write_open_limit, mngVars, devVars, bad>>

\* atomic_dec_and_test(&write_open_limit)
OpenWrite(f) ==
  /\ fpc[f] = "write" /\ fv[f] \in alive
  /\ write_open_limit' = [write_open_limit EXCEPT ![fid[f]] = @ - 1]
  /\ FileGoto(f, IF write_open_limit[fid[f]] # 1 THEN "writeLost" ELSE "up")
  /\ UNCHANGED <<read_open_limit, mode, fid, fv, mngVars, devVars, bad>>

\* "has been opened for write twice already": -EBUSY.  An O_RDWR open does not give
\* the read limit back.
OpenWriteLost(f) ==
  /\ fpc[f] = "writeLost" /\ fv[f] \in alive
  /\ write_open_limit' = [write_open_limit EXCEPT ![fid[f]] = @ + 1]
  /\ Close(f)
  /\ UNCHANGED <<read_open_limit, mngVars, devVars, bad>>

\* The net device is brought up and the file is open.
OpenUp(f) ==
  /\ fpc[f] = "up" /\ fv[f] \in alive
  /\ up' = [up EXCEPT ![fv[f]] = TRUE]
  /\ state' = [state EXCEPT ![fv[f]] = "connected"]
  /\ FileGoto(f, "open")
  /\ UNCHANGED <<read_open_limit, write_open_limit, mode, fid, fv, alive, id, mngVars, bad>>

\* dev_change_flags fails: -EBUSY, and the limits stay taken.
OpenUpFails(f) ==
  /\ fpc[f] = "up" /\ fv[f] \in alive
  /\ ~up[fv[f]]
  /\ Close(f)
  /\ UNCHANGED <<read_open_limit, write_open_limit, mngVars, devVars, bad>>

\* bt_io_file_release, step by step: the read limit, the write limit, the state.  A new
\* open may already own the limits when the state is set.
ReleaseRead(f) ==
  /\ fpc[f] = "open" /\ Reads(f) /\ fv[f] \in alive
  /\ read_open_limit' = [read_open_limit EXCEPT ![fid[f]] = @ + 1]
  /\ FileGoto(f, IF Writes(f) THEN "releaseWrite" ELSE "releaseState")
  /\ UNCHANGED <<write_open_limit, mode, fid, fv, mngVars, devVars, bad>>

ReleaseWrite(f) ==
  /\ fpc[f] = IF Reads(f) THEN "releaseWrite" ELSE "open"
  /\ fv[f] \in alive
  /\ write_open_limit' = [write_open_limit EXCEPT ![fid[f]] = @ + 1]
  /\ FileGoto(f, "releaseState")
  /\ UNCHANGED <<read_open_limit, mode, fid, fv, mngVars, devVars, bad>>

ReleaseState(f) ==
  /\ fpc[f] = "releaseState" /\ fv[f] \in alive
  /\ state' = [state EXCEPT ![fv[f]] = "disconnected"]
  /\ Close(f)
  /\ UNCHANGED <<read_open_limit, write_open_limit, alive, id, up, mngVars, bad>>

bt_cmd_enable_virnet(f) ==
  /\ fpc[f] = "open" /\ fv[f] \in alive
  /\ state[fv[f]] = "disabled"
  /\ up' = [up EXCEPT ![fv[f]] = TRUE]
  /\ state' = [state EXCEPT ![fv[f]] = "connected"]
  /\ UNCHANGED <<alive, id, mngVars, fileVars, bad>>

bt_cmd_disable_virnet(f) ==
  /\ fpc[f] = "open" /\ fv[f] \in alive
  /\ state[fv[f]] = "connected"
  /\ up' = [up EXCEPT ![fv[f]] = FALSE]
  /\ state' = [state EXCEPT ![fv[f]] = "disabled"]
  /\ UNCHANGED <<alive, id, mngVars, fileVars, bad>>

\* Any operation on a file whose device has been deleted.
UseDeleted(f) ==
  /\ fpc[f] # "closed" /\ fv[f] \notin alive
  /\ bad' = TRUE
  /\ UNCHANGED <<mngVars, devVars, fileVars>>

-----------------------------------------------------------------------------
Manage(t) ==
  \/ \E v \in Vnet : CreateRegister(t, v) \/ DeleteFind(t, v) \/ DeleteAllRemove(t, v)
  \/ CreateAdd(t) \/ DeleteRemove(t) \/ DeleteDestroy(t)
  \/ DeleteAllLock(t) \/ DeleteAllDestroy(t) \/ DeleteAllEnd(t)

Access(f) ==
  \/ \E m \in {"r", "w", "rw"}, i \in Minor, v \in Vnet : OpenFind(f, m, i, v)
  \/ OpenRead(f) \/ OpenReadLost(f) \/ OpenWrite(f) \/ OpenWriteLost(f)
  \/ OpenUp(f) \/ OpenUpFails(f)
  \/ ReleaseRead(f) \/ ReleaseWrite(f) \/ ReleaseState(f)
  \/ bt_cmd_enable_virnet(f) \/ bt_cmd_disable_virnet(f) \/ UseDeleted(f)

\* After an access to a freed device nothing is modelled.
Next ==
  \/ ~bad /\ \E t \in Thread : Manage(t)
  \/ ~bad /\ \E f \in File : Access(f)
  \/ bad /\ UNCHANGED vars

Spec == Init /\ [][Next]_vars

-----------------------------------------------------------------------------
(* Properties.                                                             *)

\* The files that have claimed the read (write) limit of minor number i.
Readers(i) ==
  {f \in File : fid[f] = i /\ Reads(f) /\ fpc[f] \in {"write", "writeLost", "up", "open"}}
Writers(i) == {f \in File : fid[f] = i /\ Writes(f) /\ fpc[f] \in {"up", "open", "releaseWrite"}}

\* At most one file of a data device is open for reading and one for writing, even
\* across deletion and creation of a device with the same number, while other opens
\* have decremented a limit and not restored it yet.  The ring (BtRing) has no other
\* protection against two readers.
SingleOpen ==
  \A i \in Minor : \A f, g \in File :
    /\ f \in Readers(i) /\ g \in Readers(i) => f = g
    /\ f \in Writers(i) /\ g \in Writers(i) => f = g

\* When nobody holds bitmap_lock the bitmap, the list and its count agree, on every
\* path of creating, deleting and deleting all.
BitmapMatchesTable ==
  ~bad /\ lock = None =>
    /\ bitmap = {0} \cup {id[v] : v \in table}
    /\ num = Cardinality(table)

\* A device that is created gets a number of its own in the range of the io_files
\* (the WARN_ONs of bt_get_io_file): bt_get_unused_id is never -1 or 0 there although
\* its result is not tested.
IdInRange ==
  /\ \A v \in alive : id[v] \in Minor
  /\ \A v, w \in alive : id[v] = id[w] => v = w
=============================================================================
