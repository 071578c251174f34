---------------------------- MODULE BtMng_proofs ----------------------------
(***************************************************************************)
(* Proofs about BtMng: the open limits admit one reader and one writer per *)
(* data device, for any number of devices, files and threads.              *)
(***************************************************************************)
EXTENDS BtMng, FiniteSetTheorems, WellFoundedInduction, TLAPS

(* The part of TypeOK that the data files need, inductive by itself.        *)
FileTypes ==
  /\ read_open_limit \in [Minor -> Int] /\ write_open_limit \in [Minor -> Int]
  /\ fpc \in [File -> Opening \cup Releasing \cup {"open", "closed"}]
  /\ mode \in [File -> {"r", "w", "rw"}]
  /\ fid \in [File -> Minor]
  /\ \A f \in File : /\ fpc[f] \in {"read", "readLost"} => mode[f] \in {"r", "rw"}
                     /\ fpc[f] \in {"write", "writeLost"} => mode[f] \in {"w", "rw"}
                     /\ fpc[f] = "releaseWrite" => mode[f] = "rw"

(* The files that have decremented a limit and not restored it: those that  *)
(* won it and those that found it taken.                                    *)
ReadClaims(i) ==
  {f \in File : fid[f] = i /\ Reads(f)
                  /\ fpc[f] \in {"readLost", "write", "writeLost", "up", "open"}}
WriteClaims(i) ==
  {f \in File : fid[f] = i /\ Writes(f)
                  /\ fpc[f] \in {"writeLost", "up", "open", "releaseWrite"}}

(* A limit is at most one less the claims on it.  It is less when a claim   *)
(* was leaked by a failed open.                                             *)
LimitInv ==
  \A i \in Minor : /\ read_open_limit[i] + Cardinality(ReadClaims(i)) <= 1
                   /\ write_open_limit[i] + Cardinality(WriteClaims(i)) <= 1

OpenInv == FileTypes /\ LimitInv /\ SingleOpen

-----------------------------------------------------------------------------
\* What one atomic operation on a limit n does to the sum of the limit and of the
\* claims S on it.
LEMMA ClaimStep ==
  ASSUME NEW S, IsFiniteSet(S), NEW n \in Int, NEW f, n + Cardinality(S) <= 1
  PROVE  /\ f \notin S => (n - 1) + Cardinality(S \cup {f}) <= 1
         /\ f \in S => (n + 1) + Cardinality(S \ {f}) <= 1
         /\ n + Cardinality(S \ {f}) <= 1
         /\ n = 1 => S = {}
<1>1. Cardinality(S) \in Nat
  BY FS_CardinalityType
<1>2. Cardinality(S \cup {f}) = IF f \in S THEN Cardinality(S) ELSE Cardinality(S) + 1
  BY FS_AddElement
<1>3. Cardinality(S \ {f}) = IF f \in S THEN Cardinality(S) - 1 ELSE Cardinality(S)
  BY FS_RemoveElement
<1>4. Cardinality(S) = 0 => S = {}
  BY FS_EmptySet
<1>. QED  BY <1>1, <1>2, <1>3, <1>4

\* The claims on a limit are finitely many.
LEMMA ClaimsFinite ==
  ASSUME NEW i
  PROVE  IsFiniteSet(ReadClaims(i)) /\ IsFiniteSet(WriteClaims(i))
<1>1. ReadClaims(i) \in SUBSET File /\ WriteClaims(i) \in SUBSET File
  BY DEF ReadClaims, WriteClaims
<1>. QED  BY <1>1, MngAssumption, FS_Subset

\* Initially nobody has claimed a limit.
LEMMA OpenInit == Init => OpenInv
<1>. SUFFICES ASSUME Init PROVE OpenInv
  OBVIOUS
<1>1. FileTypes
  BY MngAssumption DEF Init, FileTypes, Minor, Opening, Releasing
<1>2. \A i \in Minor : ReadClaims(i) = {} /\ WriteClaims(i) = {}
  BY DEF Init, ReadClaims, WriteClaims
<1>3. LimitInv
  BY <1>2, FS_EmptySet DEF Init, LimitInv
<1>4. SingleOpen
  BY DEF Init, SingleOpen, Readers, Writers
<1>. QED  BY <1>1, <1>3, <1>4 DEF OpenInv

\* Steps that leave limits and files alone.
LEMMA OpenUnchanged == OpenInv /\ UNCHANGED fileVars => OpenInv'
<1>. SUFFICES ASSUME OpenInv, UNCHANGED fileVars PROVE OpenInv'
  OBVIOUS
<1>1. \A i : ReadClaims(i)' = ReadClaims(i) /\ WriteClaims(i)' = WriteClaims(i)
  BY DEF fileVars, ReadClaims, WriteClaims, Reads, Writes
<1>2. \A i : Readers(i)' = Readers(i) /\ Writers(i)' = Writers(i)
  BY DEF fileVars, Readers, Writers, Reads, Writes
<1>3. FileTypes' /\ LimitInv'
  BY <1>1 DEF OpenInv, fileVars, FileTypes, LimitInv
<1>4. SingleOpen'
  BY <1>2 DEF OpenInv, SingleOpen
<1>. QED  BY <1>3, <1>4 DEF OpenInv

\* The management side does not touch the files.
LEMMA OpenManage == ASSUME OpenInv, NEW t \in Thread, Manage(t) PROVE OpenInv'
<1>1. UNCHANGED fileVars
  BY DEF Manage, CreateRegister, CreateAdd, DeleteFind, DeleteRemove, DeleteDestroy,
         DeleteAllLock, DeleteAllRemove, DeleteAllDestroy, DeleteAllEnd
<1>. QED  BY <1>1, OpenUnchanged

\* A step that shrinks the sets of readers and of writers keeps them single.
LEMMA SingleShrinks ==
  ASSUME SingleOpen,
         \A i \in Minor : Readers(i)' \subseteq Readers(i) /\ Writers(i)' \subseteq Writers(i)
  PROVE  SingleOpen'
BY DEF SingleOpen

\* Every step of an open file description.
LEMMA OpenAccess == ASSUME OpenInv, NEW f \in File, Access(f) PROVE OpenInv'
<1>. USE DEF OpenInv
<1>0. PICK n \in Minor : n = fid[f]
  BY DEF FileTypes
<1>. USE <1>0
<1>R. /\ f \notin ReadClaims(n)
           => (read_open_limit[n] - 1) + Cardinality(ReadClaims(n) \cup {f}) <= 1
      /\ f \in ReadClaims(n)
           => (read_open_limit[n] + 1) + Cardinality(ReadClaims(n) \ {f}) <= 1
      /\ read_open_limit[n] + Cardinality(ReadClaims(n) \ {f}) <= 1
      /\ read_open_limit[n] = 1 => ReadClaims(n) = {}
  <2>1. read_open_limit[n] \in Int /\ read_open_limit[n] + Cardinality(ReadClaims(n)) <= 1
    BY <1>0 DEF FileTypes, LimitInv
  <2>2. IsFiniteSet(ReadClaims(n))
    BY ClaimsFinite
  <2>. QED  BY <2>1, <2>2, ClaimStep
<1>W. /\ f \notin WriteClaims(n)
           => (write_open_limit[n] - 1) + Cardinality(WriteClaims(n) \cup {f}) <= 1
      /\ f \in WriteClaims(n)
           => (write_open_limit[n] + 1) + Cardinality(WriteClaims(n) \ {f}) <= 1
      /\ write_open_limit[n] + Cardinality(WriteClaims(n) \ {f}) <= 1
      /\ write_open_limit[n] = 1 => WriteClaims(n) = {}
  <2>1. write_open_limit[n] \in Int /\ write_open_limit[n] + Cardinality(WriteClaims(n)) <= 1
    BY <1>0 DEF FileTypes, LimitInv
  <2>2. IsFiniteSet(WriteClaims(n))
    BY ClaimsFinite
  <2>. QED  BY <2>1, <2>2, ClaimStep
<1>1. ASSUME NEW m \in {"r", "w", "rw"}, NEW j \in Minor, NEW v \in Vnet,
             OpenFind(f, m, j, v)
      PROVE  OpenInv'
  <2>. USE <1>1 DEF OpenFind, FileGoto
  <2>1. FileTypes'
    BY DEF FileTypes, Opening, Releasing
  <2>2. \A i \in Minor : ReadClaims(i)' = ReadClaims(i) /\ WriteClaims(i)' = WriteClaims(i)
    BY DEF FileTypes, ReadClaims, WriteClaims, Reads, Writes
  <2>3. \A i \in Minor : Readers(i)' \subseteq Readers(i) /\ Writers(i)' \subseteq Writers(i)
    BY DEF FileTypes, Readers, Writers, Reads, Writes
  <2>. QED  BY <2>1, <2>2, <2>3, SingleShrinks DEF LimitInv
<1>2. CASE OpenRead(f)
  <2>. USE <1>2 DEF OpenRead, FileGoto
  <2>1. FileTypes'
    BY DEF FileTypes, Opening, Releasing, Writes
  <2>2. /\ \A i \in Minor : WriteClaims(i)' = WriteClaims(i)
        /\ \A i \in Minor : i # n => ReadClaims(i)' = ReadClaims(i)
        /\ f \notin ReadClaims(n)
        /\ ReadClaims(n)' = ReadClaims(n) \cup {f}
    BY DEF FileTypes, ReadClaims, WriteClaims, Reads, Writes
  <2>3. LimitInv'
    BY <1>0, <1>R, <2>2 DEF LimitInv, FileTypes
  <2>4. /\ \A i \in Minor : Writers(i)' \subseteq Writers(i)
        /\ \A i \in Minor : i # n => Readers(i)' \subseteq Readers(i)
        /\ Readers(n)' \subseteq Readers(n) \cup {f}
        /\ read_open_limit[n] # 1 => Readers(n)' \subseteq Readers(n)
        /\ Readers(n) \subseteq ReadClaims(n)
    BY DEF FileTypes, Readers, Writers, ReadClaims, Reads, Writes
  <2>5. SingleOpen'
    BY <1>R, <2>4 DEF SingleOpen
  <2>. QED  BY <2>1, <2>3, <2>5
<1>3. CASE OpenReadLost(f)
  <2>. USE <1>3 DEF OpenReadLost, Close, FileGoto
  <2>1. FileTypes'
    BY MngAssumption DEF FileTypes, Opening, Releasing, Minor
  <2>2. /\ \A i \in Minor : WriteClaims(i)' = WriteClaims(i)
        /\ \A i \in Minor : i # n => ReadClaims(i)' = ReadClaims(i)
        /\ f \in ReadClaims(n)
        /\ ReadClaims(n)' = ReadClaims(n) \ {f}
    BY DEF FileTypes, ReadClaims, WriteClaims, Reads, Writes
  <2>3. LimitInv'
    BY <1>0, <1>R, <2>2 DEF LimitInv, FileTypes
  <2>4. \A i \in Minor : Readers(i)' \subseteq Readers(i) /\ Writers(i)' \subseteq Writers(i)
    BY DEF FileTypes, Readers, Writers, Reads, Writes
  <2>. QED  BY <2>1, <2>3, <2>4, SingleShrinks
<1>4. CASE OpenWrite(f)
  <2>. USE <1>4 DEF OpenWrite, FileGoto
  <2>1. FileTypes'
    BY DEF FileTypes, Opening, Releasing
  <2>2. /\ \A i \in Minor : ReadClaims(i)' = ReadClaims(i)
        /\ \A i \in Minor : i # n => WriteClaims(i)' = WriteClaims(i)
        /\ f \notin WriteClaims(n)
        /\ WriteClaims(n)' = WriteClaims(n) \cup {f}
    BY DEF FileTypes, ReadClaims, WriteClaims, Reads, Writes
  <2>3. LimitInv'
    BY <1>0, <1>W, <2>2 DEF LimitInv, FileTypes
  <2>4. /\ \A i \in Minor : Readers(i)' \subseteq Readers(i)
        /\ \A i \in Minor : i # n => Writers(i)' \subseteq Writers(i)
        /\ Writers(n)' \subseteq Writers(n) \cup {f}
        /\ write_open_limit[n] # 1 => Writers(n)' \subseteq Writers(n)
        /\ Writers(n) \subseteq WriteClaims(n)
    BY DEF FileTypes, Readers, Writers, WriteClaims, Reads, Writes
  <2>5. SingleOpen'
    BY <1>W, <2>4 DEF SingleOpen
  <2>. QED  BY <2>1, <2>3, <2>5
<1>5. CASE OpenWriteLost(f)
  <2>. USE <1>5 DEF OpenWriteLost, Close, FileGoto
  <2>1. FileTypes'
    BY MngAssumption DEF FileTypes, Opening, Releasing, Minor
  <2>2. /\ \A i \in Minor : i # n => /\ ReadClaims(i)' = ReadClaims(i)
                                     /\ WriteClaims(i)' = WriteClaims(i)
        /\ f \in WriteClaims(n)
        /\ ReadClaims(n)' = ReadClaims(n) \ {f}
        /\ WriteClaims(n)' = WriteClaims(n) \ {f}
    BY DEF FileTypes, ReadClaims, WriteClaims, Reads, Writes
  <2>3. LimitInv'
    BY <1>0, <1>R, <1>W, <2>2 DEF LimitInv, FileTypes
  <2>4. \A i \in Minor : Readers(i)' \subseteq Readers(i) /\ Writers(i)' \subseteq Writers(i)
    BY DEF FileTypes, Readers, Writers, Reads, Writes
  <2>. QED  BY <2>1, <2>3, <2>4, SingleShrinks
<1>6. CASE OpenUp(f)
  <2>. USE <1>6 DEF OpenUp, FileGoto
  <2>1. FileTypes'
    BY DEF FileTypes, Opening, Releasing
  <2>2. \A i \in Minor : ReadClaims(i)' = ReadClaims(i) /\ WriteClaims(i)' = WriteClaims(i)
    BY DEF FileTypes, ReadClaims, WriteClaims, Reads, Writes
  <2>3. \A i \in Minor : Readers(i)' \subseteq Readers(i) /\ Writers(i)' \subseteq Writers(i)
    BY DEF FileTypes, Readers, Writers, Reads, Writes
  <2>. QED  BY <2>1, <2>2, <2>3, SingleShrinks DEF LimitInv
<1>7. CASE OpenUpFails(f)
  <2>. USE <1>7 DEF OpenUpFails, Close, FileGoto
  <2>1. FileTypes'
    BY MngAssumption DEF FileTypes, Opening, Releasing, Minor
  <2>2. /\ \A i \in Minor : i # n => /\ ReadClaims(i)' = ReadClaims(i)
                                     /\ WriteClaims(i)' = WriteClaims(i)
        /\ ReadClaims(n)' = ReadClaims(n) \ {f}
        /\ WriteClaims(n)' = WriteClaims(n) \ {f}
    BY DEF FileTypes, ReadClaims, WriteClaims, Reads, Writes
  <2>3. LimitInv'
    BY <1>0, <1>R, <1>W, <2>2 DEF LimitInv, FileTypes
  <2>4. \A i \in Minor : Readers(i)' \subseteq Readers(i) /\ Writers(i)' \subseteq Writers(i)
    BY DEF FileTypes, Readers, Writers, Reads, Writes
  <2>. QED  BY <2>1, <2>3, <2>4, SingleShrinks
<1>8. CASE ReleaseRead(f)
  <2>. USE <1>8 DEF ReleaseRead, FileGoto
  <2>1. FileTypes'
    BY DEF FileTypes, Opening, Releasing, Reads, Writes
  <2>2. /\ \A i \in Minor : WriteClaims(i)' = WriteClaims(i)
        /\ \A i \in Minor : i # n => ReadClaims(i)' = ReadClaims(i)
        /\ f \in ReadClaims(n)
        /\ ReadClaims(n)' = ReadClaims(n) \ {f}
    BY DEF FileTypes, ReadClaims, WriteClaims, Reads, Writes
  <2>3. LimitInv'
    BY <1>R, <2>2 DEF LimitInv, FileTypes
  <2>4. \A i \in Minor : Readers(i)' \subseteq Readers(i) /\ Writers(i)' \subseteq Writers(i)
    BY DEF FileTypes, Readers, Writers, Reads, Writes
  <2>. QED  BY <2>1, <2>3, <2>4, SingleShrinks
<1>9. CASE ReleaseWrite(f)
  <2>. USE <1>9 DEF ReleaseWrite, FileGoto
  <2>1. FileTypes'
    BY DEF FileTypes, Opening, Releasing
  <2>2. /\ \A i \in Minor : ReadClaims(i)' = ReadClaims(i)
        /\ \A i \in Minor : i # n => WriteClaims(i)' = WriteClaims(i)
        /\ f \in WriteClaims(n)
        /\ WriteClaims(n)' = WriteClaims(n) \ {f}
    BY DEF FileTypes, ReadClaims, WriteClaims, Reads, Writes
  <2>3. LimitInv'
    BY <1>W, <2>2 DEF LimitInv, FileTypes
  <2>4. \A i \in Minor : Readers(i)' \subseteq Readers(i) /\ Writers(i)' \subseteq Writers(i)
    BY DEF FileTypes, Readers, Writers, Reads, Writes
  <2>. QED  BY <2>1, <2>3, <2>4, SingleShrinks
<1>10. CASE ReleaseState(f)
  <2>. USE <1>10 DEF ReleaseState, Close, FileGoto
  <2>1. FileTypes'
    BY MngAssumption DEF FileTypes, Opening, Releasing, Minor
  <2>2. \A i \in Minor : ReadClaims(i)' = ReadClaims(i) /\ WriteClaims(i)' = WriteClaims(i)
    BY DEF FileTypes, ReadClaims, WriteClaims, Reads, Writes
  <2>3. \A i \in Minor : Readers(i)' \subseteq Readers(i) /\ Writers(i)' \subseteq Writers(i)
    BY DEF FileTypes, Readers, Writers, Reads, Writes
  <2>. QED  BY <2>1, <2>2, <2>3, SingleShrinks DEF LimitInv
<1>11. CASE bt_cmd_enable_virnet(f) \/ bt_cmd_disable_virnet(f) \/ UseDeleted(f)
  BY <1>11, OpenUnchanged DEF bt_cmd_enable_virnet, bt_cmd_disable_virnet, UseDeleted
<1>. QED  BY <1>1, <1>2, <1>3, <1>4, <1>5, <1>6, <1>7, <1>8, <1>9, <1>10, <1>11 DEF Access

\* bt_io_file_open admits at most one reader and one writer of a data device, whatever
\* the interleaving of opens, releases, failing opens, deletions and creations: the
\* one-consumer assumption of BtRing.
THEOREM OneReaderOneWriter == Spec => []SingleOpen
<1>1. OpenInv /\ [Next]_vars => OpenInv'
  <2>. SUFFICES ASSUME OpenInv, [Next]_vars PROVE OpenInv'
    OBVIOUS
  <2>1. CASE \E t \in Thread : Manage(t)
    BY <2>1, OpenManage
  <2>2. CASE \E f \in File : Access(f)
    BY <2>2, OpenAccess
  <2>3. CASE UNCHANGED vars
    BY <2>3, OpenUnchanged DEF vars, fileVars
  <2>. QED  BY <2>1, <2>2, <2>3 DEF Next
<1>2. OpenInv => SingleOpen
  BY DEF OpenInv
<1>. QED  BY <1>1, <1>2, OpenInit, PTL DEF Spec

-----------------------------------------------------------------------------
(* The bitmap, the list of devices and the numbers.                        *)

\* The minor numbers of the devices of S.
Ids(S) == {id[v] : v \in S}

\* The steps in which a thread holds bitmap_lock.
Holding == {"create", "destroy", "all", "allDestroy"}

\* The part of TypeOK that creation and deletion need.
MngTypes ==
  /\ table \subseteq alive /\ alive \subseteq Vnet
  /\ num \in 0 .. MaxNum
  /\ id \in [Vnet -> Minor \cup {None}]
  /\ tpc \in [Thread -> Holding \cup {"idle", "delete"}]
  /\ tv \in [Thread -> Vnet \cup {None}]

\* What holds at each step of the holder of bitmap_lock: a device that is being created
\* or destroyed is alive and not in the list, its bit is set between bt_set_bit and
\* bt_clear_bit, and the count is wrong only while all devices are deleted.
TableInv ==
  /\ \A t \in Thread : tpc[t] \in Holding <=> lock = t
  /\ lock = None => /\ alive = table /\ bitmap = {0} \cup Ids(table)
                    /\ num = Cardinality(table)
  /\ \A t \in Thread :
       /\ tpc[t] \in {"create", "destroy", "allDestroy"} =>
            tv[t] \notin table /\ alive = table \cup {tv[t]}
       /\ tpc[t] = "create" => /\ bitmap = {0} \cup Ids(table)
                               /\ num = Cardinality(table) /\ num < MaxNum
       /\ tpc[t] = "destroy" => /\ bitmap = {0} \cup Ids(alive)
                                /\ num = Cardinality(table)
       /\ tpc[t] = "all" => alive = table /\ bitmap = {0} \cup Ids(table)
       /\ tpc[t] = "allDestroy" => bitmap = {0} \cup Ids(table)

MngInv == MngTypes /\ TableInv /\ IdInRange

\* A non-empty set of natural numbers has a smallest element, which Min returns.
LEMMA MinIsLeast ==
  ASSUME NEW S \in SUBSET Nat, S # {}
  PROVE  Min(S) \in S /\ \A y \in S : Min(S) <= y
<1>1. \E x \in S : \A y \in S : ~(<<y, x>> \in OpToRel(<, Nat))
  BY NatLessThanWellFounded, WFMin
<1>2. \A x, y \in Nat : ~(<<y, x>> \in OpToRel(<, Nat)) => x <= y
  BY DEF OpToRel
<1>3. \E x \in S : \A y \in S : x <= y
  BY <1>1, <1>2
<1>. QED  BY <1>3 DEF Min

\* Fewer devices than numbers: bt_get_unused_id finds one, and it is not 0.
LEMMA UnusedId ==
  ASSUME MngTypes, bitmap = {0} \cup Ids(table), Cardinality(table) < MaxNum
  PROVE  bt_get_unused_id \in Minor /\ bt_get_unused_id \notin bitmap
<1>. DEFINE unused == (0 .. MaxNum) \ bitmap
<1>1. IsFiniteSet(table)
  <2>1. table \in SUBSET Vnet
    BY DEF MngTypes
  <2>. QED  BY <2>1, MngAssumption, FS_Subset
<1>2. IsFiniteSet(Ids(table)) /\ Cardinality(Ids(table)) <= Cardinality(table)
  <2>. DEFINE h == [v \in table |-> id[v]]
  <2>1. h \in Surjection(table, Ids(table))
    BY DEF Surjection, Ids
  <2>. QED  BY <1>1, <2>1, FS_Surjection
<1>3. IsFiniteSet(bitmap) /\ Cardinality(bitmap) <= MaxNum
  <2>1. Cardinality(table) \in Nat /\ Cardinality(Ids(table)) \in Nat
    BY <1>1, <1>2, FS_CardinalityType
  <2>2. /\ IsFiniteSet(Ids(table) \cup {0})
        /\ Cardinality(Ids(table) \cup {0}) <= Cardinality(Ids(table)) + 1
    BY <1>2, <2>1, FS_AddElement
  <2>3. bitmap = Ids(table) \cup {0}
    OBVIOUS
  <2>4. Cardinality(bitmap) \in Nat
    BY <2>2, <2>3, FS_CardinalityType
  <2>. QED  BY <1>2, <2>1, <2>2, <2>3, <2>4, MngAssumption
<1>4. unused # {}
  <2>. SUFFICES ASSUME (0 .. MaxNum) \subseteq bitmap PROVE FALSE
    OBVIOUS
  <2>1. Cardinality(0 .. MaxNum) = MaxNum + 1
    BY FS_Interval, MngAssumption
  <2>2. Cardinality(0 .. MaxNum) <= Cardinality(bitmap)
    BY <1>3, FS_Subset
  <2>3. Cardinality(bitmap) \in Nat
    BY <1>3, FS_CardinalityType
  <2>. QED  BY <1>3, <2>1, <2>2, <2>3, MngAssumption
<1>5. unused \in SUBSET Nat /\ 0 \notin unused
  BY MngAssumption
<1>6. Min(unused) \in unused
  BY <1>4, <1>5, MinIsLeast
<1>7. bt_get_unused_id = Min(unused)
  BY <1>4 DEF bt_get_unused_id
<1>. QED  BY <1>5, <1>6, <1>7, MngAssumption DEF Minor

\* bt_module_init leaves no device and the bit of the management file.
LEMMA MngInit == Init => MngInv
<1>. SUFFICES ASSUME Init PROVE MngInv
  OBVIOUS
<1>1. MngTypes
  BY MngAssumption DEF Init, MngTypes, Holding
<1>2. TableInv
  <2>1. bitmap = {0} \cup Ids(table) /\ num = Cardinality(table) /\ alive = table
    BY FS_EmptySet DEF Init, Ids
  <2>2. \A t \in Thread : tpc[t] = "idle" /\ lock # t
    BY MngAssumption DEF Init
  <2>. QED  BY <2>1, <2>2 DEF TableInv, Holding
<1>3. IdInRange
  BY DEF Init, IdInRange
<1>. QED  BY <1>1, <1>2, <1>3 DEF MngInv

\* Files do not touch the table, the bitmap or the numbers.
LEMMA MngUnchanged == MngInv /\ UNCHANGED <<mngVars, alive, id>> => MngInv'
BY DEF MngInv, MngTypes, TableInv, IdInRange, mngVars, Ids

\* Every step of the management file.
LEMMA MngManage == ASSUME MngInv, NEW t \in Thread, Manage(t) PROVE MngInv'
<1>. USE DEF MngInv
<1>0. /\ t # None /\ tpc[t] \in Holding \cup {"idle", "delete"} /\ tv[t] \in Vnet \cup {None}
      /\ IsFiniteSet(table) /\ Cardinality(table) \in Nat
  <2>1. table \in SUBSET Vnet
    BY DEF MngTypes
  <2>2. IsFiniteSet(table)
    BY <2>1, MngAssumption, FS_Subset
  <2>. QED  BY <2>2, MngAssumption, FS_CardinalityType DEF MngTypes
<1>1. ASSUME NEW v \in Vnet, CreateRegister(t, v)
      PROVE  MngInv'
  <2>1. /\ tpc[t] = "idle" /\ lock = None /\ num # MaxNum /\ v \notin alive
        /\ alive' = alive \cup {v} /\ id' = [id EXCEPT ![v] = bt_get_unused_id]
        /\ \A w \in alive : id[w] # bt_get_unused_id
        /\ lock' = t /\ tpc' = [tpc EXCEPT ![t] = "create"] /\ tv' = [tv EXCEPT ![t] = v]
        /\ UNCHANGED <<table, num, bitmap>>
    BY <1>1 DEF CreateRegister, bt_virnet_create
  <2>2. /\ alive = table /\ bitmap = {0} \cup Ids(table) /\ num = Cardinality(table)
        /\ num < MaxNum
    BY <2>1, MngAssumption DEF TableInv, MngTypes
  <2>3. bt_get_unused_id \in Minor
    BY <2>2, UnusedId
  <2>4. MngTypes'
    BY <2>1, <2>3 DEF MngTypes, Holding
  <2>5. Ids(table)' = Ids(table)
    BY <2>1, <2>2 DEF Ids, MngTypes
  <2>6. \A u \in Thread : tpc[u] \notin Holding
    BY <2>1, MngAssumption DEF TableInv
  <2>7. TableInv'
    <3>1. /\ tpc'[t] = "create" /\ tv'[t] = v
          /\ \A u \in Thread : u # t => tpc'[u] = tpc[u]
      BY <2>1 DEF MngTypes
    <3>. QED  BY <1>0, <2>1, <2>2, <2>5, <2>6, <3>1 DEF TableInv, Holding
  <2>8. IdInRange'
    BY <2>1, <2>3 DEF IdInRange, MngTypes
  <2>. QED  BY <2>4, <2>7, <2>8
<1>2. CASE CreateAdd(t)
  <2>1. PICK v : v = tv[t]
    OBVIOUS
  <2>2. /\ tpc[t] = "create" /\ table' = table \cup {v} /\ num' = num + 1
        /\ bitmap' = bitmap \cup {id[v]} /\ lock' = None
        /\ tpc' = [tpc EXCEPT ![t] = "idle"] /\ tv' = [tv EXCEPT ![t] = None]
        /\ UNCHANGED <<alive, id>>
    BY <1>2, <2>1 DEF CreateAdd, devVars
  <2>3. /\ v \notin table /\ alive = table \cup {v} /\ bitmap = {0} \cup Ids(table)
        /\ num = Cardinality(table) /\ num < MaxNum /\ lock = t
    BY <2>1, <2>2 DEF TableInv, Holding
  <2>4. MngTypes'
    BY <2>2, <2>3, MngAssumption DEF MngTypes, Holding
  <2>5. Cardinality(table') = Cardinality(table) + 1
    BY <1>0, <2>2, <2>3, FS_AddElement
  <2>6. bitmap' = {0} \cup Ids(table)'
    BY <2>2, <2>3 DEF Ids
  <2>7. \A u \in Thread : tpc'[u] \notin Holding
    BY <2>2, <2>3 DEF TableInv, Holding, MngTypes
  <2>8. TableInv'
    BY <2>2, <2>3, <2>5, <2>6, <2>7, MngAssumption DEF TableInv, Holding
  <2>9. IdInRange'
    BY <2>2 DEF IdInRange
  <2>. QED  BY <2>4, <2>8, <2>9
<1>3. ASSUME NEW v \in Vnet, DeleteFind(t, v)
      PROVE  MngInv'
  <2>1. /\ tpc[t] = "idle" /\ tpc' = [tpc EXCEPT ![t] = "delete"]
        /\ tv' = [tv EXCEPT ![t] = v]
        /\ UNCHANGED <<table, num, bitmap, lock, alive, id>>
    BY <1>3 DEF DeleteFind, devVars
  <2>2. MngTypes' /\ IdInRange'
    BY <2>1 DEF MngTypes, IdInRange, Holding
  <2>3. \A u \in Thread : u # t => tpc'[u] = tpc[u] /\ tv'[u] = tv[u]
    BY <2>1 DEF MngTypes
  <2>4. tpc'[t] = "delete" /\ Ids(table)' = Ids(table) /\ Ids(alive)' = Ids(alive)
    BY <2>1 DEF MngTypes, Ids
  <2>5. TableInv'
    BY <2>1, <2>3, <2>4 DEF TableInv, Holding
  <2>. QED  BY <2>2, <2>5
<1>4. CASE DeleteRemove(t)
  <2>1. PICK v : v = tv[t]
    OBVIOUS
  <2>2. CASE v \in table
    <3>1. /\ tpc[t] = "delete" /\ lock = None /\ table' = table \ {v} /\ num' = num - 1
          /\ lock' = t /\ tpc' = [tpc EXCEPT ![t] = "destroy"]
          /\ UNCHANGED <<bitmap, tv, alive, id>>
      BY <1>4, <2>1, <2>2 DEF DeleteRemove, devVars
    <3>2. /\ alive = table /\ bitmap = {0} \cup Ids(table) /\ num = Cardinality(table)
      BY <3>1 DEF TableInv
    <3>3. Cardinality(table') = num - 1 /\ num - 1 \in Nat
      <4>1. Cardinality(table \ {v}) = Cardinality(table) - 1 /\ IsFiniteSet(table \ {v})
        BY <1>0, <2>2, FS_RemoveElement
      <4>2. Cardinality(table \ {v}) \in Nat
        BY <4>1, FS_CardinalityType
      <4>. QED  BY <3>1, <3>2, <4>1, <4>2
    <3>4. MngTypes'
      BY <3>1, <3>3, MngAssumption DEF MngTypes, Holding
    <3>5. \A u \in Thread : tpc[u] \notin Holding
      BY <3>1, MngAssumption DEF TableInv
    <3>6. /\ tpc'[t] = "destroy" /\ tv'[t] = v
          /\ \A u \in Thread : u # t => tpc'[u] = tpc[u]
      BY <2>1, <3>1 DEF MngTypes
    <3>7. bitmap' = {0} \cup Ids(alive)' /\ v \notin table' /\ alive' = table' \cup {v}
      BY <2>2, <3>1, <3>2 DEF Ids
    <3>8. TableInv'
      BY <1>0, <3>1, <3>3, <3>5, <3>6, <3>7 DEF TableInv, Holding
    <3>9. IdInRange'
      BY <3>1 DEF IdInRange
    <3>. QED  BY <3>4, <3>8, <3>9
  <2>3. CASE v \notin table
    BY <1>4, <2>1, <2>3, MngUnchanged DEF DeleteRemove, devVars, mngVars
  <2>. QED  BY <2>2, <2>3
<1>5. CASE DeleteDestroy(t)
  <2>1. PICK v : v = tv[t]
    OBVIOUS
  <2>2. /\ tpc[t] = "destroy" /\ alive' = alive \ {v} /\ id' = [id EXCEPT ![v] = None]
        /\ bitmap' = bitmap \ {id[v]} /\ lock' = None
        /\ tpc' = [tpc EXCEPT ![t] = "idle"] /\ tv' = [tv EXCEPT ![t] = None]
        /\ UNCHANGED <<table, num>>
    BY <1>5, <2>1 DEF DeleteDestroy, bt_virnet_destroy
  <2>3. /\ v \notin table /\ alive = table \cup {v} /\ bitmap = {0} \cup Ids(alive)
        /\ num = Cardinality(table) /\ lock = t
    BY <2>1, <2>2 DEF TableInv, Holding
  <2>4. MngTypes'
    BY <2>2, <2>3 DEF MngTypes, Holding
  <2>5. \A w \in table : w # v /\ id'[w] = id[w] /\ id[w] # id[v]
    BY <2>2, <2>3 DEF MngTypes, IdInRange
  <2>6. id[v] # 0
    BY <2>3, MngAssumption DEF IdInRange, Minor
  <2>7. bitmap' = {0} \cup Ids(table)'
    <3>1. Ids(table)' = Ids(table)
      BY <2>2, <2>5 DEF Ids
    <3>2. Ids(alive) = Ids(table) \cup {id[v]} /\ id[v] \notin Ids(table)
      BY <2>3, <2>5 DEF Ids
    <3>. QED  BY <2>2, <2>3, <2>6, <3>1, <3>2
  <2>8. \A u \in Thread : tpc'[u] \notin Holding
    BY <2>2, <2>3 DEF TableInv, Holding, MngTypes
  <2>9. TableInv'
    BY <2>2, <2>3, <2>7, <2>8, MngAssumption DEF TableInv, Holding
  <2>10. IdInRange'
    BY <2>2, <2>3, <2>5 DEF IdInRange
  <2>. QED  BY <2>4, <2>9, <2>10
<1>6. CASE DeleteAllLock(t)
  <2>1. /\ tpc[t] = "idle" /\ lock = None /\ lock' = t
        /\ tpc' = [tpc EXCEPT ![t] = "all"]
        /\ UNCHANGED <<table, num, bitmap, tv, alive, id>>
    BY <1>6 DEF DeleteAllLock, devVars
  <2>2. MngTypes' /\ IdInRange'
    BY <2>1 DEF MngTypes, IdInRange, Holding
  <2>3. \A u \in Thread : tpc[u] \notin Holding
    BY <2>1, MngAssumption DEF TableInv
  <2>4. tpc'[t] = "all" /\ \A u \in Thread : u # t => tpc'[u] = tpc[u]
    BY <2>1 DEF MngTypes
  <2>5. alive' = table' /\ bitmap' = {0} \cup Ids(table)'
    BY <2>1 DEF TableInv, Ids
  <2>6. TableInv'
    BY <1>0, <2>1, <2>3, <2>4, <2>5 DEF TableInv, Holding
  <2>. QED  BY <2>2, <2>6
<1>7. ASSUME NEW v \in Vnet, DeleteAllRemove(t, v)
      PROVE  MngInv'
  <2>1. /\ tpc[t] = "all" /\ v \in table /\ table' = table \ {v}
        /\ bitmap' = bitmap \ {id[v]}
        /\ tpc' = [tpc EXCEPT ![t] = "allDestroy"] /\ tv' = [tv EXCEPT ![t] = v]
        /\ UNCHANGED <<num, lock, alive, id>>
    BY <1>7 DEF DeleteAllRemove, devVars
  <2>2. lock = t /\ alive = table /\ bitmap = {0} \cup Ids(table)
    BY <2>1 DEF TableInv, Holding
  <2>3. MngTypes' /\ IdInRange'
    BY <2>1 DEF MngTypes, IdInRange, Holding
  <2>4. id[v] # 0 /\ \A w \in table : id[w] = id[v] => w = v
    BY <2>1, <2>2, MngAssumption DEF IdInRange, Minor
  <2>5. bitmap' = {0} \cup Ids(table)'
    <3>1. Ids(table)' = Ids(table) \ {id[v]}
      BY <2>1, <2>4 DEF Ids
    <3>. QED  BY <2>1, <2>2, <2>4, <3>1
  <2>6. \A u \in Thread : u # t => tpc'[u] \notin Holding
    BY <2>1, <2>2 DEF TableInv, MngTypes
  <2>7. tpc'[t] = "allDestroy" /\ tv'[t] = v /\ v \notin table' /\ alive' = table' \cup {v}
    BY <2>1, <2>2 DEF MngTypes
  <2>8. TableInv'
    BY <1>0, <2>1, <2>2, <2>5, <2>6, <2>7 DEF TableInv, Holding
  <2>. QED  BY <2>3, <2>8
<1>8. CASE DeleteAllDestroy(t)
  <2>1. PICK v : v = tv[t]
    OBVIOUS
  <2>2. /\ tpc[t] = "allDestroy" /\ alive' = alive \ {v} /\ id' = [id EXCEPT ![v] = None]
        /\ tpc' = [tpc EXCEPT ![t] = "all"] /\ tv' = [tv EXCEPT ![t] = None]
        /\ UNCHANGED <<table, num, bitmap, lock>>
    BY <1>8, <2>1 DEF DeleteAllDestroy, bt_virnet_destroy
  <2>3. /\ v \notin table /\ alive = table \cup {v} /\ bitmap = {0} \cup Ids(table)
        /\ lock = t
    BY <2>1, <2>2 DEF TableInv, Holding
  <2>4. MngTypes'
    BY <2>2, <2>3 DEF MngTypes, Holding
  <2>5. \A w \in table : w # v /\ id'[w] = id[w]
    BY <2>2, <2>3 DEF MngTypes
  <2>6. Ids(table)' = Ids(table) /\ alive' = table'
    BY <2>2, <2>3, <2>5 DEF Ids
  <2>7. tpc'[t] = "all" /\ \A u \in Thread : u # t => tpc'[u] \notin Holding
    BY <2>2, <2>3 DEF TableInv, MngTypes
  <2>8. TableInv'
    BY <1>0, <2>2, <2>3, <2>6, <2>7 DEF TableInv, Holding
  <2>9. IdInRange'
    BY <2>2, <2>3, <2>5 DEF IdInRange
  <2>. QED  BY <2>4, <2>8, <2>9
<1>9. CASE DeleteAllEnd(t)
  <2>1. /\ tpc[t] = "all" /\ table = {} /\ num' = 0 /\ lock' = None
        /\ tpc' = [tpc EXCEPT ![t] = "idle"]
        /\ UNCHANGED <<table, bitmap, tv, alive, id>>
    BY <1>9 DEF DeleteAllEnd, devVars
  <2>2. lock = t /\ alive = table /\ bitmap = {0} \cup Ids(table)
    BY <2>1 DEF TableInv, Holding
  <2>3. MngTypes' /\ IdInRange'
    BY <2>1, MngAssumption DEF MngTypes, IdInRange, Holding
  <2>4. \A u \in Thread : tpc'[u] \notin Holding
    BY <2>1, <2>2 DEF TableInv, Holding, MngTypes
  <2>5. Ids(table)' = Ids(table) /\ num' = Cardinality(table')
    BY <2>1, FS_EmptySet DEF Ids
  <2>6. TableInv'
    BY <2>1, <2>2, <2>4, <2>5, MngAssumption DEF TableInv, Holding
  <2>. QED  BY <2>3, <2>6
<1>. QED
  BY <1>1, <1>2, <1>3, <1>4, <1>5, <1>6, <1>7, <1>8, <1>9 DEF Manage

\* The files never change the table or the numbers.
LEMMA MngAccess == ASSUME MngInv, NEW f \in File, Access(f) PROVE MngInv'
<1>1. UNCHANGED <<mngVars, alive, id>>
  BY DEF Access, OpenFind, OpenRead, OpenReadLost, OpenWrite, OpenWriteLost, OpenUp,
         OpenUpFails, ReleaseRead, ReleaseWrite, ReleaseState, bt_cmd_enable_virnet,
         bt_cmd_disable_virnet, UseDeleted, devVars
<1>. QED  BY <1>1, MngUnchanged

\* The invariant of creation and deletion holds in every reachable state.
LEMMA MngAlways == Spec => []MngInv
<1>1. MngInv /\ [Next]_vars => MngInv'
  <2>. SUFFICES ASSUME MngInv, [Next]_vars PROVE MngInv'
    OBVIOUS
  <2>1. CASE \E t \in Thread : Manage(t)
    BY <2>1, MngManage
  <2>2. CASE \E f \in File : Access(f)
    BY <2>2, MngAccess
  <2>3. CASE UNCHANGED vars
    BY <2>3, MngUnchanged DEF vars, devVars
  <2>. QED  BY <2>1, <2>2, <2>3 DEF Next
<1>. QED  BY <1>1, MngInit, PTL DEF Spec

\* Whenever bitmap_lock is free, the bits that are set are bit 0 and those of the
\* devices in the list, and the count is the length of the list, on every path of
\* creating, deleting and deleting all devices.
THEOREM BitmapExact == Spec => []BitmapMatchesTable
<1>1. MngInv => BitmapMatchesTable
  BY DEF MngInv, TableInv, BitmapMatchesTable, Ids
<1>. QED  BY <1>1, MngAlways, PTL

\* Every device that bt_virnet_create makes gets a minor number of its own between 1
\* and BT_VIRNET_MAX_NUM: bt_cmd_create_virnet may use the result of bt_get_unused_id
\* without testing it.
THEOREM NumbersInRange == Spec => []IdInRange
<1>1. MngInv => IdInRange
  BY DEF MngInv
<1>. QED  BY <1>1, MngAlways, PTL
=============================================================================
