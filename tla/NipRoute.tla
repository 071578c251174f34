------------------------------ MODULE NipRoute ------------------------------
(***************************************************************************)
(* The NewIP routing tables and their per-CPU route cache: route.c,        *)
(* nip_fib.c, nip_fib_rules.c and nip_fib.h.                               *)
(*                                                                         *)
(* Configuration (route and address ioctls, device notifications) is       *)
(* serialised by the rtnl lock, so each operation is one action.  Lookups  *)
(* run concurrently with it and with each other, protected only by RCU and *)
(* by the reference count of the dst entries; a lookup is one action per   *)
(* access to shared state.  Unlinked nodes and released dst entries are    *)
(* reclaimed by RCU callbacks, also one action per access.                 *)
(***************************************************************************)
EXTENDS Integers, FiniteSets

CONSTANTS
  Addr,        \* destination addresses
  AnyAddr,     \* nip_any_addr, the key of the default route
  Dev,         \* net devices other than loopback
  Cpu,         \* processors
  Reader,      \* contexts that look routes up
  SoftReader,  \* the readers that run in softirq context
  Obj,         \* dst entries: routes, per-CPU copies and the two static ones
  NullEntry,   \* net->newip.nip_null_entry
  BcastEntry,  \* net->newip.nip_broadcast_entry
  NONE         \* the NULL pointer

ASSUME RouteAssumption ==
  /\ AnyAddr \in Addr
  /\ SoftReader \subseteq Reader
  /\ {NullEntry, BcastEntry} \subseteq Obj
  /\ NullEntry # BcastEntry
  /\ NONE \notin Obj \cup Cpu
  /\ IsFiniteSet(Obj) /\ IsFiniteSet(Cpu) /\ IsFiniteSet(Reader)

VARIABLES
  \* struct nip_rt_info and struct dst_entry
  live,      \* Obj -> the memory is allocated
  info,      \* Obj -> rt_dst, dst.dev and rt_table
  refcnt,    \* Obj -> dst.__refcnt
  rt_ref,    \* Obj -> rt_ref, references by FIB nodes
  linked,    \* Obj -> rt_node # NULL: the node is in its hash chain
  from,      \* Obj -> the route a per-CPU copy was made from, or NONE
  slot,      \* Obj -> Cpu -> the content of *per_cpu_ptr(rt_pcpu, cpu)
  pcpuOn,    \* Obj -> rt_pcpu # NULL
  obsolete,  \* Obj -> dst_dev_put was called: nip_dst_check fails
  \* RCU callbacks
  cb,        \* Obj -> the callback that is queued or running for it
  gp,        \* Obj -> the readers its grace period still waits for
  scan,      \* Obj -> CPUs nip_rt_free_pcpu has not visited
  cur,       \* Obj -> the CPU whose copy it has released and not cleared
  \* configuration
  ifa,       \* local routes held by a configured address (ifp->rt)
  up,        \* Dev -> netif_running
  \* lookups
  pc, tbl, key, rt, got,
  rcu,       \* Reader -> inside a read-side critical section
  oom,       \* Reader -> an allocation failed during this lookup (history)
  steady,    \* Reader -> local routes to key linked since it began (history)
  raced      \* a reader touched the cache of a route being released (history)

rtVars  == <<live, info, refcnt, rt_ref, linked, from, slot, pcpuOn, obsolete>>
cbVars  == <<cb, gp, scan, cur>>
cfgVars == <<ifa, up>>
rdVars  == <<pc, tbl, key, rt, got, rcu, oom, steady>>
vars    == <<rtVars, cbVars, cfgVars, rdVars, raced>>

Static == {NullEntry, BcastEntry}
Tables == {"local", "main"}
PCs    == {"idle", "get", "alloc", "check", "cas", "hold", "next", "done"}

NoInfo  == [dst |-> AnyAddr, dev |-> NONE, table |-> "main"]
NoSlots == [c \in Cpu |-> NONE]

TypeOK ==
  /\ live \in [Obj -> BOOLEAN]
  /\ info \in [Obj -> [dst : Addr, dev : Dev \cup {NONE}, table : Tables]]
  /\ refcnt \in [Obj -> Int]
  /\ rt_ref \in [Obj -> Int]
  /\ linked \in [Obj -> BOOLEAN]
  /\ from \in [Obj -> Obj \cup {NONE}]
  /\ slot \in [Obj -> [Cpu -> Obj \cup {NONE}]]
  /\ pcpuOn \in [Obj -> BOOLEAN]
  /\ obsolete \in [Obj -> BOOLEAN]
  /\ cb \in [Obj -> {"none", "node", "scan", "dst"}]
  /\ gp \in [Obj -> SUBSET Reader]
  /\ scan \in [Obj -> SUBSET Cpu]
  /\ cur \in [Obj -> Cpu \cup {NONE}]
  /\ ifa \in SUBSET Obj
  /\ up \in [Dev -> BOOLEAN]
  /\ pc \in [Reader -> PCs]
  /\ tbl \in [Reader -> Tables \cup {"none"}]
  /\ key \in [Reader -> Addr]
  /\ rt \in [Reader -> Obj \cup {NONE}]
  /\ got \in [Reader -> Obj \cup {NONE}]
  /\ rcu \in [Reader -> BOOLEAN]
  /\ oom \in [Reader -> BOOLEAN]
  /\ steady \in [Reader -> SUBSET Obj]
  /\ raced \in BOOLEAN

Init ==
  /\ live     = [o \in Obj |-> o \in Static]
  /\ info     = [o \in Obj |-> NoInfo]
  /\ refcnt   = [o \in Obj |-> IF o \in Static THEN 1 ELSE 0]
  /\ rt_ref   = [o \in Obj |-> IF o \in Static THEN 1 ELSE 0]
  /\ linked   = [o \in Obj |-> FALSE]
  /\ from     = [o \in Obj |-> NONE]
  /\ slot     = [o \in Obj |-> NoSlots]
  /\ pcpuOn   = [o \in Obj |-> FALSE]
  /\ obsolete = [o \in Obj |-> FALSE]
  /\ cb       = [o \in Obj |-> "none"]
  /\ gp       = [o \in Obj |-> {}]
  /\ scan     = [o \in Obj |-> {}]
  /\ cur      = [o \in Obj |-> NONE]
  /\ ifa      = {}
  /\ up       = [d \in Dev |-> TRUE]
  /\ pc       = [r \in Reader |-> "idle"]
  /\ tbl      = [r \in Reader |-> "none"]
  /\ key      = [r \in Reader |-> AnyAddr]
  /\ rt       = [r \in Reader |-> NONE]
  /\ got      = [r \in Reader |-> NONE]
  /\ rcu      = [r \in Reader |-> FALSE]
  /\ oom      = [r \in Reader |-> FALSE]
  /\ steady   = [r \in Reader |-> {}]
  /\ raced    = FALSE

-----------------------------------------------------------------------------
(* Reference counts and RCU.                                               *)

\* Readers that a grace period starting now has to wait for.
InRcu == {r \in Reader : rcu[r]}

\* dst_release: the last reference queues dst_destroy_rcu.
dst_release(o) ==
  /\ refcnt' = [refcnt EXCEPT ![o] = @ - 1]
  /\ IF refcnt[o] = 1
       THEN /\ cb' = [cb EXCEPT ![o] = "dst"]
            /\ gp' = [gp EXCEPT ![o] = InRcu]
       ELSE UNCHANGED <<cb, gp>>

\* Returns the memory of o, as after kmem_cache_free.
Scrub(o) ==
  /\ live'     = [live EXCEPT ![o] = FALSE]
  /\ info'     = [info EXCEPT ![o] = NoInfo]
  /\ from'     = [from EXCEPT ![o] = NONE]
  /\ slot'     = [slot EXCEPT ![o] = NoSlots]
  /\ pcpuOn'   = [pcpuOn EXCEPT ![o] = FALSE]
  /\ obsolete' = [obsolete EXCEPT ![o] = FALSE]

-----------------------------------------------------------------------------
(* The tables.                                                             *)

Table(t) == {o \in Obj : linked[o] /\ info[o].table = t}

\* nip_fib_locate: an exact match, otherwise the default route.  Several local
\* routes to one address (one per device) share a hash chain; any may come first.
nip_fib_locate(t, a) ==
  LET exact == {o \in Table(t) : info[o].dst = a}
  IN  IF exact # {} THEN exact
                    ELSE {o \in Table(t) : info[o].dst = AnyAddr}

\* Mutant: the device is compared in both tables.
DuplicateSameDev(t, a, d) ==
  \E o \in Table(t) : info[o].dst = a /\ info[o].dev = d

\* The duplicate that makes nip_fib_add return -EEXIST.
Duplicate(t, a, d) ==
  \E o \in Table(t) : /\ info[o].dst = a
                      /\ t = "local" => info[o].dev = d

\* nip_dst_alloc followed by the assignments of the new entry's fields.
Alloc(o, t, a, d) ==
  /\ ~live[o]
  /\ live'   = [live EXCEPT ![o] = TRUE]
  /\ info'   = [info EXCEPT ![o] = [dst |-> a, dev |-> d, table |-> t]]
  /\ pcpuOn' = [pcpuOn EXCEPT ![o] = TRUE]

\* nip_fib_add, success: the caller's reference becomes the node's.
nip_fib_add(o) ==
  /\ linked' = [linked EXCEPT ![o] = TRUE]
  /\ rt_ref' = [rt_ref EXCEPT ![o] = @ + 1]

\* nip_fib_del for every route of S: unlink, then call_rcu.
nip_fib_del(S) ==
  /\ linked' = [o \in Obj |-> linked[o] /\ o \notin S]
  /\ steady' = [r \in Reader |-> steady[r] \ S]

-----------------------------------------------------------------------------
(* Configuration, under rtnl.                                              *)

\* nip_route_add: a failed insertion releases the new entry at once, which
\* leaves no trace; a successful one gives its only reference to the node.
nip_route_add(o, a, d) ==
  /\ up[d]
  /\ ~Duplicate("main", a, d)
  /\ Alloc(o, "main", a, d)
  /\ refcnt' = [refcnt EXCEPT ![o] = 1]
  /\ nip_fib_add(o)
  /\ UNCHANGED <<from, slot, obsolete, cbVars, cfgVars, rdVars, raced>>

\* Mutant: the route is released without waiting for a grace period.
nip_route_del_sync(a, o) ==
  /\ o \in nip_fib_locate("main", a)
  /\ nip_fib_del({o})
  /\ cb' = [cb EXCEPT ![o] = "node"]
  /\ UNCHANGED <<live, info, refcnt, rt_ref, from, slot, pcpuOn, obsolete, gp, scan,
                 cur, cfgVars, pc, tbl, key, rt, got, rcu, oom, raced>>

\* nip_route_del: the lookup falls back to the default route, dst_hold and
\* nip_rt_put cancel out.
nip_route_del(a, o) ==
  /\ o \in nip_fib_locate("main", a)
  /\ nip_fib_del({o})
  /\ cb' = [cb EXCEPT ![o] = "node"]
  /\ gp' = [gp EXCEPT ![o] = InRcu]
  /\ UNCHANGED <<live, info, refcnt, rt_ref, from, slot, pcpuOn, obsolete,
                 scan, cur, cfgVars, pc, tbl, key, rt, got, rcu, oom, raced>>

\* ninet_addr_add: the address keeps the first reference of its local route and
\* nip_ins_rt takes one for the node.  A failed insertion (no memory for the
\* node) drops only the latter, and the address stays.
ninet_addr_add(o, a, d) ==
  /\ up[d]
  /\ a # AnyAddr
  /\ \A i \in ifa : info[i].dst # a \/ info[i].dev # d
  /\ Alloc(o, "local", a, d)
  /\ ifa' = ifa \cup {o}
  /\ \/ /\ ~Duplicate("local", a, d)
        /\ refcnt' = [refcnt EXCEPT ![o] = 2]
        /\ nip_fib_add(o)
     \/ /\ refcnt' = [refcnt EXCEPT ![o] = 1]
        /\ UNCHANGED <<linked, rt_ref>>
  /\ UNCHANGED <<from, slot, obsolete, cbVars, up, rdVars, raced>>

\* Drops the references the addresses of S have on their routes and unlinks the
\* routes of S \cup T.
DropRoutes(S, T) ==
  LET gone == {o \in S \cup T : linked[o]}
      last == {o \in S : refcnt[o] = 1}
  IN  /\ nip_fib_del(gone)
      /\ ifa' = ifa \ S
      /\ refcnt' = [o \in Obj |-> IF o \in S THEN refcnt[o] - 1 ELSE refcnt[o]]
      /\ cb' = [o \in Obj |-> IF o \in gone THEN "node"
                              ELSE IF o \in last THEN "dst" ELSE cb[o]]
      /\ gp' = [o \in Obj |-> IF o \in gone \cup last THEN InRcu ELSE gp[o]]

\* Mutant: the address is put without nip_del_rt.
ninet_addr_del_keep(i) ==
  /\ i \in ifa
  /\ ifa' = ifa \ {i}
  /\ dst_release(i)
  /\ UNCHANGED <<live, info, rt_ref, linked, from, slot, pcpuOn, obsolete, scan, cur,
                 up, rdVars, raced>>

\* ninet_addr_del -> nip_del_addr -> nip_del_rt, then the put of the address.
ninet_addr_del(i) ==
  /\ i \in ifa
  /\ DropRoutes({i}, {})
  /\ UNCHANGED <<live, info, rt_ref, from, slot, pcpuOn, obsolete, scan, cur, up,
                 pc, tbl, key, rt, got, rcu, oom, raced>>

\* NETDEV_DOWN: nip_rt_ifdown unlinks every route through the device and
\* nip_addrconf_ifdown puts its addresses.
nip_ifdown(d) ==
  /\ up[d]
  /\ up' = [up EXCEPT ![d] = FALSE]
  /\ DropRoutes({i \in ifa : info[i].dev = d}, {o \in Obj : info[o].dev = d})
  /\ UNCHANGED <<live, info, rt_ref, from, slot, pcpuOn, obsolete, scan, cur,
                 pc, tbl, key, rt, got, rcu, oom, raced>>

NetdevUp(d) ==
  /\ ~up[d]
  /\ up' = [up EXCEPT ![d] = TRUE]
  /\ UNCHANGED <<rtVars, cbVars, ifa, rdVars, raced>>

-----------------------------------------------------------------------------
(* Lookup: nip_fib_rule_lookup calls nip_pol_route for the local table, then *)
(* for the main table.                                                     *)

Goto(r, l) == pc' = [pc EXCEPT ![r] = l]

\* nip_pol_route returns g to nip_fib_rule_lookup.  The null entry makes it go on to
\* the main table ("next"), or is the final answer after the main table.
Answer(r, t, g) ==
  /\ got' = [got EXCEPT ![r] = IF g = NullEntry /\ t = "local" THEN NONE ELSE g]
  /\ rt'  = [rt EXCEPT ![r] = NONE]
  /\ tbl' = [tbl EXCEPT ![r] = IF g = NullEntry /\ t = "main" THEN "none" ELSE t]
  /\ Goto(r, IF g = NullEntry /\ t = "local" THEN "next" ELSE "done")

\* Readers that are outside every critical section once nip_pol_route has answered:
\* a softirq stays in the section of the receive path or timer that runs it until
\* the whole lookup is over.
Leaves(r, t, g) ==
  IF r \in SoftReader /\ g = NullEntry /\ t = "local" THEN {} ELSE {r}

\* Net effect on the count of the null entry: nip_fib_rule_lookup puts the one of
\* the local table and keeps the one of the main table.
HoldNull(t) == IF t = "main" THEN [refcnt EXCEPT ![NullEntry] = @ + 1] ELSE refcnt

\* nip_pol_route for table t and address a: rcu_read_lock_bh and nip_fib_locate.
Locate(r, t, a) ==
  LET found == nip_fib_locate(t, a) IN
  \/ /\ found = {}
     /\ refcnt' = HoldNull(t)
     /\ Answer(r, t, NullEntry)
     /\ rcu' = [rcu EXCEPT ![r] = r \notin Leaves(r, t, NullEntry)]
     /\ gp'  = [o \in Obj |-> gp[o] \ Leaves(r, t, NullEntry)]
  \/ \E o \in found :
     /\ rt'  = [rt EXCEPT ![r] = o]
     /\ tbl' = [tbl EXCEPT ![r] = t]
     /\ rcu' = [rcu EXCEPT ![r] = TRUE]
     /\ Goto(r, "get")
     /\ UNCHANGED <<refcnt, got, gp>>

\* Mutant: the main table is searched first.
BeginMain(r, a) ==
  /\ pc[r] = "idle"
  /\ key' = [key EXCEPT ![r] = a]
  /\ steady' = [steady EXCEPT ![r] = {o \in Table("local") : info[o].dst = a}]
  /\ Locate(r, "main", a)
  /\ UNCHANGED <<live, info, rt_ref, linked, from, slot, pcpuOn, obsolete, cb, scan,
                 cur, cfgVars, oom, raced>>

\* The lookup of a begins in the local table.
Begin(r, a) ==
  /\ pc[r] = "idle"
  /\ key' = [key EXCEPT ![r] = a]
  /\ steady' = [steady EXCEPT ![r] = {o \in Table("local") : info[o].dst = a}]
  /\ Locate(r, "local", a)
  /\ UNCHANGED <<live, info, rt_ref, linked, from, slot, pcpuOn, obsolete, cb, scan,
                 cur, cfgVars, oom, raced>>

\* The local table had no answer: nip_pol_route for the main table.
NextTable(r) ==
  /\ pc[r] = "next"
  /\ Locate(r, "main", key[r])
  /\ UNCHANGED <<live, info, rt_ref, linked, from, slot, pcpuOn, obsolete, cb, scan,
                 cur, cfgVars, key, oom, steady, raced>>

\* nip_rt_get_pcpu_route on CPU c finds a copy and holds it.
GetHit(r, c) ==
  LET s == slot[rt[r]][c] IN
  /\ pc[r] = "get"
  /\ s # NONE
  /\ refcnt' = [refcnt EXCEPT ![s] = @ + 1]
  /\ Answer(r, tbl[r], s)
  /\ rcu' = [rcu EXCEPT ![r] = FALSE]
  /\ gp'  = [o \in Obj |-> gp[o] \ {r}]
  /\ UNCHANGED <<live, info, rt_ref, linked, from, slot, pcpuOn, obsolete, cb, scan,
                 cur, cfgVars, key, oom, steady, raced>>

\* No copy on CPU c: the route itself is held and the critical section ends, unless
\* the reader is a softirq.
GetMiss(r, c) ==
  /\ pc[r] = "get"
  /\ slot[rt[r]][c] = NONE
  /\ refcnt' = [refcnt EXCEPT ![rt[r]] = @ + 1]
  /\ IF r \in SoftReader
       THEN UNCHANGED <<rcu, gp>>
       ELSE /\ rcu' = [rcu EXCEPT ![r] = FALSE]
            /\ gp'  = [o \in Obj |-> gp[o] \ {r}]
  /\ Goto(r, "alloc")
  /\ UNCHANGED <<live, info, rt_ref, linked, from, slot, pcpuOn, obsolete, cb, scan,
                 cur, cfgVars, tbl, key, rt, got, oom, steady, raced>>

\* nip_rt_pcpu_alloc: a copy with one reference, which holds the route.
CopyAlloc(r, o) ==
  /\ pc[r] = "alloc"
  /\ ~live[o]
  /\ live'   = [live EXCEPT ![o] = TRUE]
  /\ info'   = [info EXCEPT ![o] = info[rt[r]]]
  /\ from'   = [from EXCEPT ![o] = rt[r]]
  /\ refcnt' = [refcnt EXCEPT ![o] = 1, ![rt[r]] = @ + 1]
  /\ got'    = [got EXCEPT ![r] = o]
  /\ Goto(r, "check")
  /\ UNCHANGED <<rt_ref, linked, slot, pcpuOn, obsolete, cbVars, cfgVars,
                 tbl, key, rt, rcu, oom, steady, raced>>

\* The end of nip_pol_route: dst_release of the route, whose last reference queues
\* dst_destroy_rcu.  held is the reference count function before that release.
ReleaseAndAnswer(r, held, g) ==
  LET o == rt[r] IN
  /\ refcnt' = [held EXCEPT ![o] = @ - 1]
  /\ cb' = [cb EXCEPT ![o] = IF held[o] = 1 THEN "dst" ELSE @]
  /\ gp' = [x \in Obj |-> (IF x = o /\ held[o] = 1 THEN InRcu ELSE gp[x])
                             \ Leaves(r, tbl[r], g)]
  /\ rcu' = [rcu EXCEPT ![r] = r \notin Leaves(r, tbl[r], g)]
  /\ Answer(r, tbl[r], g)

\* nip_rt_pcpu_alloc fails: the null entry is the result.
CopyNoMem(r) ==
  /\ pc[r] = "alloc"
  /\ oom' = [oom EXCEPT ![r] = TRUE]
  /\ ReleaseAndAnswer(r, HoldNull(tbl[r]), NullEntry)
  /\ UNCHANGED <<live, info, rt_ref, linked, from, slot, pcpuOn, obsolete, scan, cur,
                 cfgVars, key, steady, raced>>

\* Mutant: the copy keeps its hold on the route.
DestroyCopyLeak(r) ==
  /\ Scrub(got[r])
  /\ refcnt' = [refcnt EXCEPT ![got[r]] = 0]

\* dst_destroy of the unpublished copy of r: it returns its hold on the route.
DestroyCopy(r) ==
  /\ Scrub(got[r])
  /\ refcnt' = [refcnt EXCEPT ![got[r]] = 0, ![rt[r]] = @ - 1]

\* Second critical section of nip_rt_make_pcpu_route: the test of rt_pcpu.
CheckOn(r) ==
  /\ pc[r] = "check"
  /\ pcpuOn[rt[r]]
  /\ rcu' = [rcu EXCEPT ![r] = TRUE]
  /\ Goto(r, "cas")
  /\ UNCHANGED <<rtVars, cbVars, cfgVars, tbl, key, rt, got, oom, steady, raced>>

\* The cache of the route is already gone: the route itself is the result.
CheckOff(r) ==
  /\ pc[r] = "check"
  /\ ~pcpuOn[rt[r]]
  /\ DestroyCopy(r)
  /\ got' = [got EXCEPT ![r] = rt[r]]
  /\ rcu' = [rcu EXCEPT ![r] = TRUE]
  /\ Goto(r, "hold")
  /\ UNCHANGED <<rt_ref, linked, cbVars, cfgVars, tbl, key, rt, oom, steady, raced>>

\* nip_rt_free_pcpu, running for route o, still has to visit CPU c.
NotVisited(o, c) == rt_ref[o] = 1 \/ (c \in scan[o] /\ cur[o] # c)

\* cmpxchg on CPU c installs the copy; its first reference is now the slot's.
CasInstall(r, c) ==
  /\ pc[r] = "cas"
  /\ NotVisited(rt[r], c)
  /\ slot[rt[r]][c] = NONE
  /\ slot' = [slot EXCEPT ![rt[r]][c] = got[r]]
  /\ Goto(r, "hold")
  /\ UNCHANGED <<live, info, refcnt, rt_ref, linked, from, pcpuOn, obsolete, cbVars,
                 cfgVars, tbl, key, rt, got, rcu, oom, steady, raced>>

\* cmpxchg finds a copy another context on CPU c has installed: use that one.
CasLost(r, c) ==
  /\ pc[r] = "cas"
  /\ NotVisited(rt[r], c)
  /\ slot[rt[r]][c] # NONE
  /\ DestroyCopy(r)
  /\ got' = [got EXCEPT ![r] = slot[rt[r]][c]]
  /\ Goto(r, "hold")
  /\ UNCHANGED <<rt_ref, linked, cbVars, cfgVars, tbl, key, rt, rcu, oom, steady,
                 raced>>

\* cmpxchg on a slot whose copy nip_rt_free_pcpu has released already, that it has
\* passed, or that it has freed: the result may be gone, the reference of the copy
\* is lost, or the store corrupts memory.
CasTooLate(r, c) ==
  /\ pc[r] = "cas"
  /\ ~NotVisited(rt[r], c)
  /\ raced' = TRUE
  /\ UNCHANGED <<rtVars, cbVars, cfgVars, rdVars>>

\* dst_hold of the entry that nip_rt_make_pcpu_route returns, then dst_release of
\* the route by nip_pol_route.
HoldResult(r) ==
  /\ pc[r] = "hold"
  /\ refcnt[got[r]] # 0
  /\ ReleaseAndAnswer(r, [refcnt EXCEPT ![got[r]] = @ + 1], got[r])
  /\ UNCHANGED <<live, info, rt_ref, linked, from, slot, pcpuOn, obsolete, scan, cur,
                 cfgVars, key, oom, steady, raced>>

\* The same dst_hold on an entry whose last reference nip_rt_free_pcpu has dropped.
HoldTooLate(r) ==
  /\ pc[r] = "hold"
  /\ refcnt[got[r]] = 0
  /\ raced' = TRUE
  /\ UNCHANGED <<rtVars, cbVars, cfgVars, rdVars>>

\* nip_route_output_flags: output by an entry with RTF_LOCAL exchanges it for the
\* broadcast entry.  nip_addrconf_dst_alloc sets that flag, and the ioctl may for a
\* route of the main table; input leaves the entry as it is.
nip_route_output_flags(r) ==
  /\ pc[r] = "done"
  /\ got[r] \notin Static
  /\ refcnt' = [refcnt EXCEPT ![got[r]] = @ - 1, ![BcastEntry] = @ + 1]
  /\ cb' = IF refcnt[got[r]] = 1 THEN [cb EXCEPT ![got[r]] = "dst"] ELSE cb
  /\ gp' = IF refcnt[got[r]] = 1 THEN [gp EXCEPT ![got[r]] = InRcu] ELSE gp
  /\ got' = [got EXCEPT ![r] = BcastEntry]
  /\ UNCHANGED <<live, info, rt_ref, linked, from, slot, pcpuOn, obsolete, scan, cur,
                 cfgVars, pc, tbl, key, rt, rcu, oom, steady, raced>>

\* The owner of the result (a packet or a socket) releases it.
Put(r) ==
  /\ pc[r] = "done"
  /\ dst_release(got[r])
  /\ Goto(r, "idle")
  /\ tbl' = [tbl EXCEPT ![r] = "none"]
  /\ key' = [key EXCEPT ![r] = AnyAddr]
  /\ got' = [got EXCEPT ![r] = NONE]
  /\ oom' = [oom EXCEPT ![r] = FALSE]
  /\ steady' = [steady EXCEPT ![r] = {}]
  /\ UNCHANGED <<live, info, rt_ref, linked, from, slot, pcpuOn, obsolete, scan, cur,
                 cfgVars, rt, rcu, raced>>

-----------------------------------------------------------------------------
(* RCU callbacks, run after the readers of their grace period have left.   *)

\* Mutant: one CPU too many.
NodeCallbackTooMany(o) ==
  /\ cb[o] = "node"
  /\ gp[o] = {}
  /\ rt_ref' = [rt_ref EXCEPT ![o] = @ - 1]
  /\ cb'   = [cb EXCEPT ![o] = "scan"]
  /\ scan' = [scan EXCEPT ![o] = Cpu \cup {NONE}]
  /\ UNCHANGED <<live, info, refcnt, linked, from, slot, pcpuOn, obsolete, gp, cur,
                 cfgVars, rdVars, raced>>

\* nip_fib_destroy_rcu -> nip_rt_release: the last node reference is dropped and
\* nip_rt_free_pcpu begins.
NodeCallback(o) ==
  /\ cb[o] = "node"
  /\ gp[o] = {}
  /\ rt_ref' = [rt_ref EXCEPT ![o] = @ - 1]
  /\ cb'   = [cb EXCEPT ![o] = "scan"]
  /\ scan' = [scan EXCEPT ![o] = Cpu]
  /\ UNCHANGED <<live, info, refcnt, linked, from, slot, pcpuOn, obsolete, gp, cur,
                 cfgVars, rdVars, raced>>

\* nip_rt_free_pcpu reads an empty slot.
ScanEmpty(o, c) ==
  /\ cb[o] = "scan"
  /\ cur[o] = NONE
  /\ c \in scan[o]
  /\ slot[o][c] = NONE
  /\ scan' = [scan EXCEPT ![o] = @ \ {c}]
  /\ UNCHANGED <<rtVars, cb, gp, cur, cfgVars, rdVars, raced>>

\* Mutant: no dst_dev_put.
ScanReleaseNoPut(o, c) ==
  LET s == slot[o][c] IN
  /\ cb[o] = "scan"
  /\ cur[o] = NONE
  /\ c \in scan[o]
  /\ s # NONE
  /\ dst_release(s)
  /\ cur' = [cur EXCEPT ![o] = c]
  /\ UNCHANGED <<live, info, rt_ref, linked, from, slot, pcpuOn, obsolete, scan,
                 cfgVars, rdVars, raced>>

\* nip_rt_free_pcpu: dst_dev_put and dst_release of the copy of CPU c.
ScanRelease(o, c) ==
  LET s == slot[o][c] IN
  /\ cb[o] = "scan"
  /\ cur[o] = NONE
  /\ c \in scan[o]
  /\ s # NONE
  /\ obsolete' = [obsolete EXCEPT ![s] = TRUE]
  /\ dst_release(s)
  /\ cur' = [cur EXCEPT ![o] = c]
  /\ UNCHANGED <<live, info, rt_ref, linked, from, slot, pcpuOn, scan, cfgVars,
                 rdVars, raced>>

\* nip_rt_free_pcpu: the slot is cleared.
ScanClear(o) ==
  /\ cb[o] = "scan"
  /\ cur[o] # NONE
  /\ slot' = [slot EXCEPT ![o][cur[o]] = NONE]
  /\ scan' = [scan EXCEPT ![o] = @ \ {cur[o]}]
  /\ cur'  = [cur EXCEPT ![o] = NONE]
  /\ UNCHANGED <<live, info, refcnt, rt_ref, linked, from, pcpuOn, obsolete, cb, gp,
                 cfgVars, rdVars, raced>>

\* nip_rt_free_pcpu frees the slots; nip_rt_release then puts the device and drops
\* the node's reference.
ReleaseRoute(o) ==
  /\ cb[o] = "scan"
  /\ scan[o] = {}
  /\ pcpuOn'   = [pcpuOn EXCEPT ![o] = FALSE]
  /\ slot'     = [slot EXCEPT ![o] = NoSlots]
  /\ obsolete' = [obsolete EXCEPT ![o] = TRUE]
  /\ refcnt'   = [refcnt EXCEPT ![o] = @ - 1]
  /\ cb' = [cb EXCEPT ![o] = IF refcnt[o] = 1 THEN "dst" ELSE "none"]
  /\ gp' = [gp EXCEPT ![o] = IF refcnt[o] = 1 THEN InRcu ELSE {}]
  /\ UNCHANGED <<live, info, rt_ref, linked, from, scan, cur, cfgVars, rdVars, raced>>

\* Mutant: the copy keeps its hold on the route.
nip_dst_destroy_leak(o) ==
  /\ cb[o] = "dst"
  /\ gp[o] = {}
  /\ Scrub(o)
  /\ cb' = [cb EXCEPT ![o] = "none"]
  /\ UNCHANGED <<refcnt, rt_ref, linked, gp, scan, cur, cfgVars, rdVars, raced>>

\* dst_destroy_rcu -> nip_dst_destroy: a copy returns its hold on the route.
nip_dst_destroy(o) ==
  LET f == from[o] IN
  /\ cb[o] = "dst"
  /\ gp[o] = {}
  /\ Scrub(o)
  /\ refcnt' = [x \in Obj |-> IF x = f THEN refcnt[x] - 1 ELSE refcnt[x]]
  /\ cb' = [x \in Obj |-> IF x = o THEN "none"
                          ELSE IF x = f /\ refcnt[x] = 1 THEN "dst" ELSE cb[x]]
  /\ gp' = [x \in Obj |-> IF x = f /\ refcnt[x] = 1 THEN InRcu ELSE gp[x]]
  /\ UNCHANGED <<rt_ref, linked, scan, cur, cfgVars, rdVars, raced>>

-----------------------------------------------------------------------------
Config ==
  \/ \E o \in Obj, a \in Addr, d \in Dev : nip_route_add(o, a, d)
  \/ \E o \in Obj, a \in Addr : nip_route_del(a, o)
  \/ \E o \in Obj, a \in Addr, d \in Dev : ninet_addr_add(o, a, d)
  \/ \E o \in Obj : ninet_addr_del(o)
  \/ \E d \in Dev : nip_ifdown(d) \/ NetdevUp(d)

\* One step of the lookup that reader r is in.
LookupStep(r) ==
  \/ NextTable(r)
  \/ \E c \in Cpu : GetHit(r, c) \/ GetMiss(r, c)
  \/ \E o \in Obj : CopyAlloc(r, o)
  \/ CopyNoMem(r) \/ CheckOn(r) \/ CheckOff(r)
  \/ \E c \in Cpu : CasInstall(r, c) \/ CasLost(r, c) \/ CasTooLate(r, c)
  \/ HoldResult(r) \/ HoldTooLate(r)
  \/ nip_route_output_flags(r) \/ Put(r)

\* One step of the callback queued for o.
Callback(o) ==
  \/ NodeCallback(o)
  \/ \E c \in Cpu : ScanEmpty(o, c) \/ ScanRelease(o, c)
  \/ ScanClear(o) \/ ReleaseRoute(o) \/ nip_dst_destroy(o)

\* What the kernel does after a raced access is undefined: nothing is modelled.
Next ==
  \/ ~raced /\ Config
  \/ ~raced /\ \E r \in Reader, a \in Addr : Begin(r, a)
  \/ ~raced /\ \E r \in Reader : LookupStep(r)
  \/ ~raced /\ \E o \in Obj : Callback(o)
  \/ raced /\ UNCHANGED vars

Spec == Init /\ [][Next]_vars

\* A lookup that has begun runs on, its result is released, and RCU callbacks run
\* once their readers have left.  Nothing makes the administrator act.
Fairness == /\ \A r \in Reader : WF_vars(LookupStep(r))
            /\ \A o \in Obj : WF_vars(Callback(o))

FairSpec == Spec /\ Fairness

-----------------------------------------------------------------------------
(* Properties.                                                             *)

\* The FIB node of o still owns its reference on the route.
FibHolds(o) == linked[o] \/ cb[o] \in {"node", "scan"}

\* The pointers in the system that own a reference on o: copies made from it, slots
\* that nip_rt_free_pcpu has not released, lookups and their results.
CopiesOf(o) == {x \in Obj : live[x] /\ from[x] = o}
SlotsOf(o)  == {p \in Obj \X Cpu : slot[p[1]][p[2]] = o /\ cur[p[1]] # p[2]}
RouteHolders(o) ==
  {r \in Reader : rt[r] = o /\ pc[r] \in {"alloc", "check", "cas", "hold"}}
ResultHolders(o) ==
  {r \in Reader : got[r] = o /\ pc[r] \in {"check", "cas", "done"}}

Refs(o) ==
    (IF o \in Static THEN 1 ELSE 0)
  + (IF FibHolds(o) THEN 1 ELSE 0)
  + (IF o \in ifa THEN 1 ELSE 0)
  + Cardinality(CopiesOf(o)) + Cardinality(SlotsOf(o))
  + Cardinality(RouteHolders(o)) + Cardinality(ResultHolders(o))

\* Every reference count is the number of pointers that own a reference: no path of
\* lookup, insertion, deletion, device down or reclamation leaks one or drops one
\* twice, and freed entries are referenced by nobody.  It holds as long as no reader
\* has touched the cache of a route under release (CasTooLate, HoldTooLate).
RefExact ==
  ~raced => \A o \in Obj : /\ refcnt[o] = Refs(o)
                           /\ live[o] \/ refcnt[o] = 0

\* A reader between nip_fib_locate and dst_hold, and a softirq until the end of its
\* lookup.
Protected(r) ==
  \/ pc[r] = "get"
  \/ r \in SoftReader /\ pc[r] \in {"alloc", "check", "cas", "hold"}

\* A reader under RCU protection uses a route that has perhaps been unlinked, but
\* whose node reference and per-CPU slots are still there: call_rcu in nip_fib_del
\* keeps them for the readers of the grace period.  So lookups in softirq context
\* never meet nip_rt_free_pcpu.
RcuProtectsLookup ==
  \A r \in Reader : Protected(r) => /\ live[rt[r]]
                                    /\ rt_ref[rt[r]] = 1
                                    /\ pcpuOn[rt[r]]

\* The route a dst entry stands for.
RouteOf(o) == IF from[o] = NONE THEN o ELSE from[o]

\* Once a deleted route has been released, every holder of an entry obtained from it
\* finds out: nip_dst_check returns NULL and the socket looks its route up again.
StaleDetected ==
  ~raced => \A r \in Reader :
    pc[r] = "done" /\ got[r] \notin Static /\ ~FibHolds(RouteOf(got[r]))
      => obsolete[got[r]]

\* nip_bind_addr_check accepts exactly the addresses with a local route: each of
\* those belongs to an address that is still configured on that device.
LocalRouteHasAddress == \A o \in Table("local") : o \in ifa

\* One route per destination in the main table, one per destination and device in
\* the local table: what nip_fib_locate returns is what was configured.
UniqueRoute ==
  \A o, p \in Obj :
    /\ linked[o] /\ linked[p] /\ o # p
    /\ info[o].table = info[p].table
    /\ info[o].dst = info[p].dst
    => info[o].table = "local" /\ info[o].dev # info[p].dev

\* A destination that is local during a whole lookup is not forwarded or reported
\* unreachable, unless nip_rt_make_pcpu_route ran out of memory.
LocalWins ==
  \A r \in Reader : pc[r] = "done" /\ steady[r] # {} /\ ~oom[r] => tbl[r] = "local"

\* A deleted route is reclaimed once its users are gone.
Reclaimed ==
  \A o \in Obj : cb[o] = "node" ~> (~live[o] \/ raced)
=============================================================================
