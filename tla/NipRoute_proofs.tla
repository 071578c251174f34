--------------------------- MODULE NipRoute_proofs ---------------------------
(***************************************************************************)
(* Theorems about NipRoute, for every set of addresses, devices, CPUs,     *)
(* readers and entries.                                                    *)
(***************************************************************************)
EXTENDS NipRoute, FiniteSetTheorems, TLAPS

-----------------------------------------------------------------------------
(* Type correctness.                                                       *)

\* A lookup that is past nip_fib_locate has a route, one that is past
\* nip_rt_pcpu_alloc has a result: no step dereferences NULL.
PointersSet ==
  \A r \in Reader :
    /\ pc[r] \in {"get", "alloc", "check", "cas", "hold"}
         => rt[r] \in Obj /\ tbl[r] \in Tables
    /\ pc[r] \in {"check", "cas", "hold", "done"} => got[r] \in Obj

TypeInv == TypeOK /\ PointersSet

USE RouteAssumption DEF RouteAssumption, Static

\* The state the kernel is initialised to has the declared types.
LEMMA TypeInit == Init => TypeInv
<1> SUFFICES ASSUME Init PROVE TypeInv
  OBVIOUS
<1> USE DEF Init
<1>1. live \in [Obj -> BOOLEAN]
  <2>1. \A o \in Obj : (o \in Static) \in BOOLEAN
    OBVIOUS
  <2> QED
    BY <2>1, Zenon
<1>2. info \in [Obj -> [dst : Addr, dev : Dev \cup {NONE}, table : Tables]]
  BY DEF NoInfo, Tables
<1>3. refcnt \in [Obj -> Int] /\ rt_ref \in [Obj -> Int]
  OBVIOUS
<1>4. slot \in [Obj -> [Cpu -> Obj \cup {NONE}]]
  BY DEF NoSlots
<1>5. TypeOK
  BY <1>1, <1>2, <1>3, <1>4 DEF TypeOK, Tables, PCs
<1>6. PointersSet
  BY DEF PointersSet
<1> QED
  BY <1>5, <1>6 DEF TypeInv

\* dst_release changes only the count and the callback queue.
LEMMA TypeRelease ==
  ASSUME TypeOK, NEW o \in Obj, dst_release(o)
  PROVE  /\ refcnt' \in [Obj -> Int]
         /\ cb' \in [Obj -> {"none", "node", "scan", "dst"}]
         /\ gp' \in [Obj -> SUBSET Reader]
<1>1. refcnt' \in [Obj -> Int]
  BY DEF TypeOK, dst_release
<1>2. CASE refcnt[o] = 1
  <2>1. cb' = [cb EXCEPT ![o] = "dst"] /\ gp' = [gp EXCEPT ![o] = InRcu]
    BY <1>2 DEF dst_release
  <2> QED
    BY <1>1, <2>1 DEF TypeOK, InRcu
<1>3. CASE refcnt[o] # 1
  BY <1>1, <1>3 DEF TypeOK, dst_release
<1> QED
  BY <1>2, <1>3

\* Insertion, deletion and device notifications keep the types.
LEMMA TypeConfig == TypeInv /\ Config => TypeInv'
<1> SUFFICES ASSUME TypeInv, Config PROVE TypeInv'
  OBVIOUS
<1> USE DEF TypeInv, TypeOK, PointersSet, Tables, PCs, cbVars, cfgVars, rdVars, rtVars
<1>1. ASSUME NEW o \in Obj, NEW a \in Addr, NEW d \in Dev, nip_route_add(o, a, d)
      PROVE  TypeInv'
  BY <1>1 DEF nip_route_add, Alloc, nip_fib_add
<1>2. ASSUME NEW o \in Obj, NEW a \in Addr, nip_route_del(a, o)
      PROVE  TypeInv'
  BY <1>2 DEF nip_route_del, nip_fib_del, InRcu
<1>3. ASSUME NEW o \in Obj, NEW a \in Addr, NEW d \in Dev, ninet_addr_add(o, a, d)
      PROVE  TypeInv'
  <2> DEFINE Counts == /\ linked' \in [Obj -> BOOLEAN]
                       /\ rt_ref' \in [Obj -> Int]
                       /\ refcnt' \in [Obj -> Int]
  <2>1. Counts
    <3>1. CASE /\ refcnt' = [refcnt EXCEPT ![o] = 2]
               /\ nip_fib_add(o)
      BY <3>1 DEF nip_fib_add
    <3>2. CASE /\ refcnt' = [refcnt EXCEPT ![o] = 1]
               /\ UNCHANGED <<linked, rt_ref>>
      BY <3>2
    <3> QED
      BY <1>3, <3>1, <3>2 DEF ninet_addr_add
  <2> QED
    BY <1>3, <2>1 DEF ninet_addr_add, Alloc
<1>4. ASSUME NEW o \in Obj, ninet_addr_del(o)
      PROVE  TypeInv'
  BY <1>4 DEF ninet_addr_del, DropRoutes, nip_fib_del, InRcu
<1>5. ASSUME NEW d \in Dev, nip_ifdown(d)
      PROVE  TypeInv'
  BY <1>5 DEF nip_ifdown, DropRoutes, nip_fib_del, InRcu
<1>6. ASSUME NEW d \in Dev, NetdevUp(d)
      PROVE  TypeInv'
  BY <1>6 DEF NetdevUp
<1> QED
  BY <1>1, <1>2, <1>3, <1>4, <1>5, <1>6 DEF Config

\* Every step of a lookup keeps the types: the entries it follows are never NULL.
LEMMA TypeLookup ==
  ASSUME TypeInv, NEW r \in Reader, LookupStep(r) \/ \E a \in Addr : Begin(r, a)
  PROVE  TypeInv'
<1> USE DEF TypeInv, TypeOK, PointersSet, Tables, PCs, cbVars, cfgVars, rdVars, rtVars
<1> DEFINE Loc(t, a) == /\ refcnt' \in [Obj -> Int]
                        /\ gp' \in [Obj -> SUBSET Reader]
                        /\ rcu' \in [Reader -> BOOLEAN]
                        /\ rt' \in [Reader -> Obj \cup {NONE}]
                        /\ got' \in [Reader -> Obj \cup {NONE}]
                        /\ tbl' \in [Reader -> Tables \cup {"none"}]
                        /\ pc' \in [Reader -> PCs]
                        /\ PointersSet'
<1>0. ASSUME NEW t \in Tables, NEW a \in Addr, Locate(r, t, a)
      PROVE  Loc(t, a)
  <2>1. CASE nip_fib_locate(t, a) = {}
    <3>1. Answer(r, t, NullEntry) /\ refcnt' = HoldNull(t)
      BY <1>0, <2>1 DEF Locate
    <3>2. /\ rcu' = [rcu EXCEPT ![r] = r \notin Leaves(r, t, NullEntry)]
          /\ gp'  = [o \in Obj |-> gp[o] \ Leaves(r, t, NullEntry)]
      BY <1>0, <2>1 DEF Locate
    <3>3. refcnt' \in [Obj -> Int]
      BY <3>1 DEF HoldNull
    <3>4. rcu' \in [Reader -> BOOLEAN] /\ gp' \in [Obj -> SUBSET Reader]
      BY <3>2
    <3> QED
      BY <3>1, <3>3, <3>4 DEF Answer, Goto
  <2>2. CASE nip_fib_locate(t, a) # {}
    <3>1. nip_fib_locate(t, a) \subseteq Obj
      BY DEF nip_fib_locate, Table
    <3>2. PICK o \in nip_fib_locate(t, a) :
            /\ rt'  = [rt EXCEPT ![r] = o]
            /\ tbl' = [tbl EXCEPT ![r] = t]
            /\ rcu' = [rcu EXCEPT ![r] = TRUE]
            /\ Goto(r, "get")
            /\ UNCHANGED <<refcnt, got, gp>>
      BY <1>0, <2>2 DEF Locate
    <3> QED
      BY <3>1, <3>2 DEF Goto
  <2> QED
    BY <2>1, <2>2
<1>1. ASSUME NEW a \in Addr, Begin(r, a)
      PROVE  TypeInv'
  <2>1. Loc("local", a)
    BY <1>0, <1>1 DEF Begin
  <2> QED
    BY <1>1, <2>1 DEF Begin, Table
<1>2. ASSUME NextTable(r)
      PROVE  TypeInv'
  <2>1. Loc("main", key[r])
    BY <1>0, <1>2 DEF NextTable
  <2> QED
    BY <1>2, <2>1 DEF NextTable
<1>3. ASSUME NEW c \in Cpu, GetHit(r, c)
      PROVE  TypeInv'
  BY <1>3 DEF GetHit, Answer, Goto
<1>4. ASSUME NEW c \in Cpu, GetMiss(r, c)
      PROVE  TypeInv'
  <2>1. rcu' \in [Reader -> BOOLEAN] /\ gp' \in [Obj -> SUBSET Reader]
    <3>1. CASE r \in SoftReader
      BY <1>4, <3>1 DEF GetMiss
    <3>2. CASE r \notin SoftReader
      <4>1. /\ rcu' = [rcu EXCEPT ![r] = FALSE]
            /\ gp'  = [o \in Obj |-> gp[o] \ {r}]
        BY <1>4, <3>2 DEF GetMiss
      <4> QED
        BY <4>1
    <3> QED
      BY <3>1, <3>2
  <2>2. refcnt' \in [Obj -> Int] /\ Goto(r, "alloc") /\ pc[r] = "get"
    BY <1>4 DEF GetMiss
  <2>3. UNCHANGED <<live, info, rt_ref, linked, from, slot, pcpuOn, obsolete, cb, scan,
                    cur, cfgVars, tbl, key, rt, got, oom, steady, raced>>
    BY <1>4 DEF GetMiss
  <2> QED
    BY <2>1, <2>2, <2>3 DEF Goto
<1>5. ASSUME NEW o \in Obj, CopyAlloc(r, o)
      PROVE  TypeInv'
  BY <1>5 DEF CopyAlloc, Goto
<1>6. ASSUME CopyNoMem(r)
      PROVE  TypeInv'
  BY <1>6 DEF CopyNoMem, ReleaseAndAnswer, Answer, Goto, Leaves, HoldNull, InRcu
<1>7. ASSUME CheckOn(r)
      PROVE  TypeInv'
  BY <1>7 DEF CheckOn, Goto
<1>8. ASSUME CheckOff(r)
      PROVE  TypeInv'
  BY <1>8 DEF CheckOff, DestroyCopy, Scrub, Goto, NoInfo, NoSlots
<1>9. ASSUME NEW c \in Cpu, CasInstall(r, c)
      PROVE  TypeInv'
  BY <1>9 DEF CasInstall, Goto
<1>10. ASSUME NEW c \in Cpu, CasLost(r, c)
       PROVE  TypeInv'
  BY <1>10 DEF CasLost, DestroyCopy, Scrub, Goto, NoInfo, NoSlots
<1>11. ASSUME NEW c \in Cpu, CasTooLate(r, c)
       PROVE  TypeInv'
  BY <1>11 DEF CasTooLate
<1>12. ASSUME HoldResult(r)
       PROVE  TypeInv'
  BY <1>12 DEF HoldResult, ReleaseAndAnswer, Answer, Goto, Leaves, InRcu
<1>13. ASSUME HoldTooLate(r)
       PROVE  TypeInv'
  BY <1>13 DEF HoldTooLate
<1>14. ASSUME nip_route_output_flags(r)
       PROVE  TypeInv'
  BY <1>14 DEF nip_route_output_flags, InRcu
<1>15. ASSUME Put(r)
       PROVE  TypeInv'
  <2>1. /\ refcnt' \in [Obj -> Int]
        /\ cb' \in [Obj -> {"none", "node", "scan", "dst"}]
        /\ gp' \in [Obj -> SUBSET Reader]
    BY <1>15, TypeRelease DEF Put
  <2> QED
    BY <1>15, <2>1 DEF Put, Goto
<1> QED
  BY <1>1, <1>2, <1>3, <1>4, <1>5, <1>6, <1>7, <1>8, <1>9, <1>10, <1>11, <1>12,
     <1>13, <1>14, <1>15 DEF LookupStep

\* The RCU callbacks keep the types.
LEMMA TypeCallback == ASSUME TypeInv, NEW o \in Obj, Callback(o)
                      PROVE  TypeInv'
<1> USE DEF TypeInv, TypeOK, PointersSet, Tables, PCs, cbVars, cfgVars, rdVars, rtVars
<1>1. ASSUME NodeCallback(o)
      PROVE  TypeInv'
  BY <1>1 DEF NodeCallback
<1>2. ASSUME NEW c \in Cpu, ScanEmpty(o, c)
      PROVE  TypeInv'
  BY <1>2 DEF ScanEmpty
<1>3. ASSUME NEW c \in Cpu, ScanRelease(o, c)
      PROVE  TypeInv'
  <2> DEFINE s == slot[o][c]
  <2>1. /\ refcnt' \in [Obj -> Int]
        /\ cb' \in [Obj -> {"none", "node", "scan", "dst"}]
        /\ gp' \in [Obj -> SUBSET Reader]
    BY <1>3, TypeRelease DEF ScanRelease
  <2> QED
    BY <1>3, <2>1 DEF ScanRelease
<1>4. ASSUME ScanClear(o)
      PROVE  TypeInv'
  BY <1>4 DEF ScanClear
<1>5. ASSUME ReleaseRoute(o)
      PROVE  TypeInv'
  BY <1>5 DEF ReleaseRoute, InRcu, NoSlots
<1>6. ASSUME nip_dst_destroy(o)
      PROVE  TypeInv'
  BY <1>6 DEF nip_dst_destroy, Scrub, InRcu, NoInfo, NoSlots
<1> QED
  BY <1>1, <1>2, <1>3, <1>4, <1>5, <1>6 DEF Callback

\* No execution of configuration, lookups and callbacks leaves the declared types.
THEOREM TypeCorrect == Spec => []TypeOK
<1>1. TypeInv /\ [Next]_vars => TypeInv'
  <2> SUFFICES ASSUME TypeInv, [Next]_vars PROVE TypeInv'
    OBVIOUS
  <2>1. CASE Config
    BY <2>1, TypeConfig
  <2>2. ASSUME NEW r \in Reader, LookupStep(r) \/ \E a \in Addr : Begin(r, a)
        PROVE  TypeInv'
    BY <2>2, TypeLookup
  <2>3. ASSUME NEW o \in Obj, Callback(o)
        PROVE  TypeInv'
    BY <2>3, TypeCallback
  <2>4. CASE UNCHANGED vars
    BY <2>4 DEF TypeInv, TypeOK, PointersSet, vars, rtVars, cbVars, cfgVars, rdVars
  <2> QED
    BY <2>1, <2>2, <2>3, <2>4 DEF Next
<1> QED
  BY TypeInit, <1>1, PTL DEF Spec, TypeInv

-----------------------------------------------------------------------------
(* The inductive invariant.                                                *)

\* The life of a dst entry.  An entry that is not allocated is as Scrub leaves it; one
\* whose last reference is gone waits for dst_destroy_rcu; the static entries are in
\* no table; a copy is in no table, belongs to no address, and was made from a route;
\* a route has its node reference and its slots until nip_rt_release takes them, and
\* is obsolete when the slots are gone.
Lifecycle ==
  \A o \in Obj :
    /\ ~live[o] => /\ refcnt[o] = 0 /\ rt_ref[o] = 0
                   /\ cb[o] = "none" /\ from[o] = NONE
    /\ cb[o] = "dst" => live[o] /\ refcnt[o] = 0
    /\ o \in Static => /\ live[o] /\ from[o] = NONE /\ cb[o] = "none"
                       /\ ~linked[o] /\ o \notin ifa
    /\ from[o] # NONE => /\ rt_ref[o] = 0 /\ cb[o] \in {"none", "dst"}
                         /\ ~linked[o] /\ o \notin ifa
                         /\ from[from[o]] = NONE /\ from[o] \notin Static
    /\ linked[o] => cb[o] = "none"
    /\ linked[o] \/ cb[o] = "node" => rt_ref[o] = 1 /\ pcpuOn[o]
    /\ ~linked[o] /\ cb[o] # "node" /\ o \notin Static => rt_ref[o] = 0
    /\ live[o] /\ o \notin Static /\ from[o] = NONE => pcpuOn[o] \/ obsolete[o]

\* Only a route with a node has copies in its slots; those that nip_rt_free_pcpu has
\* passed are empty, the others hold copies of this route.
SlotsOwned ==
  \A o \in Obj :
    /\ cb[o] # "scan" => scan[o] = {}
    /\ cur[o] # NONE => cur[o] \in scan[o]
    /\ \A c \in Cpu : slot[o][c] # NONE =>
         /\ FibHolds(o)
         /\ cb[o] = "scan" => c \in scan[o]
         /\ cur[o] # c => from[slot[o][c]] = o

\* A copy that is not obsolete is in a slot of its route, where nip_rt_free_pcpu will
\* find it, or not yet published.
CopiesFound ==
  \A x \in Obj : from[x] # NONE =>
    \/ obsolete[x]
    \/ \E c \in Cpu : slot[from[x]][c] = x /\ cur[from[x]] # c
    \/ \E r \in Reader : pc[r] \in {"check", "cas"} /\ got[r] = x

\* What a lookup relies on: the route it works on is a route, and is kept for it by the
\* grace period as long as it is protected; its copy is its own until the cmpxchg; the
\* entry it is about to hold will not be freed while it is in its critical section.
LookupsSafe ==
  \A r \in Reader :
    /\ pc[r] \in {"get", "alloc", "check", "cas", "hold"} =>
         rt[r] \notin Static /\ from[rt[r]] = NONE
    /\ Protected(r) => /\ rcu[r]
                       /\ linked[rt[r]] \/ (cb[rt[r]] = "node" /\ r \in gp[rt[r]])
    /\ pc[r] \in {"check", "cas"} =>
         /\ from[got[r]] = rt[r] /\ refcnt[got[r]] = 1
         /\ \A q \in Reader : pc[q] = "hold" => got[q] # got[r]
    /\ pc[r] \in {"cas", "hold"} => rcu[r]
    /\ pc[r] = "hold" =>
         /\ live[got[r]] /\ (got[r] = rt[r] \/ from[got[r]] = rt[r])
         /\ cb[got[r]] = "dst" => r \in gp[got[r]]
    /\ pc[r] \in {"hold", "done"} /\ got[r] \notin Static /\ from[got[r]] = NONE
         => obsolete[got[r]]

\* The local routes a lookup could have found are still there, and it has left the
\* local table without an answer only if there were none or memory was short.
SteadySeen ==
  \A r \in Reader :
    /\ steady[r] \subseteq {o \in Table("local") : info[o].dst = key[r]}
    /\ pc[r] # "idle" /\ steady[r] # {} /\ ~oom[r] => pc[r] # "next" /\ tbl[r] = "local"

Counted == \A o \in Obj : refcnt[o] = Refs(o)

RouteInv == /\ Counted /\ Lifecycle /\ SlotsOwned /\ CopiesFound /\ LookupsSafe
            /\ SteadySeen /\ LocalRouteHasAddress /\ UniqueRoute

-----------------------------------------------------------------------------
(* Counting.  A step changes the holders of references at one reader, one  *)
(* copy or one slot; the cardinalities change by what happens there.       *)

\* Two finite sets that differ at most in x.
LEMMA CardExcept ==
  ASSUME NEW S, NEW T, NEW x, IsFiniteSet(S), IsFiniteSet(T), S \ {x} = T \ {x}
  PROVE  Cardinality(T) - (IF x \in T THEN 1 ELSE 0)
           = Cardinality(S) - (IF x \in S THEN 1 ELSE 0)
<1>1. Cardinality(S) \in Nat /\ Cardinality(T) \in Nat
  BY FS_CardinalityType
<1>2. /\ Cardinality(S \ {x}) = IF x \in S THEN Cardinality(S) - 1 ELSE Cardinality(S)
      /\ Cardinality(T \ {x}) = IF x \in T THEN Cardinality(T) - 1 ELSE Cardinality(T)
  BY FS_RemoveElement
<1>3. Cardinality(S \ {x}) = Cardinality(T \ {x})
  OBVIOUS
<1> QED
  BY <1>1, <1>2, <1>3

\* A finite set with an element has a positive cardinality, with two at least two.
LEMMA CardPositive ==
  ASSUME NEW S, IsFiniteSet(S)
  PROVE  /\ Cardinality(S) \in Nat
         /\ \A x \in S : Cardinality(S) >= 1
         /\ \A x, y \in S : x # y => Cardinality(S) >= 2
<1>1. Cardinality(S) \in Nat
  BY FS_CardinalityType
<1>2. ASSUME NEW x \in S
      PROVE  Cardinality(S) >= 1
  BY <1>1, FS_EmptySet
<1>3. ASSUME NEW x \in S, NEW y \in S, x # y
      PROVE  Cardinality(S) >= 2
  <2>1. IsFiniteSet(S \ {x}) /\ Cardinality(S \ {x}) = Cardinality(S) - 1
    BY FS_RemoveElement
  <2>2. Cardinality(S \ {x}) # 0
    BY <1>3, <2>1, FS_EmptySet
  <2> QED
    BY <1>1, <1>2, <2>1, <2>2
<1> QED
  BY <1>1, <1>2, <1>3

\* The contributions to Refs of a reader r, a copy y, a slot p, the node and the
\* address.
RouteRef(r, o)  == IF r \in RouteHolders(o) THEN 1 ELSE 0
ResultRef(r, o) == IF r \in ResultHolders(o) THEN 1 ELSE 0
CopyRef(y, o)   == IF y \in CopiesOf(o) THEN 1 ELSE 0
SlotRef(p, o)   == IF p \in SlotsOf(o) THEN 1 ELSE 0
FibRef(o)       == IF FibHolds(o) THEN 1 ELSE 0
AddrRef(o)      == IF o \in ifa THEN 1 ELSE 0

\* The sets of holders are finite.
LEMMA HoldersFinite ==
  \A o \in Obj : /\ IsFiniteSet(CopiesOf(o)) /\ IsFiniteSet(SlotsOf(o))
                 /\ IsFiniteSet(RouteHolders(o)) /\ IsFiniteSet(ResultHolders(o))
<1>1. IsFiniteSet(Obj \X Cpu)
  BY FS_Product
<1>2. TAKE o \in Obj
<1>3. CopiesOf(o) \in SUBSET Obj /\ SlotsOf(o) \in SUBSET (Obj \X Cpu)
  BY DEF CopiesOf, SlotsOf
<1>4. RouteHolders(o) \in SUBSET Reader /\ ResultHolders(o) \in SUBSET Reader
  BY DEF RouteHolders, ResultHolders
<1> QED
  BY <1>1, <1>3, <1>4, FS_Subset

\* So are those of the next state.
LEMMA HoldersFiniteNext == HoldersFinite!:'
BY HoldersFinite, PTL

\* Every holder is counted, and counted beside the node of the route.
LEMMA RefsPositive ==
  \A o \in Obj :
    /\ Refs(o) \in Nat
    /\ o \in Static \/ FibHolds(o) \/ o \in ifa => Refs(o) >= 1
    /\ FibHolds(o) /\ o \in ifa => Refs(o) >= 2
    /\ \A x \in Obj : live[x] /\ from[x] = o => Refs(o) >= 1
    /\ \A x \in Obj, c \in Cpu : slot[x][c] = o /\ cur[x] # c => Refs(o) >= 1
    /\ \A r \in Reader : r \in RouteHolders(o) \/ r \in ResultHolders(o) => Refs(o) >= 1
    /\ FibHolds(o) \/ o \in Static =>
         /\ \A r \in Reader : r \in RouteHolders(o) \/ r \in ResultHolders(o) => Refs(o) >= 2
         /\ \A x \in Obj : live[x] /\ from[x] = o => Refs(o) >= 2
<1> TAKE o \in Obj
<1>1. /\ IsFiniteSet(CopiesOf(o)) /\ IsFiniteSet(SlotsOf(o))
      /\ IsFiniteSet(RouteHolders(o)) /\ IsFiniteSet(ResultHolders(o))
  BY HoldersFinite
<1> DEFINE C == Cardinality(CopiesOf(o))
           S == Cardinality(SlotsOf(o))
           R == Cardinality(RouteHolders(o))
           G == Cardinality(ResultHolders(o))
<1>2. C \in Nat /\ S \in Nat /\ R \in Nat /\ G \in Nat
  BY <1>1, CardPositive
<1>3. Refs(o) = (IF o \in Static THEN 1 ELSE 0) + (IF FibHolds(o) THEN 1 ELSE 0)
                + (IF o \in ifa THEN 1 ELSE 0) + C + S + R + G
  BY DEF Refs
<1>4. \A x \in Obj : live[x] /\ from[x] = o => C >= 1
  <2>1. \A x \in CopiesOf(o) : C >= 1
    BY <1>1, CardPositive
  <2> QED
    BY <2>1 DEF CopiesOf
<1>5. \A x \in Obj, c \in Cpu : slot[x][c] = o /\ cur[x] # c => S >= 1
  <2>1. \A p \in SlotsOf(o) : S >= 1
    BY <1>1, CardPositive
  <2>2. \A x \in Obj, c \in Cpu : slot[x][c] = o /\ cur[x] # c => <<x, c>> \in SlotsOf(o)
    BY DEF SlotsOf
  <2> QED
    BY <2>1, <2>2
<1>6. /\ \A r \in RouteHolders(o) : R >= 1
      /\ \A r \in ResultHolders(o) : G >= 1
  BY <1>1, CardPositive
<1> HIDE DEF C, S, R, G
<1> QED
  BY <1>2, <1>3, <1>4, <1>5, <1>6

\* The same of the next state.
LEMMA RefsPositiveNext == RefsPositive!:'
BY RefsPositive, PTL

\* An entry that a lookup holds as its result and that something else holds too is
\* counted twice.
LEMMA RefsShared ==
  \A o \in Obj : \A r \in ResultHolders(o) :
    /\ o \in Static \/ FibHolds(o) \/ o \in ifa => Refs(o) >= 2
    /\ \A x \in Obj : live[x] /\ from[x] = o => Refs(o) >= 2
    /\ \A x \in Obj, c \in Cpu : slot[x][c] = o /\ cur[x] # c => Refs(o) >= 2
    /\ \A q \in ResultHolders(o) : q # r => Refs(o) >= 2
<1> TAKE o \in Obj
<1> TAKE r \in ResultHolders(o)
<1>1. /\ IsFiniteSet(CopiesOf(o)) /\ IsFiniteSet(SlotsOf(o))
      /\ IsFiniteSet(RouteHolders(o)) /\ IsFiniteSet(ResultHolders(o))
  BY HoldersFinite
<1> DEFINE C == Cardinality(CopiesOf(o))
           S == Cardinality(SlotsOf(o))
           R == Cardinality(RouteHolders(o))
           G == Cardinality(ResultHolders(o))
<1>2. C \in Nat /\ S \in Nat /\ R \in Nat /\ G \in Nat
  BY <1>1, CardPositive
<1>3. Refs(o) = (IF o \in Static THEN 1 ELSE 0) + (IF FibHolds(o) THEN 1 ELSE 0)
                + (IF o \in ifa THEN 1 ELSE 0) + C + S + R + G
  BY DEF Refs
<1>4. \A x \in Obj : live[x] /\ from[x] = o => C >= 1
  <2>1. \A x \in CopiesOf(o) : C >= 1
    BY <1>1, CardPositive
  <2> QED
    BY <2>1 DEF CopiesOf
<1>5. \A x \in Obj, c \in Cpu : slot[x][c] = o /\ cur[x] # c => S >= 1
  <2>1. \A p \in SlotsOf(o) : S >= 1
    BY <1>1, CardPositive
  <2>2. \A x \in Obj, c \in Cpu : slot[x][c] = o /\ cur[x] # c => <<x, c>> \in SlotsOf(o)
    BY DEF SlotsOf
  <2> QED
    BY <2>1, <2>2
<1>6. G >= 1 /\ \A q \in ResultHolders(o) : q # r => G >= 2
  BY <1>1, CardPositive
<1> HIDE DEF C, S, R, G
<1> QED
  BY <1>2, <1>3, <1>4, <1>5, <1>6

\* A step that changes the holders at most at reader r, copy y and slot p changes
\* Refs by what it does to these, to the node and to the address.
LEMMA RefsDelta ==
  ASSUME NEW r, NEW y, NEW p, NEW o \in Obj,
         \A q \in Reader : q # r => pc'[q] = pc[q] /\ rt'[q] = rt[q] /\ got'[q] = got[q],
         \A z \in Obj : z # y => live'[z] = live[z] /\ from'[z] = from[z],
         \A s \in Obj \X Cpu : s # p => /\ slot'[s[1]][s[2]] = slot[s[1]][s[2]]
                                        /\ (cur'[s[1]] = s[2]) <=> (cur[s[1]] = s[2])
  PROVE  /\ Refs(o) \in Nat /\ Refs(o)' \in Nat
         /\ Refs(o)' - FibRef(o)' - AddrRef(o)' - CopyRef(y, o)' - SlotRef(p, o)'
                     - RouteRef(r, o)' - ResultRef(r, o)'
              = Refs(o) - FibRef(o) - AddrRef(o) - CopyRef(y, o) - SlotRef(p, o)
                        - RouteRef(r, o) - ResultRef(r, o)
<1>1. /\ IsFiniteSet(CopiesOf(o)) /\ IsFiniteSet(SlotsOf(o))
      /\ IsFiniteSet(RouteHolders(o)) /\ IsFiniteSet(ResultHolders(o))
  BY HoldersFinite
<1>2. /\ IsFiniteSet(CopiesOf(o)') /\ IsFiniteSet(SlotsOf(o)')
      /\ IsFiniteSet(RouteHolders(o)') /\ IsFiniteSet(ResultHolders(o)')
  BY HoldersFiniteNext
<1> DEFINE C == Cardinality(CopiesOf(o))
           S == Cardinality(SlotsOf(o))
           R == Cardinality(RouteHolders(o))
           G == Cardinality(ResultHolders(o))
           K == IF o \in Static THEN 1 ELSE 0
<1>3. C \in Nat /\ S \in Nat /\ R \in Nat /\ G \in Nat
  BY <1>1, CardPositive
<1>4. C' \in Nat /\ S' \in Nat /\ R' \in Nat /\ G' \in Nat
  BY <1>2, CardPositive
<1>5. C' - CopyRef(y, o)' = C - CopyRef(y, o)
  <2>1. CopiesOf(o) \ {y} = CopiesOf(o)' \ {y}
    BY DEF CopiesOf
  <2> QED
    BY <1>1, <1>2, <2>1, CardExcept DEF CopyRef
<1>6. S' - SlotRef(p, o)' = S - SlotRef(p, o)
  <2>1. SlotsOf(o) \ {p} = SlotsOf(o)' \ {p}
    BY DEF SlotsOf
  <2> QED
    BY <1>1, <1>2, <2>1, CardExcept DEF SlotRef
<1>7. R' - RouteRef(r, o)' = R - RouteRef(r, o)
  <2>1. RouteHolders(o) \ {r} = RouteHolders(o)' \ {r}
    BY DEF RouteHolders
  <2> QED
    BY <1>1, <1>2, <2>1, CardExcept DEF RouteRef
<1>8. G' - ResultRef(r, o)' = G - ResultRef(r, o)
  <2>1. ResultHolders(o) \ {r} = ResultHolders(o)' \ {r}
    BY DEF ResultHolders
  <2> QED
    BY <1>1, <1>2, <2>1, CardExcept DEF ResultRef
<1>9. Refs(o) = K + FibRef(o) + AddrRef(o) + C + S + R + G
  BY DEF Refs, FibRef, AddrRef
<1>10. Refs(o)' = K + FibRef(o)' + AddrRef(o)' + C' + S' + R' + G'
  BY DEF Refs, FibRef, AddrRef
<1>11. /\ CopyRef(y, o) \in Int /\ CopyRef(y, o)' \in Int
       /\ SlotRef(p, o) \in Int /\ SlotRef(p, o)' \in Int
       /\ RouteRef(r, o) \in Int /\ RouteRef(r, o)' \in Int
       /\ ResultRef(r, o) \in Int /\ ResultRef(r, o)' \in Int
       /\ FibRef(o) \in Int /\ FibRef(o)' \in Int
       /\ AddrRef(o) \in Int /\ AddrRef(o)' \in Int
  BY DEF CopyRef, SlotRef, RouteRef, ResultRef, FibRef, AddrRef
<1>12. Refs(o) \in Nat /\ Refs(o)' \in Nat
  BY RefsPositive, RefsPositiveNext
<1>13. K \in Int
  OBVIOUS
<1> HIDE DEF C, S, R, G, K
<1>14. Refs(o) - FibRef(o) - AddrRef(o) - CopyRef(y, o) - SlotRef(p, o)
               - RouteRef(r, o) - ResultRef(r, o)
         = K + (C - CopyRef(y, o)) + (S - SlotRef(p, o))
             + (R - RouteRef(r, o)) + (G - ResultRef(r, o))
  BY <1>3, <1>9, <1>11, <1>13
<1>15. Refs(o)' - FibRef(o)' - AddrRef(o)' - CopyRef(y, o)' - SlotRef(p, o)'
                - RouteRef(r, o)' - ResultRef(r, o)'
         = K + (C' - CopyRef(y, o)') + (S' - SlotRef(p, o)')
             + (R' - RouteRef(r, o)') + (G' - ResultRef(r, o)')
  BY <1>4, <1>10, <1>11, <1>13
<1> QED
  BY <1>5, <1>6, <1>7, <1>8, <1>12, <1>14, <1>15

\* A step that moves no reader, copy or slot.
LEMMA RefsQuiet ==
  ASSUME UNCHANGED <<pc, rt, got, live, from, slot, cur>>, NEW o \in Obj
  PROVE  /\ Refs(o) \in Nat /\ Refs(o)' \in Nat
         /\ Refs(o)' = Refs(o) + (FibRef(o)' - FibRef(o)) + (AddrRef(o)' - AddrRef(o))
<1>1. /\ Refs(o) \in Nat /\ Refs(o)' \in Nat
      /\ Refs(o)' - FibRef(o)' - AddrRef(o)' - CopyRef(NONE, o)' - SlotRef(NONE, o)'
                  - RouteRef(NONE, o)' - ResultRef(NONE, o)'
           = Refs(o) - FibRef(o) - AddrRef(o) - CopyRef(NONE, o) - SlotRef(NONE, o)
                     - RouteRef(NONE, o) - ResultRef(NONE, o)
  BY RefsDelta
<1>2. /\ SlotRef(NONE, o)' = SlotRef(NONE, o) /\ RouteRef(NONE, o)' = RouteRef(NONE, o)
      /\ ResultRef(NONE, o)' = ResultRef(NONE, o) /\ CopyRef(NONE, o)' = CopyRef(NONE, o)
  BY DEF SlotRef, RouteRef, ResultRef, CopyRef, SlotsOf, RouteHolders, ResultHolders, CopiesOf
<1>3. /\ SlotRef(NONE, o) \in Int /\ RouteRef(NONE, o) \in Int /\ ResultRef(NONE, o) \in Int
      /\ CopyRef(NONE, o) \in Int /\ FibRef(o) \in Int /\ AddrRef(o) \in Int
      /\ FibRef(o)' \in Int /\ AddrRef(o)' \in Int
  BY DEF SlotRef, RouteRef, ResultRef, CopyRef, FibRef, AddrRef
<1> QED
  BY <1>1, <1>2, <1>3

\* A step of reader r that leaves copies, slots and addresses alone.
LEMMA RefsReader ==
  ASSUME UNCHANGED <<live, from, slot, cur, ifa>>, NEW r, NEW o \in Obj,
         \A q \in Reader : q # r => pc'[q] = pc[q] /\ rt'[q] = rt[q] /\ got'[q] = got[q]
  PROVE  /\ Refs(o) \in Nat /\ Refs(o)' \in Nat
         /\ Refs(o)' = Refs(o) + (FibRef(o)' - FibRef(o)) + (RouteRef(r, o)' - RouteRef(r, o))
                                + (ResultRef(r, o)' - ResultRef(r, o))
<1>1. /\ Refs(o) \in Nat /\ Refs(o)' \in Nat
      /\ Refs(o)' - FibRef(o)' - AddrRef(o)' - CopyRef(NONE, o)' - SlotRef(NONE, o)'
                  - RouteRef(r, o)' - ResultRef(r, o)'
           = Refs(o) - FibRef(o) - AddrRef(o) - CopyRef(NONE, o) - SlotRef(NONE, o)
                     - RouteRef(r, o) - ResultRef(r, o)
  BY RefsDelta
<1>2. /\ SlotRef(NONE, o)' = SlotRef(NONE, o) /\ AddrRef(o)' = AddrRef(o)
      /\ CopyRef(NONE, o)' = CopyRef(NONE, o)
  BY DEF SlotRef, CopyRef, AddrRef, SlotsOf, CopiesOf
<1>3. /\ SlotRef(NONE, o) \in Int /\ RouteRef(r, o) \in Int /\ ResultRef(r, o) \in Int
      /\ CopyRef(NONE, o) \in Int /\ FibRef(o) \in Int /\ AddrRef(o) \in Int
      /\ FibRef(o)' \in Int /\ RouteRef(r, o)' \in Int /\ ResultRef(r, o)' \in Int
  BY DEF SlotRef, RouteRef, ResultRef, CopyRef, FibRef, AddrRef
<1> QED
  BY <1>1, <1>2, <1>3

\* A step that changes reader r, copy y and slot p and leaves the nodes alone.
LEMMA RefsMove ==
  ASSUME NEW r, NEW y, NEW p, NEW o \in Obj, FibHolds(o)' <=> FibHolds(o), UNCHANGED ifa,
         \A q \in Reader : q # r => pc'[q] = pc[q] /\ rt'[q] = rt[q] /\ got'[q] = got[q],
         \A z \in Obj : z # y => live'[z] = live[z] /\ from'[z] = from[z],
         \A s \in Obj \X Cpu : s # p => /\ slot'[s[1]][s[2]] = slot[s[1]][s[2]]
                                        /\ (cur'[s[1]] = s[2]) <=> (cur[s[1]] = s[2])
  PROVE  /\ Refs(o) \in Nat /\ Refs(o)' \in Nat
         /\ Refs(o)' = Refs(o) + (CopyRef(y, o)' - CopyRef(y, o))
                                + (SlotRef(p, o)' - SlotRef(p, o))
                                + (RouteRef(r, o)' - RouteRef(r, o))
                                + (ResultRef(r, o)' - ResultRef(r, o))
<1> DEFINE D == CopyRef(y, o) + SlotRef(p, o) + RouteRef(r, o) + ResultRef(r, o)
           K == FibRef(o) + AddrRef(o)
<1>1. /\ Refs(o) \in Nat /\ Refs(o)' \in Nat
      /\ Refs(o)' - FibRef(o)' - AddrRef(o)' - CopyRef(y, o)' - SlotRef(p, o)'
                  - RouteRef(r, o)' - ResultRef(r, o)'
           = Refs(o) - FibRef(o) - AddrRef(o) - CopyRef(y, o) - SlotRef(p, o)
                     - RouteRef(r, o) - ResultRef(r, o)
  BY RefsDelta
<1>2. AddrRef(o)' = AddrRef(o) /\ FibRef(o)' = FibRef(o)
  BY DEF FibRef, AddrRef
<1>3. /\ RouteRef(r, o) \in Int /\ ResultRef(r, o) \in Int /\ CopyRef(y, o) \in Int
      /\ SlotRef(p, o) \in Int /\ FibRef(o) \in Int /\ AddrRef(o) \in Int
  BY DEF SlotRef, RouteRef, ResultRef, CopyRef, FibRef, AddrRef
<1>4. /\ RouteRef(r, o)' \in Int /\ ResultRef(r, o)' \in Int /\ CopyRef(y, o)' \in Int
      /\ SlotRef(p, o)' \in Int
  BY DEF SlotRef, RouteRef, ResultRef, CopyRef
<1>5. D \in Int /\ D' \in Int /\ K \in Int
  BY <1>3, <1>4
<1>6. Refs(o) - FibRef(o) - AddrRef(o) - CopyRef(y, o) - SlotRef(p, o)
              - RouteRef(r, o) - ResultRef(r, o) = Refs(o) - D - K
  BY <1>1, <1>3
<1>7. Refs(o)' - FibRef(o)' - AddrRef(o)' - CopyRef(y, o)' - SlotRef(p, o)'
               - RouteRef(r, o)' - ResultRef(r, o)' = Refs(o)' - D' - K
  BY <1>1, <1>2, <1>3, <1>4
<1>8. Refs(o)' = Refs(o) + (D' - D)
  <2> HIDE DEF D, K
  <2> QED
    BY <1>1, <1>5, <1>6, <1>7
<1> QED
  BY <1>1, <1>3, <1>4, <1>8

\* A step that changes reader r and copy g and leaves nodes, slots and addresses alone.
LEMMA RefsCopy ==
  ASSUME UNCHANGED <<linked, cb, ifa, cur>>, NEW r, NEW g, NEW o \in Obj,
         \A q \in Reader : q # r => pc'[q] = pc[q] /\ rt'[q] = rt[q] /\ got'[q] = got[q],
         \A z \in Obj : z # g => live'[z] = live[z] /\ from'[z] = from[z],
         \A x \in Obj, c \in Cpu : slot'[x][c] = slot[x][c]
  PROVE  /\ Refs(o) \in Nat /\ Refs(o)' \in Nat
         /\ Refs(o)' = Refs(o) + (CopyRef(g, o)' - CopyRef(g, o))
                                + (RouteRef(r, o)' - RouteRef(r, o))
                                + (ResultRef(r, o)' - ResultRef(r, o))
<1>1. SlotsOf(o)' = SlotsOf(o) /\ (FibHolds(o)' <=> FibHolds(o))
  BY DEF SlotsOf, FibHolds
<1>2. \A s \in Obj \X Cpu : s # NONE => /\ slot'[s[1]][s[2]] = slot[s[1]][s[2]]
                                        /\ (cur'[s[1]] = s[2]) <=> (cur[s[1]] = s[2])
  OBVIOUS
<1>3. /\ Refs(o) \in Nat /\ Refs(o)' \in Nat
      /\ Refs(o)' = Refs(o) + (CopyRef(g, o)' - CopyRef(g, o))
                            + (SlotRef(NONE, o)' - SlotRef(NONE, o))
                            + (RouteRef(r, o)' - RouteRef(r, o))
                            + (ResultRef(r, o)' - ResultRef(r, o))
  BY <1>1, <1>2, RefsMove
<1>4. SlotRef(NONE, o)' = SlotRef(NONE, o) /\ SlotRef(NONE, o) \in Int
  BY <1>1 DEF SlotRef
<1>5. /\ RouteRef(r, o) \in Int /\ ResultRef(r, o) \in Int /\ CopyRef(g, o) \in Int
      /\ RouteRef(r, o)' \in Int /\ ResultRef(r, o)' \in Int /\ CopyRef(g, o)' \in Int
  BY DEF RouteRef, ResultRef, CopyRef
<1> QED
  BY <1>3, <1>4, <1>5

-----------------------------------------------------------------------------
(* What the invariant says of entries that are in use.                     *)

Inv == TypeInv /\ RouteInv

\* Whoever points to an entry keeps it allocated.
LEMMA Held ==
  ASSUME Inv
  PROVE  /\ \A o \in Obj : refcnt[o] \in Nat /\ (refcnt[o] >= 1 => live[o])
         /\ \A o \in Obj : o \in Static \/ FibHolds(o) \/ o \in ifa => refcnt[o] >= 1
         /\ \A x \in Obj : from[x] # NONE => live[x] /\ refcnt[from[x]] >= 1
         /\ \A o \in Obj, c \in Cpu : slot[o][c] # NONE /\ cur[o] # c
                                        => refcnt[slot[o][c]] >= 1
         /\ \A r \in Reader : pc[r] \in {"get", "alloc", "check", "cas", "hold"}
                                => refcnt[rt[r]] >= 1
         /\ \A r \in Reader : pc[r] \in {"check", "cas", "done"} => refcnt[got[r]] >= 1
<1>1. \A o \in Obj : refcnt[o] = Refs(o)
  BY DEF Inv, RouteInv, Counted
<1>2. \A o \in Obj : refcnt[o] \in Nat /\ (refcnt[o] >= 1 => live[o])
  BY <1>1, RefsPositive DEF Inv, RouteInv, Lifecycle
<1>3. \A o \in Obj : o \in Static \/ FibHolds(o) \/ o \in ifa => refcnt[o] >= 1
  BY <1>1, RefsPositive
<1>4. \A x \in Obj : from[x] # NONE => live[x] /\ refcnt[from[x]] >= 1
  <2> TAKE x \in Obj
  <2>1. from[x] # NONE => from[x] \in Obj /\ live[x]
    BY DEF Inv, TypeInv, TypeOK, RouteInv, Lifecycle
  <2> QED
    BY <1>1, <2>1, RefsPositive
<1>5. ASSUME NEW o \in Obj, NEW c \in Cpu, slot[o][c] # NONE, cur[o] # c
      PROVE  refcnt[slot[o][c]] >= 1
  <2>1. slot[o][c] \in Obj
    BY <1>5 DEF Inv, TypeInv, TypeOK
  <2> QED
    BY <1>1, <1>5, <2>1, RefsPositive
<1>6. ASSUME NEW r \in Reader, pc[r] \in {"get", "alloc", "check", "cas", "hold"}
      PROVE  refcnt[rt[r]] >= 1
  <2>1. rt[r] \in Obj
    BY <1>6 DEF Inv, TypeInv, PointersSet
  <2>2. CASE pc[r] = "get"
    BY <1>3, <2>1, <2>2 DEF Inv, RouteInv, LookupsSafe, Protected, FibHolds
  <2>3. CASE pc[r] # "get"
    <3>1. r \in RouteHolders(rt[r])
      BY <1>6, <2>3 DEF RouteHolders
    <3> QED
      BY <1>1, <2>1, <3>1, RefsPositive
  <2> QED
    BY <2>2, <2>3
<1>7. ASSUME NEW r \in Reader, pc[r] \in {"check", "cas", "done"}
      PROVE  refcnt[got[r]] >= 1
  <2>1. got[r] \in Obj
    BY <1>7 DEF Inv, TypeInv, PointersSet
  <2>2. r \in ResultHolders(got[r])
    BY <1>7 DEF ResultHolders
  <2> QED
    BY <1>1, <2>1, <2>2, RefsPositive
<1> QED
  BY <1>2, <1>3, <1>4, <1>5, <1>6, <1>7

\* The copy a lookup has made and not yet published is known to it alone.
LEMMA Unpublished ==
  ASSUME Inv, NEW r \in Reader, pc[r] \in {"check", "cas"}
  PROVE  /\ \A x \in Obj : from[x] # got[r]
         /\ \A x \in Obj, c \in Cpu : slot[x][c] = got[r] => cur[x] = c
         /\ \A c \in Cpu : slot[got[r]][c] = NONE
         /\ \A q \in Reader : q # r /\ pc[q] \in {"check", "cas", "hold", "done"} => got[q] # got[r]
         /\ \A q \in Reader : pc[q] \in {"get", "alloc", "check", "cas", "hold"} => rt[q] # got[r]
         /\ got[r] \in Obj /\ got[r] \notin Static /\ live[got[r]] /\ ~linked[got[r]]
         /\ got[r] \notin ifa /\ cb[got[r]] = "none"
         /\ rt[r] \in Obj /\ rt[r] # got[r] /\ live[rt[r]]
<1> DEFINE g == got[r]
<1>1. g \in Obj /\ rt[r] \in Obj /\ from[g] = rt[r] /\ refcnt[g] = 1 /\ from[rt[r]] = NONE
  BY DEF Inv, RouteInv, TypeInv, PointersSet, LookupsSafe
<1>2. rt[r] # NONE /\ live[g] /\ refcnt[rt[r]] >= 1
  BY <1>1, Held
<1>3. refcnt[g] = Refs(g) /\ Refs(g) = 1
  BY <1>1 DEF Inv, RouteInv, Counted
<1>4. r \in ResultHolders(g)
  BY DEF ResultHolders
<1>5. /\ g \notin Static /\ ~FibHolds(g) /\ g \notin ifa
      /\ \A x \in Obj : ~(live[x] /\ from[x] = g)
      /\ \A x \in Obj, c \in Cpu : ~(slot[x][c] = g /\ cur[x] # c)
      /\ \A q \in ResultHolders(g) : q = r
  BY <1>1, <1>3, <1>4, RefsShared
<1>6. \A x \in Obj : from[x] # g
  BY <1>1, <1>5, Held
<1>7. \A c \in Cpu : slot[g][c] = NONE
  BY <1>1, <1>5 DEF Inv, RouteInv, SlotsOwned
<1>8. ASSUME NEW q \in Reader, q # r, pc[q] \in {"check", "cas", "hold", "done"}
      PROVE  got[q] # g
  BY <1>5, <1>8 DEF Inv, RouteInv, LookupsSafe, ResultHolders
<1>9. ASSUME NEW q \in Reader, pc[q] \in {"get", "alloc", "check", "cas", "hold"}
      PROVE  rt[q] # g
  BY <1>1, <1>2, <1>9 DEF Inv, RouteInv, LookupsSafe
<1>10. ~linked[g] /\ cb[g] = "none"
  BY <1>1, <1>2 DEF Inv, RouteInv, Lifecycle
<1> QED
  BY <1>1, <1>2, <1>5, <1>6, <1>7, <1>8, <1>9, <1>10, Held

-----------------------------------------------------------------------------
(* Configuration keeps the invariant.                                      *)

\* An entry that is not allocated is nowhere.
LEMMA FreeEntry ==
  ASSUME Inv, NEW o \in Obj, ~live[o]
  PROVE  /\ o \notin Static /\ o \notin ifa /\ ~linked[o] /\ cb[o] = "none" /\ from[o] = NONE
         /\ refcnt[o] = 0 /\ rt_ref[o] = 0 /\ Refs(o) = 0
         /\ \A x \in Obj : from[x] # o
         /\ \A x \in Obj, c \in Cpu : slot[x][c] = o => cur[x] = c
         /\ \A c \in Cpu : slot[o][c] = NONE
         /\ \A q \in Reader : pc[q] \in {"get", "alloc", "check", "cas", "hold"} => rt[q] # o
         /\ \A q \in Reader : pc[q] \in {"check", "cas", "hold", "done"} => got[q] # o
<1>1. refcnt[o] = 0 /\ rt_ref[o] = 0 /\ cb[o] = "none" /\ from[o] = NONE /\ Refs(o) = 0
  BY DEF Inv, RouteInv, Lifecycle, Counted
<1>2. o \notin Static /\ ~FibHolds(o) /\ o \notin ifa
  BY <1>1, Held
<1>3. \A c \in Cpu : slot[o][c] = NONE
  BY <1>2 DEF Inv, RouteInv, SlotsOwned
<1>4. \A x \in Obj : from[x] # o
  BY <1>1, Held DEF Inv, TypeInv, TypeOK
<1>5. \A x \in Obj, c \in Cpu : slot[x][c] = o => cur[x] = c
  BY <1>1, Held
<1>6. \A q \in Reader : pc[q] \in {"get", "alloc", "check", "cas", "hold"} => rt[q] # o
  BY <1>1, Held
<1>7. \A q \in Reader : pc[q] \in {"check", "cas", "hold", "done"} => got[q] # o
  BY <1>1, Held DEF Inv, RouteInv, LookupsSafe
<1> QED
  BY <1>1, <1>2, <1>3, <1>4, <1>5, <1>6, <1>7 DEF FibHolds

\* A new route or address: entry o is allocated and perhaps linked.
LEMMA AddInv ==
  ASSUME Inv, NEW o \in Obj, NEW a \in Addr, NEW d \in Dev,
         nip_route_add(o, a, d) \/ ninet_addr_add(o, a, d)
  PROVE  Inv'
<1>1. TypeInv'
  BY TypeConfig DEF Inv, Config
<1>2. /\ ~live[o] /\ live' = [live EXCEPT ![o] = TRUE]
      /\ pcpuOn' = [pcpuOn EXCEPT ![o] = TRUE]
      /\ UNCHANGED <<from, slot, obsolete, cbVars, rdVars>>
  BY DEF nip_route_add, ninet_addr_add, Alloc
<1>3. UNCHANGED <<from, slot, obsolete, cb, gp, scan, cur, pc, tbl, key, rt, got, rcu, oom, steady>>
  BY <1>2 DEF cbVars, rdVars
<1>4. TypeInv /\ TypeOK
  BY DEF Inv, TypeInv
<1>5. PICK t \in Tables : /\ info' = [info EXCEPT ![o] = [dst |-> a, dev |-> d, table |-> t]]
                          /\ t = "local" <=> ninet_addr_add(o, a, d)
                          /\ t = "main" <=> nip_route_add(o, a, d)
  <2>1. CASE nip_route_add(o, a, d)
    <3>1. info' = [info EXCEPT ![o] = [dst |-> a, dev |-> d, table |-> "main"]]
      BY <2>1 DEF nip_route_add, Alloc
    <3>2. ifa' = ifa
      BY <2>1 DEF nip_route_add, cfgVars
    <3>3. ~ninet_addr_add(o, a, d)
      BY <1>2, <3>2, FreeEntry DEF ninet_addr_add
    <3> QED
      BY <2>1, <3>1, <3>3 DEF Tables
  <2>2. CASE ninet_addr_add(o, a, d)
    <3>1. info' = [info EXCEPT ![o] = [dst |-> a, dev |-> d, table |-> "local"]]
      BY <2>2 DEF ninet_addr_add, Alloc
    <3>2. ifa' # ifa
      BY <1>2, <2>2, FreeEntry DEF ninet_addr_add
    <3>3. ~nip_route_add(o, a, d)
      BY <3>2 DEF nip_route_add, cfgVars
    <3> QED
      BY <2>2, <3>1, <3>3 DEF Tables
  <2> QED
    BY <2>1, <2>2
<1>6. /\ ifa' = IF t = "local" THEN ifa \cup {o} ELSE ifa
      /\ \/ /\ ~Duplicate(t, a, d)
            /\ linked' = [linked EXCEPT ![o] = TRUE]
            /\ rt_ref' = [rt_ref EXCEPT ![o] = @ + 1]
            /\ refcnt' = [refcnt EXCEPT ![o] = IF t = "local" THEN 2 ELSE 1]
         \/ /\ t = "local"
            /\ UNCHANGED <<linked, rt_ref>>
            /\ refcnt' = [refcnt EXCEPT ![o] = 1]
  BY <1>5 DEF Tables, nip_route_add, ninet_addr_add, cfgVars, nip_fib_add
<1>7. /\ o \notin Static /\ o \notin ifa /\ ~linked[o] /\ cb[o] = "none" /\ from[o] = NONE
      /\ refcnt[o] = 0 /\ rt_ref[o] = 0 /\ Refs(o) = 0
      /\ \A x \in Obj : from[x] # o
      /\ \A c \in Cpu : slot[o][c] = NONE
      /\ \A q \in Reader : pc[q] \in {"get", "alloc", "check", "cas", "hold"} => rt[q] # o
      /\ \A q \in Reader : pc[q] \in {"check", "cas", "hold", "done"} => got[q] # o
  BY <1>2, FreeEntry
<1>8. \A x \in Obj : x # o => /\ live'[x] = live[x] /\ pcpuOn'[x] = pcpuOn[x]
                              /\ linked'[x] = linked[x] /\ rt_ref'[x] = rt_ref[x]
                              /\ refcnt'[x] = refcnt[x] /\ info'[x] = info[x]
                              /\ x \in ifa' <=> x \in ifa
  BY <1>2, <1>4, <1>5, <1>6 DEF TypeOK
<1>9. /\ live'[o] /\ pcpuOn'[o] /\ info'[o] = [dst |-> a, dev |-> d, table |-> t]
      /\ o \in ifa' <=> t = "local"
      /\ \/ linked'[o] /\ rt_ref'[o] = 1 /\ refcnt'[o] = IF t = "local" THEN 2 ELSE 1
         \/ t = "local" /\ ~linked'[o] /\ rt_ref'[o] = 0 /\ refcnt'[o] = 1
  BY <1>2, <1>4, <1>5, <1>6, <1>7 DEF TypeOK
<1>10. Counted'
  <2> SUFFICES ASSUME NEW x \in Obj PROVE refcnt'[x] = Refs(x)'
    BY DEF Counted
  <2>1. /\ Refs(x) \in Nat /\ Refs(x)' \in Nat
        /\ Refs(x)' - FibRef(x)' - AddrRef(x)' - CopyRef(o, x)' - SlotRef(NONE, x)'
                     - RouteRef(NONE, x)' - ResultRef(NONE, x)'
              = Refs(x) - FibRef(x) - AddrRef(x) - CopyRef(o, x) - SlotRef(NONE, x)
                        - RouteRef(NONE, x) - ResultRef(NONE, x)
    BY <1>3, <1>8, RefsDelta
  <2>2. /\ SlotRef(NONE, x)' = SlotRef(NONE, x) /\ RouteRef(NONE, x)' = RouteRef(NONE, x)
        /\ ResultRef(NONE, x)' = ResultRef(NONE, x)
    BY <1>3 DEF SlotRef, RouteRef, ResultRef, SlotsOf, RouteHolders, ResultHolders
  <2>3. CopyRef(o, x)' = 0 /\ CopyRef(o, x) = 0
    BY <1>3, <1>7 DEF CopyRef, CopiesOf
  <2>4. refcnt[x] = Refs(x)
    BY DEF Inv, RouteInv, Counted
  <2>5. /\ SlotRef(NONE, x) \in Int /\ RouteRef(NONE, x) \in Int /\ ResultRef(NONE, x) \in Int
        /\ FibRef(x) \in Int /\ AddrRef(x) \in Int /\ FibRef(x)' \in Int /\ AddrRef(x)' \in Int
    BY DEF SlotRef, RouteRef, ResultRef, FibRef, AddrRef
  <2>6. Refs(x)' = Refs(x) + (FibRef(x)' - FibRef(x)) + (AddrRef(x)' - AddrRef(x))
    BY <2>1, <2>2, <2>3, <2>5
  <2>7. CASE x = o
    BY <1>3, <1>7, <1>9, <2>4, <2>6, <2>7 DEF FibRef, AddrRef, FibHolds
  <2>8. CASE x # o
    BY <1>3, <1>8, <2>1, <2>4, <2>6, <2>8 DEF FibRef, AddrRef, FibHolds
  <2> QED
    BY <2>7, <2>8
<1>11. Lifecycle'
  BY <1>3, <1>7, <1>8, <1>9 DEF Inv, RouteInv, Lifecycle
<1>12. SlotsOwned'
  BY <1>3, <1>7, <1>8, <1>9 DEF Inv, RouteInv, SlotsOwned, FibHolds
<1>13. CopiesFound'
  BY <1>3, <1>7 DEF Inv, RouteInv, CopiesFound
<1>14. LookupsSafe'
  BY <1>3, <1>4, <1>7, <1>8 DEF Inv, RouteInv, LookupsSafe, Protected, TypeInv, PointersSet
<1>15. SteadySeen' /\ LocalRouteHasAddress'
  <2>1. LocalRouteHasAddress'
    BY <1>7, <1>8, <1>9 DEF Inv, RouteInv, LocalRouteHasAddress, Table, Tables
  <2>2. \A x \in Table("local") : x \in Table("local")' /\ info'[x] = info[x]
    BY <1>7, <1>8 DEF Table
  <2> QED
    BY <1>3, <2>1, <2>2 DEF Inv, RouteInv, SteadySeen
<1>16. UniqueRoute'
  <2>1. linked'[o] => ~Duplicate(t, a, d)
    BY <1>6, <1>7
  <2>2. \A x \in Obj : linked[x] /\ info[x].table = t /\ info[x].dst = a /\ linked'[o]
                        => t = "local" /\ info[x].dev # d
    BY <2>1 DEF Duplicate, Table
  <2>3. /\ info'[o].table = t /\ info'[o].dst = a /\ info'[o].dev = d
    BY <1>9
  <2>4. \A x, y \in Obj : x # o /\ y # o =>
          (/\ linked'[x] /\ linked'[y] /\ x # y
           /\ info'[x].table = info'[y].table
           /\ info'[x].dst = info'[y].dst
           => info'[x].table = "local" /\ info'[x].dev # info'[y].dev)
    BY <1>8 DEF Inv, RouteInv, UniqueRoute
  <2> QED
    BY <1>8, <2>2, <2>3, <2>4 DEF UniqueRoute
<1> QED
  BY <1>1, <1>10, <1>11, <1>12, <1>13, <1>14, <1>15, <1>16 DEF Inv, RouteInv

\* The invariant does not depend on the devices or on the history of races.
LEMMA RouteInvSame ==
  ASSUME RouteInv,
         UNCHANGED <<live, info, refcnt, rt_ref, linked, from, slot, pcpuOn, obsolete, cb,
                     gp, scan, cur, ifa, pc, tbl, key, rt, got, rcu, oom, steady>>
  PROVE  RouteInv'
<1>1. Counted'
  BY DEF RouteInv, Counted, Refs, FibHolds, CopiesOf, SlotsOf, RouteHolders, ResultHolders
<1>2. Lifecycle' /\ SlotsOwned' /\ CopiesFound'
  BY DEF RouteInv, Lifecycle, SlotsOwned, CopiesFound, FibHolds
<1>3. LookupsSafe'
  BY DEF RouteInv, LookupsSafe, Protected
<1>4. SteadySeen' /\ LocalRouteHasAddress' /\ UniqueRoute'
  BY DEF RouteInv, SteadySeen, LocalRouteHasAddress, UniqueRoute, Table
<1> QED
  BY <1>1, <1>2, <1>3, <1>4 DEF RouteInv

\* Routes are unlinked and the references of addresses dropped: nip_route_del,
\* ninet_addr_del and nip_ifdown.
LEMMA DropInv ==
  ASSUME Inv, TypeInv', NEW S \in SUBSET ifa, NEW gone \in SUBSET Obj,
         \A x \in gone : linked[x],
         \A x \in S : linked[x] => x \in gone,
         linked' = [x \in Obj |-> linked[x] /\ x \notin gone],
         steady' = [r \in Reader |-> steady[r] \ gone],
         ifa' = ifa \ S,
         refcnt' = [x \in Obj |-> IF x \in S THEN refcnt[x] - 1 ELSE refcnt[x]],
         cb' = [x \in Obj |-> IF x \in gone THEN "node"
                              ELSE IF x \in S /\ refcnt[x] = 1 THEN "dst" ELSE cb[x]],
         \A x \in Obj : gp'[x] = IF x \in gone \/ (x \in S /\ refcnt[x] = 1)
                                   THEN InRcu ELSE gp[x],
         UNCHANGED <<live, info, rt_ref, from, slot, pcpuOn, obsolete, scan, cur,
                     pc, tbl, key, rt, got, rcu, oom>>
  PROVE  Inv'
<1>1. TypeOK /\ PointersSet /\ ifa \subseteq Obj /\ S \subseteq Obj
  BY DEF Inv, TypeInv, TypeOK
<1>2. \A x \in gone : /\ linked[x] /\ cb[x] = "none" /\ refcnt[x] >= 1 /\ live[x]
                      /\ x \notin Static /\ from[x] = NONE /\ rt_ref[x] = 1 /\ pcpuOn[x]
  BY Held DEF Inv, RouteInv, Lifecycle, FibHolds
<1>3. \A x \in S : /\ refcnt[x] >= 1 /\ live[x] /\ x \notin Static /\ from[x] = NONE
                   /\ refcnt[x] \in Nat
  BY <1>1, Held DEF Inv, RouteInv, Lifecycle
<1>4. \A x \in S : refcnt[x] = 1 => ~FibHolds(x) /\ cb[x] = "none"
  <2> SUFFICES ASSUME NEW x \in S, refcnt[x] = 1 PROVE ~FibHolds(x) /\ cb[x] = "none"
    OBVIOUS
  <2>1. x \in Obj /\ refcnt[x] = Refs(x)
    BY <1>1 DEF Inv, RouteInv, Counted
  <2>2. ~FibHolds(x)
    BY <2>1, RefsPositive
  <2>3. cb[x] \in {"none", "node", "scan", "dst"}
    BY <1>1, <2>1 DEF TypeOK
  <2> QED
    BY <2>1, <2>2, <2>3 DEF Inv, RouteInv, Lifecycle, FibHolds
<1>5. \A x \in Obj : FibHolds(x)' <=> FibHolds(x)
  BY <1>2, <1>4 DEF FibHolds
<1>6. Counted'
  <2> SUFFICES ASSUME NEW x \in Obj PROVE refcnt'[x] = Refs(x)'
    BY DEF Counted
  <2>1. /\ Refs(x) \in Nat /\ Refs(x)' \in Nat
        /\ Refs(x)' = Refs(x) + (FibRef(x)' - FibRef(x)) + (AddrRef(x)' - AddrRef(x))
    BY RefsQuiet
  <2>3. FibRef(x) \in Int /\ AddrRef(x) \in Int
    BY DEF FibRef, AddrRef
  <2>5. FibRef(x)' = FibRef(x)
    BY <1>5 DEF FibRef
  <2>6. AddrRef(x)' = IF x \in S THEN AddrRef(x) - 1 ELSE AddrRef(x)
    BY DEF AddrRef
  <2>7. refcnt[x] = Refs(x) /\ refcnt'[x] = IF x \in S THEN refcnt[x] - 1 ELSE refcnt[x]
    BY DEF Inv, RouteInv, Counted
  <2> QED
    BY <2>1, <2>3, <2>5, <2>6, <2>7
<1>7. Lifecycle'
  <2> SUFFICES ASSUME NEW o \in Obj PROVE Lifecycle!(o)'
    BY DEF Lifecycle
  <2>1. CASE o \in gone
    BY <1>2, <1>3, <2>1 DEF Inv, RouteInv, Lifecycle
  <2>2. CASE o \in S \ gone
    <3>1. ~linked[o] /\ ~linked'[o] /\ o \notin ifa' /\ refcnt'[o] = refcnt[o] - 1
      BY <2>2
    <3>2. cb'[o] = IF refcnt[o] = 1 THEN "dst" ELSE cb[o]
      BY <2>2
    <3>3. Lifecycle!(o) /\ refcnt[o] >= 1 /\ refcnt[o] \in Nat /\ o \notin Static /\ from[o] = NONE
      BY <1>3, <2>2 DEF Inv, RouteInv, Lifecycle
    <3>4. CASE refcnt[o] = 1
      <4>1. cb[o] = "none"
        BY <1>4, <2>2, <3>4
      <4> QED
        BY <3>1, <3>2, <3>3, <3>4, <4>1
    <3>5. CASE refcnt[o] # 1
      BY <3>1, <3>2, <3>3, <3>5
    <3> QED
      BY <3>4, <3>5
  <2>3. CASE o \notin S \cup gone
    BY <2>3 DEF Inv, RouteInv, Lifecycle
  <2> QED
    BY <2>1, <2>2, <2>3
<1>8. SlotsOwned'
  BY <1>2, <1>4, <1>5 DEF Inv, RouteInv, SlotsOwned
<1>9. CopiesFound'
  BY DEF Inv, RouteInv, CopiesFound
<1>10. LookupsSafe'
  <2> SUFFICES ASSUME NEW r \in Reader PROVE LookupsSafe!(r)'
    BY DEF LookupsSafe
  <2>1. LookupsSafe!(r) /\ (Protected(r)' <=> Protected(r)) /\ (rcu[r] => r \in InRcu)
    BY DEF Inv, RouteInv, LookupsSafe, Protected, InRcu
  <2>2. pc[r] \in {"get", "alloc", "check", "cas", "hold"} => rt[r] \in Obj
    BY <1>1 DEF PointersSet
  <2>3. pc[r] \in {"check", "cas", "hold", "done"} => got[r] \in Obj
    BY <1>1 DEF PointersSet
  <2>4. Protected(r) => rcu[r] /\ (linked'[rt[r]] \/ (cb'[rt[r]] = "node" /\ r \in gp'[rt[r]]))
    <3>1. Protected(r) => pc[r] \in {"get", "alloc", "check", "cas", "hold"}
      BY DEF Protected
    <3> QED
      BY <1>2, <1>4, <2>1, <2>2, <3>1
  <2>5. pc[r] \in {"check", "cas"} => refcnt'[got[r]] = refcnt[got[r]]
    <3>1. pc[r] \in {"check", "cas"} => got[r] \notin ifa
      BY Unpublished
    <3> QED
      BY <2>3, <3>1
  <2>6. pc[r] = "hold" /\ cb'[got[r]] = "dst" => r \in gp'[got[r]]
    BY <1>2, <2>1, <2>3
  <2> QED
    BY <2>1, <2>4, <2>5, <2>6
<1>11. SteadySeen' /\ LocalRouteHasAddress' /\ UniqueRoute'
  <2>1. \A r \in Reader : steady'[r] \subseteq steady[r] /\ steady'[r] \cap gone = {}
    OBVIOUS
  <2>2. \A x \in Table("local") : x \notin gone => x \in Table("local")'
    BY DEF Table
  <2>3. SteadySeen'
    BY <2>1, <2>2 DEF Inv, RouteInv, SteadySeen
  <2>4. LocalRouteHasAddress' /\ UniqueRoute'
    BY DEF Inv, RouteInv, LocalRouteHasAddress, UniqueRoute, Table
  <2> QED
    BY <2>3, <2>4
<1> QED
  BY <1>6, <1>7, <1>8, <1>9, <1>10, <1>11 DEF Inv, RouteInv

\* Configuration keeps the invariant.
LEMMA ConfigInv == Inv /\ Config => Inv'
<1> SUFFICES ASSUME Inv, Config PROVE Inv'
  OBVIOUS
<1>0. TypeInv' /\ TypeOK /\ ifa \subseteq Obj
  BY TypeConfig DEF Inv, TypeInv, TypeOK
<1>1. ASSUME NEW o \in Obj, NEW a \in Addr, NEW d \in Dev,
             nip_route_add(o, a, d) \/ ninet_addr_add(o, a, d)
      PROVE  Inv'
  BY <1>1, AddInv
<1>2. ASSUME NEW o \in Obj, NEW a \in Addr, nip_route_del(a, o)
      PROVE  Inv'
  <2>1. linked[o]
    BY <1>2 DEF nip_route_del, nip_fib_locate, Table
  <2>2. /\ linked' = [x \in Obj |-> linked[x] /\ x \notin {o}]
        /\ steady' = [r \in Reader |-> steady[r] \ {o}]
        /\ cb' = [cb EXCEPT ![o] = "node"]
        /\ gp' = [gp EXCEPT ![o] = InRcu]
        /\ UNCHANGED <<live, info, refcnt, rt_ref, from, slot, pcpuOn, obsolete, scan, cur,
                       ifa, pc, tbl, key, rt, got, rcu, oom>>
    BY <1>2 DEF nip_route_del, nip_fib_del, cfgVars
  <2> DEFINE S == {}
             gone == {o}
  <2>3. /\ refcnt' = [x \in Obj |-> IF x \in S THEN refcnt[x] - 1 ELSE refcnt[x]]
        /\ cb' = [x \in Obj |-> IF x \in gone THEN "node"
                                ELSE IF x \in S /\ refcnt[x] = 1 THEN "dst" ELSE cb[x]]
        /\ \A x \in Obj : gp'[x] = IF x \in gone \/ (x \in S /\ refcnt[x] = 1)
                                     THEN InRcu ELSE gp[x]
    BY <1>0, <2>2 DEF TypeOK
  <2>4. S \in SUBSET ifa /\ gone \in SUBSET Obj /\ ifa' = ifa \ S
    BY <2>2
  <2>5. (\A x \in gone : linked[x]) /\ (\A x \in S : linked[x] => x \in gone)
    BY <2>1
  <2>6. /\ linked' = [x \in Obj |-> linked[x] /\ x \notin gone]
        /\ steady' = [r \in Reader |-> steady[r] \ gone]
    BY <2>2
  <2>7. UNCHANGED <<live, info, rt_ref, from, slot, pcpuOn, obsolete, scan, cur,
                    pc, tbl, key, rt, got, rcu, oom>>
    BY <2>2
  <2> HIDE DEF S, gone
  <2> QED
    BY <1>0, <2>3, <2>4, <2>5, <2>6, <2>7, DropInv
<1>3. ASSUME NEW S \in SUBSET ifa, NEW T \in SUBSET Obj, DropRoutes(S, T),
             UNCHANGED <<live, info, rt_ref, from, slot, pcpuOn, obsolete, scan, cur,
                         pc, tbl, key, rt, got, rcu, oom>>
      PROVE  Inv'
  <2> DEFINE gone == {o \in S \cup T : linked[o]}
  <2>1. /\ linked' = [x \in Obj |-> linked[x] /\ x \notin gone]
        /\ steady' = [r \in Reader |-> steady[r] \ gone]
        /\ ifa' = ifa \ S
        /\ refcnt' = [x \in Obj |-> IF x \in S THEN refcnt[x] - 1 ELSE refcnt[x]]
    BY <1>3 DEF DropRoutes, nip_fib_del
  <2>2. /\ cb' = [x \in Obj |-> IF x \in gone THEN "node"
                                ELSE IF x \in S /\ refcnt[x] = 1 THEN "dst" ELSE cb[x]]
        /\ \A x \in Obj : gp'[x] = IF x \in gone \/ (x \in S /\ refcnt[x] = 1)
                                     THEN InRcu ELSE gp[x]
    BY <1>3 DEF DropRoutes
  <2>3. /\ gone \in SUBSET Obj /\ (\A x \in gone : linked[x])
        /\ \A x \in S : linked[x] => x \in gone
    BY <1>0, <1>3
  <2> HIDE DEF gone
  <2> QED
    BY <1>0, <1>3, <2>1, <2>2, <2>3, DropInv
<1>4. ASSUME NEW o \in Obj, ninet_addr_del(o)
      PROVE  Inv'
  <2>1. {o} \in SUBSET ifa /\ {} \in SUBSET Obj
    BY <1>4 DEF ninet_addr_del
  <2> QED
    BY <1>3, <1>4, <2>1 DEF ninet_addr_del
<1>5. ASSUME NEW d \in Dev, nip_ifdown(d)
      PROVE  Inv'
  <2> DEFINE S == {i \in ifa : info[i].dev = d}
             T == {o \in Obj : info[o].dev = d}
  <2>1. S \in SUBSET ifa /\ T \in SUBSET Obj /\ DropRoutes(S, T)
    BY <1>5 DEF nip_ifdown
  <2> HIDE DEF S, T
  <2> QED
    BY <1>3, <1>5, <2>1 DEF nip_ifdown
<1>6. ASSUME NEW d \in Dev, NetdevUp(d)
      PROVE  Inv'
  <2>1. UNCHANGED <<live, info, refcnt, rt_ref, linked, from, slot, pcpuOn, obsolete, cb,
                    gp, scan, cur, ifa, pc, tbl, key, rt, got, rcu, oom, steady>>
    BY <1>6 DEF NetdevUp, rtVars, cbVars, rdVars
  <2> QED
    BY <1>0, <2>1, RouteInvSame DEF Inv
<1> QED
  BY <1>1, <1>2, <1>4, <1>5, <1>6 DEF Config

-----------------------------------------------------------------------------
(* Lookups keep the invariant.                                             *)

\* nip_pol_route takes nothing from anyone: it finds a linked route or the null entry.
LEMMA LocateInv ==
  ASSUME Inv, TypeInv', NEW r \in Reader, NEW t \in Tables, NEW a \in Addr,
         pc[r] \in {"idle", "next"}, Locate(r, t, a),
         UNCHANGED <<live, info, rt_ref, linked, from, slot, pcpuOn, obsolete, cb, scan,
                     cur, ifa>>
  PROVE  /\ Counted' /\ Lifecycle' /\ SlotsOwned' /\ CopiesFound' /\ LookupsSafe'
         /\ LocalRouteHasAddress' /\ UniqueRoute'
<1>0. TypeOK /\ PointersSet /\ TypeOK'
  BY DEF Inv, TypeInv
<1>1. \A q \in Reader : q # r => /\ pc'[q] = pc[q] /\ rt'[q] = rt[q] /\ got'[q] = got[q]
                                 /\ tbl'[q] = tbl[q] /\ rcu'[q] = rcu[q]
  BY <1>0 DEF Locate, Answer, Goto, TypeOK
<1>2. \A q \in Reader, x \in Obj : q # r /\ q \in gp[x] => q \in gp'[x]
  BY <1>0 DEF Locate, Leaves, TypeOK
<1>3. \/ /\ pc'[r] = "next" /\ refcnt' = refcnt
      \/ /\ pc'[r] = "done" /\ got'[r] = NullEntry
         /\ refcnt' = [refcnt EXCEPT ![NullEntry] = @ + 1]
      \/ \E o \in nip_fib_locate(t, a) :
           pc'[r] = "get" /\ rt'[r] = o /\ rcu'[r] = TRUE /\ refcnt' = refcnt
  <2>1. CASE nip_fib_locate(t, a) = {}
    <3>1. refcnt' = HoldNull(t) /\ Answer(r, t, NullEntry)
      BY <2>1 DEF Locate
    <3> QED
      BY <1>0, <3>1 DEF HoldNull, Answer, Goto, TypeOK, Tables
  <2>2. CASE nip_fib_locate(t, a) # {}
    <3>1. PICK o \in nip_fib_locate(t, a) :
            /\ rt'  = [rt EXCEPT ![r] = o]
            /\ rcu' = [rcu EXCEPT ![r] = TRUE]
            /\ Goto(r, "get")
            /\ UNCHANGED refcnt
      BY <2>2 DEF Locate
    <3> QED
      BY <1>0, <3>1 DEF Goto, TypeOK
  <2> QED
    BY <2>1, <2>2
<1>4. \A o \in nip_fib_locate(t, a) : o \in Obj /\ linked[o]
  BY DEF nip_fib_locate, Table
<1>5. Counted'
  <2> SUFFICES ASSUME NEW x \in Obj PROVE refcnt'[x] = Refs(x)'
    BY DEF Counted
  <2>1. /\ Refs(x) \in Nat /\ Refs(x)' \in Nat
        /\ Refs(x)' = Refs(x) + (FibRef(x)' - FibRef(x)) + (RouteRef(r, x)' - RouteRef(r, x))
                              + (ResultRef(r, x)' - ResultRef(r, x))
    BY <1>1, RefsReader
  <2>2. FibRef(x)' = FibRef(x) /\ FibRef(x) \in Int
    BY DEF FibRef, FibHolds
  <2>3. RouteRef(r, x) = 0 /\ RouteRef(r, x)' = 0 /\ ResultRef(r, x) = 0
    BY <1>3 DEF RouteRef, ResultRef, RouteHolders, ResultHolders
  <2>4. refcnt[x] = Refs(x) /\ NullEntry \in Obj
    BY DEF Inv, RouteInv, Counted
  <2>5. CASE pc'[r] = "done" /\ x = NullEntry
    BY <1>0, <1>3, <2>1, <2>2, <2>3, <2>4, <2>5 DEF ResultRef, ResultHolders, TypeOK
  <2>6. CASE ~(pc'[r] = "done" /\ x = NullEntry)
    <3>1. refcnt'[x] = refcnt[x]
      BY <1>0, <1>3, <2>6 DEF TypeOK
    <3>2. ResultRef(r, x)' = 0
      BY <1>3, <2>6 DEF ResultRef, ResultHolders
    <3> QED
      BY <2>1, <2>2, <2>3, <2>4, <3>1, <3>2
  <2> QED
    BY <2>5, <2>6
<1>6. \A x \in Obj : x \notin Static => refcnt'[x] = refcnt[x]
  BY <1>0, <1>3 DEF TypeOK
<1>7. Lifecycle'
  BY <1>6 DEF Inv, RouteInv, Lifecycle
<1>8. SlotsOwned'
  BY DEF Inv, RouteInv, SlotsOwned, FibHolds
<1>9. CopiesFound'
  BY <1>1 DEF Inv, RouteInv, CopiesFound
<1>10. LookupsSafe'
  <2> SUFFICES ASSUME NEW q \in Reader PROVE LookupsSafe!(q)'
    BY DEF LookupsSafe
  <2>1. CASE q # r
    <3>1. LookupsSafe!(q) /\ (Protected(q)' <=> Protected(q))
      BY <1>1, <2>1 DEF Inv, RouteInv, LookupsSafe, Protected
    <3>2. pc[q] \in {"check", "cas"} => got[q] \in Obj \ Static
      BY Unpublished
    <3>3. /\ Protected(q) => rt[q] \in Obj
          /\ pc[q] = "hold" => got[q] \in Obj
      BY <1>0 DEF PointersSet, Protected
    <3>4. pc'[r] # "hold"
      BY <1>3
    <3> QED
      BY <1>1, <1>2, <1>6, <2>1, <3>1, <3>2, <3>3, <3>4
  <2>2. CASE q = r
    <3>1. CASE pc'[r] \in {"next", "done"}
      BY <1>3, <2>2, <3>1 DEF Protected
    <3>2. CASE pc'[r] = "get"
      <4>1. PICK o \in nip_fib_locate(t, a) : rt'[r] = o /\ rcu'[r] = TRUE
        BY <1>3, <3>2
      <4>2. o \in Obj /\ linked[o] /\ o \notin Static /\ from[o] = NONE
        BY <1>4 DEF Inv, RouteInv, Lifecycle
      <4> QED
        BY <2>2, <3>2, <4>1, <4>2
    <3> QED
      BY <1>3, <3>1, <3>2
  <2> QED
    BY <2>1, <2>2
<1>11. LocalRouteHasAddress' /\ UniqueRoute'
  BY DEF Inv, RouteInv, LocalRouteHasAddress, UniqueRoute, Table
<1> QED
  BY <1>5, <1>7, <1>8, <1>9, <1>10, <1>11

\* A lookup begins, or goes on in the main table.
LEMMA BeginInv ==
  ASSUME Inv, NEW r \in Reader, NextTable(r) \/ \E a \in Addr : Begin(r, a)
  PROVE  Inv'
<1>0. TypeInv' /\ TypeOK
  BY TypeLookup DEF Inv, LookupStep, TypeInv
<1>1. CASE NextTable(r)
  <2>1. key[r] \in Addr /\ "main" \in Tables
    BY <1>0 DEF TypeOK, Tables
  <2>2. /\ pc[r] = "next" /\ Locate(r, "main", key[r])
        /\ UNCHANGED <<live, info, rt_ref, linked, from, slot, pcpuOn, obsolete, cb, scan,
                       cur, ifa>>
        /\ UNCHANGED <<key, oom, steady>>
    BY <1>1 DEF NextTable, cfgVars
  <2>3. /\ Counted' /\ Lifecycle' /\ SlotsOwned' /\ CopiesFound' /\ LookupsSafe'
        /\ LocalRouteHasAddress' /\ UniqueRoute'
    BY <1>0, <2>1, <2>2, LocateInv
  <2>4. \A q \in Reader : q # r => pc'[q] = pc[q] /\ tbl'[q] = tbl[q]
    BY <1>0, <2>2 DEF Locate, Answer, Goto, TypeOK
  <2>5. SteadySeen'
    BY <2>2, <2>4 DEF Inv, RouteInv, SteadySeen, Table
  <2> QED
    BY <1>0, <2>3, <2>5 DEF Inv, RouteInv
<1>2. ASSUME NEW a \in Addr, Begin(r, a)
      PROVE  Inv'
  <2>1. "local" \in Tables
    BY DEF Tables
  <2>2. /\ pc[r] = "idle" /\ Locate(r, "local", a)
        /\ UNCHANGED <<live, info, rt_ref, linked, from, slot, pcpuOn, obsolete, cb, scan,
                       cur, ifa>>
        /\ key' = [key EXCEPT ![r] = a]
        /\ steady' = [steady EXCEPT ![r] = {o \in Table("local") : info[o].dst = a}]
        /\ oom' = oom
    BY <1>2 DEF Begin, cfgVars
  <2>3. /\ Counted' /\ Lifecycle' /\ SlotsOwned' /\ CopiesFound' /\ LookupsSafe'
        /\ LocalRouteHasAddress' /\ UniqueRoute'
    BY <1>0, <2>1, <2>2, LocateInv
  <2>4. \A q \in Reader : q # r => /\ pc'[q] = pc[q] /\ tbl'[q] = tbl[q]
                                   /\ key'[q] = key[q] /\ steady'[q] = steady[q]
    BY <1>0, <2>2 DEF Locate, Answer, Goto, TypeOK
  <2>5. /\ key'[r] = a /\ steady'[r] = {o \in Table("local") : info[o].dst = a}
    BY <1>0, <2>2 DEF TypeOK
  <2>6. steady'[r] # {} => pc'[r] # "next" /\ tbl'[r] = "local"
    <3>1. steady'[r] # {} => nip_fib_locate("local", a) # {}
      BY <2>5 DEF nip_fib_locate
    <3> QED
      BY <1>0, <2>2, <3>1 DEF Locate, Goto, TypeOK
  <2>7. Table("local")' = Table("local") /\ info' = info
    BY <2>2 DEF Table
  <2>8. SteadySeen'
    BY <2>2, <2>4, <2>5, <2>6, <2>7 DEF Inv, RouteInv, SteadySeen
  <2> QED
    BY <1>0, <2>3, <2>8 DEF Inv, RouteInv
<1> QED
  BY <1>1, <1>2

\* nip_rt_get_pcpu_route finds a copy: the slot's reference keeps it until it is held.
LEMMA GetHitInv ==
  ASSUME Inv, NEW r \in Reader, NEW c \in Cpu, GetHit(r, c)
  PROVE  Inv'
<1> DEFINE o == rt[r]
           s == slot[o][c]
<1>0. TypeInv' /\ TypeOK /\ PointersSet
  BY TypeLookup DEF Inv, LookupStep, TypeInv
<1>1. /\ pc[r] = "get" /\ s # NONE
      /\ refcnt' = [refcnt EXCEPT ![s] = @ + 1]
      /\ Answer(r, tbl[r], s)
      /\ rcu' = [rcu EXCEPT ![r] = FALSE]
      /\ gp'  = [x \in Obj |-> gp[x] \ {r}]
      /\ UNCHANGED <<live, info, rt_ref, linked, from, slot, pcpuOn, obsolete, cb, scan,
                     cur, ifa, key, oom, steady>>
  BY DEF GetHit, cfgVars
<1>2. o \in Obj /\ s \in Obj
  BY <1>0, <1>1 DEF PointersSet, TypeOK
<1>3. cur[o] # c
  <2>1. linked[o] \/ cb[o] = "node"
    BY <1>1 DEF Inv, RouteInv, LookupsSafe, Protected
  <2>2. scan[o] = {}
    BY <1>2, <2>1 DEF Inv, RouteInv, Lifecycle, SlotsOwned
  <2>3. c # NONE
    OBVIOUS
  <2> QED
    BY <1>2, <2>2, <2>3 DEF Inv, RouteInv, SlotsOwned
<1>4. from[s] = o /\ refcnt[s] >= 1 /\ refcnt[s] \in Nat /\ s \notin Static /\ from[s] # NONE
  BY <1>1, <1>2, <1>3, Held DEF Inv, RouteInv, SlotsOwned, Lifecycle
<1>5. \A q \in Reader : q # r => /\ pc'[q] = pc[q] /\ rt'[q] = rt[q] /\ got'[q] = got[q]
                                 /\ tbl'[q] = tbl[q] /\ rcu'[q] = rcu[q]
  BY <1>0, <1>1 DEF Answer, Goto, TypeOK
<1>6. pc'[r] = "done" /\ got'[r] = s /\ tbl'[r] = tbl[r]
  BY <1>0, <1>1, <1>4 DEF Answer, Goto, TypeOK
<1>7. \A x \in Obj : refcnt'[x] = IF x = s THEN refcnt[x] + 1 ELSE refcnt[x]
  BY <1>0, <1>1, <1>2 DEF TypeOK
<1>8. Counted'
  <2> SUFFICES ASSUME NEW x \in Obj PROVE refcnt'[x] = Refs(x)'
    BY DEF Counted
  <2>1. /\ Refs(x) \in Nat /\ Refs(x)' \in Nat
        /\ Refs(x)' = Refs(x) + (FibRef(x)' - FibRef(x)) + (RouteRef(r, x)' - RouteRef(r, x))
                              + (ResultRef(r, x)' - ResultRef(r, x))
    BY <1>1, <1>5, RefsReader
  <2>2. FibRef(x)' = FibRef(x) /\ FibRef(x) \in Int
    BY <1>1 DEF FibRef, FibHolds
  <2>3. RouteRef(r, x) = 0 /\ RouteRef(r, x)' = 0 /\ ResultRef(r, x) = 0
    BY <1>1, <1>6 DEF RouteRef, ResultRef, RouteHolders, ResultHolders
  <2>4. ResultRef(r, x)' = IF x = s THEN 1 ELSE 0
    BY <1>6 DEF ResultRef, ResultHolders
  <2>5. refcnt[x] = Refs(x)
    BY DEF Inv, RouteInv, Counted
  <2> QED
    BY <1>7, <2>1, <2>2, <2>3, <2>4, <2>5
<1>9. Lifecycle'
  BY <1>1, <1>4, <1>7 DEF Inv, RouteInv, Lifecycle
<1>10. SlotsOwned'
  BY <1>1 DEF Inv, RouteInv, SlotsOwned, FibHolds
<1>11. CopiesFound'
  BY <1>1, <1>5 DEF Inv, RouteInv, CopiesFound
<1>12. LookupsSafe'
  <2> SUFFICES ASSUME NEW q \in Reader PROVE LookupsSafe!(q)'
    BY DEF LookupsSafe
  <2>1. CASE q # r
    <3>1. LookupsSafe!(q) /\ (Protected(q)' <=> Protected(q))
      BY <1>5, <2>1 DEF Inv, RouteInv, LookupsSafe, Protected
    <3>2. pc[q] \in {"check", "cas"} => got[q] \in Obj /\ got[q] # s
      BY <1>2, <1>3, Unpublished
    <3>3. /\ Protected(q) => rt[q] \in Obj
          /\ pc[q] = "hold" => got[q] \in Obj
      BY <1>0 DEF PointersSet, Protected
    <3> QED
      BY <1>1, <1>5, <1>6, <1>7, <2>1, <3>1, <3>2, <3>3
  <2>2. CASE q = r
    BY <1>1, <1>4, <1>6, <2>2 DEF Protected
  <2> QED
    BY <2>1, <2>2
<1>13. SteadySeen' /\ LocalRouteHasAddress' /\ UniqueRoute'
  BY <1>1, <1>5, <1>6 DEF Inv, RouteInv, SteadySeen, LocalRouteHasAddress, UniqueRoute, Table
<1> QED
  BY <1>0, <1>8, <1>9, <1>10, <1>11, <1>12, <1>13 DEF Inv, RouteInv

\* No copy: the route is held while the critical section still protects it.
LEMMA GetMissInv ==
  ASSUME Inv, NEW r \in Reader, NEW c \in Cpu, GetMiss(r, c)
  PROVE  Inv'
<1> DEFINE o == rt[r]
<1>0. TypeInv' /\ TypeOK /\ PointersSet
  BY TypeLookup DEF Inv, LookupStep, TypeInv
<1>1. /\ pc[r] = "get" /\ Goto(r, "alloc")
      /\ refcnt' = [refcnt EXCEPT ![o] = @ + 1]
      /\ UNCHANGED <<live, info, rt_ref, linked, from, slot, pcpuOn, obsolete, cb, scan,
                     cur, ifa, tbl, key, rt, got, oom, steady>>
  BY DEF GetMiss, cfgVars
<1>2. o \in Obj /\ refcnt[o] >= 1 /\ refcnt[o] \in Nat
  BY <1>0, <1>1, Held DEF PointersSet
<1>3. \/ r \in SoftReader /\ UNCHANGED <<rcu, gp>>
      \/ /\ r \notin SoftReader /\ rcu' = [rcu EXCEPT ![r] = FALSE]
         /\ gp' = [x \in Obj |-> gp[x] \ {r}]
  BY DEF GetMiss
<1>4. \A q \in Reader : q # r => pc'[q] = pc[q] /\ rcu'[q] = rcu[q]
  BY <1>0, <1>1, <1>3 DEF Goto, TypeOK
<1>5. \A q \in Reader, x \in Obj : q # r /\ q \in gp[x] => q \in gp'[x]
  BY <1>3
<1>6. pc'[r] = "alloc"
  BY <1>0, <1>1 DEF Goto, TypeOK
<1>7. \A x \in Obj : refcnt'[x] = IF x = o THEN refcnt[x] + 1 ELSE refcnt[x]
  BY <1>0, <1>1, <1>2 DEF TypeOK
<1>8. Counted'
  <2> SUFFICES ASSUME NEW x \in Obj PROVE refcnt'[x] = Refs(x)'
    BY DEF Counted
  <2>1. /\ Refs(x) \in Nat /\ Refs(x)' \in Nat
        /\ Refs(x)' = Refs(x) + (FibRef(x)' - FibRef(x)) + (RouteRef(r, x)' - RouteRef(r, x))
                              + (ResultRef(r, x)' - ResultRef(r, x))
    BY <1>1, <1>4, RefsReader
  <2>2. FibRef(x)' = FibRef(x) /\ FibRef(x) \in Int
    BY <1>1 DEF FibRef, FibHolds
  <2>3. RouteRef(r, x) = 0 /\ ResultRef(r, x)' = 0 /\ ResultRef(r, x) = 0
    BY <1>1, <1>6 DEF RouteRef, ResultRef, RouteHolders, ResultHolders
  <2>4. RouteRef(r, x)' = IF x = o THEN 1 ELSE 0
    BY <1>1, <1>6 DEF RouteRef, RouteHolders
  <2>5. refcnt[x] = Refs(x)
    BY DEF Inv, RouteInv, Counted
  <2> QED
    BY <1>7, <2>1, <2>2, <2>3, <2>4, <2>5
<1>9. Lifecycle'
  BY <1>1, <1>2, <1>7, Held DEF Inv, RouteInv, Lifecycle
<1>10. SlotsOwned'
  BY <1>1 DEF Inv, RouteInv, SlotsOwned, FibHolds
<1>11. CopiesFound'
  BY <1>1, <1>4 DEF Inv, RouteInv, CopiesFound
<1>12. LookupsSafe'
  <2> SUFFICES ASSUME NEW q \in Reader PROVE LookupsSafe!(q)'
    BY DEF LookupsSafe
  <2>1. CASE q # r
    <3>1. LookupsSafe!(q) /\ (Protected(q)' <=> Protected(q))
      BY <1>1, <1>4, <2>1 DEF Inv, RouteInv, LookupsSafe, Protected
    <3>2. pc[q] \in {"check", "cas"} => got[q] \in Obj /\ got[q] # o
      BY <1>1, Unpublished
    <3>3. /\ Protected(q) => rt[q] \in Obj
          /\ pc[q] = "hold" => got[q] \in Obj
      BY <1>0 DEF PointersSet, Protected
    <3> QED
      BY <1>1, <1>4, <1>5, <1>6, <1>7, <2>1, <3>1, <3>2, <3>3
  <2>2. CASE q = r
    <3>1. LookupsSafe!(r) /\ Protected(r)
      BY <1>1 DEF Inv, RouteInv, LookupsSafe, Protected
    <3> QED
      BY <1>1, <1>3, <1>6, <2>2, <3>1 DEF Protected
  <2> QED
    BY <2>1, <2>2
<1>13. SteadySeen' /\ LocalRouteHasAddress' /\ UniqueRoute'
  BY <1>1, <1>4, <1>6 DEF Inv, RouteInv, SteadySeen, LocalRouteHasAddress, UniqueRoute, Table
<1> QED
  BY <1>0, <1>8, <1>9, <1>10, <1>11, <1>12, <1>13 DEF Inv, RouteInv

\* nip_rt_pcpu_alloc: the new copy holds its route, the lookup holds the copy.
LEMMA CopyAllocInv ==
  ASSUME Inv, NEW r \in Reader, NEW o \in Obj, CopyAlloc(r, o)
  PROVE  Inv'
<1> DEFINE f == rt[r]
<1>0. TypeInv' /\ TypeOK /\ PointersSet
  BY TypeLookup DEF Inv, LookupStep, TypeInv
<1>1. /\ pc[r] = "alloc" /\ ~live[o] /\ Goto(r, "check")
      /\ live' = [live EXCEPT ![o] = TRUE]
      /\ info' = [info EXCEPT ![o] = info[f]]
      /\ from' = [from EXCEPT ![o] = f]
      /\ refcnt' = [refcnt EXCEPT ![o] = 1, ![f] = @ + 1]
      /\ got' = [got EXCEPT ![r] = o]
      /\ UNCHANGED <<rt_ref, linked, slot, pcpuOn, obsolete, cb, gp, scan, cur, ifa,
                     tbl, key, rt, rcu, oom, steady>>
  BY DEF CopyAlloc, cbVars, cfgVars
<1>2. /\ f \in Obj /\ refcnt[f] >= 1 /\ refcnt[f] \in Nat /\ live[f] /\ f # o
      /\ f \notin Static /\ from[f] = NONE
  BY <1>0, <1>1, Held DEF PointersSet, Inv, RouteInv, LookupsSafe
<1>3. /\ o \notin Static /\ o \notin ifa /\ ~linked[o] /\ cb[o] = "none" /\ from[o] = NONE
      /\ refcnt[o] = 0 /\ rt_ref[o] = 0 /\ Refs(o) = 0
      /\ \A x \in Obj : from[x] # o
      /\ \A x \in Obj, c \in Cpu : slot[x][c] = o => cur[x] = c
      /\ \A c \in Cpu : slot[o][c] = NONE
      /\ \A q \in Reader : pc[q] \in {"get", "alloc", "check", "cas", "hold"} => rt[q] # o
      /\ \A q \in Reader : pc[q] \in {"check", "cas", "hold", "done"} => got[q] # o
  BY <1>1, FreeEntry
<1>4. \A q \in Reader : q # r => pc'[q] = pc[q] /\ rt'[q] = rt[q] /\ got'[q] = got[q]
  BY <1>0, <1>1 DEF Goto, TypeOK
<1>u. UNCHANGED <<rt_ref, linked, slot, pcpuOn, obsolete, cb, gp, scan, cur, ifa, rt, rcu>>
  BY <1>1
<1>5. pc'[r] = "check" /\ got'[r] = o
  BY <1>0, <1>1 DEF Goto, TypeOK
<1>6. \A x \in Obj : x # o => /\ live'[x] = live[x] /\ from'[x] = from[x] /\ info'[x] = info[x]
                              /\ refcnt'[x] = IF x = f THEN refcnt[x] + 1 ELSE refcnt[x]
  BY <1>0, <1>1, <1>2 DEF TypeOK
<1>7. live'[o] /\ from'[o] = f /\ refcnt'[o] = 1
  BY <1>0, <1>1, <1>2 DEF TypeOK
<1>8. Counted'
  <2> SUFFICES ASSUME NEW x \in Obj PROVE refcnt'[x] = Refs(x)'
    BY DEF Counted
  <2>1. /\ Refs(x) \in Nat /\ Refs(x)' \in Nat
        /\ Refs(x)' - FibRef(x)' - AddrRef(x)' - CopyRef(o, x)' - SlotRef(NONE, x)'
                     - RouteRef(r, x)' - ResultRef(r, x)'
              = Refs(x) - FibRef(x) - AddrRef(x) - CopyRef(o, x) - SlotRef(NONE, x)
                        - RouteRef(r, x) - ResultRef(r, x)
    BY <1>4, <1>6, <1>u, RefsDelta
  <2>2. /\ FibRef(x)' = FibRef(x) /\ AddrRef(x)' = AddrRef(x)
        /\ SlotRef(NONE, x)' = SlotRef(NONE, x)
    BY <1>1 DEF FibRef, FibHolds, AddrRef, SlotRef, SlotsOf
  <2>3. RouteRef(r, x)' = RouteRef(r, x) /\ ResultRef(r, x) = 0
    BY <1>1, <1>5 DEF RouteRef, ResultRef, RouteHolders, ResultHolders
  <2>4. ResultRef(r, x)' = IF x = o THEN 1 ELSE 0
    BY <1>5 DEF ResultRef, ResultHolders
  <2>5. CopyRef(o, x) = 0 /\ CopyRef(o, x)' = IF x = f THEN 1 ELSE 0
    BY <1>1, <1>7 DEF CopyRef, CopiesOf
  <2>6. FibRef(x) \in Int /\ AddrRef(x) \in Int /\ SlotRef(NONE, x) \in Int /\ RouteRef(r, x) \in Int
    BY DEF FibRef, AddrRef, SlotRef, RouteRef
  <2>7. refcnt[x] = Refs(x)
    BY DEF Inv, RouteInv, Counted
  <2>8. Refs(x)' = Refs(x) + CopyRef(o, x)' + ResultRef(r, x)'
    BY <2>1, <2>2, <2>3, <2>4, <2>5, <2>6
  <2> QED
    BY <1>2, <1>3, <1>6, <1>7, <2>1, <2>4, <2>5, <2>7, <2>8
<1>9. Lifecycle'
  <2> SUFFICES ASSUME NEW x \in Obj PROVE Lifecycle!(x)'
    BY DEF Lifecycle
  <2>1. CASE x = o
    BY <1>1, <1>2, <1>3, <1>6, <1>7, <2>1 DEF Inv, RouteInv, Lifecycle
  <2>2. CASE x # o
    <3>1. Lifecycle!(x) /\ from[x] # o
      BY <1>3 DEF Inv, RouteInv, Lifecycle
    <3>2. from[x] # NONE => from'[from[x]] = from[from[x]]
      BY <1>0, <1>6, <3>1 DEF TypeOK
    <3> QED
      BY <1>2, <1>6, <1>u, <2>2, <3>1, <3>2
  <2> QED
    BY <2>1, <2>2
<1>10. SlotsOwned'
  BY <1>0, <1>1, <1>3, <1>6 DEF Inv, RouteInv, SlotsOwned, FibHolds, TypeOK
<1>11. CopiesFound'
  <2> SUFFICES ASSUME NEW x \in Obj PROVE CopiesFound!(x)'
    BY DEF CopiesFound
  <2>1. CASE x = o
    BY <1>5, <2>1
  <2>2. CASE x # o
    <3>1. \A q \in Reader : pc[q] \in {"check", "cas"} => pc'[q] = pc[q] /\ got'[q] = got[q]
      BY <1>1, <1>4
    <3> QED
      BY <1>1, <1>6, <2>2, <3>1 DEF Inv, RouteInv, CopiesFound
  <2> QED
    BY <2>1, <2>2
<1>12. LookupsSafe'
  <2> SUFFICES ASSUME NEW q \in Reader PROVE LookupsSafe!(q)'
    BY DEF LookupsSafe
  <2>1. CASE q # r
    <3>1. LookupsSafe!(q) /\ (Protected(q)' <=> Protected(q))
      BY <1>1, <1>4, <2>1 DEF Inv, RouteInv, LookupsSafe, Protected
    <3>2. pc[q] \in {"check", "cas"} => got[q] \in Obj /\ got[q] # f
      BY <1>1, Unpublished
    <3>3. /\ pc[q] \in {"get", "alloc", "check", "cas", "hold"} => rt[q] \in Obj
          /\ pc[q] \in {"check", "cas", "hold", "done"} => got[q] \in Obj
      BY <1>0 DEF PointersSet
    <3>4. pc[q] \in {"get", "alloc", "check", "cas", "hold"} => from'[rt[q]] = from[rt[q]]
      BY <1>3, <1>6, <3>3
    <3>5. pc[q] \in {"check", "cas", "hold", "done"} =>
            from'[got[q]] = from[got[q]] /\ live'[got[q]] = live[got[q]]
      BY <1>3, <1>6, <3>3
    <3>6. pc[q] \in {"check", "cas"} => refcnt'[got[q]] = refcnt[got[q]]
      BY <1>3, <1>6, <3>2
    <3>7. pc[q] \in {"check", "cas"} => \A w \in Reader : pc'[w] = "hold" => got'[w] # got[q]
      BY <1>4, <1>5, <3>1
    <3> QED
      BY <1>4, <1>u, <2>1, <3>1, <3>4, <3>5, <3>6, <3>7
  <2>2. CASE q = r
    <3>1. LookupsSafe!(r) /\ (Protected(r)' <=> Protected(r))
      BY <1>1, <1>5 DEF Inv, RouteInv, LookupsSafe, Protected
    <3>2. \A w \in Reader : pc'[w] = "hold" => got'[w] # o
      BY <1>3, <1>4, <1>5
    <3> QED
      BY <1>1, <1>2, <1>5, <1>6, <1>7, <2>2, <3>1, <3>2
  <2> QED
    BY <2>1, <2>2
<1>13. SteadySeen' /\ LocalRouteHasAddress' /\ UniqueRoute'
  <2>1. \A x \in Obj : linked[x] => info'[x] = info[x]
    BY <1>3, <1>6
  <2>2. Table("local")' = Table("local")
    BY <1>1, <2>1 DEF Table
  <2>3. \A x \in Table("local") : info'[x] = info[x]
    BY <2>1 DEF Table
  <2>4. LocalRouteHasAddress'
    BY <1>1, <2>2 DEF Inv, RouteInv, LocalRouteHasAddress
  <2>5. UniqueRoute'
    BY <1>1, <2>1 DEF Inv, RouteInv, UniqueRoute
  <2>6. SteadySeen'
    BY <1>1, <1>4, <1>5, <2>2, <2>3 DEF Inv, RouteInv, SteadySeen
  <2> QED
    BY <2>4, <2>5, <2>6
<1> QED
  BY <1>0, <1>8, <1>9, <1>10, <1>11, <1>12, <1>13 DEF Inv, RouteInv

\* The second critical section begins and the cache is still there.
LEMMA CheckOnInv ==
  ASSUME Inv, NEW r \in Reader, CheckOn(r)
  PROVE  Inv'
<1>0. TypeInv' /\ TypeOK /\ PointersSet
  BY TypeLookup DEF Inv, LookupStep, TypeInv
<1>1. /\ pc[r] = "check" /\ Goto(r, "cas") /\ rcu' = [rcu EXCEPT ![r] = TRUE]
      /\ UNCHANGED <<live, info, refcnt, rt_ref, linked, from, slot, pcpuOn, obsolete,
                     cb, gp, scan, cur, ifa, tbl, key, rt, got, oom, steady>>
  BY DEF CheckOn, rtVars, cbVars, cfgVars
<1>2. \A q \in Reader : q # r => pc'[q] = pc[q] /\ rcu'[q] = rcu[q]
  BY <1>0, <1>1 DEF Goto, TypeOK
<1>3. pc'[r] = "cas" /\ rcu'[r]
  BY <1>0, <1>1 DEF Goto, TypeOK
<1>4. Counted'
  <2>1. \A x \in Obj : /\ CopiesOf(x)' = CopiesOf(x) /\ SlotsOf(x)' = SlotsOf(x)
                       /\ RouteHolders(x)' = RouteHolders(x)
                       /\ ResultHolders(x)' = ResultHolders(x)
                       /\ FibHolds(x)' <=> FibHolds(x)
    BY <1>1, <1>2, <1>3 DEF CopiesOf, SlotsOf, RouteHolders, ResultHolders, FibHolds
  <2> QED
    BY <1>1, <2>1 DEF Inv, RouteInv, Counted, Refs
<1>5. Lifecycle' /\ SlotsOwned'
  BY <1>1 DEF Inv, RouteInv, Lifecycle, SlotsOwned, FibHolds
<1>6. CopiesFound'
  BY <1>1, <1>2, <1>3 DEF Inv, RouteInv, CopiesFound
<1>7. LookupsSafe'
  BY <1>1, <1>2, <1>3 DEF Inv, RouteInv, LookupsSafe, Protected
<1>8. SteadySeen' /\ LocalRouteHasAddress' /\ UniqueRoute'
  BY <1>1, <1>2, <1>3 DEF Inv, RouteInv, SteadySeen, LocalRouteHasAddress, UniqueRoute, Table
<1> QED
  BY <1>0, <1>4, <1>5, <1>6, <1>7, <1>8 DEF Inv, RouteInv

\* The unpublished copy is destroyed and the lookup goes on with entry n, which its
\* critical section keeps.
LEMMA DestroyInv ==
  ASSUME Inv, TypeInv', NEW r \in Reader, pc[r] \in {"check", "cas"}, DestroyCopy(r),
         NEW n \in Obj, n # got[r], live[n], cb[n] # "dst",
         n = rt[r] \/ from[n] = rt[r], from[n] = NONE => obsolete[n],
         \A q \in Reader : pc[q] \in {"check", "cas"} => got[q] # n,
         got' = [got EXCEPT ![r] = n], pc' = [pc EXCEPT ![r] = "hold"],
         rcu' = [rcu EXCEPT ![r] = TRUE],
         UNCHANGED <<rt_ref, linked, cb, gp, scan, cur, ifa, tbl, key, rt, oom, steady>>
  PROVE  Inv'
<1> DEFINE f == rt[r]
<1>g. PICK g : g = got[r]
  OBVIOUS
<1>0. TypeOK /\ PointersSet
  BY DEF Inv, TypeInv
<1>1. /\ \A x \in Obj : from[x] # g
      /\ \A x \in Obj, c \in Cpu : slot[x][c] = g => cur[x] = c
      /\ \A c \in Cpu : slot[g][c] = NONE
      /\ \A q \in Reader : q # r /\ pc[q] \in {"check", "cas", "hold", "done"} => got[q] # g
      /\ \A q \in Reader : pc[q] \in {"get", "alloc", "check", "cas", "hold"} => rt[q] # g
      /\ g \in Obj /\ g \notin Static /\ live[g] /\ ~linked[g]
      /\ g \notin ifa /\ cb[g] = "none"
      /\ f \in Obj /\ f # g /\ live[f]
  BY <1>g, Unpublished
<1>2. from[g] = f /\ refcnt[g] = 1 /\ rt_ref[g] = 0 /\ refcnt[f] >= 1 /\ refcnt[f] \in Nat
  BY <1>g, <1>1, Held DEF Inv, RouteInv, LookupsSafe, Lifecycle
<1>3. \A x \in Obj : x # g =>
        /\ live'[x] = live[x] /\ info'[x] = info[x] /\ from'[x] = from[x]
        /\ slot'[x] = slot[x] /\ pcpuOn'[x] = pcpuOn[x] /\ obsolete'[x] = obsolete[x]
        /\ refcnt'[x] = IF x = f THEN refcnt[x] - 1 ELSE refcnt[x]
  BY <1>g, <1>0, <1>1 DEF DestroyCopy, Scrub, TypeOK
<1>4. ~live'[g] /\ from'[g] = NONE /\ refcnt'[g] = 0 /\ (\A c \in Cpu : slot'[g][c] = NONE)
  BY <1>g, <1>0, <1>1 DEF DestroyCopy, Scrub, NoSlots, TypeOK
<1>5. \A q \in Reader : q # r => /\ pc'[q] = pc[q] /\ rt'[q] = rt[q] /\ got'[q] = got[q]
                                 /\ rcu'[q] = rcu[q]
  BY <1>0 DEF TypeOK
<1>6. pc'[r] = "hold" /\ got'[r] = n /\ rcu'[r] /\ rt'[r] = f
  BY <1>0 DEF TypeOK
<1>7. \A x \in Obj, c \in Cpu : slot'[x][c] = slot[x][c]
  BY <1>1, <1>3, <1>4
<1>8. Counted'
  <2> SUFFICES ASSUME NEW x \in Obj PROVE refcnt'[x] = Refs(x)'
    BY DEF Counted
  <2>0. /\ \A q \in Reader : q # r => pc'[q] = pc[q] /\ rt'[q] = rt[q] /\ got'[q] = got[q]
        /\ \A z \in Obj : z # g => live'[z] = live[z] /\ from'[z] = from[z]
        /\ UNCHANGED <<linked, cb, ifa, cur>>
    BY <1>3, <1>5
  <2>1. /\ Refs(x) \in Nat /\ Refs(x)' \in Nat
        /\ Refs(x)' = Refs(x) + (CopyRef(g, x)' - CopyRef(g, x))
                              + (RouteRef(r, x)' - RouteRef(r, x))
                              + (ResultRef(r, x)' - ResultRef(r, x))
    BY <1>7, <2>0, RefsCopy
  <2>4. RouteRef(r, x)' = RouteRef(r, x) /\ ResultRef(r, x)' = 0
    BY <1>6 DEF RouteRef, ResultRef, RouteHolders, ResultHolders
  <2>5. ResultRef(r, x) = IF x = g THEN 1 ELSE 0
    BY <1>g DEF ResultRef, ResultHolders
  <2>6. CopyRef(g, x)' = 0 /\ CopyRef(g, x) = IF x = f THEN 1 ELSE 0
    BY <1>1, <1>2, <1>4 DEF CopyRef, CopiesOf
  <2>7. RouteRef(r, x) \in Int
    BY DEF RouteRef
  <2>8. refcnt[x] = Refs(x)
    BY DEF Inv, RouteInv, Counted
  <2>9. Refs(x)' = Refs(x) - CopyRef(g, x) - ResultRef(r, x)
    BY <2>1, <2>4, <2>5, <2>6, <2>7
  <2> QED
    BY <1>1, <1>2, <1>3, <1>4, <2>1, <2>5, <2>6, <2>8, <2>9
<1>9. Lifecycle'
  <2> SUFFICES ASSUME NEW x \in Obj PROVE Lifecycle!(x)'
    BY DEF Lifecycle
  <2>1. CASE x = g
    BY <1>1, <1>2, <1>4, <2>1
  <2>2. CASE x # g
    <3>1. Lifecycle!(x) /\ from[x] # g
      BY <1>1 DEF Inv, RouteInv, Lifecycle
    <3>2. from[x] # NONE => from'[from[x]] = from[from[x]]
      BY <1>0, <1>3, <3>1 DEF TypeOK
    <3> QED
      BY <1>1, <1>2, <1>3, <2>2, <3>1, <3>2
  <2> QED
    BY <2>1, <2>2
<1>10. SlotsOwned'
  <2> SUFFICES ASSUME NEW x \in Obj PROVE SlotsOwned!(x)'
    BY DEF SlotsOwned
  <2>1. SlotsOwned!(x) /\ (FibHolds(x)' <=> FibHolds(x))
    BY DEF Inv, RouteInv, SlotsOwned, FibHolds
  <2>2. ASSUME NEW c \in Cpu, slot[x][c] # NONE, cur[x] # c
        PROVE  from'[slot[x][c]] = from[slot[x][c]]
    <3>1. slot[x][c] \in Obj /\ slot[x][c] # g
      BY <1>0, <1>1, <2>2 DEF TypeOK
    <3> QED
      BY <1>3, <3>1
  <2> QED
    BY <1>7, <2>1, <2>2
<1>11. CopiesFound'
  <2> SUFFICES ASSUME NEW x \in Obj, from'[x] # NONE PROVE CopiesFound!(x)!2'
    BY DEF CopiesFound
  <2>1. x # g /\ from'[x] = from[x] /\ from[x] \in Obj /\ obsolete'[x] = obsolete[x]
    BY <1>0, <1>3, <1>4 DEF TypeOK
  <2>2. \A q \in Reader : pc[q] \in {"check", "cas"} /\ got[q] = x => pc'[q] = pc[q] /\ got'[q] = got[q]
    BY <1>g, <1>5, <2>1
  <2> QED
    BY <1>7, <2>1, <2>2 DEF Inv, RouteInv, CopiesFound
<1>12. LookupsSafe'
  <2> SUFFICES ASSUME NEW q \in Reader PROVE LookupsSafe!(q)'
    BY DEF LookupsSafe
  <2>0. /\ pc[q] \in {"get", "alloc", "check", "cas", "hold"} => rt[q] \in Obj /\ rt[q] # g
        /\ pc[q] \in {"check", "cas", "hold", "done"} => got[q] \in Obj
    BY <1>0, <1>1 DEF PointersSet
  <2>1. CASE q # r
    <3>1. LookupsSafe!(q) /\ (Protected(q)' <=> Protected(q))
      BY <1>5, <2>1 DEF Inv, RouteInv, LookupsSafe, Protected
    <3>2. pc[q] \in {"check", "cas"} => got[q] # f
      BY <1>1, Unpublished
    <3>3. pc[q] \in {"get", "alloc", "check", "cas", "hold"} => from'[rt[q]] = from[rt[q]]
      BY <1>3, <2>0
    <3>4. pc[q] \in {"check", "cas", "hold", "done"} =>
            /\ from'[got[q]] = from[got[q]] /\ live'[got[q]] = live[got[q]]
            /\ obsolete'[got[q]] = obsolete[got[q]]
      BY <1>1, <1>3, <2>0, <2>1
    <3>5. pc[q] \in {"check", "cas"} => refcnt'[got[q]] = refcnt[got[q]]
      BY <1>1, <1>3, <2>0, <2>1, <3>2
    <3>6. pc[q] \in {"check", "cas"} => \A w \in Reader : pc'[w] = "hold" => got'[w] # got[q]
      BY <1>5, <1>6, <3>1
    <3> QED
      BY <1>5, <2>1, <3>1, <3>3, <3>4, <3>5, <3>6
  <2>2. CASE q = r
    <3>1. LookupsSafe!(r) /\ (Protected(r)' => Protected(r))
      BY <1>6 DEF Inv, RouteInv, LookupsSafe, Protected
    <3>2. live'[n] /\ from'[n] = from[n] /\ obsolete'[n] = obsolete[n] /\ from'[f] = from[f]
      BY <1>g, <1>1, <1>3
    <3> QED
      BY <1>1, <1>6, <2>2, <3>1, <3>2
  <2> QED
    BY <2>1, <2>2
<1>13. SteadySeen' /\ LocalRouteHasAddress' /\ UniqueRoute'
  <2>1. \A x \in Obj : linked[x] => info'[x] = info[x]
    BY <1>1, <1>3
  <2>2. Table("local")' = Table("local")
    BY <2>1 DEF Table
  <2>3. \A x \in Table("local") : info'[x] = info[x]
    BY <2>1 DEF Table
  <2>4. LocalRouteHasAddress'
    BY <2>2 DEF Inv, RouteInv, LocalRouteHasAddress
  <2>5. UniqueRoute'
    BY <2>1 DEF Inv, RouteInv, UniqueRoute
  <2>6. SteadySeen'
    BY <1>5, <1>6, <2>2, <2>3 DEF Inv, RouteInv, SteadySeen
  <2> QED
    BY <2>4, <2>5, <2>6
<1> QED
  BY <1>8, <1>9, <1>10, <1>11, <1>12, <1>13 DEF Inv, RouteInv

\* A slot that nip_rt_free_pcpu has still to visit.
LEMMA SlotNotVisited ==
  ASSUME Inv, NEW o \in Obj, o \notin Static, NEW c \in Cpu, NotVisited(o, c)
  PROVE  cur[o] # c /\ FibHolds(o) /\ (cb[o] = "scan" => c \in scan[o])
<1>1. CASE rt_ref[o] = 1
  <2>1. linked[o] \/ cb[o] = "node"
    BY <1>1 DEF Inv, RouteInv, Lifecycle
  <2>2. cb[o] # "scan" /\ scan[o] = {} /\ cur[o] = NONE
    BY <2>1 DEF Inv, RouteInv, Lifecycle, SlotsOwned
  <2>3. c # NONE
    OBVIOUS
  <2> QED
    BY <2>1, <2>2, <2>3 DEF FibHolds
<1>2. CASE c \in scan[o] /\ cur[o] # c
  BY <1>2 DEF Inv, RouteInv, SlotsOwned, FibHolds
<1> QED
  BY <1>1, <1>2 DEF NotVisited

\* The cache is gone, or another context was faster.
LEMMA CopyLostInv ==
  ASSUME Inv, NEW r \in Reader, CheckOff(r) \/ \E c \in Cpu : CasLost(r, c)
  PROVE  Inv'
<1> DEFINE f == rt[r]
<1>0. TypeInv' /\ TypeOK /\ PointersSet
  BY TypeLookup DEF Inv, LookupStep, TypeInv
<1>1. CASE CheckOff(r)
  <2>1. /\ pc[r] = "check" /\ ~pcpuOn[f] /\ DestroyCopy(r)
        /\ got' = [got EXCEPT ![r] = f] /\ pc' = [pc EXCEPT ![r] = "hold"]
        /\ rcu' = [rcu EXCEPT ![r] = TRUE]
        /\ UNCHANGED <<rt_ref, linked, cb, gp, scan, cur, ifa, tbl, key, rt, oom, steady>>
    BY <1>1 DEF CheckOff, Goto, cbVars, cfgVars
  <2>2. /\ f \in Obj /\ f # got[r] /\ live[f] /\ refcnt[f] >= 1 /\ f \notin Static
        /\ from[f] = NONE
    BY <2>1, Unpublished, Held DEF Inv, RouteInv, LookupsSafe
  <2>3. cb[f] # "dst" /\ obsolete[f]
    BY <2>1, <2>2 DEF Inv, RouteInv, Lifecycle
  <2>4. \A q \in Reader : pc[q] \in {"check", "cas"} => got[q] # f
    BY <2>1, Unpublished
  <2> HIDE DEF f
  <2>5. f = rt[r]
    BY DEF f
  <2> QED
    BY <1>0, <2>1, <2>2, <2>3, <2>4, <2>5, DestroyInv
<1>2. ASSUME NEW c \in Cpu, CasLost(r, c)
      PROVE  Inv'
  <2> DEFINE n == slot[f][c]
  <2>1. /\ pc[r] = "cas" /\ NotVisited(f, c) /\ n # NONE /\ DestroyCopy(r)
        /\ got' = [got EXCEPT ![r] = n] /\ pc' = [pc EXCEPT ![r] = "hold"]
        /\ UNCHANGED <<rt_ref, linked, cb, gp, scan, cur, ifa, tbl, key, rt, oom, steady>>
    BY <1>2 DEF CasLost, Goto, cbVars, cfgVars
  <2>2. rcu' = rcu /\ rcu[r]
    BY <1>2, <2>1 DEF CasLost, Inv, RouteInv, LookupsSafe
  <2>3. rcu' = [rcu EXCEPT ![r] = TRUE]
    BY <1>0, <2>2 DEF TypeOK
  <2>4. f \in Obj /\ f \notin Static /\ f # NONE
    BY <1>0, <2>1 DEF PointersSet, Inv, RouteInv, LookupsSafe
  <2>5. cur[f] # c
    BY <2>1, <2>4, SlotNotVisited
  <2>6. n \in Obj /\ from[n] = f /\ refcnt[n] >= 1
    BY <1>0, <2>1, <2>4, <2>5, Held DEF TypeOK, Inv, RouteInv, SlotsOwned
  <2>7. live[n] /\ cb[n] # "dst"
    BY <2>6, Held DEF Inv, RouteInv, Lifecycle
  <2>8. \A q \in Reader : pc[q] \in {"check", "cas"} => got[q] # n
    BY <2>4, <2>5, Unpublished
  <2>9. n # got[r] /\ from[n] # NONE
    BY <2>1, <2>4, <2>6, <2>8
  <2> HIDE DEF n
  <2> QED
    BY <1>0, <2>1, <2>3, <2>6, <2>7, <2>8, <2>9, DestroyInv
<1> QED
  BY <1>1, <1>2

\* A lookup, or the owner of its result, drops its reference on entry o and perhaps
\* gains one on entry n: the end of nip_pol_route, nip_route_output_flags and the put.
LEMMA ReleaseInv ==
  ASSUME Inv, TypeInv', NEW r \in Reader, NEW o \in Obj, NEW n,
         \/ pc[r] \in {"alloc", "hold"} /\ o = rt[r]
         \/ pc[r] = "done" /\ o = got[r],
         pc'[r] \in {"idle", "next", "done"},
         pc'[r] = "done" => n \in Obj /\ got'[r] = n,
         n \in Static \/ (n = got[r] /\ pc[r] = "hold" /\ refcnt[n] >= 1),
         \A q \in Reader : q # r => /\ pc'[q] = pc[q] /\ rt'[q] = rt[q] /\ got'[q] = got[q]
                                    /\ rcu'[q] = rcu[q],
         \A x \in Obj : refcnt'[x] = refcnt[x] + (IF pc'[r] = "done" /\ x = n THEN 1 ELSE 0)
                                               - (IF x = o THEN 1 ELSE 0),
         \A x \in Obj : cb'[x] = IF x = o /\ refcnt'[o] = 0 THEN "dst" ELSE cb[x],
         \A x \in Obj, q \in Reader :
            q # r /\ (IF x = o /\ refcnt'[o] = 0 THEN rcu[q] ELSE q \in gp[x]) => q \in gp'[x],
         UNCHANGED <<live, info, rt_ref, linked, from, slot, pcpuOn, obsolete, scan, cur, ifa>>
  PROVE  /\ Counted' /\ Lifecycle' /\ SlotsOwned' /\ CopiesFound' /\ LookupsSafe'
         /\ LocalRouteHasAddress' /\ UniqueRoute'
<1>0. TypeOK /\ PointersSet
  BY DEF Inv, TypeInv
<1>1. refcnt[o] >= 1 /\ refcnt[o] \in Nat /\ live[o] /\ cb[o] # "dst"
  BY Held DEF Inv, RouteInv, Lifecycle
<1>2. refcnt'[o] = 0 => refcnt[o] = 1
  BY <1>1
<1>3. refcnt'[o] = 0 => ~FibHolds(o) /\ o \notin Static
  <2>1. refcnt[o] = Refs(o)
    BY DEF Inv, RouteInv, Counted
  <2>2. r \in RouteHolders(o) \/ r \in ResultHolders(o)
    BY DEF RouteHolders, ResultHolders
  <2> QED
    BY <1>2, <2>1, <2>2, RefsPositive
<1>4. \A x \in Obj : FibHolds(x)' <=> FibHolds(x)
  BY <1>3 DEF FibHolds
<1>5. Counted'
  <2> SUFFICES ASSUME NEW x \in Obj PROVE refcnt'[x] = Refs(x)'
    BY DEF Counted
  <2>1. /\ Refs(x) \in Nat /\ Refs(x)' \in Nat
        /\ Refs(x)' = Refs(x) + (FibRef(x)' - FibRef(x)) + (RouteRef(r, x)' - RouteRef(r, x))
                              + (ResultRef(r, x)' - ResultRef(r, x))
    BY RefsReader
  <2>2. FibRef(x)' = FibRef(x) /\ FibRef(x) \in Int
    BY <1>4 DEF FibRef
  <2>3. RouteRef(r, x)' = 0 /\ ResultRef(r, x)' = IF pc'[r] = "done" /\ x = n THEN 1 ELSE 0
    BY DEF RouteRef, ResultRef, RouteHolders, ResultHolders
  <2>4. RouteRef(r, x) + ResultRef(r, x) = IF x = o THEN 1 ELSE 0
    BY DEF RouteRef, ResultRef, RouteHolders, ResultHolders
  <2>5. refcnt[x] = Refs(x) /\ RouteRef(r, x) \in Int /\ ResultRef(r, x) \in Int
    BY DEF Inv, RouteInv, Counted, RouteRef, ResultRef
  <2>6. Refs(x)' = Refs(x) + ResultRef(r, x)' - (RouteRef(r, x) + ResultRef(r, x))
    BY <2>1, <2>2, <2>3, <2>5
  <2> QED
    BY <2>1, <2>3, <2>4, <2>5, <2>6
<1>6. \A x \in Obj : cb[x] = "dst" => refcnt'[x] = refcnt[x]
  <2> SUFFICES ASSUME NEW x \in Obj, cb[x] = "dst" PROVE refcnt'[x] = refcnt[x]
    OBVIOUS
  <2>1. x # o /\ x \notin Static /\ refcnt[x] = 0
    BY <1>1 DEF Inv, RouteInv, Lifecycle
  <2> QED
    BY <2>1
<1>7. \A x \in Obj : ~live[x] => refcnt'[x] = refcnt[x]
  <2> SUFFICES ASSUME NEW x \in Obj, ~live[x] PROVE refcnt'[x] = refcnt[x]
    OBVIOUS
  <2>1. x # o /\ x \notin Static /\ refcnt[x] = 0
    BY <1>1 DEF Inv, RouteInv, Lifecycle
  <2> QED
    BY <2>1
<1>8. Lifecycle'
  <2> SUFFICES ASSUME NEW x \in Obj PROVE Lifecycle!(x)'
    BY DEF Lifecycle
  <2>1. Lifecycle!(x)
    BY DEF Inv, RouteInv, Lifecycle
  <2>2. CASE x = o /\ refcnt'[o] = 0
    <3>1. cb[x] = "none" /\ ~linked[x] /\ cb'[x] = "dst"
      <4>1. cb[x] \in {"none", "node", "scan", "dst"}
        BY <1>0 DEF TypeOK
      <4> QED
        BY <1>1, <1>3, <2>2, <4>1 DEF FibHolds
    <3> QED
      BY <1>1, <1>3, <2>1, <2>2, <3>1
  <2>3. CASE ~(x = o /\ refcnt'[o] = 0)
    <3>1. cb'[x] = cb[x]
      BY <2>3
    <3> QED
      BY <1>6, <1>7, <2>1, <3>1
  <2> QED
    BY <2>2, <2>3
<1>9. SlotsOwned'
  <2>1. \A x \in Obj : cb'[x] = "scan" <=> cb[x] = "scan"
    BY <1>3 DEF FibHolds
  <2> QED
    BY <1>4, <2>1 DEF Inv, RouteInv, SlotsOwned
<1>10. CopiesFound'
  <2>1. \A q \in Reader : pc[q] \in {"check", "cas"} => pc'[q] = pc[q] /\ got'[q] = got[q]
    OBVIOUS
  <2> QED
    BY <2>1 DEF Inv, RouteInv, CopiesFound
<1>11. LookupsSafe'
  <2> SUFFICES ASSUME NEW q \in Reader PROVE LookupsSafe!(q)'
    BY DEF LookupsSafe
  <2>1. CASE q # r
    <3>1. LookupsSafe!(q) /\ (Protected(q)' <=> Protected(q))
      BY <2>1 DEF Inv, RouteInv, LookupsSafe, Protected
    <3>2. /\ pc[q] \in {"get", "alloc", "check", "cas", "hold"} => rt[q] \in Obj
          /\ pc[q] \in {"check", "cas", "hold", "done"} => got[q] \in Obj
      BY <1>0 DEF PointersSet
    <3>3. pc[q] \in {"check", "cas"} => refcnt'[got[q]] = refcnt[got[q]]
      <4>1. pc[q] \in {"check", "cas"} => got[q] # o
        BY <2>1, Unpublished
      <4>2. pc[q] \in {"check", "cas"} => got[q] # n
        BY <2>1, Unpublished
      <4>3. refcnt[got[q]] + 0 - 0 = refcnt[got[q]] \/ got[q] \notin Obj
        BY <1>0 DEF TypeOK
      <4> QED
        BY <3>2, <4>1, <4>2, <4>3
    <3>4. pc[q] \in {"check", "cas"} => \A w \in Reader : pc'[w] = "hold" => got'[w] # got[q]
      BY <3>1
    <3>5. Protected(q) => rt[q] \in Obj /\ FibHolds(rt[q])
      BY <3>1, <3>2 DEF Protected, FibHolds
    <3>6. Protected(q) => linked[rt[q]] \/ (cb'[rt[q]] = "node" /\ q \in gp'[rt[q]])
      BY <1>3, <2>1, <3>1, <3>5
    <3>7. pc[q] = "hold" => (cb'[got[q]] = "dst" => q \in gp'[got[q]])
      BY <2>1, <3>1, <3>2
    <3> QED
      BY <2>1, <3>1, <3>3, <3>4, <3>6, <3>7
  <2>2. CASE q = r
    BY <2>2 DEF Inv, RouteInv, LookupsSafe, Protected
  <2> QED
    BY <2>1, <2>2
<1>12. LocalRouteHasAddress' /\ UniqueRoute'
  BY DEF Inv, RouteInv, LocalRouteHasAddress, UniqueRoute, Table
<1> QED
  BY <1>5, <1>8, <1>9, <1>10, <1>11, <1>12

\* SteadySeen through a step of reader r that leaves the tables alone.
LEMMA SteadyStep ==
  ASSUME Inv, NEW r \in Reader, UNCHANGED <<linked, info>>,
         \A q \in Reader : q # r => /\ pc'[q] = pc[q] /\ tbl'[q] = tbl[q] /\ key'[q] = key[q]
                                    /\ oom'[q] = oom[q] /\ steady'[q] = steady[q],
         \/ steady'[r] = {}
         \/ /\ steady'[r] = steady[r] /\ key'[r] = key[r] /\ pc[r] # "idle"
            /\ oom[r] => oom'[r]
            /\ oom'[r] \/ (pc'[r] # "next" /\ tbl'[r] = tbl[r])
  PROVE  SteadySeen'
<1>1. Table("local")' = Table("local")
  BY DEF Table
<1>2. ASSUME NEW q \in Reader PROVE SteadySeen!(q)'
  <2>1. SteadySeen!(q)
    BY DEF Inv, RouteInv, SteadySeen
  <2>2. CASE q # r
    BY <1>1, <2>1, <2>2
  <2>3. CASE q = r
    BY <1>1, <2>1, <2>3
  <2> QED
    BY <2>2, <2>3
<1> QED
  BY <1>2 DEF SteadySeen

\* No memory for the copy: the route is released, the null entry is the answer.
LEMMA CopyNoMemInv ==
  ASSUME Inv, NEW r \in Reader, CopyNoMem(r)
  PROVE  Inv'
<1>0. TypeInv' /\ TypeOK /\ PointersSet
  BY TypeLookup DEF Inv, LookupStep, TypeInv
<1>1. PICK o : o = rt[r]
  OBVIOUS
<1> DEFINE held == HoldNull(tbl[r])
<1>2. /\ pc[r] = "alloc" /\ oom' = [oom EXCEPT ![r] = TRUE]
      /\ refcnt' = [held EXCEPT ![o] = @ - 1]
      /\ cb' = [cb EXCEPT ![o] = IF held[o] = 1 THEN "dst" ELSE @]
      /\ gp' = [x \in Obj |-> (IF x = o /\ held[o] = 1 THEN InRcu ELSE gp[x])
                                 \ Leaves(r, tbl[r], NullEntry)]
      /\ rcu' = [rcu EXCEPT ![r] = r \notin Leaves(r, tbl[r], NullEntry)]
      /\ Answer(r, tbl[r], NullEntry)
      /\ UNCHANGED <<live, info, rt_ref, linked, from, slot, pcpuOn, obsolete, scan, cur,
                     ifa, key, steady>>
  BY <1>1 DEF CopyNoMem, ReleaseAndAnswer, cfgVars
<1>3. o \in Obj /\ o \notin Static /\ tbl[r] \in Tables
  BY <1>0, <1>1, <1>2 DEF PointersSet, Inv, RouteInv, LookupsSafe
<1>4. \A q \in Reader : q # r => /\ pc'[q] = pc[q] /\ rt'[q] = rt[q] /\ got'[q] = got[q]
                                 /\ rcu'[q] = rcu[q] /\ tbl'[q] = tbl[q] /\ oom'[q] = oom[q]
  BY <1>0, <1>2 DEF Answer, Goto, TypeOK
<1>5. /\ pc'[r] \in {"next", "done"} /\ (pc'[r] = "done" <=> tbl[r] = "main")
      /\ pc'[r] = "done" => got'[r] = NullEntry
      /\ oom'[r]
  BY <1>0, <1>2, <1>3 DEF Answer, Goto, TypeOK, Tables
<1>6. held \in [Obj -> Int] /\ held[o] = refcnt[o]
  BY <1>0, <1>3 DEF HoldNull, TypeOK
<1>7. \A x \in Obj : held[x] = refcnt[x] + IF pc'[r] = "done" /\ x = NullEntry THEN 1 ELSE 0
  BY <1>0, <1>5 DEF HoldNull, TypeOK
<1>8. \A x \in Obj : refcnt'[x] = refcnt[x] + (IF pc'[r] = "done" /\ x = NullEntry THEN 1 ELSE 0)
                                            - (IF x = o THEN 1 ELSE 0)
  <2> HIDE DEF held
  <2>1. \A x \in Obj : refcnt'[x] = held[x] - (IF x = o THEN 1 ELSE 0)
    BY <1>2, <1>3, <1>6
  <2>2. \A x \in Obj : refcnt[x] \in Int
    BY <1>0 DEF TypeOK
  <2> QED
    BY <1>7, <2>1, <2>2
<1>9. refcnt'[o] = 0 <=> held[o] = 1
  <2> HIDE DEF held
  <2>1. refcnt'[o] = held[o] - 1 /\ held[o] \in Int
    BY <1>2, <1>3, <1>6
  <2> QED
    BY <2>1
<1> HIDE DEF held
<1>10. \A x \in Obj : cb'[x] = IF x = o /\ refcnt'[o] = 0 THEN "dst" ELSE cb[x]
  BY <1>0, <1>2, <1>3, <1>9 DEF TypeOK
<1>11. \A x \in Obj, q \in Reader :
         q # r /\ (IF x = o /\ refcnt'[o] = 0 THEN rcu[q] ELSE q \in gp[x]) => q \in gp'[x]
  BY <1>2, <1>9 DEF Leaves, InRcu
<1>12. /\ Counted' /\ Lifecycle' /\ SlotsOwned' /\ CopiesFound' /\ LookupsSafe'
       /\ LocalRouteHasAddress' /\ UniqueRoute'
  <2>1. UNCHANGED <<live, info, rt_ref, linked, from, slot, pcpuOn, obsolete, scan, cur, ifa>>
    BY <1>2
  <2>2. \/ pc[r] \in {"alloc", "hold"} /\ o = rt[r]
        \/ pc[r] = "done" /\ o = got[r]
    BY <1>1, <1>2
  <2>3. pc'[r] \in {"idle", "next", "done"}
    BY <1>5
  <2>4. pc'[r] = "done" => NullEntry \in Obj /\ got'[r] = NullEntry
    BY <1>5
  <2>5. NullEntry \in Static \/ (NullEntry = got[r] /\ pc[r] = "hold" /\ refcnt[NullEntry] >= 1)
    BY <1>1
  <2>6. \A q \in Reader : q # r => /\ pc'[q] = pc[q] /\ rt'[q] = rt[q] /\ got'[q] = got[q]
                                   /\ rcu'[q] = rcu[q]
    BY <1>4
  <2>7. o \in Obj /\ TypeInv'
    BY <1>0, <1>3
  <2> QED
    BY <1>8, <1>10, <1>11, <2>1, <2>2, <2>3, <2>4, <2>5, <2>6, <2>7, ReleaseInv
<1>13. SteadySeen'
  BY <1>2, <1>4, <1>5, SteadyStep
<1> QED
  BY <1>0, <1>12, <1>13 DEF Inv, RouteInv

\* The entry is held, the route is released and the entry is the answer.
LEMMA HoldResultInv ==
  ASSUME Inv, NEW r \in Reader, HoldResult(r)
  PROVE  Inv'
<1>0. TypeInv' /\ TypeOK /\ PointersSet
  BY TypeLookup DEF Inv, LookupStep, TypeInv
<1>1. PICK o, n : o = rt[r] /\ n = got[r]
  OBVIOUS
<1> DEFINE held == [refcnt EXCEPT ![n] = @ + 1]
<1>2. /\ pc[r] = "hold" /\ refcnt[n] # 0
      /\ refcnt' = [held EXCEPT ![o] = @ - 1]
      /\ cb' = [cb EXCEPT ![o] = IF held[o] = 1 THEN "dst" ELSE @]
      /\ gp' = [x \in Obj |-> (IF x = o /\ held[o] = 1 THEN InRcu ELSE gp[x])
                                 \ Leaves(r, tbl[r], n)]
      /\ rcu' = [rcu EXCEPT ![r] = r \notin Leaves(r, tbl[r], n)]
      /\ Answer(r, tbl[r], n)
      /\ UNCHANGED <<live, info, rt_ref, linked, from, slot, pcpuOn, obsolete, scan, cur,
                     ifa, key, oom, steady>>
  BY <1>1 DEF HoldResult, ReleaseAndAnswer, cfgVars
<1>3. o \in Obj /\ o \notin Static /\ n \in Obj /\ n \notin Static
  <2>1. o \in Obj /\ n \in Obj /\ o \notin Static /\ (n = o \/ from[n] = o)
    BY <1>0, <1>1, <1>2 DEF PointersSet, Inv, RouteInv, LookupsSafe
  <2> QED
    BY <2>1 DEF Inv, RouteInv, Lifecycle
<1>4. refcnt[n] >= 1
  BY <1>2, <1>3, Held
<1>5. \A q \in Reader : q # r => /\ pc'[q] = pc[q] /\ rt'[q] = rt[q] /\ got'[q] = got[q]
                                 /\ rcu'[q] = rcu[q] /\ tbl'[q] = tbl[q]
  BY <1>0, <1>2 DEF Answer, Goto, TypeOK
<1>6. pc'[r] = "done" /\ got'[r] = n /\ tbl'[r] = tbl[r]
  BY <1>0, <1>2, <1>3 DEF Answer, Goto, TypeOK
<1>7. held \in [Obj -> Int] /\ \A x \in Obj : held[x] = refcnt[x] + IF x = n THEN 1 ELSE 0
  BY <1>0, <1>3 DEF TypeOK
<1> HIDE DEF held
<1>8. \A x \in Obj : refcnt'[x] = refcnt[x] + (IF pc'[r] = "done" /\ x = n THEN 1 ELSE 0)
                                            - (IF x = o THEN 1 ELSE 0)
  <2>1. \A x \in Obj : refcnt'[x] = held[x] - (IF x = o THEN 1 ELSE 0)
    BY <1>2, <1>3, <1>7
  <2>2. \A x \in Obj : refcnt[x] \in Int
    BY <1>0 DEF TypeOK
  <2> QED
    BY <1>6, <1>7, <2>1, <2>2
<1>9. refcnt'[o] = 0 <=> held[o] = 1
  <2>1. refcnt'[o] = held[o] - 1 /\ held[o] \in Int
    BY <1>2, <1>3, <1>7
  <2> QED
    BY <2>1
<1>10. \A x \in Obj : cb'[x] = IF x = o /\ refcnt'[o] = 0 THEN "dst" ELSE cb[x]
  BY <1>0, <1>2, <1>3, <1>9 DEF TypeOK
<1>11. \A x \in Obj, q \in Reader :
         q # r /\ (IF x = o /\ refcnt'[o] = 0 THEN rcu[q] ELSE q \in gp[x]) => q \in gp'[x]
  BY <1>2, <1>9 DEF Leaves, InRcu
<1>12. /\ Counted' /\ Lifecycle' /\ SlotsOwned' /\ CopiesFound' /\ LookupsSafe'
       /\ LocalRouteHasAddress' /\ UniqueRoute'
  <2>1. UNCHANGED <<live, info, rt_ref, linked, from, slot, pcpuOn, obsolete, scan, cur, ifa>>
    BY <1>2
  <2>2. \/ pc[r] \in {"alloc", "hold"} /\ o = rt[r]
        \/ pc[r] = "done" /\ o = got[r]
    BY <1>1, <1>2
  <2>3. pc'[r] \in {"idle", "next", "done"}
    BY <1>3, <1>6
  <2>4. pc'[r] = "done" => n \in Obj /\ got'[r] = n
    BY <1>3, <1>6
  <2>5. n \in Static \/ (n = got[r] /\ pc[r] = "hold" /\ refcnt[n] >= 1)
    BY <1>1, <1>2, <1>4
  <2>6. \A q \in Reader : q # r => /\ pc'[q] = pc[q] /\ rt'[q] = rt[q] /\ got'[q] = got[q]
                                   /\ rcu'[q] = rcu[q]
    BY <1>5
  <2>7. o \in Obj /\ TypeInv'
    BY <1>0, <1>3
  <2> QED
    BY <1>8, <1>10, <1>11, <2>1, <2>2, <2>3, <2>4, <2>5, <2>6, <2>7, ReleaseInv
<1>13. SteadySeen'
  BY <1>2, <1>5, <1>6, SteadyStep
<1> QED
  BY <1>0, <1>12, <1>13 DEF Inv, RouteInv

\* The result is exchanged for the broadcast entry, or released.
LEMMA ResultInv ==
  ASSUME Inv, NEW r \in Reader, nip_route_output_flags(r) \/ Put(r)
  PROVE  Inv'
<1>0. TypeInv' /\ TypeOK /\ PointersSet
  BY TypeLookup DEF Inv, LookupStep, TypeInv
<1>1. PICK o : o = got[r]
  OBVIOUS
<1>2. pc[r] = "done" /\ o \in Obj
  BY <1>0, <1>1 DEF nip_route_output_flags, Put, PointersSet
<1>3. UNCHANGED <<live, info, rt_ref, linked, from, slot, pcpuOn, obsolete, scan, cur, ifa>>
  BY DEF nip_route_output_flags, Put, cfgVars
<1>4. /\ refcnt'[o] = 0 <=> refcnt[o] = 1
      /\ cb' = IF refcnt[o] = 1 THEN [cb EXCEPT ![o] = "dst"] ELSE cb
      /\ gp' = IF refcnt[o] = 1 THEN [gp EXCEPT ![o] = InRcu] ELSE gp
      /\ rcu' = rcu
  <2>1. CASE nip_route_output_flags(r)
    BY <1>0, <1>1, <1>2, <2>1 DEF nip_route_output_flags, TypeOK
  <2>2. CASE Put(r)
    BY <1>0, <1>1, <1>2, <2>2 DEF Put, dst_release, TypeOK
  <2> QED
    BY <2>1, <2>2
<1>5. \A x \in Obj : cb'[x] = IF x = o /\ refcnt'[o] = 0 THEN "dst" ELSE cb[x]
  BY <1>0, <1>2, <1>4 DEF TypeOK
<1>6. \A x \in Obj, q \in Reader :
        q # r /\ (IF x = o /\ refcnt'[o] = 0 THEN rcu[q] ELSE q \in gp[x]) => q \in gp'[x]
  BY <1>0, <1>2, <1>4 DEF InRcu, TypeOK
<1>7. \A q \in Reader : q # r => /\ pc'[q] = pc[q] /\ rt'[q] = rt[q] /\ got'[q] = got[q]
                                 /\ rcu'[q] = rcu[q] /\ tbl'[q] = tbl[q] /\ key'[q] = key[q]
                                 /\ oom'[q] = oom[q] /\ steady'[q] = steady[q]
  BY <1>0, <1>4 DEF nip_route_output_flags, Put, Goto, TypeOK
<1>8. /\ pc'[r] \in {"idle", "next", "done"}
      /\ pc'[r] = "done" => BcastEntry \in Obj /\ got'[r] = BcastEntry
  BY <1>0 DEF nip_route_output_flags, Put, Goto, TypeOK
<1>9. \A x \in Obj : refcnt'[x] = refcnt[x] + (IF pc'[r] = "done" /\ x = BcastEntry THEN 1 ELSE 0)
                                            - (IF x = o THEN 1 ELSE 0)
  <2>1. CASE nip_route_output_flags(r)
    <3>1. /\ refcnt' = [refcnt EXCEPT ![o] = @ - 1, ![BcastEntry] = @ + 1]
          /\ pc'[r] = "done" /\ o # BcastEntry
      BY <1>1, <1>2, <2>1 DEF nip_route_output_flags
    <3> SUFFICES ASSUME NEW x \in Obj
                 PROVE  refcnt'[x] = refcnt[x] + (IF x = BcastEntry THEN 1 ELSE 0)
                                               - (IF x = o THEN 1 ELSE 0)
      BY <3>1
    <3>2. refcnt[x] \in Int /\ refcnt \in [Obj -> Int]
      BY <1>0 DEF TypeOK
    <3>3. CASE x = o
      BY <1>2, <3>1, <3>2, <3>3
    <3>4. CASE x # o
      BY <1>2, <3>1, <3>2, <3>4
    <3> QED
      BY <3>3, <3>4
  <2>2. CASE Put(r)
    <3>1. pc'[r] = "idle" /\ refcnt' = [refcnt EXCEPT ![o] = @ - 1]
      BY <1>0, <1>1, <2>2 DEF Put, dst_release, Goto, TypeOK
    <3> QED
      BY <1>0, <1>2, <3>1 DEF TypeOK
  <2> QED
    BY <2>1, <2>2
<1>10. BcastEntry \in Static
  OBVIOUS
<1>11. /\ Counted' /\ Lifecycle' /\ SlotsOwned' /\ CopiesFound' /\ LookupsSafe'
       /\ LocalRouteHasAddress' /\ UniqueRoute'
  <2>1. UNCHANGED <<live, info, rt_ref, linked, from, slot, pcpuOn, obsolete, scan, cur, ifa>>
    BY <1>3
  <2>2. \/ pc[r] \in {"alloc", "hold"} /\ o = rt[r]
        \/ pc[r] = "done" /\ o = got[r]
    BY <1>1, <1>2
  <2>3. pc'[r] \in {"idle", "next", "done"}
    BY <1>8
  <2>4. pc'[r] = "done" => BcastEntry \in Obj /\ got'[r] = BcastEntry
    BY <1>8
  <2>5. BcastEntry \in Static \/ (BcastEntry = got[r] /\ pc[r] = "hold" /\ refcnt[BcastEntry] >= 1)
    BY <1>10
  <2>6. \A q \in Reader : q # r => /\ pc'[q] = pc[q] /\ rt'[q] = rt[q] /\ got'[q] = got[q]
                                   /\ rcu'[q] = rcu[q]
    BY <1>7
  <2>7. o \in Obj /\ TypeInv'
    BY <1>0, <1>2
  <2> QED
    BY <1>5, <1>6, <1>9, <2>1, <2>2, <2>3, <2>4, <2>5, <2>6, <2>7, ReleaseInv
<1>12. \/ steady'[r] = {}
       \/ /\ steady'[r] = steady[r] /\ key'[r] = key[r] /\ oom'[r] = oom[r]
          /\ pc'[r] = pc[r] /\ tbl'[r] = tbl[r]
  BY <1>0 DEF nip_route_output_flags, Put, TypeOK
<1>13. SteadySeen'
  <2>1. UNCHANGED <<linked, info>>
    BY <1>3
  <2>2. \A q \in Reader : q # r => /\ pc'[q] = pc[q] /\ tbl'[q] = tbl[q] /\ key'[q] = key[q]
                                   /\ oom'[q] = oom[q] /\ steady'[q] = steady[q]
    BY <1>7
  <2>3. \/ steady'[r] = {}
        \/ /\ steady'[r] = steady[r] /\ key'[r] = key[r] /\ pc[r] # "idle"
           /\ oom[r] => oom'[r]
           /\ oom'[r] \/ (pc'[r] # "next" /\ tbl'[r] = tbl[r])
    BY <1>2, <1>12
  <2> QED
    BY <2>1, <2>2, <2>3, SteadyStep
<1> QED
  BY <1>0, <1>11, <1>13 DEF Inv, RouteInv

\* The copy is published: the reference of the lookup becomes the slot's.
LEMMA CasInstallInv ==
  ASSUME Inv, NEW r \in Reader, NEW c \in Cpu, CasInstall(r, c)
  PROVE  Inv'
<1>0. TypeInv' /\ TypeOK /\ PointersSet
  BY TypeLookup DEF Inv, LookupStep, TypeInv
<1>1. PICK f, g : f = rt[r] /\ g = got[r]
  OBVIOUS
<1>2. /\ pc[r] = "cas" /\ NotVisited(f, c) /\ slot[f][c] = NONE
      /\ slot' = [slot EXCEPT ![f][c] = g] /\ pc' = [pc EXCEPT ![r] = "hold"]
  BY <1>1 DEF CasInstall, Goto
<1>u. UNCHANGED <<live, info, refcnt, rt_ref, linked, from, pcpuOn, obsolete, cb, gp, scan, cur,
                  ifa, tbl, key, rt, got, rcu, oom, steady>>
  BY DEF CasInstall, cbVars, cfgVars
<1>3. /\ \A q \in Reader : q # r /\ pc[q] \in {"check", "cas", "hold", "done"} => got[q] # g
      /\ g \in Obj /\ live[g] /\ cb[g] = "none"
      /\ f \in Obj /\ f # g
  BY <1>1, <1>2, Unpublished
<1>4. f \notin Static /\ from[g] = f /\ f # NONE /\ rcu[r]
  BY <1>1, <1>2, <1>3 DEF Inv, RouteInv, LookupsSafe
<1>5. cur[f] # c /\ FibHolds(f) /\ (cb[f] = "scan" => c \in scan[f])
  BY <1>2, <1>3, <1>4, SlotNotVisited
<1>6. pc'[r] = "hold" /\ \A q \in Reader : q # r => pc'[q] = pc[q]
  BY <1>0, <1>2 DEF TypeOK
<1>7. /\ slot'[f][c] = g
      /\ \A x \in Obj, d \in Cpu : x # f \/ d # c => slot'[x][d] = slot[x][d]
  BY <1>0, <1>2, <1>3 DEF TypeOK
<1>8. \A x \in Obj : FibHolds(x)' <=> FibHolds(x)
  BY <1>u DEF FibHolds
<1>9. Counted'
  <2> SUFFICES ASSUME NEW x \in Obj PROVE refcnt'[x] = Refs(x)'
    BY DEF Counted
  <2>1. PICK p : p = <<f, c>>
    OBVIOUS
  <2>2. \A s \in Obj \X Cpu : s # p => /\ slot'[s[1]][s[2]] = slot[s[1]][s[2]]
                                       /\ (cur'[s[1]] = s[2]) <=> (cur[s[1]] = s[2])
    BY <1>7, <1>u, <2>1
  <2>3. /\ \A q \in Reader : q # r => pc'[q] = pc[q] /\ rt'[q] = rt[q] /\ got'[q] = got[q]
        /\ \A z \in Obj : z # NONE => live'[z] = live[z] /\ from'[z] = from[z]
    BY <1>6, <1>u
  <2>4. /\ Refs(x) \in Nat /\ Refs(x)' \in Nat
        /\ Refs(x)' = Refs(x) + (CopyRef(NONE, x)' - CopyRef(NONE, x))
                              + (SlotRef(p, x)' - SlotRef(p, x))
                              + (RouteRef(r, x)' - RouteRef(r, x))
                              + (ResultRef(r, x)' - ResultRef(r, x))
    <3>1. FibHolds(x)' <=> FibHolds(x)
      BY <1>8
    <3>2. UNCHANGED ifa
      BY <1>u
    <3> QED
      BY <2>2, <2>3, <3>1, <3>2, RefsMove
  <2>5. CopyRef(NONE, x)' = 0 /\ CopyRef(NONE, x) = 0
    BY DEF CopyRef, CopiesOf
  <2>6. RouteRef(r, x)' = RouteRef(r, x) /\ RouteRef(r, x) \in Int
    BY <1>2, <1>6, <1>u DEF RouteRef, RouteHolders
  <2>7. ResultRef(r, x)' = 0 /\ ResultRef(r, x) = IF x = g THEN 1 ELSE 0
    BY <1>1, <1>2, <1>6 DEF ResultRef, ResultHolders
  <2>8. SlotRef(p, x) = 0
    <3>1. p \notin SlotsOf(x)
      BY <1>2, <2>1 DEF SlotsOf
    <3> QED
      BY <3>1 DEF SlotRef
  <2>9. SlotRef(p, x)' = IF x = g THEN 1 ELSE 0
    <3>1. p \in SlotsOf(x)' <=> x = g
      BY <1>3, <1>5, <1>7, <1>u, <2>1 DEF SlotsOf
    <3> QED
      BY <3>1 DEF SlotRef
  <2>10. refcnt[x] = Refs(x) /\ refcnt'[x] = refcnt[x]
    BY <1>u DEF Inv, RouteInv, Counted
  <2> QED
    BY <2>4, <2>5, <2>6, <2>7, <2>8, <2>9, <2>10
<1>10. Lifecycle'
  BY <1>u DEF Inv, RouteInv, Lifecycle
<1>11. SlotsOwned'
  <2> SUFFICES ASSUME NEW x \in Obj PROVE SlotsOwned!(x)'
    BY DEF SlotsOwned
  <2>1. SlotsOwned!(x)
    BY DEF Inv, RouteInv, SlotsOwned
  <2>2. ASSUME NEW d \in Cpu, slot'[x][d] # NONE
        PROVE  /\ FibHolds(x)' /\ (cb'[x] = "scan" => d \in scan'[x])
               /\ cur'[x] # d => from'[slot'[x][d]] = x
    <3>1. CASE x = f /\ d = c
      BY <1>4, <1>5, <1>7, <1>8, <1>u, <3>1
    <3>2. CASE x # f \/ d # c
      BY <1>7, <1>8, <1>u, <2>1, <2>2, <3>2
    <3> QED
      BY <3>1, <3>2
  <2> QED
    BY <1>u, <2>1, <2>2
<1>12. CopiesFound'
  <2> SUFFICES ASSUME NEW x \in Obj, from'[x] # NONE PROVE CopiesFound!(x)!2'
    BY DEF CopiesFound
  <2>1. CASE x = g
    BY <1>4, <1>5, <1>7, <1>u, <2>1
  <2>2. CASE x # g
    <3>1. \A q \in Reader : pc[q] \in {"check", "cas"} /\ got[q] = x => q # r
      BY <1>1, <2>2
    <3>2. \A d \in Cpu : slot[from[x]][d] = x => slot'[from[x]][d] = x
      <4>1. from[x] \in Obj /\ x # NONE
        BY <1>0, <1>u DEF TypeOK
      <4> QED
        BY <1>2, <1>7, <4>1
    <3> QED
      BY <1>6, <1>u, <3>1, <3>2 DEF Inv, RouteInv, CopiesFound
  <2> QED
    BY <2>1, <2>2
<1>13. LookupsSafe'
  <2> SUFFICES ASSUME NEW q \in Reader PROVE LookupsSafe!(q)'
    BY DEF LookupsSafe
  <2>1. LookupsSafe!(q)
    BY DEF Inv, RouteInv, LookupsSafe
  <2>2. CASE q # r
    <3>1. Protected(q)' <=> Protected(q)
      BY <1>6, <1>u, <2>2 DEF Protected
    <3>2. pc[q] \in {"check", "cas"} => \A w \in Reader : pc'[w] = "hold" => got'[w] # got[q]
      BY <1>1, <1>3, <1>6, <1>u, <2>1, <2>2
    <3> QED
      BY <1>6, <1>u, <2>1, <2>2, <3>1, <3>2
  <2>3. CASE q = r
    <3>1. Protected(r)' => Protected(r)
      BY <1>2, <1>6, <1>u DEF Protected
    <3> QED
      BY <1>1, <1>2, <1>3, <1>4, <1>6, <1>u, <2>1, <2>3, <3>1
  <2> QED
    BY <2>2, <2>3
<1>14. SteadySeen'
  <2>1. /\ \A q \in Reader : q # r => /\ pc'[q] = pc[q] /\ tbl'[q] = tbl[q] /\ key'[q] = key[q]
                                      /\ oom'[q] = oom[q] /\ steady'[q] = steady[q]
        /\ UNCHANGED <<linked, info>>
    BY <1>6, <1>u
  <2>2. /\ steady'[r] = steady[r] /\ key'[r] = key[r] /\ pc[r] # "idle"
        /\ oom[r] => oom'[r]
        /\ oom'[r] \/ (pc'[r] # "next" /\ tbl'[r] = tbl[r])
    BY <1>2, <1>6, <1>u
  <2> QED
    BY <2>1, <2>2, SteadyStep
<1>15. LocalRouteHasAddress' /\ UniqueRoute'
  BY <1>u DEF Inv, RouteInv, LocalRouteHasAddress, UniqueRoute, Table
<1> QED
  BY <1>0, <1>9, <1>10, <1>11, <1>12, <1>13, <1>14, <1>15 DEF Inv, RouteInv

\* Every step of a lookup keeps the invariant; a raced access changes nothing else.
LEMMA LookupInv ==
  ASSUME Inv, NEW r \in Reader, LookupStep(r) \/ \E a \in Addr : Begin(r, a)
  PROVE  Inv'
<1>1. ASSUME HoldTooLate(r) \/ \E c \in Cpu : CasTooLate(r, c)
      PROVE  Inv'
  <2>1. UNCHANGED <<live, info, refcnt, rt_ref, linked, from, slot, pcpuOn, obsolete, cb,
                    gp, scan, cur, ifa, pc, tbl, key, rt, got, rcu, oom, steady>>
    BY <1>1 DEF HoldTooLate, CasTooLate, rtVars, cbVars, cfgVars, rdVars
  <2>2. RouteInv'
    BY <2>1, RouteInvSame DEF Inv
  <2>3. TypeInv'
    BY TypeLookup DEF Inv
  <2> QED
    BY <2>2, <2>3 DEF Inv
<1> QED
  BY <1>1, BeginInv, GetHitInv, GetMissInv, CopyAllocInv, CopyNoMemInv, CheckOnInv,
     CopyLostInv, CasInstallInv, HoldResultInv, ResultInv DEF LookupStep

-----------------------------------------------------------------------------
(* The RCU callbacks keep the invariant.                                   *)

\* SteadySeen, LocalRouteHasAddress and UniqueRoute only depend on the tables, the
\* addresses and the lookups.
LEMMA TablesSame ==
  ASSUME Inv, UNCHANGED <<linked, ifa, pc, tbl, key, oom, steady>>,
         \A x \in Obj : linked[x] => info'[x] = info[x]
  PROVE  SteadySeen' /\ LocalRouteHasAddress' /\ UniqueRoute'
<1>1. Table("local")' = Table("local")
  BY DEF Table
<1>2. \A x \in Table("local") : info'[x] = info[x]
  BY DEF Table
<1>3. LocalRouteHasAddress'
  BY <1>1 DEF Inv, RouteInv, LocalRouteHasAddress
<1>4. UniqueRoute'
  BY DEF Inv, RouteInv, UniqueRoute
<1>5. SteadySeen'
  BY <1>1, <1>2 DEF Inv, RouteInv, SteadySeen
<1> QED
  BY <1>3, <1>4, <1>5

\* nip_rt_release begins: no protected lookup is on the route any more.
LEMMA NodeCallbackInv ==
  ASSUME Inv, NEW o \in Obj, NodeCallback(o)
  PROVE  Inv'
<1>0. TypeInv' /\ TypeOK /\ PointersSet
  BY TypeCallback DEF Inv, Callback, TypeInv
<1>1. /\ cb[o] = "node" /\ gp[o] = {}
      /\ rt_ref' = [rt_ref EXCEPT ![o] = @ - 1]
      /\ cb'   = [cb EXCEPT ![o] = "scan"]
      /\ scan' = [scan EXCEPT ![o] = Cpu]
  BY DEF NodeCallback
<1>u. UNCHANGED <<live, info, refcnt, linked, from, slot, pcpuOn, obsolete, gp, cur, ifa,
                  pc, tbl, key, rt, got, rcu, oom, steady>>
  BY DEF NodeCallback, cfgVars, rdVars
<1>2. /\ rt_ref[o] = 1 /\ pcpuOn[o] /\ ~linked[o] /\ from[o] = NONE /\ o \notin Static
      /\ live[o] /\ scan[o] = {} /\ cur[o] = NONE
  BY <1>1, Held DEF Inv, RouteInv, Lifecycle, SlotsOwned, FibHolds
<1>3. /\ cb'[o] = "scan" /\ scan'[o] = Cpu /\ rt_ref'[o] = 0
      /\ \A x \in Obj : x # o => cb'[x] = cb[x] /\ scan'[x] = scan[x] /\ rt_ref'[x] = rt_ref[x]
  BY <1>0, <1>1, <1>2 DEF TypeOK
<1>4. \A x \in Obj : FibHolds(x)' <=> FibHolds(x)
  BY <1>1, <1>3, <1>u DEF FibHolds
<1>5. Counted'
  <2>1. \A x \in Obj : Refs(x)' = Refs(x)
    BY <1>4, <1>u DEF Refs, CopiesOf, SlotsOf, RouteHolders, ResultHolders
  <2> QED
    BY <1>u, <2>1 DEF Inv, RouteInv, Counted
<1>6. Lifecycle'
  <2> SUFFICES ASSUME NEW x \in Obj PROVE Lifecycle!(x)'
    BY DEF Lifecycle
  <2>1. Lifecycle!(x)
    BY DEF Inv, RouteInv, Lifecycle
  <2>2. CASE x = o
    BY <1>2, <1>3, <1>u, <2>1, <2>2
  <2>3. CASE x # o
    BY <1>3, <1>u, <2>1, <2>3
  <2> QED
    BY <2>2, <2>3
<1>7. SlotsOwned'
  <2> SUFFICES ASSUME NEW x \in Obj PROVE SlotsOwned!(x)'
    BY DEF SlotsOwned
  <2>1. SlotsOwned!(x)
    BY DEF Inv, RouteInv, SlotsOwned
  <2>2. CASE x = o
    BY <1>2, <1>3, <1>4, <1>u, <2>1, <2>2
  <2>3. CASE x # o
    BY <1>3, <1>4, <1>u, <2>1, <2>3
  <2> QED
    BY <2>2, <2>3
<1>8. CopiesFound'
  BY <1>u DEF Inv, RouteInv, CopiesFound
<1>9. LookupsSafe'
  <2> SUFFICES ASSUME NEW q \in Reader PROVE LookupsSafe!(q)'
    BY DEF LookupsSafe
  <2>1. LookupsSafe!(q) /\ (Protected(q)' <=> Protected(q))
    BY <1>u DEF Inv, RouteInv, LookupsSafe, Protected
  <2>2. Protected(q) => rt[q] \in Obj
    BY <1>0 DEF PointersSet, Protected
  <2>3. pc[q] = "hold" => got[q] \in Obj
    BY <1>0 DEF PointersSet
  <2>4. Protected(q) => linked[rt[q]] \/ (cb'[rt[q]] = "node" /\ q \in gp[rt[q]])
    BY <1>1, <1>3, <2>1, <2>2
  <2>5. pc[q] = "hold" => (cb'[got[q]] = "dst" => q \in gp[got[q]])
    BY <1>3, <2>1, <2>3
  <2> QED
    BY <1>u, <2>1, <2>4, <2>5
<1>10. SteadySeen' /\ LocalRouteHasAddress' /\ UniqueRoute'
  BY <1>u, TablesSame
<1> QED
  BY <1>0, <1>5, <1>6, <1>7, <1>8, <1>9, <1>10 DEF Inv, RouteInv

\* nip_rt_free_pcpu passes an empty slot.
LEMMA ScanEmptyInv ==
  ASSUME Inv, NEW o \in Obj, NEW c \in Cpu, ScanEmpty(o, c)
  PROVE  Inv'
<1>0. TypeInv' /\ TypeOK
  BY TypeCallback DEF Inv, Callback, TypeInv
<1>1. /\ cb[o] = "scan" /\ cur[o] = NONE /\ slot[o][c] = NONE
      /\ scan' = [scan EXCEPT ![o] = @ \ {c}]
  BY DEF ScanEmpty
<1>u. UNCHANGED <<live, info, refcnt, rt_ref, linked, from, slot, pcpuOn, obsolete, cb, gp,
                  cur, ifa, pc, tbl, key, rt, got, rcu, oom, steady>>
  BY DEF ScanEmpty, rtVars, cfgVars, rdVars
<1>2. scan'[o] = scan[o] \ {c} /\ \A x \in Obj : x # o => scan'[x] = scan[x]
  BY <1>0, <1>1 DEF TypeOK
<1>3. SlotsOwned'
  <2> SUFFICES ASSUME NEW x \in Obj PROVE SlotsOwned!(x)'
    BY DEF SlotsOwned
  <2>1. SlotsOwned!(x) /\ (FibHolds(x)' <=> FibHolds(x))
    BY <1>u DEF Inv, RouteInv, SlotsOwned, FibHolds
  <2>2. CASE x = o
    BY <1>1, <1>2, <1>u, <2>1, <2>2
  <2>3. CASE x # o
    BY <1>2, <1>u, <2>1, <2>3
  <2> QED
    BY <2>2, <2>3
<1>4. Counted'
  BY <1>u DEF Inv, RouteInv, Counted, Refs, FibHolds, CopiesOf, SlotsOf, RouteHolders,
              ResultHolders
<1>5. Lifecycle' /\ CopiesFound'
  BY <1>u DEF Inv, RouteInv, Lifecycle, CopiesFound
<1>6. LookupsSafe'
  BY <1>u DEF Inv, RouteInv, LookupsSafe, Protected
<1>7. SteadySeen' /\ LocalRouteHasAddress' /\ UniqueRoute'
  BY <1>u, TablesSame
<1> QED
  BY <1>0, <1>3, <1>4, <1>5, <1>6, <1>7 DEF Inv, RouteInv

\* nip_rt_free_pcpu clears the slot whose copy it has released.
LEMMA ScanClearInv ==
  ASSUME Inv, NEW o \in Obj, ScanClear(o)
  PROVE  Inv'
<1>0. TypeInv' /\ TypeOK
  BY TypeCallback DEF Inv, Callback, TypeInv
<1>1. PICK c : c = cur[o]
  OBVIOUS
<1>2. /\ cb[o] = "scan" /\ c # NONE
      /\ slot' = [slot EXCEPT ![o][c] = NONE]
      /\ scan' = [scan EXCEPT ![o] = @ \ {c}]
      /\ cur'  = [cur EXCEPT ![o] = NONE]
  BY <1>1 DEF ScanClear
<1>u. UNCHANGED <<live, info, refcnt, rt_ref, linked, from, pcpuOn, obsolete, cb, gp,
                  ifa, pc, tbl, key, rt, got, rcu, oom, steady>>
  BY DEF ScanClear, cfgVars, rdVars
<1>3. c \in Cpu
  BY <1>0, <1>1, <1>2 DEF TypeOK
<1>4. /\ scan'[o] = scan[o] \ {c} /\ cur'[o] = NONE
      /\ \A x \in Obj : x # o => scan'[x] = scan[x] /\ cur'[x] = cur[x]
  BY <1>0, <1>2 DEF TypeOK
<1>5. /\ slot'[o][c] = NONE
      /\ \A x \in Obj, d \in Cpu : x # o \/ d # c => slot'[x][d] = slot[x][d]
  BY <1>0, <1>2, <1>3 DEF TypeOK
<1>6. \A x \in Obj : FibHolds(x)' <=> FibHolds(x)
  BY <1>u DEF FibHolds
<1>7. Counted'
  <2>1. \A x \in Obj : SlotsOf(x)' = SlotsOf(x)
    <3> SUFFICES ASSUME NEW x \in Obj, NEW p \in Obj \X Cpu
                 PROVE  p \in SlotsOf(x)' <=> p \in SlotsOf(x)
      BY DEF SlotsOf
    <3>1. p[1] \in Obj /\ p[2] \in Cpu /\ p[2] # NONE /\ x # NONE
      OBVIOUS
    <3>2. CASE p[1] = o /\ p[2] = c
      BY <1>1, <1>5, <3>1, <3>2 DEF SlotsOf
    <3>3. CASE p[1] = o /\ p[2] # c
      BY <1>1, <1>4, <1>5, <3>1, <3>3 DEF SlotsOf
    <3>4. CASE p[1] # o
      BY <1>4, <1>5, <3>1, <3>4 DEF SlotsOf
    <3> QED
      BY <3>2, <3>3, <3>4
  <2>2. \A x \in Obj : Refs(x)' = Refs(x)
    BY <1>6, <1>u, <2>1 DEF Refs, CopiesOf, RouteHolders, ResultHolders
  <2> QED
    BY <1>u, <2>2 DEF Inv, RouteInv, Counted
<1>8. Lifecycle'
  BY <1>u DEF Inv, RouteInv, Lifecycle
<1>9. SlotsOwned'
  <2> SUFFICES ASSUME NEW x \in Obj PROVE SlotsOwned!(x)'
    BY DEF SlotsOwned
  <2>1. SlotsOwned!(x)
    BY DEF Inv, RouteInv, SlotsOwned
  <2>2. CASE x = o
    <3>1. ASSUME NEW d \in Cpu, slot'[o][d] # NONE
          PROVE  /\ d # c /\ slot[o][d] # NONE /\ slot'[o][d] = slot[o][d]
      BY <1>5, <3>1
    <3> QED
      BY <1>1, <1>2, <1>4, <1>6, <1>u, <2>1, <2>2, <3>1
  <2>3. CASE x # o
    BY <1>4, <1>5, <1>6, <1>u, <2>1, <2>3
  <2> QED
    BY <2>2, <2>3
<1>10. CopiesFound'
  <2> SUFFICES ASSUME NEW x \in Obj, from[x] # NONE PROVE CopiesFound!(x)!2'
    BY <1>u DEF CopiesFound
  <2>1. from[x] \in Obj
    BY <1>0 DEF TypeOK
  <2>2. ASSUME NEW d \in Cpu, slot[from[x]][d] = x, cur[from[x]] # d
        PROVE  slot'[from[x]][d] = x /\ cur'[from[x]] # d
    <3>1. d # NONE
      OBVIOUS
    <3>2. CASE from[x] = o
      BY <1>1, <1>4, <1>5, <2>2, <3>1, <3>2
    <3>3. CASE from[x] # o
      BY <1>4, <1>5, <2>1, <2>2, <3>3
    <3> QED
      BY <3>2, <3>3
  <2> QED
    BY <1>u, <2>2 DEF Inv, RouteInv, CopiesFound
<1>11. LookupsSafe'
  BY <1>u DEF Inv, RouteInv, LookupsSafe, Protected
<1>12. SteadySeen' /\ LocalRouteHasAddress' /\ UniqueRoute'
  BY <1>u, TablesSame
<1> QED
  BY <1>0, <1>7, <1>8, <1>9, <1>10, <1>11, <1>12 DEF Inv, RouteInv

\* nip_rt_free_pcpu marks the copy of CPU c obsolete and drops the slot's reference.
LEMMA ScanReleaseInv ==
  ASSUME Inv, NEW o \in Obj, NEW c \in Cpu, ScanRelease(o, c)
  PROVE  Inv'
<1>0. TypeInv' /\ TypeOK /\ PointersSet
  BY TypeCallback DEF Inv, Callback, TypeInv
<1>1. PICK s : s = slot[o][c]
  OBVIOUS
<1>2. /\ cb[o] = "scan" /\ cur[o] = NONE /\ c \in scan[o] /\ s # NONE /\ s \in Obj
      /\ obsolete' = [obsolete EXCEPT ![s] = TRUE]
      /\ refcnt' = [refcnt EXCEPT ![s] = @ - 1]
      /\ cur' = [cur EXCEPT ![o] = c]
      /\ dst_release(s)
  BY <1>0, <1>1 DEF ScanRelease, dst_release, TypeOK
<1>u. UNCHANGED <<live, info, rt_ref, linked, from, slot, pcpuOn, scan, ifa,
                  pc, tbl, key, rt, got, rcu, oom, steady>>
  BY DEF ScanRelease, cfgVars, rdVars
<1>3. c # NONE /\ from[s] = o /\ refcnt[s] >= 1 /\ refcnt[s] \in Nat /\ live[s]
  BY <1>1, <1>2, Held DEF Inv, RouteInv, SlotsOwned
<1>4. s # o /\ cb[s] = "none" /\ ~linked[s] /\ s \notin Static /\ scan[s] = {}
  <2>1. Lifecycle!(s) /\ from[s] # NONE /\ from[o] = NONE
    BY <1>2, <1>3 DEF Inv, RouteInv, Lifecycle
  <2>2. s # o /\ cb[s] = "none" /\ ~linked[s] /\ s \notin Static
    BY <1>2, <1>3, <2>1
  <2> QED
    BY <1>2, <2>2 DEF Inv, RouteInv, SlotsOwned
<1>5. /\ refcnt'[s] = refcnt[s] - 1 /\ obsolete'[s] /\ cur'[o] = c
      /\ \A x \in Obj : x # s => refcnt'[x] = refcnt[x] /\ obsolete'[x] = obsolete[x]
      /\ \A x \in Obj : x # o => cur'[x] = cur[x]
  BY <1>0, <1>2 DEF TypeOK
<1>6. /\ \A x \in Obj : x # s => cb'[x] = cb[x] /\ gp'[x] = gp[x]
      /\ cb'[s] = IF refcnt'[s] = 0 THEN "dst" ELSE "none"
      /\ refcnt'[s] = 0 => gp'[s] = InRcu
  <2>1. CASE refcnt[s] = 1
    BY <1>0, <1>2, <1>5, <2>1 DEF dst_release, TypeOK
  <2>2. CASE refcnt[s] # 1
    BY <1>2, <1>3, <1>4, <1>5, <2>2 DEF dst_release
  <2> QED
    BY <2>1, <2>2
<1>7. \A x \in Obj : FibHolds(x)' <=> FibHolds(x)
  BY <1>4, <1>6, <1>u DEF FibHolds
<1>8. Counted'
  <2> SUFFICES ASSUME NEW x \in Obj PROVE refcnt'[x] = Refs(x)'
    BY DEF Counted
  <2>1. PICK p : p = <<o, c>>
    OBVIOUS
  <2>2. \A z \in Obj \X Cpu : z # p => /\ slot'[z[1]][z[2]] = slot[z[1]][z[2]]
                                       /\ (cur'[z[1]] = z[2]) <=> (cur[z[1]] = z[2])
    <3> SUFFICES ASSUME NEW z \in Obj \X Cpu, z # p
                 PROVE  (cur'[z[1]] = z[2]) <=> (cur[z[1]] = z[2])
      BY <1>u
    <3>1. z[1] \in Obj /\ z[2] # NONE /\ (z[1] # o \/ z[2] # c)
      BY <2>1
    <3> QED
      BY <1>2, <1>5, <3>1
  <2>3. /\ \A q \in Reader : q # NONE => pc'[q] = pc[q] /\ rt'[q] = rt[q] /\ got'[q] = got[q]
        /\ \A z \in Obj : z # NONE => live'[z] = live[z] /\ from'[z] = from[z]
    BY <1>u
  <2>4. /\ Refs(x) \in Nat /\ Refs(x)' \in Nat
        /\ Refs(x)' = Refs(x) + (CopyRef(NONE, x)' - CopyRef(NONE, x))
                              + (SlotRef(p, x)' - SlotRef(p, x))
                              + (RouteRef(NONE, x)' - RouteRef(NONE, x))
                              + (ResultRef(NONE, x)' - ResultRef(NONE, x))
    <3>1. FibHolds(x)' <=> FibHolds(x)
      BY <1>7
    <3>2. UNCHANGED ifa
      BY <1>u
    <3> QED
      BY <2>2, <2>3, <3>1, <3>2, RefsMove
  <2>5. CopyRef(NONE, x)' = 0 /\ CopyRef(NONE, x) = 0
    BY DEF CopyRef, CopiesOf
  <2>6. /\ RouteRef(NONE, x)' = RouteRef(NONE, x) /\ RouteRef(NONE, x) \in Int
        /\ ResultRef(NONE, x)' = ResultRef(NONE, x) /\ ResultRef(NONE, x) \in Int
    BY <1>u DEF RouteRef, ResultRef, RouteHolders, ResultHolders
  <2>7. SlotRef(p, x)' = 0
    <3>1. p \notin SlotsOf(x)'
      BY <1>5, <2>1 DEF SlotsOf
    <3> QED
      BY <3>1 DEF SlotRef
  <2>8. SlotRef(p, x) = IF x = s THEN 1 ELSE 0
    <3>1. p \in SlotsOf(x) <=> x = s
      BY <1>1, <1>2, <1>3, <2>1 DEF SlotsOf
    <3> QED
      BY <3>1 DEF SlotRef
  <2>9. refcnt[x] = Refs(x)
    BY DEF Inv, RouteInv, Counted
  <2> QED
    BY <1>5, <2>4, <2>5, <2>6, <2>7, <2>8, <2>9
<1>9. Lifecycle'
  <2> SUFFICES ASSUME NEW x \in Obj PROVE Lifecycle!(x)'
    BY DEF Lifecycle
  <2>1. Lifecycle!(x)
    BY DEF Inv, RouteInv, Lifecycle
  <2>2. CASE x = s
    BY <1>3, <1>4, <1>5, <1>6, <1>u, <2>1, <2>2
  <2>3. CASE x # s
    BY <1>5, <1>6, <1>u, <2>1, <2>3
  <2> QED
    BY <2>2, <2>3
<1>10. SlotsOwned'
  <2> SUFFICES ASSUME NEW x \in Obj PROVE SlotsOwned!(x)'
    BY DEF SlotsOwned
  <2>1. SlotsOwned!(x)
    BY DEF Inv, RouteInv, SlotsOwned
  <2>2. CASE x = o
    BY <1>2, <1>4, <1>5, <1>6, <1>7, <1>u, <2>1, <2>2
  <2>3. CASE x # o
    <3>1. cb'[x] = "scan" <=> cb[x] = "scan"
      BY <1>4, <1>6
    <3> QED
      BY <1>5, <1>7, <1>u, <2>1, <2>3, <3>1
  <2> QED
    BY <2>2, <2>3
<1>11. CopiesFound'
  <2> SUFFICES ASSUME NEW x \in Obj, from[x] # NONE PROVE CopiesFound!(x)!2'
    BY <1>u DEF CopiesFound
  <2>1. CASE x = s
    BY <1>5, <2>1
  <2>2. CASE x # s
    <3>1. from[x] \in Obj
      BY <1>0 DEF TypeOK
    <3>2. ASSUME NEW d \in Cpu, slot[from[x]][d] = x, cur[from[x]] # d
          PROVE  cur'[from[x]] # d
      BY <1>1, <1>5, <2>2, <3>1, <3>2
    <3> QED
      BY <1>5, <1>u, <2>2, <3>2 DEF Inv, RouteInv, CopiesFound
  <2> QED
    BY <2>1, <2>2
<1>12. LookupsSafe'
  <2> SUFFICES ASSUME NEW q \in Reader PROVE LookupsSafe!(q)'
    BY DEF LookupsSafe
  <2>1. LookupsSafe!(q) /\ (Protected(q)' <=> Protected(q))
    BY <1>u DEF Inv, RouteInv, LookupsSafe, Protected
  <2>2. /\ pc[q] \in {"get", "alloc", "check", "cas", "hold"} => rt[q] \in Obj /\ rt[q] # s
        /\ pc[q] \in {"check", "cas", "hold", "done"} => got[q] \in Obj
    BY <1>0, <1>3, <2>1 DEF PointersSet
  <2>3. Protected(q) => cb'[rt[q]] = cb[rt[q]] /\ gp'[rt[q]] = gp[rt[q]]
    BY <1>6, <2>2 DEF Protected
  <2>4. pc[q] \in {"check", "cas"} => refcnt'[got[q]] = refcnt[got[q]]
    <3>1. pc[q] \in {"check", "cas"} => got[q] # s
      BY <1>1, <1>2, <1>3, Unpublished
    <3> QED
      BY <1>5, <2>2, <3>1
  <2>5. pc[q] = "hold" => (cb'[got[q]] = "dst" => q \in gp'[got[q]])
    <3>1. CASE got[q] = s
      BY <1>6, <2>1, <3>1 DEF InRcu
    <3>2. CASE got[q] # s
      BY <1>6, <2>1, <2>2, <3>2
    <3> QED
      BY <3>1, <3>2
  <2>6. pc[q] \in {"hold", "done"} => (obsolete[got[q]] => obsolete'[got[q]])
    BY <1>5, <2>2
  <2> QED
    BY <1>u, <2>1, <2>3, <2>4, <2>5, <2>6
<1>13. SteadySeen' /\ LocalRouteHasAddress' /\ UniqueRoute'
  BY <1>u, TablesSame
<1> QED
  BY <1>0, <1>8, <1>9, <1>10, <1>11, <1>12, <1>13 DEF Inv, RouteInv

\* nip_rt_release ends: the slots are gone and the node's reference is dropped.
LEMMA ReleaseRouteInv ==
  ASSUME Inv, NEW o \in Obj, ReleaseRoute(o)
  PROVE  Inv'
<1>0. TypeInv' /\ TypeOK /\ PointersSet
  BY TypeCallback DEF Inv, Callback, TypeInv
<1>1. /\ cb[o] = "scan" /\ scan[o] = {}
      /\ pcpuOn'   = [pcpuOn EXCEPT ![o] = FALSE]
      /\ slot'     = [slot EXCEPT ![o] = NoSlots]
      /\ obsolete' = [obsolete EXCEPT ![o] = TRUE]
      /\ refcnt'   = [refcnt EXCEPT ![o] = @ - 1]
      /\ cb' = [cb EXCEPT ![o] = IF refcnt[o] = 1 THEN "dst" ELSE "none"]
      /\ gp' = [gp EXCEPT ![o] = IF refcnt[o] = 1 THEN InRcu ELSE {}]
  BY DEF ReleaseRoute
<1>u. UNCHANGED <<live, info, rt_ref, linked, from, scan, cur, ifa,
                  pc, tbl, key, rt, got, rcu, oom, steady>>
  BY DEF ReleaseRoute, cfgVars, rdVars
<1>2. /\ refcnt[o] >= 1 /\ refcnt[o] \in Nat /\ live[o] /\ FibHolds(o)
      /\ o \notin Static /\ ~linked[o] /\ from[o] = NONE /\ rt_ref[o] = 0
  BY <1>1, Held DEF Inv, RouteInv, Lifecycle, FibHolds
<1>3. slot' = slot
  <2>1. \A c \in Cpu : slot[o][c] = NONE
    BY <1>1 DEF Inv, RouteInv, SlotsOwned
  <2>2. slot[o] = NoSlots
    BY <1>0, <2>1 DEF TypeOK, NoSlots
  <2> QED
    BY <1>0, <1>1, <2>2 DEF TypeOK
<1>4. /\ refcnt'[o] = refcnt[o] - 1 /\ obsolete'[o] /\ ~pcpuOn'[o]
      /\ cb'[o] = IF refcnt'[o] = 0 THEN "dst" ELSE "none"
      /\ refcnt'[o] = 0 => gp'[o] = InRcu
  BY <1>0, <1>1, <1>2 DEF TypeOK
<1>5. \A x \in Obj : x # o =>
        /\ refcnt'[x] = refcnt[x] /\ obsolete'[x] = obsolete[x] /\ pcpuOn'[x] = pcpuOn[x]
        /\ cb'[x] = cb[x] /\ gp'[x] = gp[x]
  BY <1>0, <1>1 DEF TypeOK
<1>6. ~FibHolds(o)' /\ \A x \in Obj : x # o => (FibHolds(x)' <=> FibHolds(x))
  BY <1>2, <1>4, <1>5, <1>u DEF FibHolds
<1>7. Counted'
  <2> SUFFICES ASSUME NEW x \in Obj PROVE refcnt'[x] = Refs(x)'
    BY DEF Counted
  <2>1. /\ Refs(x) \in Nat /\ Refs(x)' \in Nat
        /\ Refs(x)' = Refs(x) + (FibRef(x)' - FibRef(x)) + (AddrRef(x)' - AddrRef(x))
    BY <1>3, <1>u, RefsQuiet
  <2>2. AddrRef(x)' = AddrRef(x) /\ AddrRef(x) \in Int
    BY <1>u DEF AddrRef
  <2>3. refcnt[x] = Refs(x)
    BY DEF Inv, RouteInv, Counted
  <2>4. CASE x = o
    <3>1. FibRef(x) = 1 /\ FibRef(x)' = 0
      BY <1>2, <1>6, <2>4 DEF FibRef
    <3> QED
      BY <1>4, <2>1, <2>2, <2>3, <2>4, <3>1
  <2>5. CASE x # o
    <3>1. FibRef(x)' = FibRef(x) /\ FibRef(x) \in Int
      BY <1>6, <2>5 DEF FibRef
    <3> QED
      BY <1>5, <2>1, <2>2, <2>3, <2>5, <3>1
  <2> QED
    BY <2>4, <2>5
<1>8. Lifecycle'
  <2> SUFFICES ASSUME NEW x \in Obj PROVE Lifecycle!(x)'
    BY DEF Lifecycle
  <2>1. Lifecycle!(x)
    BY DEF Inv, RouteInv, Lifecycle
  <2>2. CASE x = o
    BY <1>2, <1>4, <1>u, <2>1, <2>2
  <2>3. CASE x # o
    BY <1>5, <1>u, <2>1, <2>3
  <2> QED
    BY <2>2, <2>3
<1>9. SlotsOwned'
  <2> SUFFICES ASSUME NEW x \in Obj PROVE SlotsOwned!(x)'
    BY DEF SlotsOwned
  <2>1. SlotsOwned!(x)
    BY DEF Inv, RouteInv, SlotsOwned
  <2>2. CASE x = o
    BY <1>1, <1>3, <1>4, <1>u, <2>1, <2>2
  <2>3. CASE x # o
    BY <1>3, <1>5, <1>6, <1>u, <2>1, <2>3
  <2> QED
    BY <2>2, <2>3
<1>10. CopiesFound'
  <2>1. \A x \in Obj : obsolete[x] => obsolete'[x]
    BY <1>4, <1>5
  <2> QED
    BY <1>3, <1>u, <2>1 DEF Inv, RouteInv, CopiesFound
<1>11. LookupsSafe'
  <2> SUFFICES ASSUME NEW q \in Reader PROVE LookupsSafe!(q)'
    BY DEF LookupsSafe
  <2>1. LookupsSafe!(q) /\ (Protected(q)' <=> Protected(q))
    BY <1>u DEF Inv, RouteInv, LookupsSafe, Protected
  <2>2. /\ pc[q] \in {"get", "alloc", "check", "cas", "hold"} => rt[q] \in Obj
        /\ pc[q] \in {"check", "cas", "hold", "done"} => got[q] \in Obj
    BY <1>0 DEF PointersSet
  <2>3. Protected(q) => linked[rt[q]] \/ (cb'[rt[q]] = "node" /\ q \in gp'[rt[q]])
    BY <1>1, <1>5, <2>1, <2>2 DEF Protected
  <2>4. pc[q] \in {"check", "cas"} => refcnt'[got[q]] = refcnt[got[q]]
    <3>1. pc[q] \in {"check", "cas"} => got[q] # o
      BY <1>1, Unpublished
    <3> QED
      BY <1>5, <2>2, <3>1
  <2>5. pc[q] = "hold" => (cb'[got[q]] = "dst" => q \in gp'[got[q]])
    <3>1. CASE got[q] = o
      BY <1>4, <2>1, <3>1 DEF InRcu
    <3>2. CASE got[q] # o
      BY <1>5, <2>1, <2>2, <3>2
    <3> QED
      BY <3>1, <3>2
  <2>6. pc[q] \in {"hold", "done"} => (obsolete[got[q]] => obsolete'[got[q]])
    BY <1>4, <1>5, <2>2
  <2> QED
    BY <1>u, <2>1, <2>3, <2>4, <2>5, <2>6
<1>12. SteadySeen' /\ LocalRouteHasAddress' /\ UniqueRoute'
  BY <1>u, TablesSame
<1> QED
  BY <1>0, <1>7, <1>8, <1>9, <1>10, <1>11, <1>12 DEF Inv, RouteInv

\* When dst_destroy_rcu runs, nothing points to the entry.
LEMMA DyingEntry ==
  ASSUME Inv, NEW o \in Obj, cb[o] = "dst", gp[o] = {}
  PROVE  /\ live[o] /\ o \notin Static /\ o \notin ifa /\ ~linked[o]
         /\ refcnt[o] = 0 /\ rt_ref[o] = 0 /\ ~FibHolds(o)
         /\ \A x \in Obj : from[x] # o
         /\ \A x \in Obj, c \in Cpu : slot[x][c] = o => cur[x] = c
         /\ \A c \in Cpu : slot[o][c] = NONE
         /\ \A q \in Reader : pc[q] \in {"get", "alloc", "check", "cas", "hold"} => rt[q] # o
         /\ \A q \in Reader : pc[q] \in {"check", "cas", "hold", "done"} => got[q] # o
<1>1. refcnt[o] = 0 /\ live[o]
  BY DEF Inv, RouteInv, Lifecycle
<1>2. o \notin Static /\ ~FibHolds(o) /\ o \notin ifa
  BY <1>1, Held
<1>3. ~linked[o] /\ rt_ref[o] = 0
  BY <1>2 DEF Inv, RouteInv, Lifecycle, FibHolds
<1>4. \A c \in Cpu : slot[o][c] = NONE
  BY <1>2 DEF Inv, RouteInv, SlotsOwned
<1>5. \A x \in Obj : from[x] # o
  <2>1. \A x \in Obj : from[x] # NONE => refcnt[from[x]] >= 1
    BY Held
  <2>2. o # NONE
    OBVIOUS
  <2> QED
    BY <1>1, <2>1, <2>2
<1>6. \A x \in Obj, c \in Cpu : slot[x][c] = o => cur[x] = c
  BY <1>1, Held
<1>7. \A q \in Reader : pc[q] \in {"get", "alloc", "check", "cas", "hold"} => rt[q] # o
  BY <1>1, Held
<1>8. \A q \in Reader : pc[q] \in {"check", "cas", "hold", "done"} => got[q] # o
  BY <1>1, Held DEF Inv, RouteInv, LookupsSafe
<1> QED
  BY <1>1, <1>2, <1>3, <1>4, <1>5, <1>6, <1>7, <1>8

\* nip_dst_destroy: the entry is freed, and a copy returns its hold on its route.
LEMMA DstDestroyInv ==
  ASSUME Inv, NEW o \in Obj, nip_dst_destroy(o)
  PROVE  Inv'
<1>0. TypeInv' /\ TypeOK /\ PointersSet
  BY TypeCallback DEF Inv, Callback, TypeInv
<1>1. PICK f : f = from[o]
  OBVIOUS
<1>2. /\ cb[o] = "dst" /\ gp[o] = {} /\ Scrub(o)
      /\ refcnt' = [x \in Obj |-> IF x = f THEN refcnt[x] - 1 ELSE refcnt[x]]
      /\ cb' = [x \in Obj |-> IF x = o THEN "none"
                              ELSE IF x = f /\ refcnt[x] = 1 THEN "dst" ELSE cb[x]]
      /\ gp' = [x \in Obj |-> IF x = f /\ refcnt[x] = 1 THEN InRcu ELSE gp[x]]
  BY <1>1 DEF nip_dst_destroy
<1>u. UNCHANGED <<rt_ref, linked, scan, cur, ifa, pc, tbl, key, rt, got, rcu, oom, steady>>
  BY DEF nip_dst_destroy, cfgVars, rdVars
<1>3. /\ live[o] /\ o \notin Static /\ o \notin ifa /\ ~linked[o]
      /\ refcnt[o] = 0 /\ rt_ref[o] = 0 /\ ~FibHolds(o)
      /\ \A x \in Obj : from[x] # o
      /\ \A x \in Obj, c \in Cpu : slot[x][c] = o => cur[x] = c
      /\ \A c \in Cpu : slot[o][c] = NONE
      /\ \A q \in Reader : pc[q] \in {"get", "alloc", "check", "cas", "hold"} => rt[q] # o
      /\ \A q \in Reader : pc[q] \in {"check", "cas", "hold", "done"} => got[q] # o
  BY <1>2, DyingEntry
<1>4. f # o /\ f \in Obj \cup {NONE}
  BY <1>0, <1>1, <1>3 DEF TypeOK
<1>5. f \in Obj => /\ refcnt[f] >= 1 /\ refcnt[f] \in Nat /\ live[f] /\ cb[f] # "dst"
                   /\ f \notin Static /\ from[f] = NONE
  BY <1>1, Held DEF Inv, RouteInv, Lifecycle
<1>6. f \in Obj /\ refcnt[f] = 1 => ~FibHolds(f) /\ ~linked[f] /\ cb[f] = "none"
  <2> SUFFICES ASSUME f \in Obj, refcnt[f] = 1
               PROVE  ~FibHolds(f) /\ ~linked[f] /\ cb[f] = "none"
    OBVIOUS
  <2>1. Refs(f) = 1
    BY DEF Inv, RouteInv, Counted
  <2>2. ~FibHolds(f)
    BY <1>1, <1>3, <2>1, RefsPositive
  <2>3. cb[f] \in {"none", "node", "scan", "dst"}
    BY <1>0 DEF TypeOK
  <2> QED
    BY <1>5, <2>2, <2>3 DEF FibHolds
<1>7. \A x \in Obj : x # o =>
        /\ live'[x] = live[x] /\ info'[x] = info[x] /\ from'[x] = from[x]
        /\ slot'[x] = slot[x] /\ pcpuOn'[x] = pcpuOn[x] /\ obsolete'[x] = obsolete[x]
  BY <1>0, <1>2 DEF Scrub, TypeOK
<1>8. ~live'[o] /\ from'[o] = NONE /\ (\A c \in Cpu : slot'[o][c] = NONE)
  BY <1>0, <1>2 DEF Scrub, NoSlots, TypeOK
<1>9. \A x \in Obj, c \in Cpu : slot'[x][c] = slot[x][c]
  BY <1>3, <1>7, <1>8
<1>10. /\ refcnt'[o] = 0 /\ cb'[o] = "none"
       /\ \A x \in Obj : x # o /\ x # f => /\ refcnt'[x] = refcnt[x] /\ cb'[x] = cb[x]
                                           /\ gp'[x] = gp[x]
       /\ f \in Obj => /\ refcnt'[f] = refcnt[f] - 1
                       /\ cb'[f] = IF refcnt'[f] = 0 THEN "dst" ELSE cb[f]
                       /\ gp'[f] = IF refcnt'[f] = 0 THEN InRcu ELSE gp[f]
  <2>1. f \in Obj => (refcnt[f] - 1 = 0 <=> refcnt[f] = 1)
    BY <1>5
  <2> QED
    BY <1>2, <1>3, <1>4, <2>1
<1>11. \A x \in Obj : FibHolds(x)' <=> FibHolds(x)
  <2> SUFFICES ASSUME NEW x \in Obj PROVE FibHolds(x)' <=> FibHolds(x)
    OBVIOUS
  <2>1. CASE x = o
    BY <1>2, <1>10, <1>u, <2>1 DEF FibHolds
  <2>2. CASE x # o /\ x = f
    BY <1>5, <1>6, <1>10, <1>u, <2>2 DEF FibHolds
  <2>3. CASE x # o /\ x # f
    BY <1>10, <1>u, <2>3 DEF FibHolds
  <2> QED
    BY <2>1, <2>2, <2>3
<1>12. Counted'
  <2> SUFFICES ASSUME NEW x \in Obj PROVE refcnt'[x] = Refs(x)'
    BY DEF Counted
  <2>1. /\ \A s \in Obj \X Cpu : s # NONE => /\ slot'[s[1]][s[2]] = slot[s[1]][s[2]]
                                             /\ (cur'[s[1]] = s[2]) <=> (cur[s[1]] = s[2])
        /\ \A q \in Reader : q # NONE => pc'[q] = pc[q] /\ rt'[q] = rt[q] /\ got'[q] = got[q]
        /\ \A z \in Obj : z # o => live'[z] = live[z] /\ from'[z] = from[z]
        /\ FibHolds(x)' <=> FibHolds(x)
        /\ UNCHANGED ifa
    BY <1>7, <1>9, <1>11, <1>u
  <2>2. /\ Refs(x) \in Nat /\ Refs(x)' \in Nat
        /\ Refs(x)' = Refs(x) + (CopyRef(o, x)' - CopyRef(o, x))
                              + (SlotRef(NONE, x)' - SlotRef(NONE, x))
                              + (RouteRef(NONE, x)' - RouteRef(NONE, x))
                              + (ResultRef(NONE, x)' - ResultRef(NONE, x))
    BY <2>1, RefsMove
  <2>3. SlotRef(NONE, x)' = SlotRef(NONE, x) /\ SlotRef(NONE, x) \in Int
    BY <1>9, <1>u DEF SlotRef, SlotsOf
  <2>4. /\ RouteRef(NONE, x)' = RouteRef(NONE, x) /\ RouteRef(NONE, x) \in Int
        /\ ResultRef(NONE, x)' = ResultRef(NONE, x) /\ ResultRef(NONE, x) \in Int
    BY <1>u DEF RouteRef, ResultRef, RouteHolders, ResultHolders
  <2>5. CopyRef(o, x)' = 0 /\ CopyRef(o, x) = IF x = f THEN 1 ELSE 0
    BY <1>1, <1>3, <1>8 DEF CopyRef, CopiesOf
  <2>6. refcnt[x] = Refs(x) /\ refcnt'[x] = IF x = f THEN refcnt[x] - 1 ELSE refcnt[x]
    BY <1>2 DEF Inv, RouteInv, Counted
  <2> QED
    BY <2>2, <2>3, <2>4, <2>5, <2>6
<1>13. Lifecycle'
  <2> SUFFICES ASSUME NEW x \in Obj PROVE Lifecycle!(x)'
    BY DEF Lifecycle
  <2>1. Lifecycle!(x) /\ from[x] # o
    BY <1>3 DEF Inv, RouteInv, Lifecycle
  <2>2. CASE x = o
    BY <1>3, <1>8, <1>10, <1>u, <2>1, <2>2
  <2>3. CASE x # o
    <3>1. from[x] # NONE => from'[from[x]] = from[from[x]]
      BY <1>0, <1>7, <2>1 DEF TypeOK
    <3>2. CASE x = f
      BY <1>5, <1>6, <1>7, <1>10, <1>u, <2>1, <2>3, <3>1, <3>2
    <3>3. CASE x # f
      BY <1>7, <1>10, <1>u, <2>1, <2>3, <3>1, <3>3
    <3> QED
      BY <3>2, <3>3
  <2> QED
    BY <2>2, <2>3
<1>14. SlotsOwned'
  <2> SUFFICES ASSUME NEW x \in Obj PROVE SlotsOwned!(x)'
    BY DEF SlotsOwned
  <2>1. SlotsOwned!(x)
    BY DEF Inv, RouteInv, SlotsOwned
  <2>2. cb'[x] = "scan" <=> cb[x] = "scan"
    BY <1>2, <1>6, <1>10
  <2>3. ASSUME NEW c \in Cpu, slot[x][c] # NONE, cur[x] # c
        PROVE  from'[slot[x][c]] = from[slot[x][c]]
    <3>1. slot[x][c] \in Obj /\ slot[x][c] # o
      BY <1>0, <1>3, <2>3 DEF TypeOK
    <3> QED
      BY <1>7, <3>1
  <2> QED
    BY <1>9, <1>11, <1>u, <2>1, <2>2, <2>3
<1>15. CopiesFound'
  <2> SUFFICES ASSUME NEW x \in Obj, from'[x] # NONE PROVE CopiesFound!(x)!2'
    BY DEF CopiesFound
  <2>1. x # o /\ from'[x] = from[x] /\ from[x] \in Obj /\ obsolete'[x] = obsolete[x]
    BY <1>0, <1>7, <1>8 DEF TypeOK
  <2> QED
    BY <1>9, <1>u, <2>1 DEF Inv, RouteInv, CopiesFound
<1>16. LookupsSafe'
  <2> SUFFICES ASSUME NEW q \in Reader PROVE LookupsSafe!(q)'
    BY DEF LookupsSafe
  <2>1. LookupsSafe!(q) /\ (Protected(q)' <=> Protected(q))
    BY <1>u DEF Inv, RouteInv, LookupsSafe, Protected
  <2>2. /\ pc[q] \in {"get", "alloc", "check", "cas", "hold"} => rt[q] \in Obj /\ rt[q] # o
        /\ pc[q] \in {"check", "cas", "hold", "done"} => got[q] \in Obj /\ got[q] # o
    BY <1>0, <1>3 DEF PointersSet
  <2>3. Protected(q) => linked[rt[q]] \/ (cb'[rt[q]] = "node" /\ q \in gp'[rt[q]])
    <3>1. Protected(q) => rt[q] \in Obj /\ rt[q] # o
      BY <2>2 DEF Protected
    <3>2. CASE rt[q] = f
      BY <1>6, <1>5, <1>10, <2>1, <3>1, <3>2
    <3>3. CASE rt[q] # f
      BY <1>10, <2>1, <3>1, <3>3
    <3> QED
      BY <3>2, <3>3
  <2>4. pc[q] \in {"check", "cas"} => refcnt'[got[q]] = refcnt[got[q]]
    <3>1. pc[q] \in {"check", "cas"} => got[q] # f
      BY <1>1, Unpublished
    <3> QED
      BY <1>10, <2>2, <3>1
  <2>5. pc[q] = "hold" => (cb'[got[q]] = "dst" => q \in gp'[got[q]])
    <3>1. CASE got[q] = f
      BY <1>10, <2>1, <2>2, <3>1 DEF InRcu
    <3>2. CASE got[q] # f
      BY <1>10, <2>1, <2>2, <3>2
    <3> QED
      BY <3>1, <3>2
  <2>6. /\ pc[q] \in {"get", "alloc", "check", "cas", "hold"} => from'[rt[q]] = from[rt[q]]
        /\ pc[q] \in {"check", "cas", "hold", "done"} =>
             /\ from'[got[q]] = from[got[q]] /\ live'[got[q]] = live[got[q]]
             /\ obsolete'[got[q]] = obsolete[got[q]]
    BY <1>7, <2>2
  <2> QED
    BY <1>u, <2>1, <2>3, <2>4, <2>5, <2>6
<1>17. SteadySeen' /\ LocalRouteHasAddress' /\ UniqueRoute'
  <2>1. \A x \in Obj : linked[x] => info'[x] = info[x]
    BY <1>3, <1>7
  <2> QED
    BY <1>u, <2>1, TablesSame
<1> QED
  BY <1>0, <1>12, <1>13, <1>14, <1>15, <1>16, <1>17 DEF Inv, RouteInv

-----------------------------------------------------------------------------
(* The theorems.                                                           *)

\* The tables are empty after initialisation, the static entries hold themselves.
LEMMA InvInit == Init => Inv
<1> SUFFICES ASSUME Init PROVE Inv
  OBVIOUS
<1>1. TypeInv
  BY TypeInit
<1>2. Counted
  <2> SUFFICES ASSUME NEW o \in Obj PROVE refcnt[o] = Refs(o)
    BY DEF Counted
  <2>1. CopiesOf(o) = {} /\ RouteHolders(o) = {} /\ ResultHolders(o) = {}
    BY DEF Init, CopiesOf, RouteHolders, ResultHolders
  <2>2. SlotsOf(o) = {}
    BY DEF Init, SlotsOf, NoSlots
  <2>3. ~FibHolds(o) /\ o \notin ifa
    BY DEF Init, FibHolds
  <2>4. refcnt[o] = IF o \in Static THEN 1 ELSE 0
    BY DEF Init
  <2> QED
    BY <2>1, <2>2, <2>3, <2>4, FS_EmptySet DEF Refs
<1>3. Lifecycle /\ SlotsOwned /\ CopiesFound
  BY DEF Init, Lifecycle, SlotsOwned, CopiesFound, NoSlots
<1>4. LookupsSafe
  BY DEF Init, LookupsSafe, Protected
<1>5. SteadySeen /\ LocalRouteHasAddress /\ UniqueRoute
  BY DEF Init, SteadySeen, LocalRouteHasAddress, UniqueRoute, Table
<1> QED
  BY <1>1, <1>2, <1>3, <1>4, <1>5 DEF Inv, RouteInv

\* The invariant is inductive.
LEMMA InvNext == Inv /\ [Next]_vars => Inv'
<1> SUFFICES ASSUME Inv, [Next]_vars PROVE Inv'
  OBVIOUS
<1>1. CASE Config
  BY <1>1, ConfigInv
<1>2. ASSUME NEW r \in Reader, LookupStep(r) \/ \E a \in Addr : Begin(r, a)
      PROVE  Inv'
  BY <1>2, LookupInv
<1>3. ASSUME NEW o \in Obj, Callback(o)
      PROVE  Inv'
  BY <1>3, NodeCallbackInv, ScanEmptyInv, ScanReleaseInv, ScanClearInv, ReleaseRouteInv,
     DstDestroyInv DEF Callback
<1>4. CASE UNCHANGED vars
  <2>1. RouteInv'
    BY <1>4, RouteInvSame DEF Inv, vars, rtVars, cbVars, cfgVars, rdVars
  <2>2. TypeInv'
    BY <1>4 DEF Inv, TypeInv, TypeOK, PointersSet, vars, rtVars, cbVars, cfgVars, rdVars
  <2> QED
    BY <2>1, <2>2 DEF Inv
<1> QED
  BY <1>1, <1>2, <1>3, <1>4 DEF Next

\* It holds in every reachable state.
LEMMA InvAlways == Spec => []Inv
BY InvInit, InvNext, PTL DEF Spec

\* Every reference count is the number of pointers that own a reference, whatever the
\* interleaving of lookups, configuration and RCU callbacks: nip_pol_route, nip_fib_add,
\* nip_fib_del, nip_rt_release and nip_dst_destroy neither leak nor overdrop one, unless
\* a process-context lookup has hit the cache of a route under release (raced).
THEOREM ReferencesExact == Spec => []RefExact
<1>1. Inv => RefExact
  <2> SUFFICES ASSUME Inv, NEW o \in Obj
               PROVE  refcnt[o] = Refs(o) /\ (live[o] \/ refcnt[o] = 0)
    BY DEF RefExact
  <2> QED
    BY DEF Inv, RouteInv, Counted, Lifecycle
<1> QED
  BY <1>1, InvAlways, PTL

\* A lookup under RCU protection finds its route allocated, with its node reference and
\* its per-CPU slots: call_rcu in nip_fib_del waits for it.
THEOREM LookupsProtected == Spec => []RcuProtectsLookup
<1>1. Inv => RcuProtectsLookup
  <2> SUFFICES ASSUME Inv, NEW r \in Reader, Protected(r)
               PROVE  live[rt[r]] /\ rt_ref[rt[r]] = 1 /\ pcpuOn[rt[r]]
    BY DEF RcuProtectsLookup
  <2>1. rt[r] \in Obj /\ (linked[rt[r]] \/ cb[rt[r]] = "node")
    BY DEF Protected, Inv, TypeInv, PointersSet, RouteInv, LookupsSafe
  <2>2. rt_ref[rt[r]] = 1 /\ pcpuOn[rt[r]]
    BY <2>1 DEF Inv, RouteInv, Lifecycle
  <2>3. live[rt[r]]
    BY <2>1, Held DEF FibHolds
  <2> QED
    BY <2>2, <2>3
<1> QED
  BY <1>1, InvAlways, PTL

\* Once nip_rt_release has released a deleted route, nip_dst_check fails for whoever
\* still holds the route or a copy of it.
THEOREM StaleAlwaysDetected == Spec => []StaleDetected
<1>1. Inv => StaleDetected
  <2> SUFFICES ASSUME Inv, NEW r \in Reader, pc[r] = "done", got[r] \notin Static,
                      ~FibHolds(RouteOf(got[r]))
               PROVE  obsolete[got[r]]
    BY DEF StaleDetected
  <2>1. PICK g : g = got[r]
    OBVIOUS
  <2>2. g \in Obj
    BY <2>1 DEF Inv, TypeInv, PointersSet
  <2>3. CASE from[g] = NONE
    BY <2>1, <2>3 DEF Inv, RouteInv, LookupsSafe
  <2>4. CASE from[g] # NONE
    <3>1. ~FibHolds(from[g]) /\ from[g] \in Obj
      BY <2>1, <2>2, <2>4 DEF RouteOf, Inv, TypeInv, TypeOK
    <3>2. \A c \in Cpu : slot[from[g]][c] # g
      BY <2>2, <3>1 DEF Inv, RouteInv, SlotsOwned
    <3>3. \A q \in Reader : ~(pc[q] \in {"check", "cas"} /\ got[q] = g)
      BY <2>1, Unpublished
    <3> QED
      BY <2>1, <2>2, <2>4, <3>2, <3>3 DEF Inv, RouteInv, CopiesFound
  <2> QED
    BY <2>3, <2>4
<1> QED
  BY <1>1, InvAlways, PTL

\* Every local route belongs to an address that is still configured, which is what
\* nip_bind_addr_check relies on.
THEOREM LocalRoutesHaveAddresses == Spec => []LocalRouteHasAddress
BY InvAlways, PTL DEF Inv, RouteInv

\* nip_fib_add never lets two routes answer for one destination of the main table, or
\* for one destination and device of the local table.
THEOREM RoutesUnique == Spec => []UniqueRoute
BY InvAlways, PTL DEF Inv, RouteInv

\* A destination that is local during a whole lookup is answered from the local table,
\* unless nip_rt_make_pcpu_route ran out of memory.
THEOREM LocalAlwaysWins == Spec => []LocalWins
<1>1. Inv => LocalWins
  BY DEF Inv, RouteInv, SteadySeen, LocalWins
<1> QED
  BY <1>1, InvAlways, PTL
=============================================================================
