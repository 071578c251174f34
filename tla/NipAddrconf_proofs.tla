------------------------- MODULE NipAddrconf_proofs -------------------------
(***************************************************************************)
(* Theorems about NipAddrconf, for every set of devices, addresses and     *)
(* lookups, and for finitely many idevs, addresses, routes and readers in  *)
(* memory.                                                                 *)
(***************************************************************************)
EXTENDS NipAddrconf, FiniteSetTheorems, TLAPS

-----------------------------------------------------------------------------
(* The inductive invariant: shapes.                                        *)

Reader == Proc \cup Soft
Holder == {"ifa", "node", "slot"} \cup Proc \cup Dst

IdevT == [mem : {"live", "rcu", "free", "lost"}, dev : Dev \cup {NONE},
          refcnt : Int \cup {Sat}, dead : BOOLEAN, gp : SUBSET Reader]
IfaT  == [mem : {"live", "rcu", "free"}, addr : Addr \cup {NONE}, idev : Idev \cup {NONE},
          rt : Dst \cup {NONE}, hashed : BOOLEAN, listed : BOOLEAN, gp : SUBSET Reader]
DstT  == [kind : {"free", "route", "copy"}, table : {"local", "main"},
          dst : Addr \cup {NONE}, dev : Dev \cup {NONE}, idev : Idev \cup {NONE},
          linked : BOOLEAN, hold : SUBSET Holder, from : Dst \cup {NONE},
          slot : Dst \cup {NONE}, pcpu : BOOLEAN, cb : {"none", "node", "pcpu", "destroy"},
          gp : SUBSET Reader]
CfgT  == [step : {"idle", "hash", "list", "put"}, d : Dev \cup {NONE}, unreg : BOOLEAN,
          i : Idev \cup {NONE}, del : SUBSET Ifa]
RdT   == [pc : {"idle", "copy", "hold", "install", "held", "saddr", "rcu", "hash", "ref"},
          p : Dst \cup Ifa \cup {NONE}, c : Dst \cup {NONE}, i : Idev \cup {NONE}]

Types ==
  /\ nip_ptr \in [Dev -> Idev \cup {NONE}]
  /\ idev \in [Idev -> IdevT]
  /\ ifa \in [Ifa -> IfaT]
  /\ dst \in [Dst -> DstT]
  /\ cfg \in CfgT
  /\ rd \in [Reader -> RdT]

-----------------------------------------------------------------------------
(* The inductive invariant: the life of dst entries, for entries D,        *)
(* addresses F and lookups L.                                              *)

\* Whoever points to an entry is among its holders.  Only the last of them queues
\* dst_destroy_rcu; a route that is linked, or whose release is queued, has its node.
EntryOk(D, o) ==
  /\ D[o].kind = "free" => D[o].cb # "destroy"
  /\ D[o].kind # "free" => (D[o].cb = "destroy" <=> D[o].hold = {})
  /\ D[o].linked => D[o].cb = "none"
  /\ D[o].linked \/ D[o].cb \in {"node", "pcpu"} => D[o].kind = "route" /\ "node" \in D[o].hold
  /\ D[o].kind = "route" => D[o].idev # NONE /\ D[o].from = NONE
  /\ D[o].slot # NONE => /\ D[D[o].slot].kind = "copy"
                         /\ D[D[o].slot].from = o
                         /\ "slot" \in D[D[o].slot].hold
  /\ D[o].from # NONE => /\ D[o].kind = "copy" /\ D[o].idev # NONE
                         /\ D[D[o].from].kind = "route"
                         /\ o \in D[D[o].from].hold

\* A lookup holds the entry it works on.
UsesEntry(D, L, r) ==
  L[r].pc \in {"copy", "hold", "install", "held", "saddr"} =>
    /\ L[r].p \in Dst
    /\ r \in D[L[r].p].hold
    /\ D[L[r].p].kind = "route" \/ (D[L[r].p].from # NONE /\ L[r].pc \in {"held", "saddr"})

\* The copy it makes is its own: it has no idev until nip_rt_copy_init has held one, and
\* nobody else can reach it until it is installed.
OwnsCopy(D, L, r) ==
  /\ L[r].pc \in {"hold", "install"} =>
       /\ L[r].c \in Dst
       /\ D[L[r].c].kind = "copy" /\ D[L[r].c].hold = {r} /\ D[L[r].c].cb = "none"
  /\ L[r].pc = "hold" => /\ L[r].i \in Idev
                         /\ D[L[r].c].idev = NONE /\ D[L[r].c].from = NONE
  /\ L[r].pc = "install" => D[L[r].c].from = L[r].p

\* An address holds its route, and has it to itself.
AddressOk(D, F, f) ==
  F[f].mem = "live" => /\ F[f].rt # NONE
                       /\ D[F[f].rt].kind = "route" /\ "ifa" \in D[F[f].rt].hold
                       /\ \A g \in Ifa : F[g].mem = "live" /\ F[g].rt = F[f].rt => g = f

Entries(D, F, L) ==
  /\ \A o \in Dst : EntryOk(D, o)
  /\ \A r \in Proc : UsesEntry(D, L, r) /\ OwnsCopy(D, L, r)
  /\ \A f \in Ifa : AddressOk(D, F, f)

-----------------------------------------------------------------------------
(* The inductive invariant: the life of idevs.                             *)

\* The idevs I, if R[i] references to i are held.  An idev that was incremented at zero
\* is not live, and never will be again.
Counts(I, R) ==
  \A i \in Idev :
    /\ R[i] \in Nat
    /\ I[i].refcnt # Sat => /\ I[i].refcnt = R[i]
                            /\ I[i].mem = "live" <=> R[i] > 0
    /\ I[i].refcnt = Sat => I[i].mem # "live"
    /\ I[i].mem # "lost"

RefsF == [i \in Idev |-> Refs(i)]

\* dev->nip_ptr and the idevs that are not dead are the same.
Pointers(P, I) ==
  /\ P[Lo] # NONE
  /\ \A d \in Dev : P[d] # NONE => /\ I[P[d]].mem = "live" /\ ~I[P[d]].dead
                                    /\ I[P[d]].dev = d
  /\ \A i \in Idev : I[i].mem = "live" /\ ~I[i].dead => I[i].dev # NONE /\ P[I[i].dev] = i

\* nip_addrconf_ifdown works on an idev, dead if it is to be put.
IfdownOk(C, I) ==
  /\ C.step = "idle" => C.del = {}
  /\ C.step # "idle" => C.i # NONE
  /\ C.step # "idle" /\ C.unreg => I[C.i].mem = "live" /\ I[C.i].dead

\* What is in a list is an address, and an address has a live idev.
ListsOk(F, C, I) ==
  \A f \in Ifa :
    /\ F[f].hashed \/ F[f].listed \/ f \in C.del => F[f].mem = "live"
    /\ F[f].mem = "live" => F[f].idev # NONE /\ I[F[f].idev].mem = "live"

\* The memory m of M is not freed before s leaves its critical section.
Safe(M, s, m) == M[m].mem = "live" \/ (M[m].mem = "rcu" /\ s \in M[m].gp)

ReaderOk(L, F, I, s) ==
  /\ L[s].pc \in {"rcu", "ref"} => L[s].i # NONE
  /\ L[s].pc = "rcu" => Safe(I, s, L[s].i)
  /\ L[s].pc = "hash" => /\ L[s].p \in Ifa
                         /\ Safe(F, s, L[s].p)
                         /\ F[L[s].p].idev # NONE
                         /\ Safe(I, s, F[L[s].p].idev)

Idevs ==
  /\ Counts(idev, RefsF)
  /\ Pointers(nip_ptr, idev)
  /\ IfdownOk(cfg, idev)
  /\ ListsOk(ifa, cfg, idev)
  /\ \A s \in Soft : ReaderOk(rd, ifa, idev, s)

Inv == Types /\ Entries(dst, ifa, rd) /\ Idevs

USE AddrconfAssumption DEF AddrconfAssumption

-----------------------------------------------------------------------------
(* Holding and putting idevs.                                              *)

\* What putting and holding may do to the idevs: one that is dead may be put for the last
\* time, and then waits for the readers.  No live idev is incremented at zero.
Evolves(I, J) ==
  \A j \in Idev :
    /\ J[j].dev = I[j].dev /\ J[j].dead = I[j].dead
    /\ \/ J[j].mem = I[j].mem /\ J[j].gp = I[j].gp
       \/ I[j].mem = "live" /\ I[j].dead /\ J[j].mem = "rcu" /\ J[j].gp = InRcu
    /\ I[j].mem = "live" => J[j].refcnt # Sat
    /\ I[j].refcnt = Sat => J[j].refcnt = Sat

\* nin_dev_hold.
LEMMA HoldOk ==
  ASSUME NEW I \in [Idev -> IdevT], NEW R \in [Idev -> Nat], Counts(I, R), NEW i \in Idev
  PROVE  /\ Hold(I, i) \in [Idev -> IdevT]
         /\ Counts(Hold(I, i), [R EXCEPT ![i] = @ + 1])
         /\ Evolves(I, Hold(I, i))
         /\ \A j \in Idev : Hold(I, i)[j].mem = I[j].mem
<1>1. PICK n : n = IF I[i].refcnt \in {0, Sat} THEN Sat ELSE I[i].refcnt + 1
  OBVIOUS
<1>2. Hold(I, i) = [I EXCEPT ![i].refcnt = n]
  BY <1>1 DEF Hold
<1>3. PICK J : J = Hold(I, i)
  OBVIOUS
<1>4. n \in Int \cup {Sat}
  BY <1>1 DEF IdevT
<1>5. /\ J \in [Idev -> IdevT]
      /\ \A j \in Idev : j # i => J[j] = I[j]
      /\ J[i].refcnt = n /\ J[i].mem = I[i].mem /\ J[i].dev = I[i].dev
      /\ J[i].dead = I[i].dead /\ J[i].gp = I[i].gp
  BY <1>2, <1>3, <1>4 DEF IdevT
<1>6. /\ R[i] \in Nat
      /\ I[i].refcnt # Sat => I[i].refcnt = R[i] /\ (I[i].mem = "live" <=> R[i] > 0)
      /\ I[i].refcnt = Sat => I[i].mem # "live"
      /\ I[i].mem # "lost"
  BY DEF Counts
<1>7. n # Sat => n = R[i] + 1 /\ I[i].refcnt # Sat /\ R[i] > 0
  BY <1>1, <1>6
<1>8. I[i].mem = "live" => n # Sat
  BY <1>1, <1>6
<1>9. Counts(J, [R EXCEPT ![i] = @ + 1])
  BY <1>5, <1>6, <1>7, <1>8 DEF Counts
<1>10. Evolves(I, J)
  <2>1. I[i].refcnt = Sat => n = Sat
    BY <1>1
  <2>2. \A j \in Idev : I[j].mem = "live" => I[j].refcnt # Sat
    BY DEF Counts
  <2> QED
    BY <1>5, <1>8, <2>1, <2>2 DEF Evolves
<1> QED
  BY <1>3, <1>5, <1>9, <1>10

\* nin_dev_put: the last reference is put of a dead idev only.
LEMMA PutOk ==
  ASSUME NEW I \in [Idev -> IdevT], NEW R \in [Idev -> Nat], Counts(I, R), NEW i \in Idev,
         R[i] > 0, R[i] = 1 /\ I[i].mem = "live" => I[i].dead
  PROVE  /\ Put(I, i) \in [Idev -> IdevT]
         /\ Counts(Put(I, i), [R EXCEPT ![i] = @ - 1])
         /\ Evolves(I, Put(I, i))
<1>1. PICK n : n = IF I[i].refcnt = Sat THEN Sat ELSE I[i].refcnt - 1
  OBVIOUS
<1>2. PICK K : K = [I EXCEPT ![i].refcnt = n]
  OBVIOUS
<1>3. /\ R[i] \in Nat
      /\ I[i].refcnt # Sat => I[i].refcnt = R[i] /\ (I[i].mem = "live" <=> R[i] > 0)
      /\ I[i].refcnt = Sat => I[i].mem # "live"
      /\ I[i].mem # "lost"
  BY DEF Counts
<1>4. n # Sat => n = R[i] - 1 /\ I[i].refcnt # Sat /\ I[i].mem = "live"
  BY <1>1, <1>3
<1>5. n \in Int \cup {Sat} /\ (I[i].refcnt = Sat <=> n = Sat)
  BY <1>1, <1>3 DEF IdevT
<1>6. /\ K \in [Idev -> IdevT]
      /\ \A j \in Idev : j # i => K[j] = I[j]
      /\ K[i].refcnt = n /\ K[i].mem = I[i].mem /\ K[i].dev = I[i].dev
      /\ K[i].dead = I[i].dead /\ K[i].gp = I[i].gp
  BY <1>2, <1>5 DEF IdevT
<1>7. Put(I, i) = IF n = 0 THEN nin_dev_finish_destroy(K, i) ELSE K
  <2>1. Put(I, i) = IF K[i].refcnt = 0 THEN nin_dev_finish_destroy(K, i) ELSE K
    BY <1>1, <1>2 DEF Put
  <2> QED
    BY <1>6, <2>1
<1>8. \A j \in Idev : I[j].mem = "live" => I[j].refcnt # Sat
  BY DEF Counts
<1>9. CASE n = 0
  <2>1. R[i] = 1 /\ I[i].mem = "live" /\ I[i].dead
    BY <1>3, <1>4, <1>9
  <2>2. PICK J : J = nin_dev_finish_destroy(K, i)
    OBVIOUS
  <2>3. J = [K EXCEPT ![i].mem = "rcu", ![i].gp = InRcu]
    BY <1>6, <2>1, <2>2 DEF nin_dev_finish_destroy
  <2>4. InRcu \in SUBSET Reader
    BY DEF InRcu, Reader
  <2>5. /\ J \in [Idev -> IdevT]
        /\ \A j \in Idev : j # i => J[j] = I[j]
        /\ J[i].refcnt = 0 /\ J[i].mem = "rcu" /\ J[i].dev = I[i].dev
        /\ J[i].dead = I[i].dead /\ J[i].gp = InRcu
    <3>1. K[i] \in IdevT /\ K[i].refcnt = 0
      BY <1>6, <1>9
    <3>2. J = [K EXCEPT ![i] = [@ EXCEPT !.mem = "rcu", !.gp = InRcu]]
      BY <1>6, <2>3 DEF IdevT
    <3>3. PICK x : x = [K[i] EXCEPT !.mem = "rcu", !.gp = InRcu]
      OBVIOUS
    <3>4. /\ x \in IdevT /\ x.refcnt = 0 /\ x.mem = "rcu" /\ x.gp = InRcu
          /\ x.dev = K[i].dev /\ x.dead = K[i].dead
      BY <3>1, <3>3, <2>4 DEF IdevT
    <3>5. J = [K EXCEPT ![i] = x]
      BY <3>2, <3>3
    <3> QED
      BY <1>6, <3>4, <3>5
  <2>6. Counts(J, [R EXCEPT ![i] = @ - 1])
    BY <2>1, <2>5 DEF Counts
  <2>7. Evolves(I, J)
    <3>1. I[i].refcnt # Sat /\ 0 # Sat
      BY <1>3, <2>1
    <3> QED
      BY <1>8, <2>1, <2>5, <3>1 DEF Evolves
  <2> QED
    BY <1>7, <1>9, <2>2, <2>5, <2>6, <2>7
<1>10. CASE n # 0
  <2>1. Put(I, i) = K
    BY <1>7, <1>10
  <2>2. n # Sat => R[i] - 1 > 0
    BY <1>3, <1>4, <1>10
  <2>3. Counts(K, [R EXCEPT ![i] = @ - 1])
    BY <1>3, <1>4, <1>5, <1>6, <2>2 DEF Counts
  <2>4. Evolves(I, K)
    BY <1>5, <1>6, <1>8 DEF Evolves
  <2> QED
    BY <1>6, <2>1, <2>3, <2>4
<1> QED
  BY <1>9, <1>10

\* Holding, then holding or putting.
LEMMA EvolvesTrans ==
  ASSUME NEW I, NEW J, NEW K, Evolves(I, J), \A j \in Idev : J[j].mem = I[j].mem,
         Evolves(J, K)
  PROVE  Evolves(I, K)
  BY DEF Evolves

-----------------------------------------------------------------------------
(* Counting references.                                                    *)

IfaSet(i) == {f \in Ifa : ifa[f].mem = "live" /\ ifa[f].idev = i}
DstSet(i) == {o \in Dst : dst[o].idev = i}
RefSet(i) == {s \in Soft : rd[s].pc = "ref" /\ rd[s].i = i}
PtrRef(i) == IF \E d \in Dev : nip_ptr[d] = i THEN 1 ELSE 0
LoRef(i)  == IF i = nip_ptr[Lo] THEN 2 ELSE 0
CfgRef(i) == IF cfg.step # "idle" /\ cfg.unreg /\ cfg.i = i THEN 1 ELSE 0

\* What x adds to the cardinality of S.
One(x, S) == IF x \in S THEN 1 ELSE 0

\* The references by kind; every kind is finite.
LEMMA RefsIs ==
  \A i \in Idev :
    /\ Refs(i) = PtrRef(i) + LoRef(i) + CfgRef(i)
                   + Cardinality(IfaSet(i)) + Cardinality(DstSet(i)) + Cardinality(RefSet(i))
    /\ IsFiniteSet(IfaSet(i)) /\ IsFiniteSet(DstSet(i)) /\ IsFiniteSet(RefSet(i))
<1>1. TAKE i \in Idev
<1>2. IfaSet(i) \in SUBSET Ifa /\ DstSet(i) \in SUBSET Dst /\ RefSet(i) \in SUBSET Soft
  BY DEF IfaSet, DstSet, RefSet
<1>3. IsFiniteSet(IfaSet(i)) /\ IsFiniteSet(DstSet(i)) /\ IsFiniteSet(RefSet(i))
  BY <1>2, FS_Subset
<1> QED
  BY <1>3 DEF Refs, PtrRef, LoRef, CfgRef, IfaSet, DstSet, RefSet

\* The same in the next state.
LEMMA RefsIsNext == RefsIs!:'
BY RefsIs, PTL

\* A finite set with an element has a positive cardinality.
LEMMA CardPositive ==
  ASSUME NEW S, IsFiniteSet(S)
  PROVE  Cardinality(S) \in Nat /\ \A x : Cardinality(S) >= One(x, S)
<1>1. Cardinality(S) \in Nat
  BY FS_CardinalityType
<1>2. ASSUME NEW x, x \in S
      PROVE  Cardinality(S) >= 1
  BY <1>1, <1>2, FS_EmptySet
<1> QED
  BY <1>1, <1>2 DEF One

\* Every holder is counted.
LEMMA RefsBound ==
  \A i \in Idev :
    /\ Refs(i) \in Nat
    /\ \A f, o, s : Refs(i) >= PtrRef(i) + CfgRef(i)
                                + One(f, IfaSet(i)) + One(o, DstSet(i)) + One(s, RefSet(i))
<1>1. TAKE i \in Idev
<1>2. /\ PtrRef(i) \in Nat /\ LoRef(i) \in Nat /\ CfgRef(i) \in Nat
      /\ Cardinality(IfaSet(i)) \in Nat /\ Cardinality(DstSet(i)) \in Nat
      /\ Cardinality(RefSet(i)) \in Nat
  BY RefsIs, CardPositive DEF PtrRef, LoRef, CfgRef
<1>3. Refs(i) = PtrRef(i) + LoRef(i) + CfgRef(i)
                   + Cardinality(IfaSet(i)) + Cardinality(DstSet(i)) + Cardinality(RefSet(i))
  BY RefsIs
<1>4. Refs(i) \in Nat
  BY <1>2, <1>3
<1>5. ASSUME NEW f, NEW o, NEW s
      PROVE  Refs(i) >= PtrRef(i) + CfgRef(i)
                          + One(f, IfaSet(i)) + One(o, DstSet(i)) + One(s, RefSet(i))
  <2>1. /\ Cardinality(IfaSet(i)) >= One(f, IfaSet(i))
        /\ Cardinality(DstSet(i)) >= One(o, DstSet(i))
        /\ Cardinality(RefSet(i)) >= One(s, RefSet(i))
    BY RefsIs, CardPositive
  <2>2. One(f, IfaSet(i)) \in Nat /\ One(o, DstSet(i)) \in Nat /\ One(s, RefSet(i)) \in Nat
    BY DEF One
  <2> QED
    BY <1>2, <1>3, <2>1, <2>2
<1> QED
  BY <1>4, <1>5

\* The same in the next state.
LEMMA RefsBoundNext == RefsBound!:'
BY RefsBound, PTL

\* Two finite sets that differ at most in x.
LEMMA CardExcept ==
  ASSUME NEW S, NEW T, NEW x, IsFiniteSet(S), IsFiniteSet(T), S \ {x} = T \ {x}
  PROVE  Cardinality(T) - One(x, T) = Cardinality(S) - One(x, S)
<1>1. Cardinality(S) \in Nat /\ Cardinality(T) \in Nat
  BY FS_CardinalityType
<1>2. /\ Cardinality(S \ {x}) = IF x \in S THEN Cardinality(S) - 1 ELSE Cardinality(S)
      /\ Cardinality(T \ {x}) = IF x \in T THEN Cardinality(T) - 1 ELSE Cardinality(T)
  BY FS_RemoveElement
<1>3. Cardinality(S \ {x}) = Cardinality(T \ {x})
  OBVIOUS
<1> QED
  BY <1>1, <1>2, <1>3 DEF One

\* A step that changes the idev of one address, one entry and one reader.
LEMMA RefsChange ==
  ASSUME NEW f, NEW o, NEW s,
         \A i \in Idev : /\ IfaSet(i)' \ {f} = IfaSet(i) \ {f}
                         /\ DstSet(i)' \ {o} = DstSet(i) \ {o}
                         /\ RefSet(i)' \ {s} = RefSet(i) \ {s}
  PROVE  \A i \in Idev :
           Refs(i)' = Refs(i) + (PtrRef(i)' - PtrRef(i)) + (LoRef(i)' - LoRef(i))
                        + (CfgRef(i)' - CfgRef(i))
                        + (One(f, IfaSet(i)') - One(f, IfaSet(i)))
                        + (One(o, DstSet(i)') - One(o, DstSet(i)))
                        + (One(s, RefSet(i)') - One(s, RefSet(i)))
<1>1. TAKE i \in Idev
<1>2. /\ IsFiniteSet(IfaSet(i)) /\ IsFiniteSet(DstSet(i)) /\ IsFiniteSet(RefSet(i))
      /\ IsFiniteSet(IfaSet(i)') /\ IsFiniteSet(DstSet(i)') /\ IsFiniteSet(RefSet(i)')
  BY RefsIs, RefsIsNext
<1>3. /\ Cardinality(IfaSet(i)') - One(f, IfaSet(i)') = Cardinality(IfaSet(i)) - One(f, IfaSet(i))
      /\ Cardinality(DstSet(i)') - One(o, DstSet(i)') = Cardinality(DstSet(i)) - One(o, DstSet(i))
      /\ Cardinality(RefSet(i)') - One(s, RefSet(i)') = Cardinality(RefSet(i)) - One(s, RefSet(i))
  BY <1>2, CardExcept
<1>4. /\ Cardinality(IfaSet(i)) \in Nat /\ Cardinality(DstSet(i)) \in Nat
      /\ Cardinality(RefSet(i)) \in Nat /\ Cardinality(IfaSet(i)') \in Nat
      /\ Cardinality(DstSet(i)') \in Nat /\ Cardinality(RefSet(i)') \in Nat
  BY <1>2, FS_CardinalityType
<1>5. /\ One(f, IfaSet(i)) \in Nat /\ One(o, DstSet(i)) \in Nat /\ One(s, RefSet(i)) \in Nat
      /\ One(f, IfaSet(i)') \in Nat /\ One(o, DstSet(i)') \in Nat /\ One(s, RefSet(i)') \in Nat
  BY DEF One
<1>6. /\ PtrRef(i) \in Nat /\ LoRef(i) \in Nat /\ CfgRef(i) \in Nat
      /\ PtrRef(i)' \in Nat /\ LoRef(i)' \in Nat /\ CfgRef(i)' \in Nat
  BY DEF PtrRef, LoRef, CfgRef
<1>7. /\ Refs(i) = PtrRef(i) + LoRef(i) + CfgRef(i)
                   + Cardinality(IfaSet(i)) + Cardinality(DstSet(i)) + Cardinality(RefSet(i))
      /\ Refs(i)' = PtrRef(i)' + LoRef(i)' + CfgRef(i)'
                   + Cardinality(IfaSet(i)') + Cardinality(DstSet(i)') + Cardinality(RefSet(i)')
  BY RefsIs, RefsIsNext
<1>8. PICK a, b, c \in Int : /\ a = One(f, IfaSet(i)') - One(f, IfaSet(i))
                              /\ b = One(o, DstSet(i)') - One(o, DstSet(i))
                              /\ c = One(s, RefSet(i)') - One(s, RefSet(i))
  BY <1>5
<1>9. /\ Cardinality(IfaSet(i)') = Cardinality(IfaSet(i)) + a
      /\ Cardinality(DstSet(i)') = Cardinality(DstSet(i)) + b
      /\ Cardinality(RefSet(i)') = Cardinality(RefSet(i)) + c
  BY <1>3, <1>4, <1>5, <1>8
<1>10. Refs(i)' = Refs(i) + (PtrRef(i)' - PtrRef(i)) + (LoRef(i)' - LoRef(i))
                    + (CfgRef(i)' - CfgRef(i)) + a + b + c
  BY <1>4, <1>6, <1>7, <1>9
<1> QED
  BY <1>8, <1>10

-----------------------------------------------------------------------------
(* Steps of the idevs.                                                     *)

\* The next idevs are J, after the readers that left have been taken out.
Becomes(J) ==
  \A j \in Idev : /\ idev'[j].mem = J[j].mem /\ idev'[j].refcnt = J[j].refcnt
                  /\ idev'[j].dev = J[j].dev /\ idev'[j].dead = J[j].dead

\* An idev that is live and still has a holder stays live.
LEMMA LiveKept ==
  ASSUME NEW I, NEW J, NEW R, Evolves(I, J), Counts(J, R), NEW i \in Idev,
         I[i].mem = "live", R[i] > 0
  PROVE  J[i].mem = "live"
  BY DEF Evolves, Counts

\* A reader in its critical section stays safe.
LEMMA SafeKept ==
  ASSUME NEW I, NEW J, Evolves(I, J), NEW s, NEW i \in Idev, Safe(I, s, i),
         s \in InRcu \/ J[i].mem = I[i].mem
  PROVE  Safe(J, s, i)
  BY DEF Evolves, Safe

\* From idevs I with the pointers P, holding and putting leads to J, which counts the
\* references of the next state.
LEMMA IdevsStep ==
  ASSUME Types', NEW I, NEW J, Pointers(nip_ptr', I), IfdownOk(cfg', I),
         ListsOk(ifa', cfg', I), \A s \in Soft : ReaderOk(rd', ifa', I, s),
         Evolves(I, J), Becomes(J), Counts(J, RefsF'),
         \A s \in Soft : rd'[s].pc \in {"rcu", "hash"} =>
           /\ s \in InRcu \/ \A j \in Idev : J[j].mem = I[j].mem
           /\ \A j \in Idev : s \in J[j].gp => s \in idev'[j].gp
  PROVE  Idevs'
<1>1. Counts(idev', RefsF')
  BY DEF Becomes, Counts
<1>2. Pointers(nip_ptr', idev')
  <2>1. /\ nip_ptr' \in [Dev -> Idev \cup {NONE}] /\ Lo \in Dev
        /\ \A i \in Idev : idev'[i].dev \in Dev \cup {NONE}
    BY DEF Types, IdevT
  <2>2. \A j \in Idev : /\ idev'[j].dev = I[j].dev /\ idev'[j].dead = I[j].dead
                        /\ idev'[j].mem = I[j].mem \/ (I[j].dead /\ idev'[j].mem = "rcu")
    BY DEF Becomes, Evolves
  <2> QED
    BY <2>1, <2>2 DEF Pointers
<1>3. \A i \in Idev : I[i].mem = "live" /\ Refs(i)' > 0 => idev'[i].mem = "live"
  <2>1. \A i \in Idev : RefsF'[i] = Refs(i)'
    BY DEF RefsF
  <2> QED
    BY <2>1, LiveKept DEF Becomes
<1>4. IfdownOk(cfg', idev')
  <2>1. SUFFICES ASSUME cfg'.step # "idle", cfg'.unreg
                 PROVE  idev'[cfg'.i].mem = "live" /\ idev'[cfg'.i].dead
    BY DEF IfdownOk
  <2>2. cfg'.i \in Idev /\ I[cfg'.i].mem = "live" /\ I[cfg'.i].dead
    BY <2>1 DEF IfdownOk, Types, CfgT
  <2>3. PICK i \in Idev : i = cfg'.i
    BY <2>2
  <2>4. CfgRef(i)' = 1
    BY <2>1, <2>3 DEF CfgRef
  <2>5. /\ Refs(i)' \in Nat /\ PtrRef(i)' \in Nat /\ One(NONE, IfaSet(i)') \in Nat
        /\ One(NONE, DstSet(i)') \in Nat /\ One(NONE, RefSet(i)') \in Nat
        /\ Refs(i)' >= PtrRef(i)' + CfgRef(i)' + One(NONE, IfaSet(i)')
                         + One(NONE, DstSet(i)') + One(NONE, RefSet(i)')
    BY RefsBoundNext DEF PtrRef, One
  <2>6. Refs(i)' > 0
    BY <2>4, <2>5
  <2> QED
    BY <1>3, <2>2, <2>3, <2>6 DEF Becomes, Evolves
<1>5. ListsOk(ifa', cfg', idev')
  <2>1. SUFFICES ASSUME NEW f \in Ifa, ifa'[f].mem = "live"
                 PROVE  idev'[ifa'[f].idev].mem = "live"
    BY DEF ListsOk
  <2>2. ifa'[f].idev \in Idev /\ I[ifa'[f].idev].mem = "live"
    BY <2>1 DEF ListsOk, Types, IfaT
  <2>3. PICK i \in Idev : i = ifa'[f].idev
    BY <2>2
  <2>4. One(f, IfaSet(i)') = 1
    BY <2>1, <2>3 DEF IfaSet, One
  <2>5. /\ Refs(i)' \in Nat /\ PtrRef(i)' \in Nat /\ CfgRef(i)' \in Nat
        /\ One(NONE, DstSet(i)') \in Nat /\ One(NONE, RefSet(i)') \in Nat
        /\ Refs(i)' >= PtrRef(i)' + CfgRef(i)' + One(f, IfaSet(i)')
                         + One(NONE, DstSet(i)') + One(NONE, RefSet(i)')
    BY RefsBoundNext DEF PtrRef, CfgRef, One
  <2>6. Refs(i)' > 0
    BY <2>4, <2>5
  <2> QED
    BY <1>3, <2>2, <2>3, <2>6
<1>6. ASSUME NEW s \in Soft
      PROVE  ReaderOk(rd', ifa', idev', s)
  <2>1. /\ rd'[s].i \in Idev \cup {NONE}
        /\ \A f \in Ifa : ifa'[f].idev \in Idev \cup {NONE}
    BY DEF Types, RdT, IfaT, Reader
  <2>2. ASSUME rd'[s].pc \in {"rcu", "hash"}, NEW i \in Idev, Safe(I, s, i)
        PROVE  Safe(idev', s, i)
    <3>1. s \in InRcu \/ J[i].mem = I[i].mem
      BY <2>2
    <3>2. Safe(J, s, i)
      BY <2>2, <3>1, SafeKept
    <3> QED
      BY <2>2, <3>2 DEF Safe, Becomes
  <2>3. ReaderOk(rd', ifa', I, s)
    OBVIOUS
  <2> QED
    BY <2>1, <2>2, <2>3 DEF ReaderOk
<1> QED
  BY <1>1, <1>2, <1>4, <1>5, <1>6 DEF Idevs

-----------------------------------------------------------------------------
(* Steps of the dst entries.                                               *)

Working == {"copy", "hold", "install", "held", "saddr"}

\* x is y but for its holders and its callback.
Alike(x, y) ==
  /\ x.kind = y.kind /\ x.linked = y.linked /\ x.idev = y.idev /\ x.from = y.from
  /\ x.slot = y.slot /\ x.pcpu = y.pcpu /\ x.table = y.table

\* Nobody relies on h being a holder of o.
Unneeded(D, F, L, o, h) ==
  /\ h = "node" => ~D[o].linked /\ D[o].cb \notin {"node", "pcpu"}
  /\ h = "slot" => \A x \in Dst : D[x].slot # o
  /\ h = "ifa" => \A f \in Ifa : F[f].mem = "live" => F[f].rt # o
  /\ h \in Proc => /\ L[h].pc \in Working => L[h].p # o
                   /\ L[h].pc \in {"hold", "install"} => L[h].c # o
  /\ h \in Dst => D[h].from # o

\* dst_release changes the holders of one entry.
LEMMA ReleaseIs ==
  ASSUME NEW D \in [Dst -> DstT], NEW o \in Dst, NEW h
  PROVE  /\ Release(D, o, h) \in [Dst -> DstT]
         /\ \A x \in Dst : x # o => Release(D, o, h)[x] = D[x]
         /\ Alike(Release(D, o, h)[o], D[o])
         /\ Release(D, o, h)[o].hold = D[o].hold \ {h}
         /\ Release(D, o, h)[o].cb = IF D[o].hold \ {h} = {} THEN "destroy" ELSE D[o].cb
<1>1. PICK left, b, g : /\ left = D[o].hold \ {h}
                        /\ b = IF left = {} THEN "destroy" ELSE D[o].cb
                        /\ g = IF left = {} THEN InRcu ELSE D[o].gp
  OBVIOUS
<1>2. PICK x : x = [D[o] EXCEPT !.hold = left, !.cb = b, !.gp = g]
  OBVIOUS
<1>3. Release(D, o, h) = [D EXCEPT ![o] = x]
  BY <1>1, <1>2 DEF Release, DstT
<1>4. /\ left \in SUBSET Holder /\ b \in {"none", "node", "pcpu", "destroy"}
      /\ g \in SUBSET Reader
  BY <1>1 DEF DstT, InRcu, Reader
<1>5. D[o] \in DstT
  OBVIOUS
<1>6. x \in DstT /\ Alike(x, D[o]) /\ x.hold = left /\ x.cb = b
  BY <1>2, <1>4, <1>5 DEF DstT, Alike
<1> QED
  BY <1>1, <1>3, <1>6

\* Giving up a reference that nobody relies on.
LEMMA ReleaseKeeps ==
  ASSUME NEW D \in [Dst -> DstT], NEW F \in [Ifa -> IfaT], NEW L \in [Reader -> RdT],
         Entries(D, F, L), NEW o \in Dst, D[o].kind # "free", NEW h, Unneeded(D, F, L, o, h)
  PROVE  Entries(Release(D, o, h), F, L)
<1>1. PICK E \in [Dst -> DstT] : E = Release(D, o, h)
  BY ReleaseIs
<1>2. /\ \A x \in Dst : x # o => E[x] = D[x]
      /\ \A x \in Dst : Alike(E[x], D[x])
      /\ E[o].hold = D[o].hold \ {h}
      /\ E[o].cb = IF E[o].hold = {} THEN "destroy" ELSE D[o].cb
  BY <1>1, ReleaseIs DEF Alike
<1>3. \A x \in Dst : D[x].slot \in Dst \cup {NONE} /\ D[x].from \in Dst \cup {NONE}
  BY DEF DstT
<1>4. ASSUME NEW x \in Dst
      PROVE  EntryOk(E, x)
  <2>1. EntryOk(D, x)
    BY DEF Entries
  <2>2. /\ E[x].kind = "free" => E[x].cb # "destroy"
        /\ E[x].kind # "free" => (E[x].cb = "destroy" <=> E[x].hold = {})
        /\ E[x].linked => E[x].cb = "none"
        /\ E[x].linked \/ E[x].cb \in {"node", "pcpu"} => E[x].kind = "route" /\ "node" \in E[x].hold
    BY <1>2, <2>1 DEF Alike, EntryOk, Unneeded
  <2>3. E[x].kind = "route" => E[x].idev # NONE /\ E[x].from = NONE
    BY <1>2, <2>1 DEF Alike, EntryOk
  <2>4. ASSUME E[x].slot # NONE
        PROVE  /\ E[E[x].slot].kind = "copy" /\ E[E[x].slot].from = x
               /\ "slot" \in E[E[x].slot].hold
    <3>1. PICK y \in Dst : y = E[x].slot /\ y = D[x].slot
      BY <1>2, <1>3, <2>4 DEF Alike
    <3>2. D[y].kind = "copy" /\ D[y].from = x /\ "slot" \in D[y].hold
      BY <2>1, <3>1 DEF EntryOk
    <3>3. y = o => h # "slot"
      BY <3>1 DEF Unneeded
    <3> QED
      BY <1>2, <3>1, <3>2, <3>3 DEF Alike
  <2>5. ASSUME E[x].from # NONE
        PROVE  /\ E[x].kind = "copy" /\ E[x].idev # NONE
               /\ E[E[x].from].kind = "route" /\ x \in E[E[x].from].hold
    <3>1. PICK y \in Dst : y = E[x].from /\ y = D[x].from
      BY <1>2, <1>3, <2>5 DEF Alike
    <3>2. D[x].kind = "copy" /\ D[x].idev # NONE /\ D[y].kind = "route" /\ x \in D[y].hold
      BY <2>1, <3>1 DEF EntryOk
    <3>3. y = o => h # x
      BY <3>1 DEF Unneeded
    <3> QED
      BY <1>2, <3>1, <3>2, <3>3 DEF Alike
  <2> QED
    BY <2>2, <2>3, <2>4, <2>5 DEF EntryOk
<1>5. ASSUME NEW r \in Proc
      PROVE  UsesEntry(E, L, r) /\ OwnsCopy(E, L, r)
  <2>1. UsesEntry(D, L, r) /\ OwnsCopy(D, L, r)
    BY DEF Entries
  <2>2. UsesEntry(E, L, r)
    <3>1. SUFFICES ASSUME L[r].pc \in Working
                   PROVE  /\ L[r].p \in Dst /\ r \in E[L[r].p].hold
                          /\ \/ E[L[r].p].kind = "route"
                             \/ E[L[r].p].from # NONE /\ L[r].pc \in {"held", "saddr"}
      BY DEF UsesEntry, Working
    <3>2. /\ L[r].p \in Dst /\ r \in D[L[r].p].hold
          /\ D[L[r].p].kind = "route" \/ (D[L[r].p].from # NONE /\ L[r].pc \in {"held", "saddr"})
      BY <2>1, <3>1 DEF UsesEntry, Working
    <3>3. L[r].p = o => h # r
      BY <3>1 DEF Unneeded
    <3> QED
      BY <1>2, <3>2, <3>3 DEF Alike
  <2>3. OwnsCopy(E, L, r)
    <3>1. SUFFICES ASSUME L[r].pc \in {"hold", "install"}
                   PROVE  OwnsCopy(E, L, r)
      BY DEF OwnsCopy
    <3>2. L[r].c \in Dst /\ D[L[r].c].hold = {r}
      BY <2>1, <3>1 DEF OwnsCopy
    <3>3. L[r].c = o => h # r
      BY <3>1 DEF Unneeded
    <3>4. E[L[r].c].hold = {r} /\ E[L[r].c].cb = D[L[r].c].cb /\ Alike(E[L[r].c], D[L[r].c])
      BY <1>2, <3>2, <3>3
    <3> QED
      BY <2>1, <3>1, <3>2, <3>4 DEF OwnsCopy, Alike
  <2> QED
    BY <2>2, <2>3
<1>6. ASSUME NEW f \in Ifa
      PROVE  AddressOk(E, F, f)
  <2>1. AddressOk(D, F, f) /\ F[f].rt \in Dst \cup {NONE}
    BY DEF Entries, IfaT
  <2>2. F[f].mem = "live" /\ F[f].rt = o => h # "ifa"
    BY DEF Unneeded
  <2> QED
    BY <1>2, <2>1, <2>2 DEF AddressOk, Alike
<1> QED
  BY <1>1, <1>4, <1>5, <1>6 DEF Entries

\* Nobody points to o.
Unreached(D, F, L, o) ==
  /\ \A x \in Dst : D[x].slot # o /\ D[x].from # o
  /\ \A f \in Ifa : F[f].mem = "live" => F[f].rt # o
  /\ \A r \in Proc : /\ L[r].pc \in Working => L[r].p # o
                     /\ L[r].pc \in {"hold", "install"} => L[r].c # o

\* Memory that nobody points to may become anything that points to nothing itself.
LEMMA ReplaceKeeps ==
  ASSUME NEW D \in [Dst -> DstT], NEW F \in [Ifa -> IfaT], NEW L \in [Reader -> RdT],
         Entries(D, F, L), NEW o \in Dst, Unreached(D, F, L, o), NEW v \in DstT,
         EntryOk([D EXCEPT ![o] = v], o)
  PROVE  Entries([D EXCEPT ![o] = v], F, L)
<1>1. PICK E \in [Dst -> DstT] : E = [D EXCEPT ![o] = v]
  OBVIOUS
<1>2. E[o] = v /\ \A x \in Dst : x # o => E[x] = D[x]
  BY <1>1
<1>3. \A x \in Dst : D[x].slot \in Dst \cup {NONE} /\ D[x].from \in Dst \cup {NONE}
  BY DEF DstT
<1>4. ASSUME NEW x \in Dst, x # o
      PROVE  EntryOk(E, x)
  <2>1. EntryOk(D, x) /\ D[x].slot # o /\ D[x].from # o /\ E[x] = D[x]
    BY <1>2, <1>4 DEF Entries, Unreached
  <2> QED
    BY <1>2, <1>3, <2>1 DEF EntryOk
<1>5. ASSUME NEW r \in Proc
      PROVE  UsesEntry(E, L, r) /\ OwnsCopy(E, L, r)
  <2>1. UsesEntry(D, L, r) /\ OwnsCopy(D, L, r)
    BY DEF Entries
  <2> QED
    BY <1>2, <2>1 DEF Unreached, UsesEntry, OwnsCopy, Working
<1>6. ASSUME NEW f \in Ifa
      PROVE  AddressOk(E, F, f)
  <2>1. AddressOk(D, F, f) /\ F[f].rt \in Dst \cup {NONE}
    BY DEF Entries, IfaT
  <2> QED
    BY <1>2, <2>1 DEF Unreached, AddressOk
<1> QED
  BY <1>1, <1>4, <1>5, <1>6 DEF Entries

\* One lookup goes on.
LEMMA LookupKeeps ==
  ASSUME NEW D, NEW F, NEW L \in [Reader -> RdT], Entries(D, F, L), NEW r \in Reader, NEW v,
         r \in Proc => /\ UsesEntry(D, [L EXCEPT ![r] = v], r)
                       /\ OwnsCopy(D, [L EXCEPT ![r] = v], r)
  PROVE  Entries(D, F, [L EXCEPT ![r] = v])
<1>1. PICK M : M = [L EXCEPT ![r] = v]
  OBVIOUS
<1>2. \A q \in Proc : q # r => M[q] = L[q]
  BY <1>1 DEF Reader
<1>3. \A q \in Proc : UsesEntry(D, M, q) /\ OwnsCopy(D, M, q)
  <2>1. TAKE q \in Proc
  <2>2. CASE q = r
    BY <1>1, <2>2
  <2>3. CASE q # r
    <3>1. M[q] = L[q]
      BY <1>2, <2>3
    <3>2. UsesEntry(D, L, q) /\ OwnsCopy(D, L, q)
      BY DEF Entries
    <3> QED
      BY <3>1, <3>2 DEF UsesEntry, OwnsCopy
  <2> QED
    BY <2>2, <2>3
<1> QED
  BY <1>1, <1>3 DEF Entries

\* A lookup that ends needs nothing any more.
LEMMA LookupEnds ==
  ASSUME NEW D, NEW F, NEW L \in [Reader -> RdT], Entries(D, F, L), NEW r \in Reader,
         NEW v, v.pc \notin Working
  PROVE  Entries(D, F, [L EXCEPT ![r] = v])
<1>1. UsesEntry(D, [L EXCEPT ![r] = v], r) /\ OwnsCopy(D, [L EXCEPT ![r] = v], r)
  BY DEF UsesEntry, OwnsCopy, Working
<1> QED
  BY <1>1, LookupKeeps

\* Addresses that go away, and changes to addresses that do not matter to their routes.
LEMMA AddressesKeep ==
  ASSUME NEW D, NEW F, NEW G, NEW L, Entries(D, F, L),
         \A f \in Ifa : G[f].mem = "live" => F[f].mem = "live" /\ G[f].rt = F[f].rt
  PROVE  Entries(D, G, L)
  BY DEF Entries, AddressOk

\* Changes to entries that do not matter to their life.
LEMMA AlikeKeeps ==
  ASSUME NEW D, NEW E, NEW F, NEW L, Entries(D, F, L),
         D \in [Dst -> DstT], F \in [Ifa -> IfaT],
         \A x \in Dst : Alike(E[x], D[x]) /\ E[x].hold = D[x].hold /\ E[x].cb = D[x].cb
  PROVE  Entries(E, F, L)
<1>1. \A x \in Dst : D[x].slot \in Dst \cup {NONE} /\ D[x].from \in Dst \cup {NONE}
  BY DEF DstT
<1>2. \A f \in Ifa : F[f].rt \in Dst \cup {NONE}
  BY DEF IfaT
<1>3. \A x \in Dst : EntryOk(E, x)
  BY <1>1 DEF Entries, EntryOk, Alike
<1>4. \A r \in Proc : UsesEntry(E, L, r) /\ OwnsCopy(E, L, r)
  BY DEF Entries, UsesEntry, OwnsCopy, Alike
<1>5. \A f \in Ifa : AddressOk(E, F, f)
  BY <1>2 DEF Entries, AddressOk, Alike
<1> QED
  BY <1>3, <1>4, <1>5 DEF Entries

\* Another holder of an entry that has one and is no lookup's own copy.
LEMMA HolderKeeps ==
  ASSUME NEW D \in [Dst -> DstT], NEW F \in [Ifa -> IfaT], NEW L, Entries(D, F, L),
         NEW o \in Dst, D[o].kind # "free", D[o].hold # {},
         \A r \in Proc : L[r].pc \in {"hold", "install"} => L[r].c # o,
         NEW E, NEW h, \A x \in Dst : x # o => E[x] = D[x], Alike(E[o], D[o]),
         E[o].cb = D[o].cb, E[o].hold = D[o].hold \cup {h}
  PROVE  Entries(E, F, L)
<1>1. \A x \in Dst : D[x].slot \in Dst \cup {NONE} /\ D[x].from \in Dst \cup {NONE}
  BY DEF DstT
<1>2. \A x \in Dst : Alike(E[x], D[x]) /\ E[x].cb = D[x].cb /\ D[x].hold \subseteq E[x].hold
  BY DEF Alike
<1>3. \A x \in Dst : EntryOk(E, x)
  <2>1. TAKE x \in Dst
  <2>2. EntryOk(D, x)
    BY DEF Entries
  <2>3. E[x].kind # "free" => (E[x].cb = "destroy" <=> E[x].hold = {})
    BY <1>2, <2>2 DEF EntryOk, Alike
  <2> QED
    BY <1>1, <1>2, <2>2, <2>3 DEF EntryOk, Alike
<1>4. \A r \in Proc : UsesEntry(E, L, r) /\ OwnsCopy(E, L, r)
  <2>1. TAKE r \in Proc
  <2>2. UsesEntry(D, L, r) /\ OwnsCopy(D, L, r)
    BY DEF Entries
  <2>3. UsesEntry(E, L, r)
    BY <1>2, <2>2 DEF UsesEntry, Alike
  <2>4. OwnsCopy(E, L, r)
    BY <2>2 DEF OwnsCopy
  <2> QED
    BY <2>3, <2>4
<1>5. \A f \in Ifa : AddressOk(E, F, f)
  <2>1. TAKE f \in Ifa
  <2>2. AddressOk(D, F, f) /\ F[f].rt \in Dst \cup {NONE}
    BY DEF Entries, IfaT
  <2> QED
    BY <1>2, <2>2 DEF AddressOk, Alike
<1> QED
  BY <1>3, <1>4, <1>5 DEF Entries

\* The callback of a route goes on; its slot is empty then.
LEMMA CallbackKeeps ==
  ASSUME NEW D \in [Dst -> DstT], NEW F \in [Ifa -> IfaT], NEW L, Entries(D, F, L),
         NEW o \in Dst, D[o].cb \in {"node", "pcpu"},
         NEW E, \A x \in Dst : x # o => E[x] = D[x],
         E[o].kind = D[o].kind, E[o].linked = D[o].linked, E[o].idev = D[o].idev,
         E[o].from = D[o].from, E[o].hold = D[o].hold,
         E[o].slot = NONE, E[o].cb \in {"pcpu", "none"}
  PROVE  Entries(E, F, L)
<1>1. \A x \in Dst : D[x].slot \in Dst \cup {NONE} /\ D[x].from \in Dst \cup {NONE}
  BY DEF DstT
<1>2. D[o].kind = "route" /\ "node" \in D[o].hold /\ D[o].linked = FALSE
  BY DEF Entries, EntryOk, DstT
<1>3. \A x \in Dst : /\ E[x].kind = D[x].kind /\ E[x].hold = D[x].hold /\ E[x].idev = D[x].idev
                     /\ E[x].from = D[x].from /\ E[x].linked = D[x].linked
  OBVIOUS
<1>4. \A x \in Dst : EntryOk(E, x)
  <2>1. TAKE x \in Dst
  <2>2. EntryOk(D, x)
    BY DEF Entries
  <2>3. CASE x = o
    <3>1. E[o].hold # {} /\ E[o].from = NONE /\ E[o].idev # NONE
      BY <1>2, <2>2, <2>3 DEF EntryOk
    <3> QED
      BY <1>2, <2>3, <3>1 DEF EntryOk
  <2>4. CASE x # o
    <3>1. E[x] = D[x]
      BY <2>4
    <3> QED
      BY <1>1, <1>3, <2>2, <3>1 DEF EntryOk
  <2> QED
    BY <2>3, <2>4
<1>5. \A r \in Proc : UsesEntry(E, L, r) /\ OwnsCopy(E, L, r)
  <2>1. TAKE r \in Proc
  <2>2. UsesEntry(D, L, r) /\ OwnsCopy(D, L, r)
    BY DEF Entries
  <2>3. UsesEntry(E, L, r)
    BY <1>3, <2>2 DEF UsesEntry
  <2>4. OwnsCopy(E, L, r)
    BY <1>2, <2>2 DEF OwnsCopy
  <2> QED
    BY <2>3, <2>4
<1>6. \A f \in Ifa : AddressOk(E, F, f)
  <2>1. TAKE f \in Ifa
  <2>2. AddressOk(D, F, f) /\ F[f].rt \in Dst \cup {NONE}
    BY DEF Entries, IfaT
  <2> QED
    BY <1>3, <2>2 DEF AddressOk
<1> QED
  BY <1>4, <1>5, <1>6 DEF Entries

\* An entry gets another idev for the one it has.
LEMMA ExchangeKeeps ==
  ASSUME NEW D \in [Dst -> DstT], NEW F \in [Ifa -> IfaT], NEW L, Entries(D, F, L),
         NEW o \in Dst, D[o].idev # NONE,
         NEW E, \A x \in Dst : x # o => E[x] = D[x],
         E[o].kind = D[o].kind, E[o].linked = D[o].linked, E[o].idev # NONE,
         E[o].from = D[o].from, E[o].hold = D[o].hold,
         E[o].slot = D[o].slot, E[o].cb = D[o].cb
  PROVE  Entries(E, F, L)
<1>1. \A x \in Dst : D[x].slot \in Dst \cup {NONE} /\ D[x].from \in Dst \cup {NONE}
  BY DEF DstT
<1>2. \A x \in Dst : /\ E[x].kind = D[x].kind /\ E[x].hold = D[x].hold /\ E[x].cb = D[x].cb
                     /\ E[x].from = D[x].from /\ E[x].linked = D[x].linked
                     /\ E[x].slot = D[x].slot /\ (E[x].idev = NONE <=> D[x].idev = NONE)
  OBVIOUS
<1>3. \A x \in Dst : EntryOk(E, x)
  BY <1>1, <1>2 DEF Entries, EntryOk
<1>4. \A r \in Proc : UsesEntry(E, L, r) /\ OwnsCopy(E, L, r)
  BY <1>2 DEF Entries, UsesEntry, OwnsCopy
<1>5. \A f \in Ifa : AddressOk(E, F, f)
  <2>1. TAKE f \in Ifa
  <2>2. AddressOk(D, F, f) /\ F[f].rt \in Dst \cup {NONE}
    BY DEF Entries, IfaT
  <2> QED
    BY <1>2, <2>2 DEF AddressOk
<1> QED
  BY <1>3, <1>4, <1>5 DEF Entries

\* nip_fib_del of the linked routes S.
LEMMA UnlinkKeeps ==
  ASSUME NEW D \in [Dst -> DstT], NEW F \in [Ifa -> IfaT], NEW L, Entries(D, F, L),
         NEW S \in SUBSET Dst, \A o \in S : D[o].linked
  PROVE  /\ Unlink(D, S) \in [Dst -> DstT]
         /\ Entries(Unlink(D, S), F, L)
         /\ \A x \in Dst : /\ Unlink(D, S)[x].idev = D[x].idev
                           /\ Unlink(D, S)[x].kind = D[x].kind
                           /\ x \in S => ~Unlink(D, S)[x].linked
<1>1. PICK E : E = Unlink(D, S)
  OBVIOUS
<1>2. InRcu \in SUBSET Reader
  BY DEF InRcu, Reader
<1>3. ASSUME NEW x \in Dst
      PROVE  /\ E[x] \in DstT
             /\ x \notin S => E[x] = D[x]
             /\ x \in S => ~E[x].linked /\ E[x].cb = "node"
             /\ E[x].kind = D[x].kind /\ E[x].hold = D[x].hold /\ E[x].idev = D[x].idev
             /\ E[x].from = D[x].from /\ E[x].slot = D[x].slot
  <2>1. CASE x \in S
    <3>1. E[x] = [D[x] EXCEPT !.linked = FALSE, !.cb = "node", !.gp = InRcu]
      BY <1>1, <2>1 DEF Unlink
    <3>2. D[x] \in DstT
      OBVIOUS
    <3> QED
      BY <1>2, <2>1, <3>1, <3>2 DEF DstT
  <2>2. CASE x \notin S
    <3>1. E[x] = D[x]
      BY <1>1, <2>2 DEF Unlink
    <3> QED
      BY <2>2, <3>1
  <2> QED
    BY <2>1, <2>2
<1>4. E \in [Dst -> DstT]
  <2>1. E = [x \in Dst |-> E[x]]
    BY <1>1 DEF Unlink
  <2> QED
    BY <1>3, <2>1
<1>5. \A x \in S : D[x].kind = "route" /\ "node" \in D[x].hold /\ D[x].cb = "none"
  BY DEF Entries, EntryOk
<1>6. \A x \in Dst : D[x].slot \in Dst \cup {NONE} /\ D[x].from \in Dst \cup {NONE}
  BY DEF DstT
<1>7. \A x \in Dst : EntryOk(E, x)
  <2>1. TAKE x \in Dst
  <2>2. EntryOk(D, x)
    BY DEF Entries
  <2>3. CASE x \in S
    <3>1. E[x].hold # {} /\ E[x].kind = "route" /\ "node" \in E[x].hold
      BY <1>3, <1>5, <2>3
    <3> QED
      BY <1>3, <1>6, <2>2, <2>3, <3>1 DEF EntryOk
  <2>4. CASE x \notin S
    <3>1. E[x] = D[x]
      BY <1>3, <2>4
    <3> QED
      BY <1>3, <1>6, <2>2, <3>1 DEF EntryOk
  <2> QED
    BY <2>3, <2>4
<1>8. \A r \in Proc : UsesEntry(E, L, r) /\ OwnsCopy(E, L, r)
  <2>1. TAKE r \in Proc
  <2>2. UsesEntry(D, L, r) /\ OwnsCopy(D, L, r)
    BY DEF Entries
  <2>3. UsesEntry(E, L, r)
    BY <1>3, <2>2 DEF UsesEntry
  <2>4. OwnsCopy(E, L, r)
    BY <1>3, <1>5, <2>2 DEF OwnsCopy
  <2> QED
    BY <2>3, <2>4
<1>9. \A f \in Ifa : AddressOk(E, F, f)
  <2>1. TAKE f \in Ifa
  <2>2. AddressOk(D, F, f) /\ F[f].rt \in Dst \cup {NONE}
    BY DEF Entries, IfaT
  <2> QED
    BY <1>3, <2>2 DEF AddressOk
<1> QED
  BY <1>1, <1>3, <1>4, <1>7, <1>8, <1>9 DEF Entries

\* NoDst is an entry.
LEMMA NoDstOk == NoDst \in DstT
  BY DEF NoDst, DstT

\* nip_dst_destroy of an entry that nobody points to.
LEMMA DestroyedKeeps ==
  ASSUME NEW D \in [Dst -> DstT], NEW F \in [Ifa -> IfaT], NEW L \in [Reader -> RdT],
         Entries(D, F, L), NEW o \in Dst, Unreached(D, F, L, o)
  PROVE  /\ Destroyed(D, o) \in [Dst -> DstT]
         /\ Entries(Destroyed(D, o), F, L)
         /\ Destroyed(D, o)[o].idev = NONE
         /\ \A x \in Dst : x # o => Alike(Destroyed(D, o)[x], D[x])
<1>1. PICK E : E = [D EXCEPT ![o] = NoDst]
  OBVIOUS
<1>2. E \in [Dst -> DstT] /\ E[o] = NoDst /\ \A x \in Dst : x # o => E[x] = D[x]
  BY <1>1, NoDstOk
<1>3. EntryOk(E, o)
  BY <1>2 DEF EntryOk, NoDst
<1>4. Entries(E, F, L)
  BY <1>1, <1>3, NoDstOk, ReplaceKeeps
<1>5. E[o].idev = NONE /\ E[o].from = NONE
  BY <1>2 DEF NoDst
<1>6. D[o].from \in Dst \cup {NONE}
  BY DEF DstT
<1>7. CASE D[o].from = NONE
  <2>1. Destroyed(D, o) = E
    BY <1>1, <1>7 DEF Destroyed
  <2> QED
    BY <1>2, <1>4, <1>5, <2>1 DEF Alike
<1>8. CASE D[o].from # NONE
  <2>1. PICK p \in Dst : p = D[o].from
    BY <1>6, <1>8
  <2>2. p # o /\ D[p].kind = "route"
    BY <1>8, <2>1 DEF Entries, EntryOk
  <2>3. Destroyed(D, o) = Release(E, p, o)
    BY <1>1, <1>8, <2>1 DEF Destroyed
  <2>4. E[p].kind # "free"
    BY <1>2, <2>2
  <2>5. o \notin Proc /\ o # "node" /\ o # "slot" /\ o # "ifa" /\ E[o].from # p
    BY <1>5
  <2>6. Unneeded(E, F, L, p, o)
    BY <2>5 DEF Unneeded
  <2>7. Entries(Release(E, p, o), F, L)
    BY <1>2, <1>4, <2>4, <2>6, ReleaseKeeps
  <2>8. /\ Release(E, p, o) \in [Dst -> DstT]
        /\ \A x \in Dst : x # p => Release(E, p, o)[x] = E[x]
        /\ Alike(Release(E, p, o)[p], E[p])
    BY <1>2, ReleaseIs
  <2>9. \A x \in Dst : Alike(Release(E, p, o)[x], E[x])
    BY <2>8 DEF Alike
  <2> QED
    BY <1>2, <1>5, <2>2, <2>3, <2>7, <2>8, <2>9
<1> QED
  BY <1>7, <1>8

-----------------------------------------------------------------------------
(* What the steps of idevs and entries have in common.                     *)

\* The idevs of the current state, for HoldOk and PutOk.
LEMMA CountsNow ==
  ASSUME Inv
  PROVE  /\ idev \in [Idev -> IdevT] /\ RefsF \in [Idev -> Nat] /\ Counts(idev, RefsF)
         /\ Evolves(idev, idev)
         /\ \A i \in Idev : RefsF[i] = Refs(i)
<1>1. idev \in [Idev -> IdevT] /\ Counts(idev, RefsF)
  BY DEF Inv, Types, Idevs
<1>2. RefsF \in [Idev -> Nat] /\ \A i \in Idev : RefsF[i] = Refs(i)
  BY RefsBound DEF RefsF
<1>3. Evolves(idev, idev)
  BY <1>1 DEF Evolves, Counts
<1> QED
  BY <1>1, <1>2, <1>3

\* An idev with one holder besides dev->nip_ptr: the last is put when it is dead.
LEMMA LastIsDead ==
  ASSUME Inv, NEW i \in Idev, NEW f, NEW o, NEW s,
         f \in IfaSet(i) \/ o \in DstSet(i) \/ s \in RefSet(i) \/ CfgRef(i) = 1
  PROVE  /\ Refs(i) > 0
         /\ Refs(i) = 1 /\ idev[i].mem = "live" => idev[i].dead
<1>1. /\ Refs(i) \in Nat /\ PtrRef(i) \in Nat /\ CfgRef(i) \in Nat
      /\ One(f, IfaSet(i)) \in Nat /\ One(o, DstSet(i)) \in Nat /\ One(s, RefSet(i)) \in Nat
      /\ Refs(i) >= PtrRef(i) + CfgRef(i)
                      + One(f, IfaSet(i)) + One(o, DstSet(i)) + One(s, RefSet(i))
  BY RefsBound DEF PtrRef, CfgRef, One
<1>2. CfgRef(i) + One(f, IfaSet(i)) + One(o, DstSet(i)) + One(s, RefSet(i)) >= 1
  <2>1. \/ CfgRef(i) = 1 \/ One(f, IfaSet(i)) = 1 \/ One(o, DstSet(i)) = 1
        \/ One(s, RefSet(i)) = 1
    BY DEF One
  <2> QED
    BY <1>1, <2>1
<1>3. Refs(i) >= PtrRef(i) + 1
  BY <1>1, <1>2
<1>4. idev[i].mem = "live" /\ ~idev[i].dead => PtrRef(i) = 1
  <2>1. idev[i].dev \in Dev \cup {NONE}
    BY DEF Inv, Types, IdevT
  <2> QED
    BY <2>1 DEF Inv, Idevs, Pointers, PtrRef
<1> QED
  BY <1>1, <1>3, <1>4

\* Steps that change no reference.
LEMMA SameRefs ==
  ASSUME \A i \in Idev : /\ PtrRef(i)' = PtrRef(i) /\ LoRef(i)' = LoRef(i)
                         /\ CfgRef(i)' = CfgRef(i)
                         /\ IfaSet(i)' = IfaSet(i) /\ DstSet(i)' = DstSet(i)
                         /\ RefSet(i)' = RefSet(i)
  PROVE  RefsF' = RefsF
<1>1. \A i \in Idev : Refs(i)' = Refs(i)
  BY RefsIs, RefsIsNext
<1> QED
  BY <1>1 DEF RefsF

\* Such a step, when it changes of the idevs only for whom they wait.
LEMMA QuietStep ==
  ASSUME Inv, Types', RefsF' = RefsF, Becomes(idev), nip_ptr' = nip_ptr,
         IfdownOk(cfg', idev), ListsOk(ifa', cfg', idev),
         \A s \in Soft : ReaderOk(rd', ifa', idev, s),
         \A s \in Soft : rd'[s].pc \in {"rcu", "hash"} =>
           \A j \in Idev : s \in idev[j].gp => s \in idev'[j].gp
  PROVE  Idevs'
<1>1. Evolves(idev, idev) /\ Counts(idev, RefsF')
  BY CountsNow
<1>2. Pointers(nip_ptr', idev)
  BY DEF Inv, Idevs
<1> QED
  BY <1>1, <1>2, IdevsStep

\* The readers after a step of r that is not a read.
LEMMA ReadersAfter ==
  ASSUME Inv, NEW r \in Reader, NEW v, v.pc \notin {"rcu", "hash", "ref"},
         rd' = [rd EXCEPT ![r] = v], rd[r].pc # "ref"
  PROVE  /\ \A s \in Soft : ReaderOk(rd', ifa, idev, s)
         /\ \A s \in Soft : rd'[s].pc \in {"rcu", "hash"} => s # r /\ s \in InRcu
         /\ \A i \in Idev : RefSet(i)' = RefSet(i)
<1>1. rd \in [Reader -> RdT]
  BY DEF Inv, Types
<1>2. \A s \in Reader : rd'[s] = IF s = r THEN v ELSE rd[s]
  BY <1>1
<1>3. \A s \in Soft : s \in Reader
  BY DEF Reader
<1>4. ASSUME NEW s \in Soft
      PROVE  ReaderOk(rd', ifa, idev, s)
  <2>1. ReaderOk(rd, ifa, idev, s)
    BY DEF Inv, Idevs
  <2> QED
    BY <1>2, <1>3, <2>1 DEF ReaderOk
<1>5. \A s \in Soft : rd'[s].pc \in {"rcu", "hash"} => s # r /\ s \in InRcu
  BY <1>2, <1>3 DEF InRcu
<1>6. \A i \in Idev : RefSet(i)' = RefSet(i)
  BY <1>2, <1>3 DEF RefSet
<1> QED
  BY <1>4, <1>5, <1>6

\* The type of a reader's record.
LEMMA RdIs ==
  ASSUME NEW pc \in {"idle", "copy", "hold", "install", "held", "saddr", "rcu", "hash", "ref"},
         NEW p \in Dst \cup Ifa \cup {NONE}, NEW c \in Dst \cup {NONE}, NEW i \in Idev \cup {NONE}
  PROVE  [pc |-> pc, p |-> p, c |-> c, i |-> i] \in RdT
  BY DEF RdT

\* A reader leaves its critical section: the idevs wait for it no longer.
LEMMA QuiesceIdev ==
  ASSUME NEW I \in [Idev -> IdevT], NEW r
  PROVE  /\ Quiesce(I, r) \in [Idev -> IdevT]
         /\ \A j \in Idev : /\ Quiesce(I, r)[j].mem = I[j].mem
                            /\ Quiesce(I, r)[j].refcnt = I[j].refcnt
                            /\ Quiesce(I, r)[j].dev = I[j].dev
                            /\ Quiesce(I, r)[j].dead = I[j].dead
                            /\ Quiesce(I, r)[j].gp = I[j].gp \ {r}
<1>1. Quiesce(I, r) = [j \in Idev |-> [I[j] EXCEPT !.gp = I[j].gp \ {r}]]
  BY DEF Quiesce
<1>2. \A j \in Idev : I[j] \in IdevT
  OBVIOUS
<1> QED
  BY <1>1, <1>2 DEF IdevT

\* Nor do the addresses.
LEMMA QuiesceIfa ==
  ASSUME NEW F \in [Ifa -> IfaT], NEW r
  PROVE  /\ Quiesce(F, r) \in [Ifa -> IfaT]
         /\ \A f \in Ifa : /\ Quiesce(F, r)[f].mem = F[f].mem
                           /\ Quiesce(F, r)[f].idev = F[f].idev
                           /\ Quiesce(F, r)[f].rt = F[f].rt
                           /\ Quiesce(F, r)[f].hashed = F[f].hashed
                           /\ Quiesce(F, r)[f].listed = F[f].listed
                           /\ Quiesce(F, r)[f].gp = F[f].gp \ {r}
<1>1. Quiesce(F, r) = [f \in Ifa |-> [F[f] EXCEPT !.gp = F[f].gp \ {r}]]
  BY DEF Quiesce
<1>2. \A f \in Ifa : F[f] \in IfaT
  OBVIOUS
<1> QED
  BY <1>1, <1>2 DEF IfaT

\* Nor do the dst entries.
LEMMA QuiesceDst ==
  ASSUME NEW D \in [Dst -> DstT], NEW r
  PROVE  /\ Quiesce(D, r) \in [Dst -> DstT]
         /\ \A x \in Dst : /\ Alike(Quiesce(D, r)[x], D[x])
                           /\ Quiesce(D, r)[x].hold = D[x].hold
                           /\ Quiesce(D, r)[x].cb = D[x].cb
<1>1. Quiesce(D, r) = [x \in Dst |-> [D[x] EXCEPT !.gp = D[x].gp \ {r}]]
  BY DEF Quiesce
<1>2. ASSUME NEW x \in Dst
      PROVE  /\ Quiesce(D, r)[x] \in DstT /\ Alike(Quiesce(D, r)[x], D[x])
             /\ Quiesce(D, r)[x].hold = D[x].hold /\ Quiesce(D, r)[x].cb = D[x].cb
  <2>1. D[x] \in DstT /\ D[x].gp \ {r} \in SUBSET Reader
    BY DEF DstT
  <2>2. Quiesce(D, r)[x] = [D[x] EXCEPT !.gp = D[x].gp \ {r}]
    BY <1>1
  <2> QED
    BY <2>1, <2>2 DEF DstT, Alike
<1> QED
  BY <1>1, <1>2


-----------------------------------------------------------------------------
(* Lookups that leave the references on idevs alone.                       *)

\* A lookup is neither a dst entry nor one of the other holders.
LEMMA ProcIs ==
  ASSUME NEW r \in Proc
  PROVE  r \in Reader /\ r \in Holder /\ r \notin Dst /\ r \notin {"ifa", "node", "slot"}
  BY DEF Reader, Holder

\* NoRd is a reader's record.
LEMMA NoRdOk == NoRd \in RdT
  BY DEF NoRd, RdT

\* Such a step of a lookup.
LEMMA QuietLookup ==
  ASSUME Inv, NEW r \in Proc, NEW v \in RdT, rd' = [rd EXCEPT ![r] = v],
         v.pc \notin {"rcu", "hash", "ref"}, rd[r].pc # "ref",
         UNCHANGED <<nip_ptr, idev, ifa, cfg>>, dst' \in [Dst -> DstT],
         \A x \in Dst : dst'[x].idev = dst[x].idev, Entries(dst', ifa, rd')
  PROVE  Inv'
<1>1. r \in Reader
  BY ProcIs
<1>2. Types'
  BY <1>1 DEF Inv, Types
<1>3. RefsF' = RefsF
  <2>1. \A i \in Idev : RefSet(i)' = RefSet(i)
    BY <1>1, ReadersAfter
  <2>2. \A i \in Idev : IfaSet(i)' = IfaSet(i) /\ DstSet(i)' = DstSet(i)
    BY DEF IfaSet, DstSet
  <2>3. \A i \in Idev : /\ PtrRef(i)' = PtrRef(i) /\ LoRef(i)' = LoRef(i)
                        /\ CfgRef(i)' = CfgRef(i)
    BY DEF PtrRef, LoRef, CfgRef
  <2> QED
    BY <2>1, <2>2, <2>3, SameRefs
<1>4. IfdownOk(cfg', idev) /\ ListsOk(ifa', cfg', idev)
  BY DEF Inv, Idevs
<1>5. \A s \in Soft : ReaderOk(rd', ifa', idev, s)
  BY <1>1, ReadersAfter
<1>6. Becomes(idev)
  BY DEF Becomes
<1>7. Idevs'
  BY <1>2, <1>3, <1>4, <1>5, <1>6, QuietStep
<1> QED
  BY <1>2, <1>7 DEF Inv

\* dst_hold.
LEMMA HoldEntry ==
  ASSUME NEW D \in [Dst -> DstT], NEW o \in Dst, NEW h \in Holder
  PROVE  LET E == [D EXCEPT ![o].hold = @ \cup {h}]
         IN  /\ E \in [Dst -> DstT]
             /\ \A x \in Dst : x # o => E[x] = D[x]
             /\ Alike(E[o], D[o]) /\ E[o].cb = D[o].cb /\ E[o].hold = D[o].hold \cup {h}
<1>1. PICK H \in SUBSET Holder : H = D[o].hold \cup {h}
  BY DEF DstT
<1>2. PICK x : x = [D[o] EXCEPT !.hold = H]
  OBVIOUS
<1>3. D[o] \in DstT
  OBVIOUS
<1>4. x \in DstT /\ Alike(x, D[o]) /\ x.cb = D[o].cb /\ x.hold = H
  BY <1>2, <1>3 DEF DstT, Alike
<1>5. [D EXCEPT ![o].hold = @ \cup {h}] = [D EXCEPT ![o] = x]
  BY <1>1, <1>2
<1> QED
  BY <1>1, <1>4, <1>5

\* Nobody has a pointer to memory that is free, or that only its destruction waits for.
LEMMA FreeUnreached ==
  ASSUME NEW D \in [Dst -> DstT], NEW F, NEW L, Entries(D, F, L), NEW o \in Dst,
         D[o].kind = "free" \/ D[o].hold = {}
  PROVE  Unreached(D, F, L, o)
<1>1. \A x \in Dst : D[x].slot # o /\ D[x].from # o
  BY DEF Entries, EntryOk
<1>2. \A f \in Ifa : F[f].mem = "live" => F[f].rt # o
  BY DEF Entries, AddressOk
<1>3. ASSUME NEW r \in Proc
      PROVE  /\ L[r].pc \in Working => L[r].p # o
             /\ L[r].pc \in {"hold", "install"} => L[r].c # o
  <2>1. UsesEntry(D, L, r) /\ OwnsCopy(D, L, r) /\ EntryOk(D, o)
    BY DEF Entries
  <2>2. D[o].kind = "free" => D[o].from = NONE
    BY <2>1 DEF EntryOk
  <2> QED
    BY <2>1, <2>2 DEF UsesEntry, OwnsCopy, Working
<1> QED
  BY <1>1, <1>2, <1>3 DEF Unreached

\* nip_pol_route.
LEMMA PolRouteKeeps ==
  ASSUME Inv, NEW r \in Proc, NEW o \in Dst, nip_pol_route(r, o)
  PROVE  Inv'
<1>1. dst \in [Dst -> DstT] /\ ifa \in [Ifa -> IfaT] /\ rd \in [Reader -> RdT]
  BY DEF Inv, Types
<1>2. dst[o].linked /\ rd[r].pc = "idle"
  BY DEF nip_pol_route
<1>3. EntryOk(dst, o) /\ dst[o].slot \in Dst \cup {NONE}
  BY <1>1 DEF Inv, Entries, DstT
<1>4. PICK t \in Dst, pc \in {"held", "copy"} :
        /\ dst' = [dst EXCEPT ![t].hold = @ \cup {r}]
        /\ rd' = [rd EXCEPT ![r] = [NoRd EXCEPT !.pc = pc, !.p = t]]
        /\ IF pc = "held" THEN dst[t].from # NONE /\ dst[t].kind = "copy" /\ "slot" \in dst[t].hold
           ELSE dst[t].kind = "route" /\ "node" \in dst[t].hold
  <2>1. CASE dst[o].slot = NONE
    <3>1. dst[o].kind = "route" /\ "node" \in dst[o].hold
      BY <1>2, <1>3 DEF EntryOk
    <3>2. /\ dst' = [dst EXCEPT ![o].hold = @ \cup {r}]
          /\ rd' = [rd EXCEPT ![r] = [NoRd EXCEPT !.pc = "copy", !.p = o]]
      BY <2>1 DEF nip_pol_route, Goto
    <3> QED
      BY <3>1, <3>2
  <2>2. CASE dst[o].slot # NONE
    <3>1. PICK c \in Dst : c = dst[o].slot
      BY <1>3, <2>2
    <3>2. dst[c].from # NONE /\ dst[c].kind = "copy" /\ "slot" \in dst[c].hold
      BY <1>3, <2>2, <3>1 DEF EntryOk
    <3>3. /\ dst' = [dst EXCEPT ![c].hold = @ \cup {r}]
          /\ rd' = [rd EXCEPT ![r] = [NoRd EXCEPT !.pc = "held", !.p = c]]
      BY <2>2, <3>1 DEF nip_pol_route, Goto
    <3> QED
      BY <3>2, <3>3
  <2> QED
    BY <2>1, <2>2
<1>5. PICK v : v = [NoRd EXCEPT !.pc = pc, !.p = t]
  OBVIOUS
<1>6. v \in RdT /\ v.pc = pc /\ v.p = t
  BY <1>5 DEF NoRd, RdT
<1>7. r \in Holder /\ r \in Reader
  BY ProcIs
<1>8. /\ dst' \in [Dst -> DstT]
      /\ \A x \in Dst : x # t => dst'[x] = dst[x]
      /\ Alike(dst'[t], dst[t]) /\ dst'[t].cb = dst[t].cb /\ dst'[t].hold = dst[t].hold \cup {r}
  BY <1>1, <1>4, <1>7, HoldEntry
<1>9. \A q \in Proc : rd[q].pc \in {"hold", "install"} => rd[q].c # t
  BY <1>4 DEF Inv, Entries, OwnsCopy
<1>10. dst[t].kind # "free" /\ dst[t].hold # {}
  BY <1>4
<1>11. Entries(dst, ifa, rd)
  BY DEF Inv
<1>12. Entries(dst', ifa, rd)
  BY <1>1, <1>8, <1>9, <1>10, <1>11, HolderKeeps
<1>13. rd' = [rd EXCEPT ![r] = v] /\ rd'[r] = v
  BY <1>1, <1>4, <1>5, <1>7
<1>14. UsesEntry(dst', rd', r) /\ OwnsCopy(dst', rd', r)
  BY <1>4, <1>6, <1>8, <1>13 DEF UsesEntry, OwnsCopy, Alike
<1>15. Entries(dst', ifa, rd')
  BY <1>1, <1>7, <1>12, <1>13, <1>14, LookupKeeps
<1>16. \A x \in Dst : dst'[x].idev = dst[x].idev
  BY <1>8 DEF Alike
<1>17. UNCHANGED <<nip_ptr, idev, ifa, cfg>>
  BY DEF nip_pol_route
<1>18. v.pc \notin {"rcu", "hash", "ref"} /\ rd[r].pc # "ref"
  BY <1>2, <1>6
<1> QED
  BY <1>6, <1>8, <1>13, <1>15, <1>16, <1>17, <1>18, QuietLookup

\* A lookup that gives its entry back and ends.
LEMMA EntryReleased ==
  ASSUME Inv, NEW r \in Proc, rd[r].pc \in Working
  PROVE  /\ rd[r].p \in Dst
         /\ Release(dst, rd[r].p, r) \in [Dst -> DstT]
         /\ \A x \in Dst : Release(dst, rd[r].p, r)[x].idev = dst[x].idev
         /\ Entries(Release(dst, rd[r].p, r), ifa, [rd EXCEPT ![r] = NoRd])
<1>1. dst \in [Dst -> DstT] /\ ifa \in [Ifa -> IfaT] /\ rd \in [Reader -> RdT]
  BY DEF Inv, Types
<1>2. UsesEntry(dst, rd, r)
  BY DEF Inv, Entries
<1>3. PICK o \in Dst : o = rd[r].p
  BY <1>2 DEF UsesEntry, Working
<1>4. dst[o].kind # "free"
  <2>1. EntryOk(dst, o)
    BY DEF Inv, Entries
  <2> QED
    BY <1>2, <1>3, <2>1 DEF UsesEntry, Working, EntryOk
<1>5. r \in Reader /\ r \notin Dst /\ r \notin {"ifa", "node", "slot"}
  BY ProcIs
<1>6. PICK L : L = [rd EXCEPT ![r] = NoRd]
  OBVIOUS
<1>7. L \in [Reader -> RdT] /\ L[r].pc = "idle"
  BY <1>1, <1>5, <1>6, NoRdOk DEF NoRd
<1>8. Entries(dst, ifa, rd) /\ NoRd.pc \notin Working
  BY DEF Inv, NoRd, Working
<1>9. Entries(dst, ifa, L)
  BY <1>1, <1>5, <1>6, <1>8, LookupEnds
<1>10. Unneeded(dst, ifa, L, o, r)
  BY <1>5, <1>7 DEF Unneeded, Working
<1>11. Entries(Release(dst, o, r), ifa, L)
  BY <1>1, <1>4, <1>7, <1>9, <1>10, ReleaseKeeps
<1>12. /\ Release(dst, o, r) \in [Dst -> DstT]
       /\ \A x \in Dst : Release(dst, o, r)[x].idev = dst[x].idev
  BY <1>1, ReleaseIs DEF Alike
<1> QED
  BY <1>3, <1>6, <1>11, <1>12

\* A route given back, and a copy for which there is no memory.
LEMMA DropKeeps ==
  ASSUME Inv, NEW r \in Proc, Drop(r) \/ CopyFails(r)
  PROVE  Inv'
<1>1. /\ rd[r].pc \in Working /\ rd[r].pc # "ref"
      /\ dst' = Release(dst, rd[r].p, r) /\ rd' = [rd EXCEPT ![r] = NoRd]
      /\ UNCHANGED <<nip_ptr, idev, ifa, cfg>>
  BY DEF Drop, CopyFails, Working, Goto
<1>2. NoRd.pc \notin {"rcu", "hash", "ref"}
  BY DEF NoRd
<1> QED
  BY <1>1, <1>2, NoRdOk, EntryReleased, QuietLookup

\* read_lock_bh on the idev of a held route.
LEMMA SaddrLockKeeps ==
  ASSUME Inv, NEW r \in Proc, SaddrLock(r)
  PROVE  Inv'
<1>1. dst \in [Dst -> DstT] /\ ifa \in [Ifa -> IfaT] /\ rd \in [Reader -> RdT]
  BY DEF Inv, Types
<1>2. /\ rd[r].pc = "held" /\ dst' = dst /\ UNCHANGED <<nip_ptr, idev, ifa, cfg>>
      /\ rd' = [rd EXCEPT ![r] = [rd[r] EXCEPT !.pc = "saddr", !.i = dst[rd[r].p].idev]]
  BY DEF SaddrLock, Goto
<1>3. UsesEntry(dst, rd, r)
  BY DEF Inv, Entries
<1>4. rd[r].p \in Dst /\ dst[rd[r].p].idev \in Idev \cup {NONE}
  BY <1>1, <1>2, <1>3 DEF UsesEntry, DstT
<1>5. PICK v : v = [rd[r] EXCEPT !.pc = "saddr", !.i = dst[rd[r].p].idev]
  OBVIOUS
<1>6. r \in Reader /\ rd[r] \in RdT
  BY <1>1, ProcIs
<1>7. v \in RdT /\ v.pc = "saddr" /\ v.p = rd[r].p
  BY <1>4, <1>5, <1>6 DEF RdT
<1>8. rd' = [rd EXCEPT ![r] = v] /\ rd'[r] = v
  BY <1>1, <1>2, <1>5, <1>6
<1>9. PICK M : M = [rd EXCEPT ![r] = v]
  OBVIOUS
<1>10. M[r] = v
  BY <1>1, <1>6, <1>9
<1>11. UsesEntry(dst, M, r) /\ OwnsCopy(dst, M, r)
  BY <1>2, <1>3, <1>7, <1>10 DEF UsesEntry, OwnsCopy
<1>12. Entries(dst, ifa, rd)
  BY DEF Inv
<1>13. Entries(dst, ifa, M)
  BY <1>1, <1>6, <1>9, <1>11, <1>12, LookupKeeps
<1>14. dst' \in [Dst -> DstT] /\ Entries(dst', ifa, rd')
  BY <1>1, <1>2, <1>8, <1>9, <1>13
<1> QED
  BY <1>2, <1>7, <1>8, <1>14, QuietLookup


\* nip_rt_copy_init has memory and reads the idev of the route.
LEMMA CopyReadKeeps ==
  ASSUME Inv, NEW r \in Proc, CopyRead(r)
  PROVE  Inv'
<1>1. /\ dst \in [Dst -> DstT] /\ ifa \in [Ifa -> IfaT] /\ rd \in [Reader -> RdT]
      /\ Entries(dst, ifa, rd)
  BY DEF Inv, Types
<1>2. /\ rd[r].pc = "copy" /\ UNCHANGED <<nip_ptr, idev, ifa, cfg>>
      /\ FreeDst # {}
  BY DEF CopyRead
<1>3. PICK c \in Dst : c = kzalloc(FreeDst) /\ dst[c] = NoDst
  BY <1>2 DEF kzalloc, FreeDst
<1>4. PICK o \in Dst : o = rd[r].p /\ r \in dst[o].hold /\ dst[o].kind = "route"
  BY <1>1, <1>2 DEF Entries, UsesEntry
<1>5. PICK w : w = [NoDst EXCEPT !.kind = "copy", !.table = dst[o].table, !.dst = dst[o].dst,
                                 !.dev = dst[o].dev, !.hold = {r}]
  OBVIOUS
<1>6. PICK v : v = [rd[r] EXCEPT !.pc = "hold", !.c = c, !.i = dst[o].idev]
  OBVIOUS
<1>7. dst' = [dst EXCEPT ![c] = w] /\ rd' = [rd EXCEPT ![r] = v]
  BY <1>3, <1>4, <1>5, <1>6 DEF CopyRead, Goto
<1>8. r \in Reader /\ r \in Holder
  BY ProcIs
<1>9. dst[o] \in DstT /\ rd[r] \in RdT
  BY <1>1, <1>8
<1>10. /\ w \in DstT /\ w.kind = "copy" /\ w.hold = {r} /\ w.cb = "none" /\ w.idev = NONE
       /\ w.from = NONE /\ w.slot = NONE /\ w.linked = FALSE
  BY <1>5, <1>8, <1>9 DEF NoDst, DstT
<1>11. v \in RdT /\ v.pc = "hold" /\ v.c = c /\ v.i = dst[o].idev /\ v.p = o
  BY <1>4, <1>6, <1>9 DEF RdT, DstT
<1>12. dst[o].idev \in Idev
  BY <1>1, <1>4, <1>9 DEF Entries, EntryOk, DstT
<1>13. Unreached(dst, ifa, rd, c) /\ c # o /\ dst[c].idev = NONE
  BY <1>1, <1>3, <1>4, FreeUnreached DEF NoDst
<1>14. PICK E \in [Dst -> DstT] : E = [dst EXCEPT ![c] = w]
  BY <1>1, <1>10
<1>15. E[c] = w /\ \A x \in Dst : x # c => E[x] = dst[x]
  BY <1>1, <1>14
<1>16. EntryOk(E, c)
  BY <1>10, <1>15 DEF EntryOk
<1>17. Entries(E, ifa, rd)
  BY <1>1, <1>10, <1>13, <1>14, <1>16, ReplaceKeeps
<1>18. PICK M : M = [rd EXCEPT ![r] = v]
  OBVIOUS
<1>19. M[r] = v
  BY <1>1, <1>8, <1>18
<1>20. UsesEntry(E, M, r) /\ OwnsCopy(E, M, r)
  BY <1>4, <1>10, <1>11, <1>12, <1>13, <1>15, <1>19 DEF UsesEntry, OwnsCopy
<1>21. Entries(E, ifa, M)
  BY <1>1, <1>8, <1>17, <1>18, <1>20, LookupKeeps
<1>22. dst' \in [Dst -> DstT] /\ Entries(dst', ifa, rd')
  BY <1>7, <1>14, <1>18, <1>21
<1>23. \A x \in Dst : dst'[x].idev = dst[x].idev
  BY <1>7, <1>10, <1>13, <1>14, <1>15
<1> QED
  BY <1>2, <1>7, <1>11, <1>22, <1>23, QuietLookup

\* From D to E, the copy c goes into the slot of o, and r holds it.
Fills(D, E, r, o, c) ==
  /\ \A x \in Dst : x \notin {o, c} => E[x] = D[x]
  /\ E[o].kind = D[o].kind /\ E[o].linked = D[o].linked /\ E[o].idev = D[o].idev
  /\ E[o].from = D[o].from /\ E[o].hold = D[o].hold /\ E[o].cb = D[o].cb /\ E[o].slot = c
  /\ E[c].kind = D[c].kind /\ E[c].linked = D[c].linked /\ E[c].idev = D[c].idev
  /\ E[c].from = D[c].from /\ E[c].hold = {"slot", r} /\ E[c].cb = D[c].cb
  /\ E[c].slot = D[c].slot

\* Then the lookup is done with its copy.
LEMMA SlotFilled ==
  ASSUME NEW D \in [Dst -> DstT], NEW F \in [Ifa -> IfaT], NEW L \in [Reader -> RdT],
         Entries(D, F, L), NEW r \in Proc, L[r].pc = "install",
         NEW o \in Dst, o = L[r].p, NEW c \in Dst, c = L[r].c, NEW E, Fills(D, E, r, o, c),
         NEW v, v.pc = "held", v.p = c, NEW M, M = [L EXCEPT ![r] = v]
  PROVE  Entries(E, F, M)
<1>1. /\ D[c].kind = "copy" /\ D[c].hold = {r} /\ D[c].cb = "none" /\ D[c].from = o
      /\ D[o].kind = "route" /\ r \in D[o].hold /\ o # c
  BY DEF Entries, UsesEntry, OwnsCopy
<1>2. r \in Reader /\ r \notin Dst /\ r \notin {"ifa", "node", "slot"}
  BY ProcIs
<1>3. \A x \in Dst : D[x].slot \in Dst \cup {NONE} /\ D[x].from \in Dst \cup {NONE}
  BY DEF DstT
<1>4. \A x \in Dst : /\ E[x].kind = D[x].kind /\ E[x].linked = D[x].linked
                     /\ E[x].idev = D[x].idev /\ E[x].from = D[x].from /\ E[x].cb = D[x].cb
                     /\ x # c => E[x].hold = D[x].hold
                     /\ x # o => E[x].slot = D[x].slot
  BY DEF Fills
<1>5. \A x \in Dst : D[x].slot # c /\ D[x].from # c
  BY <1>1, <1>2 DEF Entries, EntryOk
<1>6. ASSUME NEW x \in Dst
      PROVE  EntryOk(E, x)
  <2>1. EntryOk(D, x)
    BY DEF Entries
  <2>2. /\ E[x].kind = "free" => E[x].cb # "destroy"
        /\ E[x].kind # "free" => (E[x].cb = "destroy" <=> E[x].hold = {})
        /\ E[x].linked => E[x].cb = "none"
        /\ E[x].linked \/ E[x].cb \in {"node", "pcpu"} => E[x].kind = "route" /\ "node" \in E[x].hold
        /\ E[x].kind = "route" => E[x].idev # NONE /\ E[x].from = NONE
    <3>1. E[c].hold # {}
      BY DEF Fills
    <3> QED
      BY <1>1, <1>4, <2>1, <3>1 DEF EntryOk
  <2>3. E[x].slot # NONE => /\ E[E[x].slot].kind = "copy" /\ E[E[x].slot].from = x
                            /\ "slot" \in E[E[x].slot].hold
    <3>1. CASE x = o
      BY <1>1, <1>4, <3>1 DEF Fills
    <3>2. CASE x # o
      BY <1>3, <1>4, <1>5, <2>1, <3>2 DEF EntryOk
    <3> QED
      BY <3>1, <3>2
  <2>4. E[x].from # NONE => /\ E[x].kind = "copy" /\ E[x].idev # NONE
                            /\ E[E[x].from].kind = "route" /\ x \in E[E[x].from].hold
    BY <1>3, <1>4, <1>5, <2>1 DEF EntryOk
  <2> QED
    BY <2>2, <2>3, <2>4 DEF EntryOk
<1>7. ASSUME NEW q \in Proc
      PROVE  UsesEntry(E, M, q) /\ OwnsCopy(E, M, q)
  <2>1. CASE q = r
    <3>1. M[q].pc = "held" /\ M[q].p = c
      BY <1>2, <2>1
    <3>2. r \in E[c].hold
      BY DEF Fills
    <3> QED
      BY <1>1, <1>4, <2>1, <3>1, <3>2 DEF UsesEntry, OwnsCopy
  <2>2. CASE q # r
    <3>1. M[q] = L[q] /\ UsesEntry(D, L, q) /\ OwnsCopy(D, L, q)
      BY <2>2, ProcIs DEF Entries
    <3>2. UsesEntry(E, M, q)
      BY <1>1, <1>4, <2>2, <3>1 DEF UsesEntry
    <3>3. OwnsCopy(E, M, q)
      BY <1>1, <1>4, <2>2, <3>1 DEF OwnsCopy
    <3> QED
      BY <3>2, <3>3
  <2> QED
    BY <2>1, <2>2
<1>8. \A f \in Ifa : AddressOk(E, F, f)
  <2>1. TAKE f \in Ifa
  <2>2. AddressOk(D, F, f) /\ F[f].rt \in Dst \cup {NONE}
    BY DEF Entries, IfaT
  <2> QED
    BY <1>1, <1>4, <2>2 DEF AddressOk
<1> QED
  BY <1>6, <1>7, <1>8 DEF Entries

\* The lookup whose copy is stored.
LEMMA InstallStores ==
  ASSUME Inv, NEW r \in Proc, Install(r), dst[rd[r].p].pcpu, dst[rd[r].p].slot = NONE
  PROVE  Inv'
<1>1. /\ dst \in [Dst -> DstT] /\ ifa \in [Ifa -> IfaT] /\ rd \in [Reader -> RdT]
      /\ Entries(dst, ifa, rd)
  BY DEF Inv, Types
<1>2. rd[r].pc = "install"
  BY DEF Install
<1>3. PICK o \in Dst, c \in Dst : /\ o = rd[r].p /\ c = rd[r].c /\ dst[o].kind = "route"
                                  /\ dst[c].kind = "copy"
  BY <1>1, <1>2 DEF Entries, UsesEntry, OwnsCopy
<1>4. PICK v : v = [NoRd EXCEPT !.pc = "held", !.p = c]
  OBVIOUS
<1>5. PICK E : E = [dst EXCEPT ![o].slot = c, ![c].hold = {"slot", r}]
  OBVIOUS
<1>6. /\ dst' = Release(E, o, r) /\ rd' = [rd EXCEPT ![r] = v]
      /\ UNCHANGED <<nip_ptr, idev, ifa, cfg>>
  BY <1>3, <1>4, <1>5 DEF Install, Goto
<1>7. v \in RdT /\ v.pc = "held" /\ v.p = c
  BY <1>4 DEF NoRd, RdT
<1>8. r \in Reader /\ r \in Holder /\ r \notin Dst /\ r \notin {"ifa", "node", "slot"}
  BY ProcIs
<1>9. /\ E \in [Dst -> DstT]
      /\ \A x \in Dst : x \notin {o, c} => E[x] = dst[x]
      /\ E[o].kind = dst[o].kind /\ E[o].linked = dst[o].linked /\ E[o].idev = dst[o].idev
      /\ E[o].from = dst[o].from /\ E[o].hold = dst[o].hold /\ E[o].cb = dst[o].cb
      /\ E[o].slot = c
      /\ E[c].kind = dst[c].kind /\ E[c].linked = dst[c].linked /\ E[c].idev = dst[c].idev
      /\ E[c].from = dst[c].from /\ E[c].hold = {"slot", r} /\ E[c].cb = dst[c].cb
      /\ E[c].slot = dst[c].slot
  <2>1. o # c /\ dst[o] \in DstT /\ dst[c] \in DstT
    BY <1>1, <1>3
  <2>2. PICK x, y : x = [dst[o] EXCEPT !.slot = c] /\ y = [dst[c] EXCEPT !.hold = {"slot", r}]
    OBVIOUS
  <2>3. E = [[dst EXCEPT ![o] = x] EXCEPT ![c] = y]
    BY <1>1, <1>5, <2>1, <2>2
  <2>4. {"slot", r} \in SUBSET Holder
    BY <1>8 DEF Holder
  <2>5. /\ x \in DstT /\ x.kind = dst[o].kind /\ x.linked = dst[o].linked
        /\ x.idev = dst[o].idev /\ x.from = dst[o].from /\ x.hold = dst[o].hold
        /\ x.cb = dst[o].cb /\ x.slot = c
    BY <2>1, <2>2 DEF DstT
  <2>6. /\ y \in DstT /\ y.kind = dst[c].kind /\ y.linked = dst[c].linked
        /\ y.idev = dst[c].idev /\ y.from = dst[c].from /\ y.hold = {"slot", r}
        /\ y.cb = dst[c].cb /\ y.slot = dst[c].slot
    BY <2>1, <2>2, <2>4 DEF DstT
  <2>7. /\ E \in [Dst -> DstT] /\ E[o] = x /\ E[c] = y
        /\ \A z \in Dst : z \notin {o, c} => E[z] = dst[z]
    BY <1>1, <2>1, <2>3, <2>5, <2>6
  <2> QED
    BY <2>5, <2>6, <2>7
<1>10. PICK M : M = [rd EXCEPT ![r] = v]
  OBVIOUS
<1>11. M \in [Reader -> RdT] /\ M[r] = v
  BY <1>1, <1>7, <1>8, <1>10
<1>12. Entries(E, ifa, M)
  <2>1. Fills(dst, E, r, o, c)
    BY <1>9 DEF Fills
  <2> QED
    BY <1>1, <1>2, <1>3, <1>7, <1>10, <2>1, SlotFilled
<1>13. Unneeded(E, ifa, M, o, r) /\ E[o].kind # "free"
  BY <1>3, <1>7, <1>8, <1>9, <1>11 DEF Unneeded
<1>14. Entries(Release(E, o, r), ifa, M)
  BY <1>1, <1>9, <1>11, <1>12, <1>13, ReleaseKeeps
<1>15. /\ Release(E, o, r) \in [Dst -> DstT]
       /\ \A x \in Dst : Release(E, o, r)[x].idev = dst[x].idev
  <2>1. \A x \in Dst : E[x].idev = dst[x].idev
    BY <1>9
  <2>2. /\ Release(E, o, r) \in [Dst -> DstT]
        /\ \A x \in Dst : x # o => Release(E, o, r)[x] = E[x]
        /\ Release(E, o, r)[o].idev = E[o].idev
    BY <1>9, ReleaseIs DEF Alike
  <2> QED
    BY <2>1, <2>2
<1>16. /\ dst' \in [Dst -> DstT] /\ Entries(dst', ifa, rd')
       /\ \A x \in Dst : dst'[x].idev = dst[x].idev
  BY <1>6, <1>10, <1>14, <1>15
<1> QED
  BY <1>2, <1>6, <1>7, <1>16, QuietLookup


-----------------------------------------------------------------------------
(* Readers.                                                                *)

\* r leaves its critical section, with or without a reference.
LEMMA Leaves ==
  ASSUME Inv, NEW r \in Reader, NEW v \in RdT, v.pc \in {"idle", "ref"},
         v.pc = "ref" => v.i # NONE, rd' = [rd EXCEPT ![r] = v],
         NEW D \in [Dst -> DstT], Entries(D, ifa, rd'), \A x \in Dst : D[x].idev = dst[x].idev,
         dst' = Quiesce(D, r), ifa' = Quiesce(ifa, r), cfg' = cfg
  PROVE  /\ ifa' \in [Ifa -> IfaT] /\ dst' \in [Dst -> DstT] /\ rd' \in [Reader -> RdT]
         /\ Entries(dst', ifa', rd')
         /\ \A i \in Idev : IfaSet(i)' = IfaSet(i) /\ DstSet(i)' = DstSet(i)
         /\ ListsOk(ifa', cfg', idev)
         /\ \A s \in Soft : ReaderOk(rd', ifa', idev, s)
         /\ \A s \in Soft : rd'[s].pc \in {"rcu", "hash"} => s # r /\ s \in InRcu
<1>1. ifa \in [Ifa -> IfaT] /\ rd \in [Reader -> RdT]
  BY DEF Inv, Types
<1>2. /\ ifa' \in [Ifa -> IfaT]
      /\ \A f \in Ifa : /\ ifa'[f].mem = ifa[f].mem /\ ifa'[f].idev = ifa[f].idev
                        /\ ifa'[f].rt = ifa[f].rt /\ ifa'[f].hashed = ifa[f].hashed
                        /\ ifa'[f].listed = ifa[f].listed /\ ifa'[f].gp = ifa[f].gp \ {r}
  BY <1>1, QuiesceIfa
<1>3. /\ dst' \in [Dst -> DstT]
      /\ \A x \in Dst : Alike(dst'[x], D[x]) /\ dst'[x].hold = D[x].hold /\ dst'[x].cb = D[x].cb
  BY QuiesceDst
<1>4. rd' \in [Reader -> RdT] /\ \A s \in Reader : rd'[s] = IF s = r THEN v ELSE rd[s]
  BY <1>1
<1>5. Entries(dst', ifa, rd')
  BY <1>1, <1>3, AlikeKeeps
<1>6. Entries(dst', ifa', rd')
  BY <1>2, <1>5, AddressesKeep
<1>7. \A i \in Idev : IfaSet(i)' = IfaSet(i)
  BY <1>2 DEF IfaSet
<1>8. \A i \in Idev : DstSet(i)' = DstSet(i)
  BY <1>3 DEF DstSet, Alike
<1>9. ListsOk(ifa', cfg', idev)
  BY <1>2 DEF Inv, Idevs, ListsOk
<1>10. ASSUME NEW s \in Soft
       PROVE  ReaderOk(rd', ifa', idev, s)
  <2>1. s \in Reader /\ ReaderOk(rd, ifa, idev, s)
    BY DEF Reader, Inv, Idevs
  <2>2. CASE s = r
    BY <1>4, <2>1, <2>2 DEF ReaderOk
  <2>3. CASE s # r
    <3>1. rd'[s] = rd[s]
      BY <1>4, <2>1, <2>3
    <3>2. \A f \in Ifa : Safe(ifa, s, f) => Safe(ifa', s, f)
      BY <1>2, <2>3 DEF Safe
    <3> QED
      BY <1>2, <2>1, <3>1, <3>2 DEF ReaderOk
  <2> QED
    BY <2>2, <2>3
<1>11. \A s \in Soft : rd'[s].pc \in {"rcu", "hash"} => s # r /\ s \in InRcu
  BY <1>4 DEF Reader, InRcu
<1> QED
  BY <1>2, <1>3, <1>4, <1>6, <1>7, <1>8, <1>9, <1>10, <1>11

\* r leaves its critical section without a reference.
LEMMA LeavesEmpty ==
  ASSUME Inv, NEW r \in Reader, rd[r].pc # "ref", rd' = [rd EXCEPT ![r] = NoRd],
         NEW D \in [Dst -> DstT], Entries(D, ifa, rd'), \A x \in Dst : D[x].idev = dst[x].idev,
         dst' = Quiesce(D, r), ifa' = Quiesce(ifa, r), idev' = Quiesce(idev, r),
         UNCHANGED <<nip_ptr, cfg>>
  PROVE  Inv'
<1>1. /\ idev \in [Idev -> IdevT] /\ rd \in [Reader -> RdT]
      /\ nip_ptr \in [Dev -> Idev \cup {NONE}] /\ cfg \in CfgT
  BY DEF Inv, Types
<1>2. NoRd.pc = "idle"
  BY DEF NoRd
<1>3. /\ ifa' \in [Ifa -> IfaT] /\ dst' \in [Dst -> DstT] /\ rd' \in [Reader -> RdT]
      /\ Entries(dst', ifa', rd')
      /\ \A i \in Idev : IfaSet(i)' = IfaSet(i) /\ DstSet(i)' = DstSet(i)
      /\ ListsOk(ifa', cfg', idev)
      /\ \A s \in Soft : ReaderOk(rd', ifa', idev, s)
      /\ \A s \in Soft : rd'[s].pc \in {"rcu", "hash"} => s # r /\ s \in InRcu
  <2>1. NoRd.pc \in {"idle", "ref"} /\ (NoRd.pc = "ref" => NoRd.i # NONE) /\ NoRd \in RdT
    BY <1>2, NoRdOk
  <2>2. cfg' = cfg
    OBVIOUS
  <2> QED
    BY <2>1, <2>2, Leaves
<1>4. /\ idev' \in [Idev -> IdevT]
      /\ \A j \in Idev : /\ idev'[j].mem = idev[j].mem /\ idev'[j].refcnt = idev[j].refcnt
                         /\ idev'[j].dev = idev[j].dev /\ idev'[j].dead = idev[j].dead
                         /\ idev'[j].gp = idev[j].gp \ {r}
  BY <1>1, QuiesceIdev
<1>5. Types'
  BY <1>1, <1>3, <1>4 DEF Types
<1>6. RefsF' = RefsF
  <2>1. \A i \in Idev : RefSet(i)' = RefSet(i)
    <3>1. \A s \in Soft : s \in Reader
      BY DEF Reader
    <3> QED
      BY <1>1, <1>2, <3>1 DEF RefSet
  <2>2. \A i \in Idev : /\ PtrRef(i)' = PtrRef(i) /\ LoRef(i)' = LoRef(i)
                        /\ CfgRef(i)' = CfgRef(i)
    BY DEF PtrRef, LoRef, CfgRef
  <2> QED
    BY <1>3, <2>1, <2>2, SameRefs
<1>7. IfdownOk(cfg', idev)
  BY DEF Inv, Idevs
<1>8. Becomes(idev)
  BY <1>4 DEF Becomes
<1>9. \A s \in Soft : rd'[s].pc \in {"rcu", "hash"} =>
        \A j \in Idev : s \in idev[j].gp => s \in idev'[j].gp
  BY <1>3, <1>4
<1>10. Idevs'
  BY <1>3, <1>5, <1>6, <1>7, <1>8, <1>9, QuietStep
<1> QED
  BY <1>3, <1>5, <1>10 DEF Inv

\* The end of nip_route_output_flags on a local route.
LEMMA SaddrUnlockKeeps ==
  ASSUME Inv, NEW r \in Proc, SaddrUnlock(r)
  PROVE  Inv'
<1>1. /\ rd[r].pc = "saddr" /\ rd' = [rd EXCEPT ![r] = NoRd]
      /\ dst' = Quiesce(Release(dst, rd[r].p, r), r)
      /\ ifa' = Quiesce(ifa, r) /\ idev' = Quiesce(idev, r) /\ UNCHANGED <<nip_ptr, cfg>>
  BY DEF SaddrUnlock, Goto
<1>2. r \in Reader
  BY ProcIs
<1>3. PICK D : D = Release(dst, rd[r].p, r)
  OBVIOUS
<1>4. /\ D \in [Dst -> DstT] /\ Entries(D, ifa, rd')
      /\ \A x \in Dst : D[x].idev = dst[x].idev
  <2>1. rd[r].pc \in Working
    BY <1>1 DEF Working
  <2> QED
    BY <1>1, <1>3, <2>1, EntryReleased
<1>5. dst' = Quiesce(D, r) /\ rd[r].pc # "ref"
  BY <1>1, <1>3
<1> QED
  BY <1>1, <1>2, <1>4, <1>5, LeavesEmpty

\* rcu_read_unlock.
LEMMA ReadDoneKeeps ==
  ASSUME Inv, NEW s \in Soft, ReadDone(s)
  PROVE  Inv'
<1>1. /\ rd[s].pc \in {"rcu", "hash"} /\ rd' = [rd EXCEPT ![s] = NoRd]
      /\ dst' = Quiesce(dst, s) /\ ifa' = Quiesce(ifa, s) /\ idev' = Quiesce(idev, s)
      /\ UNCHANGED <<nip_ptr, cfg>>
  BY DEF ReadDone, Goto
<1>2. s \in Reader /\ rd[s].pc # "ref"
  BY <1>1 DEF Reader
<1>3. dst \in [Dst -> DstT] /\ rd \in [Reader -> RdT] /\ Entries(dst, ifa, rd)
  BY DEF Inv, Types
<1>4. NoRd.pc \notin Working
  BY DEF NoRd, Working
<1>5. Entries(dst, ifa, [rd EXCEPT ![s] = NoRd])
  BY <1>2, <1>3, <1>4, LookupEnds
<1>6. Entries(dst, ifa, rd')
  BY <1>1, <1>5
<1> QED
  BY <1>1, <1>2, <1>3, <1>6, LeavesEmpty

\* __nin_dev_get, and an address found in the hash table.
LEMMA ReadKeeps ==
  ASSUME Inv, NEW s \in Soft,
         (\E d \in Dev : ReadPtr(s, d)) \/ (\E f \in Ifa : ReadHash(s, f))
  PROVE  Inv'
<1>1. /\ nip_ptr \in [Dev -> Idev \cup {NONE}] /\ rd \in [Reader -> RdT]
      /\ Entries(dst, ifa, rd) /\ s \in Reader
  BY DEF Inv, Types, Reader
<1>2. PICK v \in RdT : /\ rd' = [rd EXCEPT ![s] = v] /\ v.pc \in {"rcu", "hash"}
                       /\ v.pc = "rcu" => \E d \in Dev : v.i = nip_ptr[d] /\ nip_ptr[d] # NONE
                       /\ v.pc = "hash" => v.p \in Ifa /\ ifa[v.p].hashed
  <2>1. ASSUME NEW d \in Dev, ReadPtr(s, d)
        PROVE  \E v \in RdT : /\ rd' = [rd EXCEPT ![s] = v] /\ v.pc = "rcu"
                              /\ v.i = nip_ptr[d] /\ nip_ptr[d] # NONE
    <3>1. PICK v : v = [NoRd EXCEPT !.pc = "rcu", !.i = nip_ptr[d]]
      OBVIOUS
    <3>2. v \in RdT /\ v.pc = "rcu" /\ v.i = nip_ptr[d]
      BY <1>1, <3>1 DEF NoRd, RdT
    <3> QED
      BY <2>1, <3>1, <3>2 DEF ReadPtr, Goto
  <2>2. ASSUME NEW f \in Ifa, ReadHash(s, f)
        PROVE  \E v \in RdT : /\ rd' = [rd EXCEPT ![s] = v] /\ v.pc = "hash"
                              /\ v.p = f /\ ifa[f].hashed
    <3>1. PICK v : v = [NoRd EXCEPT !.pc = "hash", !.p = f]
      OBVIOUS
    <3>2. v \in RdT /\ v.pc = "hash" /\ v.p = f
      BY <3>1 DEF NoRd, RdT
    <3> QED
      BY <2>2, <3>1, <3>2 DEF ReadHash, Goto
  <2> QED
    BY <2>1, <2>2
<1>3. UNCHANGED <<nip_ptr, idev, ifa, dst, cfg>> /\ rd[s].pc = "idle"
  BY DEF ReadPtr, ReadHash
<1>4. rd' \in [Reader -> RdT] /\ \A q \in Reader : rd'[q] = IF q = s THEN v ELSE rd[q]
  BY <1>1, <1>2
<1>5. Types'
  BY <1>3, <1>4 DEF Inv, Types
<1>6. Entries(dst', ifa', rd')
  <2>1. v.pc \notin Working
    BY <1>2 DEF Working
  <2>2. Entries(dst, ifa, [rd EXCEPT ![s] = v])
    BY <1>1, <2>1, LookupEnds
  <2> QED
    BY <1>2, <1>3, <2>2
<1>7. RefsF' = RefsF
  <2>1. \A i \in Idev : RefSet(i)' = RefSet(i)
    <3>1. \A q \in Soft : q \in Reader
      BY DEF Reader
    <3> QED
      BY <1>2, <1>3, <1>4, <3>1 DEF RefSet
  <2>2. \A i \in Idev : /\ PtrRef(i)' = PtrRef(i) /\ LoRef(i)' = LoRef(i)
                        /\ CfgRef(i)' = CfgRef(i) /\ IfaSet(i)' = IfaSet(i)
                        /\ DstSet(i)' = DstSet(i)
    BY <1>3 DEF PtrRef, LoRef, CfgRef, IfaSet, DstSet
  <2> QED
    BY <2>1, <2>2, SameRefs
<1>8. /\ Pointers(nip_ptr, idev) /\ IfdownOk(cfg', idev) /\ ListsOk(ifa', cfg', idev)
      /\ \A q \in Soft : ReaderOk(rd, ifa, idev, q)
  BY <1>3 DEF Inv, Idevs
<1>9. ASSUME NEW q \in Soft
      PROVE  ReaderOk(rd', ifa', idev, q)
  <2>1. CASE q # s
    <3>1. rd'[q] = rd[q]
      BY <1>4, <2>1 DEF Reader
    <3> QED
      BY <1>3, <1>8, <3>1 DEF ReaderOk
  <2>2. CASE q = s
    <3>1. rd'[q] = v
      BY <1>1, <1>4, <2>2
    <3>2. CASE v.pc = "rcu"
      BY <1>2, <1>8, <3>1, <3>2 DEF ReaderOk, Pointers, Safe
    <3>3. CASE v.pc = "hash"
      <4>1. PICK f \in Ifa : f = v.p /\ ifa[f].hashed
        BY <1>2, <3>3
      <4>2. ifa[f].mem = "live" /\ ifa[f].idev # NONE /\ idev[ifa[f].idev].mem = "live"
        BY <1>3, <1>8, <4>1 DEF ListsOk
      <4> QED
        BY <1>3, <3>1, <3>3, <4>1, <4>2 DEF ReaderOk, Safe
    <3> QED
      BY <1>2, <3>2, <3>3
  <2> QED
    BY <2>1, <2>2
<1>10. Becomes(idev) /\ nip_ptr' = nip_ptr /\ idev' = idev
  BY <1>3 DEF Becomes
<1>11. Idevs'
  BY <1>5, <1>7, <1>8, <1>9, <1>10, QuietStep
<1> QED
  BY <1>5, <1>6, <1>11 DEF Inv

-----------------------------------------------------------------------------
(* Configuration that leaves the references on idevs alone.                *)

\* A step of the addresses and of nip_addrconf_ifdown.
LEMMA ListStep ==
  ASSUME Inv, UNCHANGED <<nip_ptr, idev, rd>>, ifa' \in [Ifa -> IfaT], cfg' \in CfgT,
         dst' \in [Dst -> DstT], Entries(dst', ifa', rd),
         \A x \in Dst : dst'[x].idev = dst[x].idev,
         \A f \in Ifa : /\ ifa'[f].mem = "live" <=> ifa[f].mem = "live"
                        /\ ifa[f].mem = "live" => ifa'[f].idev = ifa[f].idev,
         \A i \in Idev : CfgRef(i)' = CfgRef(i),
         IfdownOk(cfg', idev), ListsOk(ifa', cfg', idev),
         \A s \in Soft : ReaderOk(rd, ifa', idev, s)
  PROVE  Inv'
<1>1. Types'
  BY DEF Inv, Types
<1>2. RefsF' = RefsF
  <2>1. \A i \in Idev : IfaSet(i)' = IfaSet(i)
    BY DEF IfaSet
  <2>2. \A i \in Idev : DstSet(i)' = DstSet(i) /\ RefSet(i)' = RefSet(i)
    BY DEF DstSet, RefSet
  <2>3. \A i \in Idev : PtrRef(i)' = PtrRef(i) /\ LoRef(i)' = LoRef(i)
    BY DEF PtrRef, LoRef
  <2> QED
    BY <2>1, <2>2, <2>3, SameRefs
<1>3. Becomes(idev) /\ nip_ptr' = nip_ptr /\ idev' = idev /\ rd' = rd
  BY DEF Becomes
<1>4. Idevs'
  BY <1>1, <1>2, <1>3, QuietStep
<1> QED
  BY <1>1, <1>3, <1>4 DEF Inv

\* The readers, when addresses keep their memory and their idev.
LEMMA AddressReaders ==
  ASSUME Inv, NEW F, \A f \in Ifa : /\ F[f].mem = ifa[f].mem /\ F[f].idev = ifa[f].idev
                                    /\ F[f].gp = ifa[f].gp
  PROVE  \A s \in Soft : ReaderOk(rd, F, idev, s)
<1>1. TAKE s \in Soft
<1>2. ReaderOk(rd, ifa, idev, s)
  BY DEF Inv, Idevs
<1> QED
  BY <1>2 DEF ReaderOk, Safe

\* Steps 2 and 3 of nip_addrconf_ifdown.
LEMMA IfdownListsKeep ==
  ASSUME Inv, IfdownHash \/ IfdownList
  PROVE  Inv'
<1>1. /\ ifa \in [Ifa -> IfaT] /\ cfg \in CfgT /\ dst \in [Dst -> DstT]
      /\ Entries(dst, ifa, rd) /\ IfdownOk(cfg, idev) /\ ListsOk(ifa, cfg, idev)
  BY DEF Inv, Types, Idevs
<1>2. UNCHANGED <<nip_ptr, idev, rd, dst>>
  BY DEF IfdownHash, IfdownList
<1>3. /\ ifa' \in [Ifa -> IfaT]
      /\ \A f \in Ifa : /\ ifa'[f].mem = ifa[f].mem /\ ifa'[f].idev = ifa[f].idev
                        /\ ifa'[f].rt = ifa[f].rt /\ ifa'[f].gp = ifa[f].gp
                        /\ ifa'[f].hashed => ifa[f].hashed
                        /\ ifa'[f].listed => ifa[f].listed
  <2>1. CASE IfdownHash
    <3>1. ifa' = [f \in Ifa |-> IF ifa[f].idev = cfg.i THEN [ifa[f] EXCEPT !.hashed = FALSE]
                                ELSE ifa[f]]
      BY <2>1 DEF IfdownHash
    <3>2. ASSUME NEW f \in Ifa
          PROVE  /\ ifa'[f] \in IfaT
                 /\ ifa'[f].mem = ifa[f].mem /\ ifa'[f].idev = ifa[f].idev
                 /\ ifa'[f].rt = ifa[f].rt /\ ifa'[f].gp = ifa[f].gp
                 /\ ifa'[f].hashed => ifa[f].hashed
                 /\ ifa'[f].listed => ifa[f].listed
      <4>1. ifa[f] \in IfaT
        BY <1>1
      <4>2. ifa'[f] = IF ifa[f].idev = cfg.i THEN [ifa[f] EXCEPT !.hashed = FALSE] ELSE ifa[f]
        BY <3>1
      <4> QED
        BY <4>1, <4>2 DEF IfaT
    <3> QED
      BY <3>1, <3>2
  <2>2. CASE IfdownList
    <3>1. PICK S : ifa' = [f \in Ifa |-> IF f \in S THEN [ifa[f] EXCEPT !.listed = FALSE]
                                         ELSE ifa[f]]
      BY <2>2 DEF IfdownList
    <3>2. ASSUME NEW f \in Ifa
          PROVE  /\ ifa'[f] \in IfaT
                 /\ ifa'[f].mem = ifa[f].mem /\ ifa'[f].idev = ifa[f].idev
                 /\ ifa'[f].rt = ifa[f].rt /\ ifa'[f].gp = ifa[f].gp
                 /\ ifa'[f].hashed => ifa[f].hashed
                 /\ ifa'[f].listed => ifa[f].listed
      <4>1. ifa[f] \in IfaT
        BY <1>1
      <4>2. ifa'[f] = IF f \in S THEN [ifa[f] EXCEPT !.listed = FALSE] ELSE ifa[f]
        BY <3>1
      <4> QED
        BY <4>1, <4>2 DEF IfaT
    <3> QED
      BY <3>1, <3>2
  <2> QED
    BY <2>1, <2>2
<1>4. /\ cfg' \in CfgT /\ cfg'.step # "idle" /\ cfg.step # "idle"
      /\ cfg'.unreg = cfg.unreg /\ cfg'.i = cfg.i
      /\ \A f \in cfg'.del : f \in cfg.del \/ ifa[f].listed
  <2>1. CASE IfdownHash
    <3>1. cfg' = [cfg EXCEPT !.step = "list"] /\ cfg.step = "hash"
      BY <2>1 DEF IfdownHash
    <3> QED
      BY <1>1, <3>1 DEF CfgT
  <2>2. CASE IfdownList
    <3>1. PICK S \in SUBSET Ifa : /\ S = {f \in Ifa : ifa[f].listed /\ ifa[f].idev = cfg.i}
                                  /\ cfg' = [cfg EXCEPT !.step = "put", !.del = S]
                                  /\ cfg.step = "list"
      BY <2>2 DEF IfdownList
    <3>2. /\ cfg' \in CfgT /\ cfg'.step = "put" /\ cfg'.del = S
          /\ cfg'.unreg = cfg.unreg /\ cfg'.i = cfg.i
      BY <1>1, <3>1 DEF CfgT
    <3> QED
      BY <3>1, <3>2
  <2> QED
    BY <2>1, <2>2
<1>5. Entries(dst', ifa', rd)
  BY <1>1, <1>2, <1>3, AddressesKeep
<1>6. \A i \in Idev : CfgRef(i)' = CfgRef(i)
  BY <1>4 DEF CfgRef
<1>7. IfdownOk(cfg', idev)
  BY <1>1, <1>4 DEF IfdownOk
<1>8. ListsOk(ifa', cfg', idev)
  BY <1>1, <1>3, <1>4 DEF ListsOk
<1>9. \A s \in Soft : ReaderOk(rd, ifa', idev, s)
  BY <1>3, AddressReaders
<1>10. /\ dst' \in [Dst -> DstT] /\ \A x \in Dst : dst'[x].idev = dst[x].idev
       /\ UNCHANGED <<nip_ptr, idev, rd>>
  BY <1>1, <1>2
<1> QED
  BY <1>3, <1>4, <1>5, <1>6, <1>7, <1>8, <1>9, <1>10, ListStep


\* kfree_rcu of an address: no reader has it.
LEMMA KfreeIfaKeeps ==
  ASSUME Inv, NEW f \in Ifa, KfreeIfa(f)
  PROVE  Inv'
<1>1. /\ ifa \in [Ifa -> IfaT] /\ cfg \in CfgT /\ dst \in [Dst -> DstT]
      /\ Entries(dst, ifa, rd) /\ IfdownOk(cfg, idev) /\ ListsOk(ifa, cfg, idev)
  BY DEF Inv, Types, Idevs
<1>2. /\ ifa[f].mem = "rcu" /\ ifa[f].gp = {} /\ ifa' = [ifa EXCEPT ![f] = NoIfa]
      /\ UNCHANGED <<nip_ptr, idev, rd, dst, cfg>>
  BY DEF KfreeIfa
<1>3. NoIfa \in IfaT /\ NoIfa.mem = "free" /\ NoIfa.hashed = FALSE /\ NoIfa.listed = FALSE
  BY DEF NoIfa, IfaT
<1>4. /\ ifa' \in [Ifa -> IfaT] /\ ifa'[f] = NoIfa
      /\ \A g \in Ifa : g # f => ifa'[g] = ifa[g]
  BY <1>1, <1>2, <1>3
<1>5. \A g \in Ifa : ifa'[g].mem = "live" => ifa[g].mem = "live" /\ ifa'[g].rt = ifa[g].rt
  BY <1>3, <1>4
<1>6. Entries(dst', ifa', rd)
  BY <1>1, <1>2, <1>5, AddressesKeep
<1>7. ListsOk(ifa', cfg', idev)
  BY <1>1, <1>2, <1>3, <1>4 DEF ListsOk
<1>8. ASSUME NEW s \in Soft
      PROVE  ReaderOk(rd, ifa', idev, s)
  <2>1. ReaderOk(rd, ifa, idev, s)
    BY DEF Inv, Idevs
  <2>2. ~Safe(ifa, s, f)
    BY <1>2 DEF Safe
  <2>3. rd[s].pc = "hash" => rd[s].p # f
    BY <2>1, <2>2 DEF ReaderOk
  <2> QED
    BY <1>4, <2>1, <2>3 DEF ReaderOk, Safe
<1>9. \A i \in Idev : CfgRef(i)' = CfgRef(i)
  BY <1>2 DEF CfgRef
<1>10. \A g \in Ifa : /\ ifa'[g].mem = "live" <=> ifa[g].mem = "live"
                      /\ ifa[g].mem = "live" => ifa'[g].idev = ifa[g].idev
  BY <1>2, <1>3, <1>4
<1>11. /\ UNCHANGED <<nip_ptr, idev, rd>> /\ cfg' \in CfgT /\ dst' \in [Dst -> DstT]
       /\ \A x \in Dst : dst'[x].idev = dst[x].idev
       /\ IfdownOk(cfg', idev)
  BY <1>1, <1>2
<1> QED
  BY <1>4, <1>6, <1>7, <1>8, <1>9, <1>10, <1>11, ListStep

\* Routes are unlinked, or nothing happens.
LEMMA UnlinkStep ==
  ASSUME Inv, UNCHANGED <<nip_ptr, idev, rd, ifa, cfg>>,
         \/ dst' = dst
         \/ \E S \in SUBSET Dst : dst' = Unlink(dst, S) /\ \A o \in S : dst[o].linked
  PROVE  Inv'
<1>1. /\ ifa \in [Ifa -> IfaT] /\ cfg \in CfgT /\ dst \in [Dst -> DstT]
      /\ Entries(dst, ifa, rd) /\ IfdownOk(cfg, idev) /\ ListsOk(ifa, cfg, idev)
      /\ \A s \in Soft : ReaderOk(rd, ifa, idev, s)
  BY DEF Inv, Types, Idevs
<1>2. /\ dst' \in [Dst -> DstT] /\ Entries(dst', ifa', rd)
      /\ \A x \in Dst : dst'[x].idev = dst[x].idev
  <2>1. CASE dst' = dst
    BY <1>1, <2>1
  <2>2. ASSUME NEW S \in SUBSET Dst, dst' = Unlink(dst, S), \A o \in S : dst[o].linked
        PROVE  /\ dst' \in [Dst -> DstT] /\ Entries(dst', ifa, rd)
               /\ \A x \in Dst : dst'[x].idev = dst[x].idev
    BY <1>1, <2>2, UnlinkKeeps
  <2> QED
    BY <2>1, <2>2
<1>3. \A i \in Idev : CfgRef(i)' = CfgRef(i)
  BY DEF CfgRef
<1>4. /\ UNCHANGED <<nip_ptr, idev, rd>> /\ cfg' \in CfgT /\ ifa' \in [Ifa -> IfaT]
      /\ IfdownOk(cfg', idev) /\ ListsOk(ifa', cfg', idev)
      /\ \A s \in Soft : ReaderOk(rd, ifa', idev, s)
      /\ \A f \in Ifa : /\ ifa'[f].mem = "live" <=> ifa[f].mem = "live"
                        /\ ifa[f].mem = "live" => ifa'[f].idev = ifa[f].idev
  BY <1>1
<1> QED
  BY <1>2, <1>3, <1>4, ListStep

\* nip_route_del.
LEMMA RouteDelKeeps ==
  ASSUME Inv, NEW o \in Dst, nip_route_del(o)
  PROVE  Inv'
<1>1. /\ dst[o].linked /\ dst' = Unlink(dst, {o})
      /\ UNCHANGED <<nip_ptr, idev, rd, ifa, cfg>>
  BY DEF nip_route_del
<1>2. {o} \in SUBSET Dst /\ \A x \in {o} : dst[x].linked
  BY <1>1
<1> QED
  BY <1>1, <1>2, UnlinkStep

\* Only one device has the idev i.
LEMMA PtrUnique ==
  ASSUME Inv, NEW d \in Dev, NEW e \in Dev, nip_ptr[d] # NONE, nip_ptr[e] = nip_ptr[d]
  PROVE  e = d
  BY DEF Inv, Idevs, Pointers

\* The beginning of nip_addrconf_ifdown.
LEMMA IfdownKeeps ==
  ASSUME Inv, Rtnl, NEW d \in Managed, NEW unreg \in BOOLEAN, nip_addrconf_ifdown(d, unreg),
         UNCHANGED <<ifa, rd>>
  PROVE  Inv'
<1>1. /\ ifa \in [Ifa -> IfaT] /\ cfg \in CfgT /\ dst \in [Dst -> DstT]
      /\ idev \in [Idev -> IdevT] /\ nip_ptr \in [Dev -> Idev \cup {NONE}]
      /\ Entries(dst, ifa, rd) /\ Counts(idev, RefsF) /\ Pointers(nip_ptr, idev)
      /\ ListsOk(ifa, cfg, idev) /\ IfdownOk(cfg, idev)
      /\ \A s \in Soft : ReaderOk(rd, ifa, idev, s)
  BY DEF Inv, Types, Idevs
<1>2. d \in Dev /\ d # Lo /\ cfg.step = "idle"
  BY DEF Rtnl
<1>3. PICK S \in SUBSET Dst : dst' = Unlink(dst, S) /\ \A o \in S : dst[o].linked
  BY DEF nip_addrconf_ifdown
<1>4. CASE nip_ptr[d] = NONE
  <2>1. UNCHANGED <<nip_ptr, idev, rd, ifa, cfg>>
    BY <1>4 DEF nip_addrconf_ifdown
  <2> QED
    BY <1>3, <2>1, UnlinkStep
<1>5. CASE nip_ptr[d] # NONE
  <2>1. PICK i \in Idev : i = nip_ptr[d]
    BY <1>1, <1>2, <1>5
  <2>2. /\ cfg' = [step |-> "hash", d |-> d, unreg |-> unreg, i |-> i, del |-> {}]
        /\ nip_ptr' = IF unreg THEN [nip_ptr EXCEPT ![d] = NONE] ELSE nip_ptr
        /\ idev' = IF unreg THEN [idev EXCEPT ![i].dead = TRUE] ELSE idev
    BY <1>5, <2>1 DEF nip_addrconf_ifdown
  <2>3. /\ cfg' \in CfgT /\ cfg'.step = "hash" /\ cfg'.unreg = unreg /\ cfg'.i = i
        /\ cfg'.del = {}
    BY <1>2, <2>2 DEF CfgT
  <2>4. /\ dst' \in [Dst -> DstT] /\ Entries(dst', ifa', rd')
        /\ \A x \in Dst : dst'[x].idev = dst[x].idev
    BY <1>1, <1>3, UnlinkKeeps
  <2>5. cfg.del = {} /\ \A j \in Idev : CfgRef(j) = 0
    BY <1>1, <1>2 DEF IfdownOk, CfgRef
  <2>6. CASE ~unreg
    <3>1. \A j \in Idev : CfgRef(j)' = CfgRef(j)
      BY <2>3, <2>5, <2>6 DEF CfgRef
    <3>2. IfdownOk(cfg', idev) /\ ListsOk(ifa', cfg', idev)
      BY <1>1, <2>3, <2>6 DEF IfdownOk, ListsOk
    <3>3. /\ UNCHANGED <<nip_ptr, idev, rd>> /\ ifa' \in [Ifa -> IfaT]
          /\ \A s \in Soft : ReaderOk(rd, ifa', idev, s)
          /\ \A f \in Ifa : /\ ifa'[f].mem = "live" <=> ifa[f].mem = "live"
                            /\ ifa[f].mem = "live" => ifa'[f].idev = ifa[f].idev
      BY <1>1, <2>2, <2>6
    <3>4. Entries(dst', ifa', rd)
      BY <2>4
    <3> QED
      BY <2>3, <2>4, <3>1, <3>2, <3>3, <3>4, ListStep
  <2>7. CASE unreg
    <3>1. nip_ptr' = [nip_ptr EXCEPT ![d] = NONE] /\ idev' = [idev EXCEPT ![i].dead = TRUE]
      BY <2>2, <2>7
    <3>2. /\ nip_ptr' \in [Dev -> Idev \cup {NONE}] /\ nip_ptr'[d] = NONE
          /\ \A e \in Dev : e # d => nip_ptr'[e] = nip_ptr[e]
      BY <1>1, <3>1
    <3>3. /\ idev' \in [Idev -> IdevT] /\ idev'[i].dead
          /\ \A j \in Idev : /\ idev'[j].mem = idev[j].mem /\ idev'[j].refcnt = idev[j].refcnt
                             /\ idev'[j].dev = idev[j].dev /\ idev'[j].gp = idev[j].gp
                             /\ j # i => idev'[j].dead = idev[j].dead
      <4>1. PICK x : x = [idev[i] EXCEPT !.dead = TRUE]
        OBVIOUS
      <4>2. idev[i] \in IdevT
        BY <1>1
      <4>3. /\ x \in IdevT /\ x.dead /\ x.mem = idev[i].mem /\ x.refcnt = idev[i].refcnt
            /\ x.dev = idev[i].dev /\ x.gp = idev[i].gp
        BY <4>1, <4>2 DEF IdevT
      <4>4. idev' = [idev EXCEPT ![i] = x]
        BY <1>1, <3>1, <4>1
      <4> QED
        BY <1>1, <4>3, <4>4
    <3>4. /\ idev[i].mem = "live" /\ \A e \in Dev : e # d => nip_ptr[e] # i
          /\ nip_ptr[Lo] # NONE
      BY <1>1, <1>2, <1>5, <2>1, PtrUnique DEF Pointers
    <3>5. \A j \in Idev : Refs(j)' = Refs(j)
      <4>1. \A j \in Idev : /\ IfaSet(j)' = IfaSet(j) /\ DstSet(j)' = DstSet(j)
                            /\ RefSet(j)' = RefSet(j)
        BY <2>4 DEF IfaSet, DstSet, RefSet
      <4>2. \A j \in Idev : LoRef(j)' = LoRef(j)
        BY <1>2, <3>2 DEF LoRef
      <4>3. \A j \in Idev : PtrRef(j)' = IF j = i THEN 0 ELSE PtrRef(j)
        <5>1. TAKE j \in Idev
        <5>2. CASE j = i
          BY <3>2, <3>4, <5>2 DEF PtrRef
        <5>3. CASE j # i
          <6>1. (\E e \in Dev : nip_ptr'[e] = j) <=> (\E e \in Dev : nip_ptr[e] = j)
            BY <1>2, <2>1, <3>2, <5>3
          <6> QED
            BY <5>3, <6>1 DEF PtrRef
        <5> QED
          BY <5>2, <5>3
      <4>4. \A j \in Idev : CfgRef(j)' = IF j = i THEN 1 ELSE 0
        BY <2>3, <2>7 DEF CfgRef
      <4>5. PtrRef(i) = 1
        BY <1>2, <2>1 DEF PtrRef
      <4>6. TAKE j \in Idev
      <4>7. /\ PtrRef(j) \in Nat /\ LoRef(j) \in Nat
            /\ PtrRef(j)' + CfgRef(j)' = PtrRef(j) + CfgRef(j)
            /\ PtrRef(j)' \in Nat /\ CfgRef(j)' \in Nat /\ CfgRef(j) \in Nat
        BY <2>5, <4>3, <4>4, <4>5 DEF PtrRef, LoRef
      <4>8. /\ Cardinality(IfaSet(j)) \in Nat /\ Cardinality(DstSet(j)) \in Nat
            /\ Cardinality(RefSet(j)) \in Nat
        BY RefsIs, FS_CardinalityType
      <4>9. /\ Refs(j) = PtrRef(j) + LoRef(j) + CfgRef(j)
                   + Cardinality(IfaSet(j)) + Cardinality(DstSet(j)) + Cardinality(RefSet(j))
            /\ Refs(j)' = PtrRef(j)' + LoRef(j) + CfgRef(j)'
                   + Cardinality(IfaSet(j)) + Cardinality(DstSet(j)) + Cardinality(RefSet(j))
        BY <4>1, <4>2, RefsIs, RefsIsNext
      <4> QED
        BY <4>7, <4>8, <4>9
    <3>6. Counts(idev', RefsF')
      <4>1. RefsF' = RefsF
        BY <3>5 DEF RefsF
      <4> QED
        BY <1>1, <3>3, <4>1 DEF Counts
    <3>7. Pointers(nip_ptr', idev')
      <4>1. \A j \in Idev : idev[j].dev \in Dev \cup {NONE}
        BY <1>1 DEF IdevT
      <4>2. \A e \in Dev : nip_ptr'[e] # NONE => nip_ptr'[e] # i /\ e # d
        BY <3>2, <3>4
      <4>3. idev[i].dev = d
        BY <1>1, <1>2, <1>5, <2>1 DEF Pointers
      <4>4. nip_ptr'[Lo] # NONE
        BY <1>2, <3>2, <3>4
      <4>5. \A e \in Dev : nip_ptr'[e] # NONE =>
              idev'[nip_ptr'[e]].mem = "live" /\ ~idev'[nip_ptr'[e]].dead
                /\ idev'[nip_ptr'[e]].dev = e
        BY <1>1, <3>2, <3>3, <4>2 DEF Pointers
      <4>6. ASSUME NEW j \in Idev, idev'[j].mem = "live", ~idev'[j].dead
            PROVE  idev'[j].dev # NONE /\ nip_ptr'[idev'[j].dev] = j
        <5>1. j # i /\ idev[j].mem = "live" /\ ~idev[j].dead
          BY <3>3, <4>6
        <5>2. idev[j].dev # NONE /\ nip_ptr[idev[j].dev] = j
          BY <1>1, <5>1 DEF Pointers
        <5>3. idev[j].dev \in Dev /\ idev[j].dev # d
          BY <2>1, <4>1, <5>1, <5>2
        <5> QED
          BY <3>2, <3>3, <5>2, <5>3
      <4> QED
        BY <4>4, <4>5, <4>6 DEF Pointers
    <3>8. IfdownOk(cfg', idev') /\ ListsOk(ifa', cfg', idev')
      <4>1. \A f \in Ifa : ifa[f].idev \in Idev \cup {NONE}
        BY <1>1 DEF IfaT
      <4> QED
        BY <1>1, <2>3, <3>3, <3>4, <4>1 DEF IfdownOk, ListsOk
    <3>9. ASSUME NEW s \in Soft
          PROVE  ReaderOk(rd', ifa', idev', s)
      <4>1. /\ ReaderOk(rd, ifa, idev, s) /\ rd[s].i \in Idev \cup {NONE}
            /\ \A f \in Ifa : ifa[f].idev \in Idev \cup {NONE}
        BY <1>1 DEF Inv, Types, RdT, IfaT, Reader
      <4>2. \A j \in Idev : Safe(idev, s, j) => Safe(idev', s, j)
        BY <3>3 DEF Safe
      <4> QED
        BY <4>1, <4>2 DEF ReaderOk
    <3>10. Types'
      BY <1>1, <2>3, <2>4, <3>2, <3>3 DEF Inv, Types
    <3>11. Idevs'
      BY <3>6, <3>7, <3>8, <3>9 DEF Idevs
    <3> QED
      BY <2>4, <3>10, <3>11 DEF Inv
  <2> QED
    BY <2>6, <2>7
<1> QED
  BY <1>4, <1>5


-----------------------------------------------------------------------------
(* Idevs that come and go.                                                 *)

\* What holds of the idevs when only i differs, which nobody may use before or after.
LEMMA UnusedIdev ==
  ASSUME Inv, NEW i \in Idev, idev[i].mem # "live", idev[i].mem = "rcu" => idev[i].gp = {},
         NEW J, \A j \in Idev : j # i => J[j] = idev[j]
  PROVE  /\ IfdownOk(cfg, J) /\ ListsOk(ifa, cfg, J)
         /\ \A s \in Soft : ReaderOk(rd, ifa, J, s)
         /\ \A d \in Dev : nip_ptr[d] # i
<1>1. /\ ifa \in [Ifa -> IfaT] /\ cfg \in CfgT /\ rd \in [Reader -> RdT]
      /\ nip_ptr \in [Dev -> Idev \cup {NONE}]
  BY DEF Inv, Types
<1>2. /\ IfdownOk(cfg, idev) /\ ListsOk(ifa, cfg, idev) /\ Pointers(nip_ptr, idev)
      /\ \A s \in Soft : ReaderOk(rd, ifa, idev, s)
  BY DEF Inv, Idevs
<1>3. IfdownOk(cfg, J)
  <2>1. cfg.i \in Idev \cup {NONE}
    BY <1>1 DEF CfgT
  <2> QED
    BY <1>2, <2>1 DEF IfdownOk
<1>4. \A f \in Ifa : ifa[f].idev \in Idev \cup {NONE}
  BY <1>1 DEF IfaT
<1>5. ListsOk(ifa, cfg, J)
  BY <1>2, <1>4 DEF ListsOk
<1>6. ASSUME NEW s \in Soft
      PROVE  ReaderOk(rd, ifa, J, s)
  <2>1. \A j \in Idev : Safe(idev, s, j) => Safe(J, s, j)
    BY DEF Safe
  <2>2. rd[s].i \in Idev \cup {NONE} /\ ReaderOk(rd, ifa, idev, s)
    BY <1>1, <1>2 DEF RdT, Reader
  <2> QED
    BY <1>4, <2>1, <2>2 DEF ReaderOk
<1>7. \A d \in Dev : nip_ptr[d] # i
  BY <1>2 DEF Pointers
<1> QED
  BY <1>3, <1>5, <1>6, <1>7

\* Memory given back, and not used by anybody.
LEMMA KfreeIdevKeeps ==
  ASSUME Inv, NEW i \in Idev, KfreeIdev(i)
  PROVE  Inv'
<1>1. idev \in [Idev -> IdevT] /\ Counts(idev, RefsF) /\ Pointers(nip_ptr, idev)
  BY DEF Inv, Types, Idevs
<1>2. /\ idev[i].mem = "rcu" /\ idev[i].gp = {}
      /\ UNCHANGED <<nip_ptr, ifa, dst, cfg, rd>>
  BY DEF KfreeIdev
<1>3. PICK x : x = IF idev[i].refcnt = Sat THEN [NoIdev EXCEPT !.refcnt = Sat] ELSE NoIdev
  OBVIOUS
<1>4. idev' = [idev EXCEPT ![i] = x]
  BY <1>3 DEF KfreeIdev
<1>5. /\ x \in IdevT /\ x.mem = "free"
      /\ x.refcnt = IF idev[i].refcnt = Sat THEN Sat ELSE 0
  <2>1. PICK n : n = IF idev[i].refcnt = Sat THEN Sat ELSE 0
    OBVIOUS
  <2>2. x = [mem |-> "free", dev |-> NONE, refcnt |-> n, dead |-> FALSE, gp |-> {}]
    BY <1>3, <2>1 DEF NoIdev
  <2>3. n \in Int \cup {Sat}
    BY <2>1
  <2> QED
    BY <2>1, <2>2, <2>3 DEF IdevT
<1>6. idev' \in [Idev -> IdevT] /\ idev'[i] = x /\ \A j \in Idev : j # i => idev'[j] = idev[j]
  BY <1>1, <1>4, <1>5
<1>7. Types' /\ Entries(dst', ifa', rd')
  BY <1>2, <1>6 DEF Inv, Types
<1>8. RefsF' = RefsF
  <2>1. \A j \in Idev : /\ PtrRef(j)' = PtrRef(j) /\ LoRef(j)' = LoRef(j)
                        /\ CfgRef(j)' = CfgRef(j) /\ IfaSet(j)' = IfaSet(j)
                        /\ DstSet(j)' = DstSet(j) /\ RefSet(j)' = RefSet(j)
    BY <1>2 DEF PtrRef, LoRef, CfgRef, IfaSet, DstSet, RefSet
  <2> QED
    BY <2>1, SameRefs
<1>9. Counts(idev', RefsF')
  <2>1. /\ RefsF[i] \in Nat
        /\ idev[i].refcnt # Sat => idev[i].refcnt = RefsF[i] /\ ~(RefsF[i] > 0)
    BY <1>1, <1>2 DEF Counts
  <2>2. idev[i].refcnt # Sat => RefsF[i] = 0
    BY <2>1
  <2>3. x.refcnt # Sat => x.refcnt = RefsF[i] /\ RefsF[i] = 0
    BY <1>5, <2>2
  <2>4. ASSUME NEW j \in Idev
        PROVE  /\ RefsF[j] \in Nat
               /\ idev'[j].refcnt # Sat => /\ idev'[j].refcnt = RefsF[j]
                                           /\ idev'[j].mem = "live" <=> RefsF[j] > 0
               /\ idev'[j].refcnt = Sat => idev'[j].mem # "live"
               /\ idev'[j].mem # "lost"
    <3>1. CASE j = i
      BY <1>5, <1>6, <2>1, <2>3, <3>1
    <3>2. CASE j # i
      BY <1>1, <1>6, <3>2 DEF Counts
    <3> QED
      BY <3>1, <3>2
  <2> QED
    BY <1>8, <2>4 DEF Counts
<1>10. /\ IfdownOk(cfg', idev') /\ ListsOk(ifa', cfg', idev')
       /\ \A s \in Soft : ReaderOk(rd', ifa', idev', s)
       /\ \A d \in Dev : nip_ptr[d] # i
  BY <1>2, <1>6, UnusedIdev
<1>11. Pointers(nip_ptr', idev')
  <2>1. nip_ptr \in [Dev -> Idev \cup {NONE}]
    BY DEF Inv, Types
  <2> QED
    BY <1>1, <1>2, <1>5, <1>6, <1>10, <2>1 DEF Pointers
<1> QED
  BY <1>7, <1>9, <1>10, <1>11 DEF Inv, Idevs

\* nip_add_dev: the new idev, before anybody else holds it.
LEMMA NewIdev ==
  ASSUME Inv, NEW d \in Managed, nip_ptr[d] = NONE, NEW i \in FreeIdev,
         nip_ptr' = [nip_ptr EXCEPT ![d] = i]
  PROVE  /\ nip_ptr' \in [Dev -> Idev \cup {NONE}] /\ WithIdev(d, i) \in [Idev -> IdevT]
         /\ i \in Idev /\ Refs(i) = 0
         /\ [RefsF EXCEPT ![i] = 1] \in [Idev -> Nat]
         /\ Counts(WithIdev(d, i), [RefsF EXCEPT ![i] = 1])
         /\ Pointers(nip_ptr', WithIdev(d, i))
         /\ IfdownOk(cfg, WithIdev(d, i)) /\ ListsOk(ifa, cfg, WithIdev(d, i))
         /\ \A s \in Soft : ReaderOk(rd, ifa, WithIdev(d, i), s)
         /\ \A j \in Idev : /\ LoRef(j)' = LoRef(j)
                            /\ PtrRef(j)' = IF j = i THEN 1 ELSE PtrRef(j)
         /\ PtrRef(i) = 0
         /\ WithIdev(d, i)[i].mem = "live"
<1>1. /\ idev \in [Idev -> IdevT] /\ Counts(idev, RefsF) /\ Pointers(nip_ptr, idev)
      /\ nip_ptr \in [Dev -> Idev \cup {NONE}]
  BY DEF Inv, Types, Idevs
<1>2. d \in Dev /\ d # Lo /\ i \in Idev /\ idev[i] = NoIdev
  BY DEF FreeIdev
<1>3. NoIdev.mem = "free" /\ NoIdev.refcnt = 0
  BY DEF NoIdev
<1>4. PICK x : x = [NoIdev EXCEPT !.mem = "live", !.dev = d, !.refcnt = 1]
  OBVIOUS
<1>5. x \in IdevT /\ x.mem = "live" /\ x.refcnt = 1 /\ x.dev = d /\ x.dead = FALSE
  <2>1. x = [mem |-> "live", dev |-> d, refcnt |-> 1, dead |-> FALSE, gp |-> {}]
    BY <1>4 DEF NoIdev
  <2> QED
    BY <1>2, <2>1 DEF IdevT
<1>6. PICK J : J = WithIdev(d, i)
  OBVIOUS
<1>7. J \in [Idev -> IdevT] /\ J[i] = x /\ \A j \in Idev : j # i => J[j] = idev[j]
  BY <1>1, <1>2, <1>4, <1>5, <1>6 DEF WithIdev
<1>8. /\ nip_ptr' \in [Dev -> Idev \cup {NONE}] /\ nip_ptr'[d] = i
      /\ \A e \in Dev : e # d => nip_ptr'[e] = nip_ptr[e]
  BY <1>1, <1>2
<1>9. RefsF \in [Idev -> Nat] /\ \A j \in Idev : RefsF[j] = Refs(j)
  BY CountsNow
<1>10. Refs(i) = 0
  BY <1>1, <1>2, <1>3, <1>9 DEF Counts
<1>11. /\ IfdownOk(cfg, J) /\ ListsOk(ifa, cfg, J)
       /\ \A s \in Soft : ReaderOk(rd, ifa, J, s)
       /\ \A e \in Dev : nip_ptr[e] # i
  BY <1>2, <1>3, <1>7, UnusedIdev
<1>12. Counts(J, [RefsF EXCEPT ![i] = 1]) /\ [RefsF EXCEPT ![i] = 1] \in [Idev -> Nat]
  BY <1>1, <1>2, <1>5, <1>7, <1>9 DEF Counts
<1>13. Pointers(nip_ptr', J)
  <2>1. \A j \in Idev : idev[j].dev \in Dev \cup {NONE}
    BY <1>1 DEF IdevT
  <2>2. nip_ptr'[Lo] # NONE
    BY <1>1, <1>2, <1>8 DEF Pointers
  <2>3. ASSUME NEW e \in Dev, nip_ptr'[e] # NONE
        PROVE  /\ J[nip_ptr'[e]].mem = "live" /\ ~J[nip_ptr'[e]].dead
               /\ J[nip_ptr'[e]].dev = e
    <3>1. CASE e = d
      BY <1>5, <1>7, <1>8, <3>1
    <3>2. CASE e # d
      BY <1>1, <1>7, <1>8, <1>11, <2>3, <3>2 DEF Pointers
    <3> QED
      BY <3>1, <3>2
  <2>4. ASSUME NEW j \in Idev, J[j].mem = "live", ~J[j].dead
        PROVE  J[j].dev # NONE /\ nip_ptr'[J[j].dev] = j
    <3>1. CASE j = i
      BY <1>2, <1>5, <1>7, <1>8, <3>1
    <3>2. CASE j # i
      <4>1. idev[j].dev # NONE /\ nip_ptr[idev[j].dev] = j
        BY <1>1, <1>7, <2>4, <3>2 DEF Pointers
      <4>2. idev[j].dev # d /\ idev[j].dev \in Dev
        BY <2>1, <4>1
      <4> QED
        BY <1>7, <1>8, <3>2, <4>1, <4>2
    <3> QED
      BY <3>1, <3>2
  <2> QED
    BY <2>2, <2>3, <2>4 DEF Pointers
<1>14. \A j \in Idev : LoRef(j)' = LoRef(j)
  BY <1>2, <1>8 DEF LoRef
<1>15. PtrRef(i) = 0
  BY <1>11 DEF PtrRef
<1>16. ASSUME NEW j \in Idev
       PROVE  PtrRef(j)' = IF j = i THEN 1 ELSE PtrRef(j)
  <2>1. CASE j = i
    BY <1>2, <1>8, <2>1 DEF PtrRef
  <2>2. CASE j # i
    <3>1. (\E e \in Dev : nip_ptr'[e] = j) <=> (\E e \in Dev : nip_ptr[e] = j)
      BY <1>2, <1>8, <2>2
    <3> QED
      BY <2>2, <3>1 DEF PtrRef
  <2> QED
    BY <2>1, <2>2
<1> QED
  BY <1>2, <1>5, <1>6, <1>7, <1>8, <1>10, <1>11, <1>12, <1>13, <1>14, <1>15, <1>16

\* A device gets its idev, and nothing else changes.
LEMMA AddDevKeeps ==
  ASSUME Inv, NEW d \in Managed, nip_ptr[d] = NONE, NEW i \in FreeIdev,
         nip_ptr' = [nip_ptr EXCEPT ![d] = i], idev' = WithIdev(d, i),
         UNCHANGED <<ifa, dst, cfg, rd>>
  PROVE  Inv'
<1>1. /\ nip_ptr' \in [Dev -> Idev \cup {NONE}] /\ idev' \in [Idev -> IdevT]
      /\ i \in Idev /\ Refs(i) = 0
      /\ Counts(idev', [RefsF EXCEPT ![i] = 1])
      /\ Pointers(nip_ptr', idev')
      /\ IfdownOk(cfg, idev') /\ ListsOk(ifa, cfg, idev')
      /\ \A s \in Soft : ReaderOk(rd, ifa, idev', s)
      /\ \A j \in Idev : /\ LoRef(j)' = LoRef(j)
                         /\ PtrRef(j)' = IF j = i THEN 1 ELSE PtrRef(j)
      /\ PtrRef(i) = 0
  BY NewIdev
<1>2. Types' /\ Entries(dst', ifa', rd')
  BY <1>1 DEF Inv, Types
<1>3. ASSUME NEW j \in Idev
      PROVE  Refs(j)' = IF j = i THEN 1 ELSE Refs(j)
  <2>1. \A k \in Idev : /\ CfgRef(k)' = CfgRef(k) /\ IfaSet(k)' = IfaSet(k)
                        /\ DstSet(k)' = DstSet(k) /\ RefSet(k)' = RefSet(k)
    BY DEF CfgRef, IfaSet, DstSet, RefSet
  <2>2. Refs(j)' = Refs(j) + (PtrRef(j)' - PtrRef(j)) + (LoRef(j)' - LoRef(j))
                        + (CfgRef(j)' - CfgRef(j))
                        + (One(NONE, IfaSet(j)') - One(NONE, IfaSet(j)))
                        + (One(NONE, DstSet(j)') - One(NONE, DstSet(j)))
                        + (One(NONE, RefSet(j)') - One(NONE, RefSet(j)))
    BY <2>1, RefsChange
  <2>3. /\ Refs(j) \in Nat /\ PtrRef(j) \in Nat /\ LoRef(j) \in Nat /\ CfgRef(j) \in Nat
        /\ One(NONE, IfaSet(j)) \in Nat /\ One(NONE, DstSet(j)) \in Nat
        /\ One(NONE, RefSet(j)) \in Nat
    BY RefsBound DEF PtrRef, LoRef, CfgRef, One
  <2> QED
    BY <1>1, <2>1, <2>2, <2>3
<1>4. RefsF' = [RefsF EXCEPT ![i] = 1]
  <2>1. RefsF' = [j \in Idev |-> Refs(j)'] /\ RefsF = [j \in Idev |-> Refs(j)]
    BY DEF RefsF
  <2> QED
    BY <1>1, <1>3, <2>1
<1> QED
  BY <1>1, <1>2, <1>4 DEF Inv, Idevs

\* NETDEV_REGISTER, NETDEV_UP and NETDEV_CHANGEMTU to a sufficient value.
LEMMA NotifyKeeps ==
  ASSUME Inv, NEW d \in Managed, Register(d) \/ Up(d) \/ MtuEnough(d)
  PROVE  Inv'
<1>1. /\ UNCHANGED <<ifa, dst, cfg, rd>>
      /\ nip_add_dev(d) \/ UNCHANGED <<nip_ptr, idev>>
  BY DEF Register, Up, MtuEnough
<1>2. CASE nip_add_dev(d)
  <2>1. PICK i \in FreeIdev : i = kzalloc(FreeIdev)
    BY <1>2 DEF nip_add_dev, kzalloc
  <2>2. /\ nip_ptr[d] = NONE /\ nip_ptr' = [nip_ptr EXCEPT ![d] = i]
        /\ idev' = WithIdev(d, i)
    BY <1>2, <2>1 DEF nip_add_dev
  <2> QED
    BY <1>1, <2>2, AddDevKeeps
<1>3. CASE UNCHANGED <<nip_ptr, idev>>
  BY <1>1, <1>3, UnlinkStep
<1> QED
  BY <1>1, <1>2, <1>3

\* NETDEV_DOWN, NETDEV_UNREGISTER and NETDEV_CHANGEMTU to a value that is too small.
LEMMA GoingDownKeeps ==
  ASSUME Inv, NEW d \in Managed, Down(d) \/ Unregister(d) \/ MtuTooSmall(d)
  PROVE  Inv'
<1>1. Rtnl /\ UNCHANGED <<ifa, rd>> /\ \E unreg \in BOOLEAN : nip_addrconf_ifdown(d, unreg)
  <2>1. (d # Lo) \in BOOLEAN
    OBVIOUS
  <2> QED
    BY <2>1 DEF Down, Unregister, MtuTooSmall
<1> QED
  BY <1>1, IfdownKeeps


-----------------------------------------------------------------------------
(* Steps that put or hold an idev.                                         *)

\* Such a step, when R counts the references of the next state.
LEMMA RefStep ==
  ASSUME Inv, idev' \in [Idev -> IdevT], NEW R, Counts(idev', R), Evolves(idev, idev'),
         \A i \in Idev : Refs(i)' = R[i], nip_ptr' = nip_ptr,
         ifa' \in [Ifa -> IfaT], cfg' \in CfgT, dst' \in [Dst -> DstT], rd' \in [Reader -> RdT],
         Entries(dst', ifa', rd'), IfdownOk(cfg', idev), ListsOk(ifa', cfg', idev),
         \A s \in Soft : ReaderOk(rd', ifa', idev, s),
         \A s \in Soft : rd'[s].pc \in {"rcu", "hash"} => s \in InRcu
  PROVE  Inv'
<1>1. Types'
  BY DEF Inv, Types
<1>2. Counts(idev', RefsF')
  <2>1. \A i \in Idev : RefsF'[i] = R[i]
    BY DEF RefsF
  <2> QED
    BY <2>1 DEF Counts
<1>3. Pointers(nip_ptr', idev) /\ Becomes(idev')
  BY DEF Inv, Idevs, Becomes
<1>4. \A s \in Soft : rd'[s].pc \in {"rcu", "hash"} =>
        /\ s \in InRcu \/ \A j \in Idev : idev'[j].mem = idev[j].mem
        /\ \A j \in Idev : s \in idev'[j].gp => s \in idev'[j].gp
  OBVIOUS
<1>5. Idevs'
  BY <1>1, <1>2, <1>3, <1>4, IdevsStep
<1> QED
  BY <1>1, <1>5 DEF Inv

\* Readers in their critical sections are in RCU.
LEMMA ReadersInRcu ==
  ASSUME NEW s \in Soft, rd[s].pc \in {"rcu", "hash"}
  PROVE  s \in InRcu
  BY DEF InRcu

\* The address f, the entry o, the reader s, and dev->nip_ptr or nip_addrconf_ifdown get
\* a, b, c and e references to i (give up, if negative).
Moves(f, o, s, i, a, b, c, e) ==
  \A j \in Idev :
    /\ IfaSet(j)' \ {f} = IfaSet(j) \ {f}
    /\ DstSet(j)' \ {o} = DstSet(j) \ {o}
    /\ RefSet(j)' \ {s} = RefSet(j) \ {s}
    /\ LoRef(j)' = LoRef(j)
    /\ One(f, IfaSet(j)') = One(f, IfaSet(j)) + (IF j = i THEN a ELSE 0)
    /\ One(o, DstSet(j)') = One(o, DstSet(j)) + (IF j = i THEN b ELSE 0)
    /\ One(s, RefSet(j)') = One(s, RefSet(j)) + (IF j = i THEN c ELSE 0)
    /\ PtrRef(j)' + CfgRef(j)' = PtrRef(j) + CfgRef(j) + (IF j = i THEN e ELSE 0)

\* Then the references to i change by their sum.
LEMMA RefsMove ==
  ASSUME NEW f, NEW o, NEW s, NEW i \in Idev,
         NEW a \in Int, NEW b \in Int, NEW c \in Int, NEW e \in Int,
         Moves(f, o, s, i, a, b, c, e)
  PROVE  \A j \in Idev : Refs(j)' = IF j = i THEN Refs(j) + a + b + c + e ELSE Refs(j)
<1>1. TAKE j \in Idev
<1>2. /\ Refs(j) \in Nat /\ PtrRef(j) \in Nat /\ LoRef(j) \in Nat /\ CfgRef(j) \in Nat
      /\ PtrRef(j)' \in Nat /\ CfgRef(j)' \in Nat
      /\ One(f, IfaSet(j)) \in Nat /\ One(o, DstSet(j)) \in Nat /\ One(s, RefSet(j)) \in Nat
  BY RefsBound DEF PtrRef, LoRef, CfgRef, One
<1>3. Refs(j)' = Refs(j) + (PtrRef(j)' - PtrRef(j)) + (LoRef(j)' - LoRef(j))
                        + (CfgRef(j)' - CfgRef(j))
                        + (One(f, IfaSet(j)') - One(f, IfaSet(j)))
                        + (One(o, DstSet(j)') - One(o, DstSet(j)))
                        + (One(s, RefSet(j)') - One(s, RefSet(j)))
  BY RefsChange DEF Moves
<1>4. CASE j = i
  BY <1>2, <1>3, <1>4 DEF Moves
<1>5. CASE j # i
  BY <1>2, <1>3, <1>5 DEF Moves
<1> QED
  BY <1>4, <1>5

\* A reference to i is put.
LEMMA PutRef ==
  ASSUME Inv, NEW i \in Idev, NEW f, NEW o, NEW s,
         f \in IfaSet(i) \/ o \in DstSet(i) \/ s \in RefSet(i) \/ CfgRef(i) = 1,
         idev' = Put(idev, i)
  PROVE  /\ idev' \in [Idev -> IdevT] /\ Evolves(idev, idev')
         /\ Counts(idev', [RefsF EXCEPT ![i] = @ - 1])
         /\ \A j \in Idev : [RefsF EXCEPT ![i] = @ - 1][j] = IF j = i THEN Refs(j) - 1 ELSE Refs(j)
<1>1. /\ idev \in [Idev -> IdevT] /\ RefsF \in [Idev -> Nat] /\ Counts(idev, RefsF)
      /\ \A j \in Idev : RefsF[j] = Refs(j)
  BY CountsNow
<1>2. RefsF[i] > 0 /\ (RefsF[i] = 1 /\ idev[i].mem = "live" => idev[i].dead)
  BY <1>1, LastIsDead
<1>3. /\ idev' \in [Idev -> IdevT] /\ Evolves(idev, idev')
      /\ Counts(idev', [RefsF EXCEPT ![i] = @ - 1])
  BY <1>1, <1>2, PutOk
<1> QED
  BY <1>1, <1>3

\* A reference to i is got.
LEMMA HoldRef ==
  ASSUME Inv, NEW i \in Idev
  PROVE  /\ Hold(idev, i) \in [Idev -> IdevT] /\ Evolves(idev, Hold(idev, i))
         /\ Counts(Hold(idev, i), [RefsF EXCEPT ![i] = @ + 1])
         /\ \A j \in Idev : [RefsF EXCEPT ![i] = @ + 1][j] = IF j = i THEN Refs(j) + 1 ELSE Refs(j)
         /\ \A j \in Idev : Hold(idev, i)[j].mem = idev[j].mem
<1>1. /\ idev \in [Idev -> IdevT] /\ RefsF \in [Idev -> Nat] /\ Counts(idev, RefsF)
      /\ \A j \in Idev : RefsF[j] = Refs(j)
  BY CountsNow
<1>2. /\ Hold(idev, i) \in [Idev -> IdevT] /\ Evolves(idev, Hold(idev, i))
      /\ Counts(Hold(idev, i), [RefsF EXCEPT ![i] = @ + 1])
      /\ \A j \in Idev : Hold(idev, i)[j].mem = idev[j].mem
  BY <1>1, HoldOk
<1> QED
  BY <1>1, <1>2

\* An address gives up its route.
LEMMA AddressReleased ==
  ASSUME Inv, NEW f \in Ifa, ifa[f].mem = "live", NEW D \in [Dst -> DstT], Entries(D, ifa, rd),
         NEW F \in [Ifa -> IfaT], F[f].mem # "live", \A g \in Ifa : g # f => F[g] = ifa[g]
  PROVE  /\ Release(D, ifa[f].rt, "ifa") \in [Dst -> DstT]
         /\ Entries(Release(D, ifa[f].rt, "ifa"), F, rd)
         /\ \A x \in Dst : Release(D, ifa[f].rt, "ifa")[x].idev = D[x].idev
<1>1. ifa \in [Ifa -> IfaT] /\ rd \in [Reader -> RdT]
  BY DEF Inv, Types
<1>2. PICK o \in Dst : o = ifa[f].rt /\ D[o].kind = "route"
  BY <1>1 DEF Entries, AddressOk, IfaT
<1>3. \A g \in Ifa : ifa[g].mem = "live" /\ ifa[g].rt = o => g = f
  BY <1>2 DEF Entries, AddressOk
<1>4. Entries(D, F, rd)
  <2>1. \A g \in Ifa : F[g].mem = "live" => ifa[g].mem = "live" /\ F[g].rt = ifa[g].rt
    OBVIOUS
  <2> QED
    BY <2>1, AddressesKeep
<1>5. Unneeded(D, F, rd, o, "ifa")
  BY <1>3 DEF Unneeded
<1>6. Entries(Release(D, o, "ifa"), F, rd)
  BY <1>1, <1>2, <1>4, <1>5, ReleaseKeeps
<1>7. /\ Release(D, o, "ifa") \in [Dst -> DstT]
      /\ \A x \in Dst : Release(D, o, "ifa")[x].idev = D[x].idev
  BY ReleaseIs DEF Alike
<1> QED
  BY <1>2, <1>6, <1>7

\* ninet_ifa_finish_destroy.
LEMMA FinishDestroy ==
  ASSUME Inv, NEW f \in Ifa, ifa[f].mem = "live", ninet_ifa_finish_destroy(f),
         UNCHANGED <<nip_ptr, rd>>, cfg' \in CfgT, cfg'.del \in SUBSET (cfg.del \ {f}),
         cfg'.step = cfg.step, cfg'.unreg = cfg.unreg, cfg'.i = cfg.i,
         NEW D \in [Dst -> DstT], Entries(D, ifa, rd), \A x \in Dst : D[x].idev = dst[x].idev,
         dst' = Release(D, ifa[f].rt, "ifa")
  PROVE  Inv'
<1>1. /\ ifa \in [Ifa -> IfaT] /\ rd \in [Reader -> RdT]
      /\ IfdownOk(cfg, idev) /\ ListsOk(ifa, cfg, idev)
      /\ \A s \in Soft : ReaderOk(rd, ifa, idev, s)
  BY DEF Inv, Types, Idevs
<1>2. PICK i \in Idev : i = ifa[f].idev
  BY <1>1 DEF ListsOk, IfaT
<1>3. idev' = Put(idev, i)
  BY <1>2 DEF ninet_ifa_finish_destroy
<1>4. PICK w : w = [ifa[f] EXCEPT !.mem = "rcu", !.hashed = FALSE, !.listed = FALSE, !.gp = InRcu]
  OBVIOUS
<1>5. /\ w \in IfaT /\ w.mem = "rcu" /\ w.hashed = FALSE /\ w.listed = FALSE
      /\ w.gp = InRcu /\ w.idev = i
  <2>1. InRcu \in SUBSET Reader
    BY DEF InRcu, Reader
  <2>2. ifa[f] \in IfaT
    BY <1>1
  <2> QED
    BY <1>2, <1>4, <2>1, <2>2 DEF IfaT
<1>6. ifa' = [ifa EXCEPT ![f] = w]
  BY <1>4 DEF ninet_ifa_finish_destroy
<1>7. ifa' \in [Ifa -> IfaT] /\ ifa'[f] = w /\ \A g \in Ifa : g # f => ifa'[g] = ifa[g]
  BY <1>1, <1>5, <1>6
<1>8. /\ dst' \in [Dst -> DstT] /\ Entries(dst', ifa', rd)
      /\ \A x \in Dst : dst'[x].idev = dst[x].idev
  <2>1. ifa'[f].mem # "live"
    BY <1>5, <1>7
  <2>2. /\ Release(D, ifa[f].rt, "ifa") \in [Dst -> DstT]
        /\ Entries(Release(D, ifa[f].rt, "ifa"), ifa', rd)
        /\ \A x \in Dst : Release(D, ifa[f].rt, "ifa")[x].idev = D[x].idev
    BY <1>7, <2>1, AddressReleased
  <2> QED
    BY <2>2
<1>9. f \in IfaSet(i)
  BY <1>2 DEF IfaSet
<1>10. /\ idev' \in [Idev -> IdevT] /\ Evolves(idev, idev')
       /\ Counts(idev', [RefsF EXCEPT ![i] = @ - 1])
       /\ \A j \in Idev : [RefsF EXCEPT ![i] = @ - 1][j] = IF j = i THEN Refs(j) - 1 ELSE Refs(j)
  BY <1>3, <1>9, PutRef
<1>11. \A j \in Idev : Refs(j)' = IF j = i THEN Refs(j) - 1 ELSE Refs(j)
  <2>1. \A j \in Idev : IfaSet(j)' \ {f} = IfaSet(j) \ {f} /\ f \notin IfaSet(j)'
    BY <1>5, <1>7 DEF IfaSet
  <2>2. \A j \in Idev : /\ DstSet(j)' = DstSet(j) /\ RefSet(j)' = RefSet(j)
                        /\ LoRef(j)' = LoRef(j) /\ PtrRef(j)' = PtrRef(j)
                        /\ CfgRef(j)' = CfgRef(j)
    BY <1>8 DEF DstSet, RefSet, LoRef, PtrRef, CfgRef
  <2>3. \A j \in Idev : One(f, IfaSet(j)) = IF j = i THEN 1 ELSE 0
    BY <1>2 DEF IfaSet, One
  <2>4. \A j \in Idev : One(f, IfaSet(j)') = 0
    BY <2>1 DEF One
  <2>5. PICK n \in Int, z \in Int : n = -1 /\ z = 0
    OBVIOUS
  <2>6. Moves(f, NONE, NONE, i, n, z, z, z)
    <3>1. \A j \in Idev : /\ One(NONE, DstSet(j)) \in Nat /\ One(NONE, RefSet(j)) \in Nat
                          /\ PtrRef(j) \in Nat /\ CfgRef(j) \in Nat
      BY DEF One, PtrRef, CfgRef
    <3> QED
      BY <2>1, <2>2, <2>3, <2>4, <2>5, <3>1 DEF Moves
  <2>7. \A j \in Idev : Refs(j)' = IF j = i THEN Refs(j) + n + z + z + z ELSE Refs(j)
    BY <2>6, RefsMove
  <2>8. \A j \in Idev : Refs(j) \in Nat
    BY RefsBound
  <2> QED
    BY <2>5, <2>7, <2>8
<1>12. IfdownOk(cfg', idev)
  BY <1>1 DEF IfdownOk
<1>13. ListsOk(ifa', cfg', idev)
  BY <1>1, <1>5, <1>7 DEF ListsOk
<1>14. ASSUME NEW s \in Soft
       PROVE  ReaderOk(rd, ifa', idev, s)
  <2>1. ReaderOk(rd, ifa, idev, s) /\ (rd[s].pc \in {"rcu", "hash"} => s \in InRcu)
    BY <1>1, ReadersInRcu
  <2> QED
    BY <1>2, <1>5, <1>7, <2>1 DEF ReaderOk, Safe
<1>15. /\ nip_ptr' = nip_ptr /\ rd' = rd /\ rd' \in [Reader -> RdT]
       /\ \A s \in Soft : rd'[s].pc \in {"rcu", "hash"} => s \in InRcu
  BY <1>1, ReadersInRcu
<1>16. PICK R : R = [RefsF EXCEPT ![i] = @ - 1]
  OBVIOUS
<1>17. Counts(idev', R) /\ \A j \in Idev : Refs(j)' = R[j]
  BY <1>10, <1>11, <1>16
<1> QED
  BY <1>7, <1>8, <1>10, <1>12, <1>13, <1>14, <1>15, <1>17, RefStep

\* Step 4 of nip_addrconf_ifdown.
LEMMA IfdownPutKeeps ==
  ASSUME Inv, NEW f \in Ifa, IfdownPut(f)
  PROVE  Inv'
<1>1. cfg \in CfgT /\ dst \in [Dst -> DstT] /\ Entries(dst, ifa, rd) /\ ListsOk(ifa, cfg, idev)
  BY DEF Inv, Types, Idevs
<1>2. /\ f \in cfg.del /\ ninet_ifa_finish_destroy(f) /\ dst' = Release(dst, ifa[f].rt, "ifa")
      /\ cfg' = [cfg EXCEPT !.del = cfg.del \ {f}] /\ UNCHANGED <<nip_ptr, rd>>
  BY <1>1 DEF IfdownPut, CfgT
<1>3. ifa[f].mem = "live"
  BY <1>1, <1>2 DEF ListsOk
<1>4. /\ cfg' \in CfgT /\ cfg'.del = cfg.del \ {f} /\ cfg'.step = cfg.step
      /\ cfg'.unreg = cfg.unreg /\ cfg'.i = cfg.i
  BY <1>1, <1>2 DEF CfgT
<1>5. cfg'.del \in SUBSET (cfg.del \ {f}) /\ \A x \in Dst : dst[x].idev = dst[x].idev
  BY <1>4
<1> QED
  BY <1>1, <1>2, <1>3, <1>4, <1>5, FinishDestroy

\* nip_del_addr.
LEMMA AddrDelKeeps ==
  ASSUME Inv, NEW f \in Ifa, ninet_addr_del(f)
  PROVE  Inv'
<1>1. /\ cfg \in CfgT /\ dst \in [Dst -> DstT] /\ ifa \in [Ifa -> IfaT]
      /\ Entries(dst, ifa, rd) /\ ListsOk(ifa, cfg, idev) /\ IfdownOk(cfg, idev)
  BY DEF Inv, Types, Idevs
<1>2. PICK S : S = {ifa[f].rt} \cap {p \in Dst : dst[p].linked}
  OBVIOUS
<1>3. /\ cfg.step = "idle" /\ ifa[f].listed /\ ninet_ifa_finish_destroy(f)
      /\ dst' = Release(Unlink(dst, S), ifa[f].rt, "ifa") /\ UNCHANGED <<nip_ptr, cfg, rd>>
  BY <1>2 DEF ninet_addr_del, Rtnl
<1>4. ifa[f].mem = "live" /\ cfg.del = {}
  BY <1>1, <1>3 DEF ListsOk, IfdownOk
<1>5. S \in SUBSET Dst /\ \A o \in S : dst[o].linked
  BY <1>2
<1>6. PICK D : D = Unlink(dst, S)
  OBVIOUS
<1>7. /\ D \in [Dst -> DstT] /\ Entries(D, ifa, rd)
      /\ \A x \in Dst : D[x].idev = dst[x].idev
  BY <1>1, <1>5, <1>6, UnlinkKeeps
<1>8. /\ cfg' \in CfgT /\ cfg'.del \in SUBSET (cfg.del \ {f}) /\ cfg'.step = cfg.step
      /\ cfg'.unreg = cfg.unreg /\ cfg'.i = cfg.i /\ UNCHANGED <<nip_ptr, rd>>
      /\ dst' = Release(D, ifa[f].rt, "ifa")
  BY <1>1, <1>3, <1>4, <1>6
<1> QED
  BY <1>3, <1>4, <1>7, <1>8, FinishDestroy

\* The end of nip_addrconf_ifdown.
LEMMA IfdownLastKeeps ==
  ASSUME Inv, IfdownLast
  PROVE  Inv'
<1>1. /\ cfg \in CfgT /\ dst \in [Dst -> DstT] /\ ifa \in [Ifa -> IfaT]
      /\ rd \in [Reader -> RdT] /\ Entries(dst, ifa, rd)
      /\ ListsOk(ifa, cfg, idev) /\ IfdownOk(cfg, idev)
      /\ \A s \in Soft : ReaderOk(rd, ifa, idev, s)
  BY DEF Inv, Types, Idevs
<1>2. /\ cfg.step = "put" /\ cfg.del = {} /\ cfg' = NoCfg /\ UNCHANGED <<nip_ptr, ifa, dst, rd>>
      /\ idev' = IF cfg.unreg THEN Put(idev, cfg.i) ELSE idev
  BY DEF IfdownLast
<1>3. NoCfg \in CfgT /\ NoCfg.step = "idle" /\ NoCfg.del = {}
  BY DEF NoCfg, CfgT
<1>4. IfdownOk(cfg', idev) /\ ListsOk(ifa', cfg', idev)
  BY <1>1, <1>2, <1>3 DEF IfdownOk, ListsOk
<1>5. \A j \in Idev : CfgRef(j)' = 0
  BY <1>2, <1>3 DEF CfgRef
<1>6. CASE ~cfg.unreg
  <2>1. \A j \in Idev : CfgRef(j)' = CfgRef(j)
    BY <1>5, <1>6 DEF CfgRef
  <2>2. /\ UNCHANGED <<nip_ptr, idev, rd>> /\ ifa' \in [Ifa -> IfaT] /\ cfg' \in CfgT
        /\ dst' \in [Dst -> DstT] /\ Entries(dst', ifa', rd)
        /\ \A x \in Dst : dst'[x].idev = dst[x].idev
        /\ \A f \in Ifa : /\ ifa'[f].mem = "live" <=> ifa[f].mem = "live"
                          /\ ifa[f].mem = "live" => ifa'[f].idev = ifa[f].idev
        /\ \A s \in Soft : ReaderOk(rd, ifa', idev, s)
    BY <1>1, <1>2, <1>3, <1>6
  <2> QED
    BY <1>4, <2>1, <2>2, ListStep
<1>7. CASE cfg.unreg
  <2>1. PICK i \in Idev : i = cfg.i
    BY <1>1, <1>2 DEF IfdownOk, CfgT
  <2>2. \A j \in Idev : CfgRef(j) = IF j = i THEN 1 ELSE 0
    BY <1>2, <1>7, <2>1 DEF CfgRef
  <2>3. idev' = Put(idev, i) /\ CfgRef(i) = 1
    BY <1>2, <1>7, <2>1, <2>2
  <2>4. /\ idev' \in [Idev -> IdevT] /\ Evolves(idev, idev')
        /\ Counts(idev', [RefsF EXCEPT ![i] = @ - 1])
        /\ \A j \in Idev : [RefsF EXCEPT ![i] = @ - 1][j] = IF j = i THEN Refs(j) - 1 ELSE Refs(j)
    BY <2>3, PutRef
  <2>5. \A j \in Idev : Refs(j)' = IF j = i THEN Refs(j) - 1 ELSE Refs(j)
    <3>1. \A j \in Idev : /\ IfaSet(j)' = IfaSet(j) /\ DstSet(j)' = DstSet(j)
                          /\ RefSet(j)' = RefSet(j) /\ LoRef(j)' = LoRef(j)
                          /\ PtrRef(j)' = PtrRef(j)
      BY <1>2 DEF IfaSet, DstSet, RefSet, LoRef, PtrRef
    <3>2. PICK n \in Int, z \in Int : n = -1 /\ z = 0
      OBVIOUS
    <3>3. Moves(NONE, NONE, NONE, i, z, z, z, n)
      <4>1. \A j \in Idev : /\ One(NONE, IfaSet(j)) \in Nat /\ One(NONE, DstSet(j)) \in Nat
                            /\ One(NONE, RefSet(j)) \in Nat /\ PtrRef(j) \in Nat
        BY DEF One, PtrRef
      <4> QED
        BY <1>5, <2>2, <3>1, <3>2, <4>1 DEF Moves
    <3>4. \A j \in Idev : Refs(j)' = IF j = i THEN Refs(j) + z + z + z + n ELSE Refs(j)
      BY <3>3, RefsMove
    <3>5. \A j \in Idev : Refs(j) \in Nat
      BY RefsBound
    <3> QED
      BY <3>2, <3>4, <3>5
  <2>6. PICK R : R = [RefsF EXCEPT ![i] = @ - 1]
    OBVIOUS
  <2>7. Counts(idev', R) /\ \A j \in Idev : Refs(j)' = R[j]
    BY <2>4, <2>5, <2>6
  <2>8. /\ nip_ptr' = nip_ptr /\ rd' \in [Reader -> RdT] /\ ifa' \in [Ifa -> IfaT]
        /\ cfg' \in CfgT /\ dst' \in [Dst -> DstT] /\ Entries(dst', ifa', rd')
        /\ \A s \in Soft : ReaderOk(rd', ifa', idev, s)
        /\ \A s \in Soft : rd'[s].pc \in {"rcu", "hash"} => s \in InRcu
    BY <1>1, <1>2, <1>3, ReadersInRcu
  <2> QED
    BY <1>4, <2>4, <2>7, <2>8, RefStep
<1> QED
  BY <1>6, <1>7


\* The references when an entry gets another idev, or none.
LEMMA EntryRefs ==
  ASSUME NEW o \in Dst, \A x \in Dst : x # o => dst'[x].idev = dst[x].idev,
         UNCHANGED <<nip_ptr, ifa, cfg>>, \A j \in Idev : RefSet(j)' = RefSet(j)
  PROVE  \A j \in Idev : Refs(j)' = Refs(j) + (IF dst'[o].idev = j THEN 1 ELSE 0)
                                           - (IF dst[o].idev = j THEN 1 ELSE 0)
<1>1. \A j \in Idev : /\ IfaSet(j)' = IfaSet(j) /\ LoRef(j)' = LoRef(j)
                      /\ PtrRef(j)' = PtrRef(j) /\ CfgRef(j)' = CfgRef(j)
  BY DEF IfaSet, LoRef, PtrRef, CfgRef
<1>2. \A j \in Idev : DstSet(j)' \ {o} = DstSet(j) \ {o}
  BY DEF DstSet
<1>3. \A j \in Idev : /\ One(o, DstSet(j)') = IF dst'[o].idev = j THEN 1 ELSE 0
                      /\ One(o, DstSet(j)) = IF dst[o].idev = j THEN 1 ELSE 0
  BY DEF DstSet, One
<1>4. TAKE j \in Idev
<1>5. Refs(j)' = Refs(j) + (PtrRef(j)' - PtrRef(j)) + (LoRef(j)' - LoRef(j))
                        + (CfgRef(j)' - CfgRef(j))
                        + (One(NONE, IfaSet(j)') - One(NONE, IfaSet(j)))
                        + (One(o, DstSet(j)') - One(o, DstSet(j)))
                        + (One(NONE, RefSet(j)') - One(NONE, RefSet(j)))
  BY <1>1, <1>2, RefsChange
<1>6. /\ Refs(j) \in Nat /\ PtrRef(j) \in Nat /\ LoRef(j) \in Nat /\ CfgRef(j) \in Nat
      /\ One(NONE, IfaSet(j)) \in Nat /\ One(NONE, RefSet(j)) \in Nat
  BY RefsBound DEF PtrRef, LoRef, CfgRef, One
<1> QED
  BY <1>1, <1>3, <1>5, <1>6

\* nip_dst_ifdown on the entry c.
LEMMA ExchangeStep ==
  ASSUME Inv, NEW c \in Dst, dst[c].idev # NONE, idev' = nip_dst_ifdown(idev, c),
         dst' \in [Dst -> DstT], Entries(dst', ifa, rd),
         \A x \in Dst : x # c => dst'[x].idev = dst[x].idev,
         dst'[c].idev = IF Exchanged(c) THEN nip_ptr[Lo] ELSE dst[c].idev,
         UNCHANGED <<nip_ptr, ifa, cfg, rd>>
  PROVE  Inv'
<1>1. /\ cfg \in CfgT /\ dst \in [Dst -> DstT] /\ ifa \in [Ifa -> IfaT]
      /\ rd \in [Reader -> RdT] /\ nip_ptr \in [Dev -> Idev \cup {NONE}]
      /\ ListsOk(ifa, cfg, idev) /\ IfdownOk(cfg, idev) /\ Pointers(nip_ptr, idev)
      /\ \A s \in Soft : ReaderOk(rd, ifa, idev, s)
  BY DEF Inv, Types, Idevs
<1>2. /\ idev \in [Idev -> IdevT] /\ RefsF \in [Idev -> Nat] /\ Counts(idev, RefsF)
      /\ Evolves(idev, idev) /\ \A j \in Idev : RefsF[j] = Refs(j)
  BY CountsNow
<1>3. PICK i \in Idev : i = dst[c].idev
  BY <1>1 DEF DstT
<1>4. \A j \in Idev : RefSet(j)' = RefSet(j)
  BY DEF RefSet
<1>5. \A j \in Idev : Refs(j)' = Refs(j) + (IF dst'[c].idev = j THEN 1 ELSE 0)
                                         - (IF i = j THEN 1 ELSE 0)
  BY <1>3, <1>4, EntryRefs
<1>6. \A j \in Idev : Refs(j) \in Nat
  BY RefsBound
<1>7. /\ nip_ptr' = nip_ptr /\ rd' \in [Reader -> RdT] /\ ifa' \in [Ifa -> IfaT]
      /\ cfg' \in CfgT /\ Entries(dst', ifa', rd')
      /\ ListsOk(ifa', cfg', idev) /\ IfdownOk(cfg', idev)
      /\ \A s \in Soft : ReaderOk(rd', ifa', idev, s)
      /\ \A s \in Soft : rd'[s].pc \in {"rcu", "hash"} => s \in InRcu
  BY <1>1, ReadersInRcu
<1>8. CASE ~Exchanged(c)
  <2>1. idev' = idev /\ dst'[c].idev = i
    BY <1>3, <1>8 DEF nip_dst_ifdown
  <2>2. \A j \in Idev : Refs(j)' = RefsF[j]
    BY <1>2, <1>5, <1>6, <2>1
  <2>3. idev' \in [Idev -> IdevT] /\ Counts(idev', RefsF) /\ Evolves(idev, idev')
    BY <1>2, <2>1
  <2> QED
    BY <1>7, <2>2, <2>3, RefStep
<1>9. CASE Exchanged(c)
  <2>1. PICK lo \in Idev : lo = nip_ptr[Lo] /\ idev[lo].dev = Lo
    BY <1>1, <1>9 DEF Exchanged, Pointers
  <2>2. i # lo
    BY <1>3, <1>9, <2>1 DEF Exchanged
  <2>3. PICK H : H = Hold(idev, lo)
    OBVIOUS
  <2>4. PICK Q : Q = [RefsF EXCEPT ![lo] = @ + 1]
    OBVIOUS
  <2>5. /\ H \in [Idev -> IdevT] /\ Counts(H, Q) /\ Evolves(idev, H)
        /\ \A j \in Idev : H[j].mem = idev[j].mem
    <3>1. /\ Hold(idev, lo) \in [Idev -> IdevT]
          /\ Counts(Hold(idev, lo), [RefsF EXCEPT ![lo] = @ + 1])
          /\ Evolves(idev, Hold(idev, lo))
          /\ \A j \in Idev : Hold(idev, lo)[j].mem = idev[j].mem
      BY <1>2, HoldOk
    <3> QED
      BY <2>3, <2>4, <3>1
  <2>6. Q \in [Idev -> Nat] /\ \A j \in Idev : Q[j] = IF j = lo THEN Refs(j) + 1 ELSE Refs(j)
    BY <1>2, <2>4
  <2>7. Q[i] > 0 /\ (Q[i] = 1 /\ H[i].mem = "live" => H[i].dead)
    <3>1. c \in DstSet(i)
      BY <1>3 DEF DstSet
    <3>2. Refs(i) > 0 /\ (Refs(i) = 1 /\ idev[i].mem = "live" => idev[i].dead)
      BY <3>1, LastIsDead
    <3>3. H[i].dead = idev[i].dead
      BY <2>5 DEF Evolves
    <3> QED
      BY <2>2, <2>5, <2>6, <3>2, <3>3
  <2>8. PICK R : R = [Q EXCEPT ![i] = @ - 1]
    OBVIOUS
  <2>9. idev' = Put(H, i)
    BY <1>3, <1>9, <2>1, <2>3 DEF nip_dst_ifdown
  <2>10. idev' \in [Idev -> IdevT] /\ Counts(idev', R) /\ Evolves(H, idev')
    <3>1. /\ Put(H, i) \in [Idev -> IdevT]
          /\ Counts(Put(H, i), [Q EXCEPT ![i] = @ - 1])
          /\ Evolves(H, Put(H, i))
      BY <2>5, <2>6, <2>7, PutOk
    <3> QED
      BY <2>8, <2>9, <3>1
  <2>11. Evolves(idev, idev')
    BY <2>5, <2>10, EvolvesTrans
  <2>12. \A j \in Idev : Refs(j)' = R[j]
    BY <1>5, <1>6, <1>9, <2>1, <2>2, <2>6, <2>8
  <2> QED
    BY <1>7, <2>10, <2>11, <2>12, RefStep
<1> QED
  BY <1>8, <1>9

\* The entry c loses its device, and the idev that is exchanged.
LEMMA DevPutIs ==
  ASSUME NEW D \in [Dst -> DstT], NEW c \in Dst, nip_ptr \in [Dev -> Idev \cup {NONE}],
         D[c].idev # NONE
  PROVE  LET E == dst_dev_put(D, c)
         IN  /\ E \in [Dst -> DstT]
             /\ \A x \in Dst : x # c => E[x] = D[x]
             /\ E[c].kind = D[c].kind /\ E[c].linked = D[c].linked /\ E[c].from = D[c].from
             /\ E[c].hold = D[c].hold /\ E[c].slot = D[c].slot /\ E[c].cb = D[c].cb
             /\ E[c].idev = IF Exchanged(c) THEN nip_ptr[Lo] ELSE D[c].idev
             /\ E[c].idev # NONE
<1>1. PICK i : i = IF Exchanged(c) THEN nip_ptr[Lo] ELSE D[c].idev
  OBVIOUS
<1>2. i \in Idev
  BY <1>1 DEF Exchanged, DstT
<1>3. PICK x : x = [D[c] EXCEPT !.dev = NONE, !.idev = i]
  OBVIOUS
<1>4. D[c] \in DstT
  OBVIOUS
<1>5. /\ x \in DstT /\ x.kind = D[c].kind /\ x.linked = D[c].linked /\ x.from = D[c].from
      /\ x.hold = D[c].hold /\ x.slot = D[c].slot /\ x.cb = D[c].cb /\ x.idev = i
  BY <1>2, <1>3, <1>4 DEF DstT
<1>6. dst_dev_put(D, c) = [D EXCEPT ![c] = x]
  BY <1>1, <1>3, <1>4 DEF dst_dev_put, DstT
<1> QED
  BY <1>1, <1>2, <1>5, <1>6

\* The next part of the callback of a route, with its slot emptied.
Callback(D, o, b, q) == [D EXCEPT ![o].cb = b, ![o].pcpu = q, ![o].slot = NONE]

\* What it leaves alone.
LEMMA CallbackIs ==
  ASSUME NEW D \in [Dst -> DstT], NEW o \in Dst, NEW b \in {"pcpu", "none"}, NEW q \in BOOLEAN
  PROVE  LET E == Callback(D, o, b, q)
         IN  /\ E \in [Dst -> DstT]
             /\ \A x \in Dst : x # o => E[x] = D[x]
             /\ E[o].kind = D[o].kind /\ E[o].linked = D[o].linked /\ E[o].idev = D[o].idev
             /\ E[o].from = D[o].from /\ E[o].hold = D[o].hold
             /\ E[o].slot = NONE /\ E[o].cb = b
<1>1. PICK x : x = [D[o] EXCEPT !.cb = b, !.pcpu = q, !.slot = NONE]
  OBVIOUS
<1>2. D[o] \in DstT
  OBVIOUS
<1>3. /\ x \in DstT /\ x.kind = D[o].kind /\ x.linked = D[o].linked /\ x.idev = D[o].idev
      /\ x.from = D[o].from /\ x.hold = D[o].hold /\ x.slot = NONE /\ x.cb = b
  BY <1>1, <1>2 DEF DstT
<1>4. Callback(D, o, b, q) = [D EXCEPT ![o] = x]
  BY <1>1, <1>2 DEF DstT, Callback
<1> QED
  BY <1>3, <1>4

\* nip_rt_free_pcpu.
LEMMA FreePcpuKeeps ==
  ASSUME Inv, NEW o \in Dst, FreePcpu(o)
  PROVE  Inv'
<1>1. /\ dst \in [Dst -> DstT] /\ ifa \in [Ifa -> IfaT] /\ rd \in [Reader -> RdT]
      /\ nip_ptr \in [Dev -> Idev \cup {NONE}] /\ Entries(dst, ifa, rd)
  BY DEF Inv, Types
<1>2. dst[o].cb = "node" /\ UNCHANGED <<nip_ptr, ifa, cfg, rd>>
  BY DEF FreePcpu
<1>3. PICK D : D = [dst EXCEPT ![o].cb = "pcpu", ![o].slot = NONE]
  OBVIOUS
<1>4. /\ D \in [Dst -> DstT]
      /\ \A x \in Dst : x # o => D[x] = dst[x]
      /\ D[o].kind = dst[o].kind /\ D[o].linked = dst[o].linked /\ D[o].idev = dst[o].idev
      /\ D[o].from = dst[o].from /\ D[o].hold = dst[o].hold
      /\ D[o].slot = NONE /\ D[o].cb = "pcpu"
  <2>1. D = Callback(dst, o, "pcpu", dst[o].pcpu)
    BY <1>1, <1>3 DEF DstT, Callback
  <2>2. dst[o].pcpu \in BOOLEAN
    BY <1>1 DEF DstT
  <2> QED
    BY <1>1, <2>1, <2>2, CallbackIs
<1>5. Entries(D, ifa, rd)
  BY <1>1, <1>2, <1>4, CallbackKeeps
<1>6. dst[o].slot \in Dst \cup {NONE} /\ EntryOk(dst, o)
  BY <1>1 DEF DstT, Entries
<1>7. \A x \in Dst : D[x].idev = dst[x].idev
  BY <1>4
<1>8. CASE dst[o].slot = NONE
  <2>1. dst' = D /\ idev' = idev
    BY <1>3, <1>8 DEF FreePcpu
  <2>2. /\ UNCHANGED <<nip_ptr, idev, rd>> /\ ifa' \in [Ifa -> IfaT] /\ cfg' \in CfgT
        /\ dst' \in [Dst -> DstT] /\ Entries(dst', ifa', rd)
        /\ \A x \in Dst : dst'[x].idev = dst[x].idev
        /\ \A f \in Ifa : /\ ifa'[f].mem = "live" <=> ifa[f].mem = "live"
                          /\ ifa[f].mem = "live" => ifa'[f].idev = ifa[f].idev
        /\ IfdownOk(cfg', idev) /\ ListsOk(ifa', cfg', idev)
        /\ \A s \in Soft : ReaderOk(rd, ifa', idev, s)
    BY <1>1, <1>2, <1>4, <1>5, <1>7, <2>1 DEF Inv, Types, Idevs
  <2>3. \A i \in Idev : CfgRef(i)' = CfgRef(i)
    BY <1>2 DEF CfgRef
  <2> QED
    BY <2>2, <2>3, ListStep
<1>9. CASE dst[o].slot # NONE
  <2>1. PICK c \in Dst : c = dst[o].slot
    BY <1>6, <1>9
  <2>2. /\ dst[c].kind = "copy" /\ dst[c].from = o /\ "slot" \in dst[c].hold
        /\ dst[o].kind = "route"
    BY <1>2, <1>6, <1>9, <2>1 DEF EntryOk
  <2>3. c # o /\ dst[c].idev # NONE
    BY <1>1, <2>2 DEF Entries, EntryOk
  <2>4. PICK E : E = dst_dev_put(D, c)
    OBVIOUS
  <2>5. dst' = Release(E, c, "slot") /\ idev' = nip_dst_ifdown(idev, c)
    BY <1>3, <1>9, <2>1, <2>4 DEF FreePcpu
  <2>6. /\ E \in [Dst -> DstT]
        /\ \A x \in Dst : x # c => E[x] = D[x]
        /\ E[c].kind = D[c].kind /\ E[c].linked = D[c].linked /\ E[c].from = D[c].from
        /\ E[c].hold = D[c].hold /\ E[c].slot = D[c].slot /\ E[c].cb = D[c].cb
        /\ E[c].idev = IF Exchanged(c) THEN nip_ptr[Lo] ELSE D[c].idev
        /\ E[c].idev # NONE
    BY <1>1, <1>4, <1>7, <2>3, <2>4, DevPutIs
  <2>7. Entries(E, ifa, rd)
    <3>1. D[c].idev # NONE
      BY <1>7, <2>3
    <3> QED
      BY <1>1, <1>4, <1>5, <2>6, <3>1, ExchangeKeeps
  <2>8. Unneeded(E, ifa, rd, c, "slot")
    <3>1. E[c].from = o
      BY <1>4, <2>2, <2>3, <2>6
    <3>2. E[o].slot = NONE
      BY <1>4, <2>3, <2>6
    <3>3. ASSUME NEW x \in Dst, E[x].slot = c
          PROVE  FALSE
      <4>1. EntryOk(E, x)
        BY <2>7 DEF Entries
      <4>2. E[c].from = x
        BY <3>3, <4>1 DEF EntryOk
      <4> QED
        BY <3>1, <3>2, <3>3, <4>2
    <3> QED
      BY <3>3 DEF Unneeded
  <2>9. E[c].kind # "free"
    BY <1>4, <2>2, <2>3, <2>6
  <2>10. Entries(Release(E, c, "slot"), ifa, rd)
    BY <1>1, <2>6, <2>7, <2>8, <2>9, ReleaseKeeps
  <2>11. /\ Release(E, c, "slot") \in [Dst -> DstT]
         /\ \A x \in Dst : Release(E, c, "slot")[x].idev = E[x].idev
    BY <2>6, ReleaseIs DEF Alike
  <2>12. /\ dst' \in [Dst -> DstT] /\ Entries(dst', ifa, rd)
         /\ \A x \in Dst : x # c => dst'[x].idev = dst[x].idev
         /\ dst'[c].idev = IF Exchanged(c) THEN nip_ptr[Lo] ELSE dst[c].idev
    BY <1>7, <2>5, <2>6, <2>10, <2>11
  <2> QED
    BY <1>2, <2>3, <2>5, <2>12, ExchangeStep
<1> QED
  BY <1>8, <1>9

\* The end of nip_rt_release.
LEMMA RtReleaseKeeps ==
  ASSUME Inv, NEW o \in Dst, nip_rt_release(o)
  PROVE  Inv'
<1>1. /\ dst \in [Dst -> DstT] /\ ifa \in [Ifa -> IfaT] /\ rd \in [Reader -> RdT]
      /\ nip_ptr \in [Dev -> Idev \cup {NONE}] /\ Entries(dst, ifa, rd)
  BY DEF Inv, Types
<1>2. dst[o].cb = "pcpu" /\ UNCHANGED <<nip_ptr, ifa, cfg, rd>>
  BY DEF nip_rt_release
<1>3. PICK D : D = [dst EXCEPT ![o].cb = "none", ![o].pcpu = FALSE, ![o].slot = NONE]
  OBVIOUS
<1>4. /\ D \in [Dst -> DstT]
      /\ \A x \in Dst : x # o => D[x] = dst[x]
      /\ D[o].kind = dst[o].kind /\ D[o].linked = dst[o].linked /\ D[o].idev = dst[o].idev
      /\ D[o].from = dst[o].from /\ D[o].hold = dst[o].hold
      /\ D[o].slot = NONE /\ D[o].cb = "none"
  <2>1. PICK b \in {"pcpu", "none"}, q \in BOOLEAN : b = "none" /\ q = FALSE
    OBVIOUS
  <2>2. D = Callback(dst, o, b, q)
    BY <1>3, <2>1 DEF Callback
  <2>3. /\ D \in [Dst -> DstT]
        /\ \A x \in Dst : x # o => D[x] = dst[x]
        /\ D[o].kind = dst[o].kind /\ D[o].linked = dst[o].linked /\ D[o].idev = dst[o].idev
        /\ D[o].from = dst[o].from /\ D[o].hold = dst[o].hold
        /\ D[o].slot = NONE /\ D[o].cb = b
    BY <1>1, <2>2, CallbackIs
  <2> QED
    BY <2>1, <2>3
<1>5. Entries(D, ifa, rd)
  BY <1>1, <1>2, <1>4, CallbackKeeps
<1>6. dst[o].kind = "route" /\ ~dst[o].linked /\ dst[o].idev # NONE
  BY <1>1, <1>2 DEF Entries, EntryOk
<1>7. PICK E : E = dst_dev_put(D, o)
  OBVIOUS
<1>8. dst' = Release(E, o, "node") /\ idev' = nip_dst_ifdown(idev, o)
  BY <1>3, <1>7 DEF nip_rt_release
<1>9. /\ E \in [Dst -> DstT]
      /\ \A x \in Dst : x # o => E[x] = D[x]
      /\ E[o].kind = D[o].kind /\ E[o].linked = D[o].linked /\ E[o].from = D[o].from
      /\ E[o].hold = D[o].hold /\ E[o].slot = D[o].slot /\ E[o].cb = D[o].cb
      /\ E[o].idev = IF Exchanged(o) THEN nip_ptr[Lo] ELSE D[o].idev
      /\ E[o].idev # NONE
  BY <1>1, <1>4, <1>6, <1>7, DevPutIs
<1>10. Entries(E, ifa, rd)
  <2>1. D[o].idev # NONE
    BY <1>4, <1>6
  <2> QED
    BY <1>1, <1>4, <1>5, <1>9, <2>1, ExchangeKeeps
<1>11. Unneeded(E, ifa, rd, o, "node") /\ E[o].kind # "free"
  BY <1>4, <1>6, <1>9 DEF Unneeded
<1>12. Entries(Release(E, o, "node"), ifa, rd)
  BY <1>1, <1>9, <1>10, <1>11, ReleaseKeeps
<1>13. /\ Release(E, o, "node") \in [Dst -> DstT]
       /\ \A x \in Dst : Release(E, o, "node")[x].idev = E[x].idev
  BY <1>9, ReleaseIs DEF Alike
<1>14. /\ dst' \in [Dst -> DstT] /\ Entries(dst', ifa, rd)
       /\ \A x \in Dst : x # o => dst'[x].idev = dst[x].idev
       /\ dst'[o].idev = IF Exchanged(o) THEN nip_ptr[Lo] ELSE dst[o].idev
  BY <1>4, <1>8, <1>9, <1>12, <1>13
<1> QED
  BY <1>2, <1>6, <1>8, <1>14, ExchangeStep


\* An entry is destroyed: it puts its idev, if it has one.
LEMMA PutEntry ==
  ASSUME Inv, NEW o \in Dst, idev' = Put(idev, dst[o].idev), dst' \in [Dst -> DstT],
         dst'[o].idev = NONE, \A x \in Dst : x # o => dst'[x].idev = dst[x].idev,
         UNCHANGED <<nip_ptr, ifa, cfg>>, rd' \in [Reader -> RdT], Entries(dst', ifa, rd'),
         \A j \in Idev : RefSet(j)' = RefSet(j),
         \A s \in Soft : ReaderOk(rd', ifa, idev, s),
         \A s \in Soft : rd'[s].pc \in {"rcu", "hash"} => s \in InRcu
  PROVE  Inv'
<1>1. /\ cfg \in CfgT /\ dst \in [Dst -> DstT] /\ ifa \in [Ifa -> IfaT]
      /\ ListsOk(ifa, cfg, idev) /\ IfdownOk(cfg, idev)
  BY DEF Inv, Types, Idevs
<1>2. /\ idev \in [Idev -> IdevT] /\ Counts(idev, RefsF) /\ Evolves(idev, idev)
      /\ \A j \in Idev : RefsF[j] = Refs(j)
  BY CountsNow
<1>3. \A j \in Idev : Refs(j)' = Refs(j) + (IF dst'[o].idev = j THEN 1 ELSE 0)
                                         - (IF dst[o].idev = j THEN 1 ELSE 0)
  BY EntryRefs
<1>4. \A j \in Idev : Refs(j) \in Nat
  BY RefsBound
<1>5. \A j \in Idev : Refs(j)' = IF dst[o].idev = j THEN Refs(j) - 1 ELSE Refs(j)
  BY <1>3, <1>4
<1>6. dst[o].idev \in Idev \cup {NONE}
  BY <1>1 DEF DstT
<1>7. /\ nip_ptr' = nip_ptr /\ ifa' \in [Ifa -> IfaT] /\ cfg' \in CfgT /\ Entries(dst', ifa', rd')
      /\ ListsOk(ifa', cfg', idev) /\ IfdownOk(cfg', idev)
      /\ \A s \in Soft : ReaderOk(rd', ifa', idev, s)
  BY <1>1
<1>8. CASE dst[o].idev = NONE
  <2>1. idev' = idev
    BY <1>8 DEF Put
  <2>2. idev' \in [Idev -> IdevT] /\ Counts(idev', RefsF) /\ Evolves(idev, idev')
    BY <1>2, <2>1
  <2>3. \A j \in Idev : Refs(j)' = RefsF[j]
    BY <1>2, <1>5, <1>8
  <2> QED
    BY <1>7, <2>2, <2>3, RefStep
<1>9. CASE dst[o].idev # NONE
  <2>1. PICK i \in Idev : i = dst[o].idev
    BY <1>6, <1>9
  <2>2. o \in DstSet(i) /\ idev' = Put(idev, i)
    BY <2>1 DEF DstSet
  <2>3. /\ idev' \in [Idev -> IdevT] /\ Evolves(idev, idev')
        /\ Counts(idev', [RefsF EXCEPT ![i] = @ - 1])
        /\ \A j \in Idev : [RefsF EXCEPT ![i] = @ - 1][j] = IF j = i THEN Refs(j) - 1 ELSE Refs(j)
    BY <2>2, PutRef
  <2>4. PICK R : R = [RefsF EXCEPT ![i] = @ - 1]
    OBVIOUS
  <2>5. Counts(idev', R) /\ \A j \in Idev : Refs(j)' = R[j]
    BY <1>5, <2>1, <2>3, <2>4
  <2> QED
    BY <1>7, <2>3, <2>5, RefStep
<1> QED
  BY <1>8, <1>9

\* dst_destroy_rcu.
LEMMA DstDestroyKeeps ==
  ASSUME Inv, NEW o \in Dst, nip_dst_destroy(o)
  PROVE  Inv'
<1>1. /\ dst \in [Dst -> DstT] /\ ifa \in [Ifa -> IfaT] /\ rd \in [Reader -> RdT]
      /\ Entries(dst, ifa, rd) /\ \A s \in Soft : ReaderOk(rd, ifa, idev, s)
  BY DEF Inv, Types, Idevs
<1>2. /\ dst[o].cb = "destroy" /\ dst' = Destroyed(dst, o) /\ idev' = Put(idev, dst[o].idev)
      /\ UNCHANGED <<nip_ptr, ifa, cfg, rd>>
  BY DEF nip_dst_destroy
<1>3. dst[o].hold = {}
  BY <1>1, <1>2 DEF Entries, EntryOk
<1>4. Unreached(dst, ifa, rd, o)
  BY <1>1, <1>3, FreeUnreached
<1>5. /\ dst' \in [Dst -> DstT] /\ Entries(dst', ifa, rd) /\ dst'[o].idev = NONE
      /\ \A x \in Dst : x # o => dst'[x].idev = dst[x].idev
  BY <1>1, <1>2, <1>4, DestroyedKeeps DEF Alike
<1>6. /\ rd' \in [Reader -> RdT] /\ Entries(dst', ifa, rd')
      /\ \A j \in Idev : RefSet(j)' = RefSet(j)
      /\ \A s \in Soft : ReaderOk(rd', ifa, idev, s)
      /\ \A s \in Soft : rd'[s].pc \in {"rcu", "hash"} => s \in InRcu
  BY <1>1, <1>2, <1>5, ReadersInRcu DEF RefSet
<1> QED
  BY <1>2, <1>5, <1>6, PutEntry

\* o with one more holder.
Held(D, o, h) == [D EXCEPT ![o].hold = @ \cup {h}]

\* dst_hold of an entry that has a holder and is no lookup's own copy.
LEMMA HeldKeeps ==
  ASSUME NEW D \in [Dst -> DstT], NEW F \in [Ifa -> IfaT], NEW L, Entries(D, F, L),
         NEW o \in Dst, D[o].kind # "free", D[o].hold # {},
         \A q \in Proc : L[q].pc \in {"hold", "install"} => L[q].c # o, NEW h \in Holder
  PROVE  /\ Held(D, o, h) \in [Dst -> DstT] /\ Entries(Held(D, o, h), F, L)
         /\ \A x \in Dst : x # o => Held(D, o, h)[x] = D[x]
         /\ Alike(Held(D, o, h)[o], D[o]) /\ Held(D, o, h)[o].cb = D[o].cb
         /\ Held(D, o, h)[o].hold = D[o].hold \cup {h}
<1>1. PICK E : E = Held(D, o, h)
  OBVIOUS
<1>2. /\ E \in [Dst -> DstT]
      /\ \A x \in Dst : x # o => E[x] = D[x]
      /\ Alike(E[o], D[o]) /\ E[o].cb = D[o].cb /\ E[o].hold = D[o].hold \cup {h}
  <2>1. E = [D EXCEPT ![o].hold = @ \cup {h}]
    BY <1>1 DEF Held
  <2> QED
    BY <2>1, HoldEntry
<1>3. Entries(E, F, L)
  BY <1>2, HolderKeeps
<1> QED
  BY <1>1, <1>2, <1>3

\* The lookup's own copy is destroyed, and it holds what it found in the slot, or the route.
LEMMA CopyDestroyed ==
  ASSUME Inv, NEW r \in Proc, rd[r].pc = "install",
         NEW o \in Dst, o = rd[r].p, NEW c \in Dst, c = rd[r].c,
         NEW got \in Dst, got = o \/ got = dst[o].slot,
         NEW v \in RdT, v.pc = "held", v.p = got
  PROVE  LET E == Destroyed(Held(dst, got, r), c)
         IN  /\ E \in [Dst -> DstT] /\ Entries(E, ifa, [rd EXCEPT ![r] = v])
             /\ E[c].idev = NONE /\ E[o].kind = "route"
             /\ \A x \in Dst : x # c => E[x].idev = dst[x].idev
<1>1. /\ dst \in [Dst -> DstT] /\ ifa \in [Ifa -> IfaT] /\ rd \in [Reader -> RdT]
      /\ Entries(dst, ifa, rd)
  BY DEF Inv, Types
<1>2. r \in Reader /\ r \in Holder /\ r \notin Dst /\ r \notin {"ifa", "node", "slot"}
  BY ProcIs
<1>3. /\ dst[o].kind = "route" /\ r \in dst[o].hold
      /\ dst[c].kind = "copy" /\ dst[c].hold = {r} /\ dst[c].from = o /\ c # o
  BY <1>1 DEF Entries, UsesEntry, OwnsCopy
<1>4. /\ got # c /\ dst[got].kind # "free" /\ dst[got].hold # {}
      /\ dst[got].kind = "route" \/ dst[got].from # NONE
      /\ \A q \in Proc : rd[q].pc \in {"hold", "install"} => rd[q].c # got
  <2>1. CASE got = o
    BY <1>1, <1>3, <2>1 DEF Entries, OwnsCopy
  <2>2. CASE got = dst[o].slot
    <3>1. dst[got].kind = "copy" /\ dst[got].from = o /\ "slot" \in dst[got].hold
      BY <1>1, <2>2 DEF Entries, EntryOk
    <3>2. \A q \in Proc : rd[q].pc \in {"hold", "install"} => rd[q].c # got
      BY <1>1, <3>1 DEF Entries, OwnsCopy
    <3> QED
      BY <1>2, <1>3, <3>1, <3>2
  <2> QED
    BY <2>1, <2>2
<1>5. PICK D : D = Held(dst, got, r)
  OBVIOUS
<1>6. /\ D \in [Dst -> DstT]
      /\ \A x \in Dst : x # got => D[x] = dst[x]
      /\ Alike(D[got], dst[got]) /\ D[got].cb = dst[got].cb
      /\ D[got].hold = dst[got].hold \cup {r}
  BY <1>1, <1>2, <1>4, <1>5, HeldKeeps
<1>7. Entries(D, ifa, rd)
  BY <1>1, <1>2, <1>4, <1>5, HeldKeeps
<1>8. PICK L : L = [rd EXCEPT ![r] = v]
  OBVIOUS
<1>9. L \in [Reader -> RdT] /\ \A q \in Reader : L[q] = IF q = r THEN v ELSE rd[q]
  BY <1>1, <1>2, <1>8
<1>10. UsesEntry(D, L, r) /\ OwnsCopy(D, L, r)
  <2>1. L[r] = v
    BY <1>2, <1>9
  <2> QED
    BY <1>4, <1>6, <2>1 DEF UsesEntry, OwnsCopy, Alike
<1>11. Entries(D, ifa, L)
  BY <1>1, <1>2, <1>7, <1>8, <1>10, LookupKeeps
<1>12. Unreached(D, ifa, L, c)
  <2>1. D[c] = dst[c]
    BY <1>4, <1>6
  <2>2. \A x \in Dst : D[x].slot # c /\ D[x].from # c
    BY <1>2, <1>3, <1>11, <2>1 DEF Entries, EntryOk
  <2>3. \A f \in Ifa : ifa[f].mem = "live" => ifa[f].rt # c
    BY <1>3, <1>11, <2>1 DEF Entries, AddressOk
  <2>4. ASSUME NEW q \in Proc
        PROVE  /\ L[q].pc \in Working => L[q].p # c
               /\ L[q].pc \in {"hold", "install"} => L[q].c # c
    <3>1. q \in Reader /\ UsesEntry(D, L, q) /\ OwnsCopy(D, L, q)
      BY <1>11, ProcIs DEF Entries
    <3>2. CASE q = r
      BY <1>4, <1>9, <3>1, <3>2
    <3>3. CASE q # r
      BY <1>3, <2>1, <3>1, <3>3 DEF UsesEntry, OwnsCopy, Working
    <3> QED
      BY <3>2, <3>3
  <2> QED
    BY <2>2, <2>3, <2>4 DEF Unreached
<1>13. /\ Destroyed(D, c) \in [Dst -> DstT] /\ Entries(Destroyed(D, c), ifa, L)
       /\ Destroyed(D, c)[c].idev = NONE
       /\ \A x \in Dst : x # c => Alike(Destroyed(D, c)[x], D[x])
  BY <1>1, <1>6, <1>9, <1>11, <1>12, DestroyedKeeps
<1>14. \A x \in Dst : Alike(D[x], dst[x])
  BY <1>6 DEF Alike
<1>15. /\ Destroyed(D, c)[o].kind = "route"
       /\ \A x \in Dst : x # c => Destroyed(D, c)[x].idev = dst[x].idev
  BY <1>3, <1>13, <1>14 DEF Alike
<1> QED
  BY <1>5, <1>8, <1>13, <1>15

\* The lookup that finds the slot full, or the per-CPU memory gone.
LEMMA InstallGivesUp ==
  ASSUME Inv, NEW r \in Proc, Install(r), ~(dst[rd[r].p].pcpu /\ dst[rd[r].p].slot = NONE)
  PROVE  Inv'
<1>1. /\ dst \in [Dst -> DstT] /\ ifa \in [Ifa -> IfaT] /\ rd \in [Reader -> RdT]
      /\ Entries(dst, ifa, rd)
  BY DEF Inv, Types
<1>2. rd[r].pc = "install" /\ UNCHANGED <<nip_ptr, ifa, cfg>>
  BY DEF Install
<1>3. PICK o \in Dst, c \in Dst : o = rd[r].p /\ c = rd[r].c
  BY <1>1, <1>2 DEF Entries, UsesEntry, OwnsCopy
<1>4. c # o
  BY <1>1, <1>2, <1>3 DEF Entries, UsesEntry, OwnsCopy
<1>5. PICK got \in Dst : /\ got = IF dst[o].pcpu THEN dst[o].slot ELSE o
                         /\ got = o \/ got = dst[o].slot
  <2>1. dst[o].slot \in Dst \cup {NONE}
    BY <1>1 DEF DstT
  <2> QED
    BY <1>3, <2>1
<1>6. PICK v : v = [NoRd EXCEPT !.pc = "held", !.p = got]
  OBVIOUS
<1>7. v \in RdT /\ v.pc = "held" /\ v.p = got
  BY <1>6 DEF NoRd, RdT
<1>8. PICK E : E = Destroyed(Held(dst, got, r), c)
  OBVIOUS
<1>9. /\ dst' = IF got = o THEN E ELSE Release(E, o, r)
      /\ rd' = [rd EXCEPT ![r] = v] /\ idev' = Put(idev, dst[c].idev)
  BY <1>3, <1>5, <1>6, <1>8 DEF Install, Goto, Held
<1>10. PICK L : L = [rd EXCEPT ![r] = v]
  OBVIOUS
<1>11. /\ E \in [Dst -> DstT] /\ Entries(E, ifa, L)
       /\ E[c].idev = NONE /\ E[o].kind = "route"
       /\ \A x \in Dst : x # c => E[x].idev = dst[x].idev
  <2>1. LET G == Destroyed(Held(dst, got, r), c)
        IN  /\ G \in [Dst -> DstT] /\ Entries(G, ifa, [rd EXCEPT ![r] = v])
            /\ G[c].idev = NONE /\ G[o].kind = "route"
            /\ \A x \in Dst : x # c => G[x].idev = dst[x].idev
    BY <1>2, <1>3, <1>5, <1>7, CopyDestroyed
  <2> QED
    BY <1>8, <1>10, <2>1
<1>12. r \in Reader /\ r \notin Dst /\ r \notin {"ifa", "node", "slot"}
  BY ProcIs
<1>13. L \in [Reader -> RdT] /\ L[r] = v
  BY <1>1, <1>7, <1>10, <1>12
<1>14. /\ dst' \in [Dst -> DstT] /\ Entries(dst', ifa, L)
       /\ dst'[c].idev = NONE
       /\ \A x \in Dst : x # c => dst'[x].idev = dst[x].idev
  <2>1. CASE got = o
    BY <1>9, <1>11, <2>1
  <2>2. CASE got # o
    <3>1. Unneeded(E, ifa, L, o, r)
      BY <1>7, <1>12, <1>13, <2>2 DEF Unneeded
    <3>2. Entries(Release(E, o, r), ifa, L)
      BY <1>1, <1>11, <1>13, <3>1, ReleaseKeeps
    <3>3. /\ Release(E, o, r) \in [Dst -> DstT]
          /\ \A x \in Dst : Release(E, o, r)[x].idev = E[x].idev
      BY <1>11, ReleaseIs DEF Alike
    <3>4. dst' = Release(E, o, r)
      BY <1>9, <2>2
    <3> QED
      BY <1>11, <3>2, <3>3, <3>4
  <2> QED
    BY <2>1, <2>2
<1>15. /\ \A s \in Soft : ReaderOk(rd', ifa, idev, s)
       /\ \A s \in Soft : rd'[s].pc \in {"rcu", "hash"} => s # r /\ s \in InRcu
       /\ \A i \in Idev : RefSet(i)' = RefSet(i)
  <2>1. v.pc \notin {"rcu", "hash", "ref"} /\ rd[r].pc # "ref"
    BY <1>2, <1>7
  <2> QED
    BY <1>9, <1>12, <2>1, ReadersAfter
<1>16. rd' \in [Reader -> RdT] /\ Entries(dst', ifa, rd')
  BY <1>9, <1>10, <1>13, <1>14
<1> QED
  BY <1>2, <1>9, <1>14, <1>15, <1>16, PutEntry


\* From D to E, the copy c gets an idev and its route.
Links(D, E, o, c) ==
  /\ \A x \in Dst : x # c => E[x] = D[x]
  /\ E[c].kind = D[c].kind /\ E[c].linked = D[c].linked /\ E[c].idev # NONE
  /\ E[c].from = o /\ E[c].hold = D[c].hold /\ E[c].cb = D[c].cb /\ E[c].slot = D[c].slot

\* Then the lookup may install it.
LEMMA CopyLinked ==
  ASSUME NEW D \in [Dst -> DstT], NEW F \in [Ifa -> IfaT], NEW L \in [Reader -> RdT],
         Entries(D, F, L), NEW r \in Proc, L[r].pc = "hold",
         NEW o \in Dst, o = L[r].p, NEW c \in Dst, c = L[r].c, c \in D[o].hold,
         NEW E, Links(D, E, o, c), NEW v, v.pc = "install", v.p = o, v.c = c,
         NEW M, M = [L EXCEPT ![r] = v]
  PROVE  Entries(E, F, M)
<1>1. /\ D[c].kind = "copy" /\ D[c].hold = {r} /\ D[c].cb = "none" /\ D[c].from = NONE
      /\ D[o].kind = "route" /\ r \in D[o].hold /\ o # c
  BY DEF Entries, UsesEntry, OwnsCopy
<1>2. r \in Reader /\ r \notin Dst /\ r \notin {"ifa", "node", "slot"}
  BY ProcIs
<1>3. \A x \in Dst : D[x].slot \in Dst \cup {NONE} /\ D[x].from \in Dst \cup {NONE}
  BY DEF DstT
<1>4. \A x \in Dst : /\ E[x].kind = D[x].kind /\ E[x].linked = D[x].linked
                     /\ E[x].slot = D[x].slot /\ E[x].cb = D[x].cb /\ E[x].hold = D[x].hold
                     /\ x # c => E[x].idev = D[x].idev /\ E[x].from = D[x].from
  BY DEF Links
<1>5. \A x \in Dst : D[x].slot # c /\ D[x].from # c
  BY <1>1, <1>2 DEF Entries, EntryOk
<1>6. E[c].idev # NONE /\ E[c].from = o
  BY DEF Links
<1>7. ASSUME NEW x \in Dst
      PROVE  EntryOk(E, x)
  <2>1. EntryOk(D, x)
    BY DEF Entries
  <2>2. CASE x = c
    <3>1. E[x].slot = NONE
      BY <1>1, <1>3, <1>4, <1>5, <2>1, <2>2 DEF Entries, EntryOk
    <3> QED
      BY <1>1, <1>2, <1>4, <1>6, <2>1, <2>2, <3>1 DEF EntryOk
  <2>3. CASE x # c
    <3>1. E[x] = D[x]
      BY <2>3 DEF Links
    <3> QED
      BY <1>3, <1>4, <1>5, <2>1, <3>1 DEF EntryOk
  <2> QED
    BY <2>2, <2>3
<1>8. ASSUME NEW q \in Proc
      PROVE  UsesEntry(E, M, q) /\ OwnsCopy(E, M, q)
  <2>1. CASE q = r
    <3>1. M[q].pc = "install" /\ M[q].p = o /\ M[q].c = c
      BY <1>2, <2>1
    <3> QED
      BY <1>1, <1>4, <1>6, <2>1, <3>1 DEF UsesEntry, OwnsCopy
  <2>2. CASE q # r
    <3>1. M[q] = L[q] /\ UsesEntry(D, L, q) /\ OwnsCopy(D, L, q)
      BY <2>2, ProcIs DEF Entries
    <3>2. UsesEntry(E, M, q)
      BY <1>1, <1>4, <2>2, <3>1 DEF UsesEntry
    <3>3. OwnsCopy(E, M, q)
      BY <1>1, <1>4, <2>2, <3>1 DEF OwnsCopy
    <3> QED
      BY <3>2, <3>3
  <2> QED
    BY <2>1, <2>2
<1>9. \A f \in Ifa : AddressOk(E, F, f)
  <2>1. TAKE f \in Ifa
  <2>2. AddressOk(D, F, f) /\ F[f].rt \in Dst \cup {NONE}
    BY DEF Entries, IfaT
  <2> QED
    BY <1>4, <2>2 DEF AddressOk
<1> QED
  BY <1>7, <1>8, <1>9 DEF Entries

\* The rest of nip_rt_copy_init.
LEMMA CopyHoldKeeps ==
  ASSUME Inv, NEW r \in Proc, CopyHold(r)
  PROVE  Inv'
<1>1. /\ dst \in [Dst -> DstT] /\ ifa \in [Ifa -> IfaT] /\ rd \in [Reader -> RdT]
      /\ cfg \in CfgT /\ Entries(dst, ifa, rd)
      /\ ListsOk(ifa, cfg, idev) /\ IfdownOk(cfg, idev)
  BY DEF Inv, Types, Idevs
<1>2. rd[r].pc = "hold" /\ UNCHANGED <<nip_ptr, ifa, cfg>>
  BY DEF CopyHold
<1>3. UsesEntry(dst, rd, r) /\ OwnsCopy(dst, rd, r)
  BY <1>1 DEF Entries
<1>4. PICK o \in Dst, c \in Dst, i \in Idev :
        /\ o = rd[r].p /\ c = rd[r].c /\ i = rd[r].i
        /\ r \in dst[o].hold /\ dst[o].kind = "route"
        /\ dst[c].kind = "copy" /\ dst[c].idev = NONE
  BY <1>2, <1>3 DEF UsesEntry, OwnsCopy
<1>5. PICK v : v = [rd[r] EXCEPT !.pc = "install"]
  OBVIOUS
<1>6. /\ idev' = Hold(idev, i) /\ rd' = [rd EXCEPT ![r] = v]
      /\ dst' = [dst EXCEPT ![c].idev = i, ![c].from = o, ![o].hold = @ \cup {c}]
  BY <1>4, <1>5 DEF CopyHold, Goto
<1>7. r \in Reader /\ c \in Holder /\ o # c
  BY <1>4, ProcIs DEF Holder
<1>8. v \in RdT /\ v.pc = "install" /\ v.p = o /\ v.c = c
  <2>1. rd[r] \in RdT
    BY <1>1, <1>7
  <2> QED
    BY <1>4, <1>5, <2>1 DEF RdT
<1>9. \A q \in Proc : rd[q].pc \in {"hold", "install"} => rd[q].c # o
  BY <1>1, <1>4 DEF Entries, OwnsCopy
<1>10. dst[o].kind # "free" /\ dst[o].hold # {}
  BY <1>4
<1>11. PICK D : D = Held(dst, o, c)
  OBVIOUS
<1>12. /\ D \in [Dst -> DstT] /\ Entries(D, ifa, rd)
       /\ \A x \in Dst : x # o => D[x] = dst[x]
       /\ Alike(D[o], dst[o]) /\ D[o].hold = dst[o].hold \cup {c}
  BY <1>1, <1>7, <1>9, <1>10, <1>11, HeldKeeps
<1>13. dst' \in [Dst -> DstT] /\ Links(D, dst', o, c) /\ dst'[c].idev = i
  <2>1. PICK x : x = [dst[c] EXCEPT !.idev = i, !.from = o]
    OBVIOUS
  <2>2. dst[c] \in DstT /\ D[c] = dst[c]
    BY <1>1, <1>7, <1>12
  <2>3. /\ x \in DstT /\ x.kind = dst[c].kind /\ x.linked = dst[c].linked /\ x.idev = i
        /\ x.from = o /\ x.hold = dst[c].hold /\ x.cb = dst[c].cb /\ x.slot = dst[c].slot
    BY <2>1, <2>2 DEF DstT
  <2>4. PICK y : y = [dst[o] EXCEPT !.hold = dst[o].hold \cup {c}]
    OBVIOUS
  <2>5. D = [dst EXCEPT ![o] = y]
    BY <1>1, <1>11, <2>4 DEF Held, DstT
  <2>6. dst' = [[dst EXCEPT ![c] = x] EXCEPT ![o] = y]
    BY <1>1, <1>6, <1>7, <2>1, <2>4 DEF DstT
  <2>7. D[o] = y
    BY <1>1, <2>5
  <2>8. dst'[c] = x /\ \A z \in Dst : z # c => dst'[z] = D[z]
    BY <1>1, <1>7, <1>12, <2>6, <2>7
  <2>9. dst' \in [Dst -> DstT]
    <3>1. y \in DstT
      BY <1>12, <2>7
    <3> QED
      BY <1>1, <2>3, <2>6, <3>1
  <2> QED
    BY <2>2, <2>3, <2>8, <2>9 DEF Links
<1>14. rd' \in [Reader -> RdT]
  BY <1>1, <1>6, <1>7, <1>8
<1>15. Entries(dst', ifa, rd')
  <2>1. c \in D[o].hold /\ rd[r].pc = "hold" /\ o = rd[r].p /\ c = rd[r].c
    BY <1>2, <1>4, <1>12
  <2>2. PICK E, M : E = dst' /\ M = [rd EXCEPT ![r] = v]
    OBVIOUS
  <2>3. Links(D, E, o, c)
    BY <1>13, <2>2
  <2>4. Entries(E, ifa, M)
    BY <1>1, <1>8, <1>12, <2>1, <2>2, <2>3, CopyLinked
  <2> QED
    BY <1>6, <2>2, <2>4
<1>16. /\ \A s \in Soft : ReaderOk(rd', ifa, idev, s)
       /\ \A s \in Soft : rd'[s].pc \in {"rcu", "hash"} => s # r /\ s \in InRcu
       /\ \A j \in Idev : RefSet(j)' = RefSet(j)
  <2>1. v.pc \notin {"rcu", "hash", "ref"} /\ rd[r].pc # "ref"
    BY <1>2, <1>8
  <2> QED
    BY <1>6, <1>7, <2>1, ReadersAfter
<1>17. \A x \in Dst : x # c => dst'[x].idev = dst[x].idev
  <2>1. \A x \in Dst : D[x].idev = dst[x].idev
    BY <1>12 DEF Alike
  <2> QED
    BY <1>13, <2>1 DEF Links
<1>18. \A j \in Idev : Refs(j)' = Refs(j) + (IF dst'[c].idev = j THEN 1 ELSE 0)
                                          - (IF dst[c].idev = j THEN 1 ELSE 0)
  BY <1>2, <1>16, <1>17, EntryRefs
<1>19. \A j \in Idev : Refs(j) \in Nat
  BY RefsBound
<1>20. \A j \in Idev : Refs(j)' = IF j = i THEN Refs(j) + 1 ELSE Refs(j)
  BY <1>4, <1>13, <1>18, <1>19
<1>21. /\ Hold(idev, i) \in [Idev -> IdevT] /\ Evolves(idev, Hold(idev, i))
       /\ Counts(Hold(idev, i), [RefsF EXCEPT ![i] = @ + 1])
       /\ \A j \in Idev : [RefsF EXCEPT ![i] = @ + 1][j] = IF j = i THEN Refs(j) + 1 ELSE Refs(j)
  BY HoldRef
<1>22. PICK R : R = [RefsF EXCEPT ![i] = @ + 1]
  OBVIOUS
<1>23. /\ idev' \in [Idev -> IdevT] /\ Evolves(idev, idev') /\ Counts(idev', R)
       /\ \A j \in Idev : Refs(j)' = R[j]
  BY <1>6, <1>20, <1>21, <1>22
<1>24. /\ nip_ptr' = nip_ptr /\ ifa' \in [Ifa -> IfaT] /\ cfg' \in CfgT /\ Entries(dst', ifa', rd')
       /\ ListsOk(ifa', cfg', idev) /\ IfdownOk(cfg', idev)
       /\ \A s \in Soft : ReaderOk(rd', ifa', idev, s)
       /\ \A s \in Soft : rd'[s].pc \in {"rcu", "hash"} => s \in InRcu
  BY <1>1, <1>2, <1>15, <1>16
<1> QED
  BY <1>13, <1>14, <1>23, <1>24, RefStep

\* The references when a reader gets or puts one.
LEMMA ReaderRefs ==
  ASSUME NEW s \in Soft, \A q \in Soft : q # s => rd'[q] = rd[q], UNCHANGED <<nip_ptr, cfg>>,
         \A j \in Idev : IfaSet(j)' = IfaSet(j) /\ DstSet(j)' = DstSet(j)
  PROVE  \A j \in Idev :
           Refs(j)' = Refs(j) + (IF rd'[s].pc = "ref" /\ rd'[s].i = j THEN 1 ELSE 0)
                              - (IF rd[s].pc = "ref" /\ rd[s].i = j THEN 1 ELSE 0)
<1>1. \A j \in Idev : /\ LoRef(j)' = LoRef(j) /\ PtrRef(j)' = PtrRef(j)
                      /\ CfgRef(j)' = CfgRef(j)
  BY DEF LoRef, PtrRef, CfgRef
<1>2. \A j \in Idev : RefSet(j)' \ {s} = RefSet(j) \ {s}
  BY DEF RefSet
<1>3. \A j \in Idev : /\ One(s, RefSet(j)') = IF rd'[s].pc = "ref" /\ rd'[s].i = j THEN 1 ELSE 0
                      /\ One(s, RefSet(j)) = IF rd[s].pc = "ref" /\ rd[s].i = j THEN 1 ELSE 0
  BY DEF RefSet, One
<1>4. TAKE j \in Idev
<1>5. Refs(j)' = Refs(j) + (PtrRef(j)' - PtrRef(j)) + (LoRef(j)' - LoRef(j))
                        + (CfgRef(j)' - CfgRef(j))
                        + (One(NONE, IfaSet(j)') - One(NONE, IfaSet(j)))
                        + (One(NONE, DstSet(j)') - One(NONE, DstSet(j)))
                        + (One(s, RefSet(j)') - One(s, RefSet(j)))
  BY <1>1, <1>2, RefsChange
<1>6. /\ Refs(j) \in Nat /\ PtrRef(j) \in Nat /\ LoRef(j) \in Nat /\ CfgRef(j) \in Nat
      /\ One(NONE, IfaSet(j)) \in Nat /\ One(NONE, DstSet(j)) \in Nat
  BY RefsBound DEF PtrRef, LoRef, CfgRef, One
<1> QED
  BY <1>1, <1>3, <1>5, <1>6

\* nin_dev_put at the end of nndisc_constructor.
LEMMA DevPutKeeps ==
  ASSUME Inv, NEW s \in Soft, nin_dev_put(s)
  PROVE  Inv'
<1>1. /\ dst \in [Dst -> DstT] /\ ifa \in [Ifa -> IfaT] /\ rd \in [Reader -> RdT]
      /\ cfg \in CfgT /\ Entries(dst, ifa, rd)
      /\ ListsOk(ifa, cfg, idev) /\ IfdownOk(cfg, idev)
      /\ \A q \in Soft : ReaderOk(rd, ifa, idev, q)
  BY DEF Inv, Types, Idevs
<1>2. /\ rd[s].pc = "ref" /\ idev' = Put(idev, rd[s].i) /\ rd' = [rd EXCEPT ![s] = NoRd]
      /\ UNCHANGED <<nip_ptr, ifa, dst, cfg>>
  BY DEF nin_dev_put, Goto
<1>3. s \in Reader /\ \A q \in Soft : q \in Reader
  BY DEF Reader
<1>4. PICK i \in Idev : i = rd[s].i
  BY <1>1, <1>2, <1>3 DEF ReaderOk, RdT
<1>5. /\ rd' \in [Reader -> RdT] /\ rd'[s] = NoRd /\ NoRd.pc = "idle"
      /\ \A q \in Soft : q # s => rd'[q] = rd[q]
  BY <1>1, <1>2, <1>3, NoRdOk DEF NoRd
<1>6. s \in RefSet(i) /\ idev' = Put(idev, i)
  BY <1>2, <1>4 DEF RefSet
<1>7. /\ idev' \in [Idev -> IdevT] /\ Evolves(idev, idev')
      /\ Counts(idev', [RefsF EXCEPT ![i] = @ - 1])
      /\ \A j \in Idev : [RefsF EXCEPT ![i] = @ - 1][j] = IF j = i THEN Refs(j) - 1 ELSE Refs(j)
  BY <1>6, PutRef
<1>8. \A j \in Idev : IfaSet(j)' = IfaSet(j) /\ DstSet(j)' = DstSet(j)
  BY <1>2 DEF IfaSet, DstSet
<1>9. \A j \in Idev :
        Refs(j)' = Refs(j) + (IF rd'[s].pc = "ref" /\ rd'[s].i = j THEN 1 ELSE 0)
                           - (IF rd[s].pc = "ref" /\ rd[s].i = j THEN 1 ELSE 0)
  BY <1>2, <1>5, <1>8, ReaderRefs
<1>10. \A j \in Idev : Refs(j) \in Nat
  BY RefsBound
<1>11. PICK R : R = [RefsF EXCEPT ![i] = @ - 1]
  OBVIOUS
<1>12. \A j \in Idev : Refs(j)' = IF j = i THEN Refs(j) - 1 ELSE Refs(j)
  BY <1>2, <1>4, <1>5, <1>9, <1>10
<1>13. Counts(idev', R) /\ \A j \in Idev : Refs(j)' = R[j]
  BY <1>7, <1>11, <1>12
<1>14. Entries(dst, ifa, [rd EXCEPT ![s] = NoRd])
  <2>1. NoRd.pc \notin Working
    BY <1>5 DEF Working
  <2> QED
    BY <1>1, <1>3, <2>1, LookupEnds
<1>15. ASSUME NEW q \in Soft
       PROVE  /\ ReaderOk(rd', ifa', idev, q)
              /\ rd'[q].pc \in {"rcu", "hash"} => q \in InRcu
  <2>1. CASE q = s
    BY <1>5, <2>1 DEF ReaderOk
  <2>2. CASE q # s
    <3>1. rd'[q] = rd[q] /\ ReaderOk(rd, ifa, idev, q)
      BY <1>1, <1>5, <2>2
    <3> QED
      BY <1>2, <3>1, ReadersInRcu DEF ReaderOk
  <2> QED
    BY <2>1, <2>2
<1>16. /\ nip_ptr' = nip_ptr /\ ifa' \in [Ifa -> IfaT] /\ cfg' \in CfgT
       /\ dst' \in [Dst -> DstT] /\ Entries(dst', ifa', rd')
       /\ ListsOk(ifa', cfg', idev) /\ IfdownOk(cfg', idev)
  BY <1>1, <1>2, <1>14
<1> QED
  BY <1>5, <1>7, <1>13, <1>15, <1>16, RefStep

\* nin_dev_get.
LEMMA DevGetKeeps ==
  ASSUME Inv, NEW s \in Soft, nin_dev_get(s)
  PROVE  Inv'
<1>1. /\ dst \in [Dst -> DstT] /\ ifa \in [Ifa -> IfaT] /\ rd \in [Reader -> RdT]
      /\ cfg \in CfgT /\ Entries(dst, ifa, rd)
      /\ nip_ptr \in [Dev -> Idev \cup {NONE}]
      /\ Pointers(nip_ptr, idev) /\ IfdownOk(cfg, idev)
      /\ \A q \in Soft : ReaderOk(rd, ifa, idev, q)
  BY DEF Inv, Types, Idevs
<1>2. /\ rd[s].pc = "rcu" /\ idev' = Quiesce(Hold(idev, rd[s].i), s)
      /\ rd' = [rd EXCEPT ![s] = [rd[s] EXCEPT !.pc = "ref"]]
      /\ ifa' = Quiesce(ifa, s) /\ dst' = Quiesce(dst, s)
      /\ nip_ptr' = nip_ptr /\ cfg' = cfg
  BY DEF nin_dev_get, Goto
<1>3. s \in Reader /\ rd[s] \in RdT
  BY <1>1 DEF Reader
<1>4. PICK i \in Idev : i = rd[s].i
  BY <1>1, <1>2, <1>3 DEF ReaderOk, RdT
<1>5. PICK v : v = [rd[s] EXCEPT !.pc = "ref"]
  OBVIOUS
<1>6. v \in RdT /\ v.pc = "ref" /\ v.i = i /\ i # NONE
  BY <1>3, <1>4, <1>5 DEF RdT
<1>7. rd' = [rd EXCEPT ![s] = v]
  BY <1>2, <1>5
<1>8. Entries(dst, ifa, rd')
  <2>1. v.pc \notin Working
    BY <1>6 DEF Working
  <2>2. Entries(dst, ifa, [rd EXCEPT ![s] = v])
    BY <1>1, <1>3, <2>1, LookupEnds
  <2> QED
    BY <1>7, <2>2
<1>9. /\ ifa' \in [Ifa -> IfaT] /\ dst' \in [Dst -> DstT] /\ rd' \in [Reader -> RdT]
      /\ Entries(dst', ifa', rd')
      /\ \A j \in Idev : IfaSet(j)' = IfaSet(j) /\ DstSet(j)' = DstSet(j)
      /\ ListsOk(ifa', cfg', idev)
      /\ \A q \in Soft : ReaderOk(rd', ifa', idev, q)
      /\ \A q \in Soft : rd'[q].pc \in {"rcu", "hash"} => q # s /\ q \in InRcu
  <2>1. v.pc \in {"idle", "ref"} /\ (v.pc = "ref" => v.i # NONE)
    BY <1>6
  <2>2. PICK D : D = dst
    OBVIOUS
  <2>3. /\ D \in [Dst -> DstT] /\ Entries(D, ifa, rd') /\ \A x \in Dst : D[x].idev = dst[x].idev
        /\ dst' = Quiesce(D, s) /\ ifa' = Quiesce(ifa, s) /\ cfg' = cfg
    BY <1>1, <1>2, <1>8, <2>2
  <2> QED
    BY <1>3, <1>6, <1>7, <2>1, <2>3, Leaves
<1>10. PICK J : J = Hold(idev, i)
  OBVIOUS
<1>11. /\ J \in [Idev -> IdevT] /\ Evolves(idev, J)
       /\ Counts(J, [RefsF EXCEPT ![i] = @ + 1])
       /\ \A j \in Idev : [RefsF EXCEPT ![i] = @ + 1][j] = IF j = i THEN Refs(j) + 1 ELSE Refs(j)
  BY <1>10, HoldRef
<1>12. idev' = Quiesce(J, s)
  BY <1>2, <1>4, <1>10
<1>13. /\ idev' \in [Idev -> IdevT] /\ Becomes(J)
       /\ \A j \in Idev : idev'[j].gp = J[j].gp \ {s}
  BY <1>11, <1>12, QuiesceIdev DEF Becomes
<1>14. Types'
  BY <1>1, <1>2, <1>9, <1>13 DEF Types
<1>15. \A j \in Idev : Refs(j)' = IF j = i THEN Refs(j) + 1 ELSE Refs(j)
  <2>1. rd'[s] = v /\ \A q \in Soft : q # s => rd'[q] = rd[q]
    BY <1>1, <1>3, <1>7 DEF Reader
  <2>2. \A j \in Idev :
        Refs(j)' = Refs(j) + (IF rd'[s].pc = "ref" /\ rd'[s].i = j THEN 1 ELSE 0)
                           - (IF rd[s].pc = "ref" /\ rd[s].i = j THEN 1 ELSE 0)
    BY <1>2, <1>9, <2>1, ReaderRefs
  <2>3. \A j \in Idev : Refs(j) \in Nat
    BY RefsBound
  <2>4. rd[s].pc # "ref" /\ rd'[s].pc = "ref" /\ rd'[s].i = i
    BY <1>2, <1>6, <2>1
  <2>5. \A j \in Idev : Refs(j)' = Refs(j) + (IF i = j THEN 1 ELSE 0) - 0
    BY <2>2, <2>4
  <2> QED
    BY <2>3, <2>5
<1>16. Counts(J, RefsF')
  <2>1. \A j \in Idev : RefsF'[j] = Refs(j)'
    BY DEF RefsF
  <2>2. PICK R : R = [RefsF EXCEPT ![i] = @ + 1]
    OBVIOUS
  <2>3. Counts(J, R) /\ \A j \in Idev : RefsF'[j] = R[j]
    BY <1>11, <1>15, <2>1, <2>2
  <2> QED
    BY <2>3 DEF Counts
<1>17. \A q \in Soft : rd'[q].pc \in {"rcu", "hash"} =>
         /\ q \in InRcu \/ \A j \in Idev : J[j].mem = idev[j].mem
         /\ \A j \in Idev : q \in J[j].gp => q \in idev'[j].gp
  BY <1>9, <1>13
<1>18. Pointers(nip_ptr', idev) /\ IfdownOk(cfg', idev)
  BY <1>1, <1>2
<1>19. Idevs'
  BY <1>9, <1>11, <1>13, <1>14, <1>16, <1>17, <1>18, IdevsStep
<1> QED
  BY <1>9, <1>14, <1>19 DEF Inv

-----------------------------------------------------------------------------
(* New routes and addresses.                                               *)

\* v is a new route of i.
RouteOf(v, i, h) ==
  /\ v \in DstT /\ v.kind = "route" /\ v.idev = i /\ v.hold = h /\ h # {}
  /\ v.linked => "node" \in h
  /\ v.cb = "none" /\ v.from = NONE /\ v.slot = NONE

\* nip_addrconf_dst_alloc and nip_route_info_create.
LEMMA NewRouteIs ==
  ASSUME NEW d \in Dev, NEW i \in Idev, NEW t, t \in {"local", "main"}, NEW a \in Addr,
         NEW h, h \in SUBSET {"ifa", "node"}, h # {}, NEW l, l \in BOOLEAN, l => "node" \in h
  PROVE  RouteOf(NewRoute(d, i, t, a, h, l), i, h)
<1>1. h \in SUBSET Holder
  BY DEF Holder
<1>2. PICK v : v = NewRoute(d, i, t, a, h, l)
  OBVIOUS
<1>3. v = [kind |-> "route", table |-> t, dst |-> a, dev |-> d, idev |-> i,
           linked |-> l, hold |-> h, from |-> NONE, slot |-> NONE, pcpu |-> TRUE,
           cb |-> "none", gp |-> {}]
  BY <1>2 DEF NewRoute, NoDst
<1>4. /\ v \in DstT /\ v.kind = "route" /\ v.idev = i /\ v.hold = h /\ v.linked = l
      /\ v.cb = "none" /\ v.from = NONE /\ v.slot = NONE
  BY <1>1, <1>3 DEF DstT
<1> QED
  BY <1>2, <1>4 DEF RouteOf

\* It goes into free memory.
Placed(E, o, v) == E = [dst EXCEPT ![o] = v]

LEMMA NewRouteOk ==
  ASSUME Inv, NEW o \in FreeDst, NEW i \in Idev, NEW h, NEW v, RouteOf(v, i, h),
         NEW E, Placed(E, o, v)
  PROVE  /\ o \in Dst /\ dst[o].idev = NONE /\ Unreached(dst, ifa, rd, o)
         /\ E \in [Dst -> DstT] /\ Entries(E, ifa, rd)
         /\ E[o].idev = i /\ E[o].kind = "route" /\ E[o].hold = h
         /\ \A x \in Dst : x # o => E[x] = dst[x]
<1>1. /\ dst \in [Dst -> DstT] /\ ifa \in [Ifa -> IfaT] /\ rd \in [Reader -> RdT]
      /\ Entries(dst, ifa, rd)
  BY DEF Inv, Types
<1>2. o \in Dst /\ dst[o].kind = "free" /\ dst[o].idev = NONE
  BY DEF FreeDst, NoDst
<1>3. Unreached(dst, ifa, rd, o)
  BY <1>1, <1>2, FreeUnreached
<1>4. v \in DstT /\ v.kind = "route" /\ v.idev = i /\ v.hold = h
  BY DEF RouteOf
<1>5. /\ E \in [Dst -> DstT] /\ E[o] = v /\ \A x \in Dst : x # o => E[x] = dst[x]
  BY <1>1, <1>2, <1>4 DEF Placed
<1>6. EntryOk(E, o)
  <2>1. i # NONE
    OBVIOUS
  <2> QED
    BY <1>5, <2>1 DEF EntryOk, RouteOf
<1>7. Entries([dst EXCEPT ![o] = v], ifa, rd)
  BY <1>1, <1>2, <1>3, <1>4, <1>6, ReplaceKeeps DEF Placed
<1> QED
  BY <1>2, <1>3, <1>4, <1>5, <1>7 DEF Placed

\* nip_route_add.
LEMMA RouteAddKeeps ==
  ASSUME Inv, NEW d \in Managed, NEW a \in Addr, nip_route_add(d, a)
  PROVE  Inv'
<1>1. /\ dst \in [Dst -> DstT] /\ ifa \in [Ifa -> IfaT] /\ rd \in [Reader -> RdT]
      /\ cfg \in CfgT /\ nip_ptr \in [Dev -> Idev \cup {NONE}] /\ d \in Dev
      /\ ListsOk(ifa, cfg, idev) /\ IfdownOk(cfg, idev)
      /\ \A s \in Soft : ReaderOk(rd, ifa, idev, s)
  BY DEF Inv, Types, Idevs
<1>2. PICK i \in Idev : i = nip_ptr[d]
  BY <1>1 DEF nip_route_add
<1>3. PICK o \in FreeDst : o = kzalloc(FreeDst)
  BY DEF nip_route_add, kzalloc
<1>4. /\ idev' = Hold(idev, i) /\ UNCHANGED <<nip_ptr, ifa, cfg, rd>>
      /\ dst' = [dst EXCEPT ![o] = NewRoute(d, i, "main", a, {"node"}, TRUE)]
  BY <1>2, <1>3 DEF nip_route_add
<1>5. PICK E : E = [dst EXCEPT ![o] = NewRoute(d, i, "main", a, {"node"}, TRUE)]
  OBVIOUS
<1>6. /\ o \in Dst /\ dst[o].idev = NONE /\ E \in [Dst -> DstT] /\ Entries(E, ifa, rd)
      /\ E[o].idev = i /\ \A x \in Dst : x # o => E[x] = dst[x]
  <2>1. PICK v, h, t, l : /\ v = NewRoute(d, i, t, a, h, l)
                          /\ h = {"node"} /\ t = "main" /\ l = TRUE
    OBVIOUS
  <2>2. RouteOf(v, i, h)
    BY <1>1, <2>1, NewRouteIs
  <2>3. Placed(E, o, v)
    BY <1>5, <2>1 DEF Placed
  <2> QED
    BY <2>2, <2>3, NewRouteOk
<1>7. /\ dst' \in [Dst -> DstT] /\ dst'[o].idev = i
      /\ \A x \in Dst : x # o => dst'[x].idev = dst[x].idev
  BY <1>4, <1>5, <1>6
<1>8. \A j \in Idev : RefSet(j)' = RefSet(j)
  BY <1>4 DEF RefSet
<1>9. \A j \in Idev : Refs(j)' = Refs(j) + (IF dst'[o].idev = j THEN 1 ELSE 0)
                                         - (IF dst[o].idev = j THEN 1 ELSE 0)
  BY <1>4, <1>6, <1>7, <1>8, EntryRefs
<1>10. \A j \in Idev : Refs(j)' = IF j = i THEN Refs(j) + 1 ELSE Refs(j)
  <2>1. \A j \in Idev : Refs(j) \in Nat
    BY RefsBound
  <2> QED
    BY <1>6, <1>7, <1>9, <2>1
<1>11. /\ Hold(idev, i) \in [Idev -> IdevT] /\ Evolves(idev, Hold(idev, i))
       /\ Counts(Hold(idev, i), [RefsF EXCEPT ![i] = @ + 1])
       /\ \A j \in Idev : [RefsF EXCEPT ![i] = @ + 1][j] = IF j = i THEN Refs(j) + 1 ELSE Refs(j)
  BY HoldRef
<1>12. PICK R : R = [RefsF EXCEPT ![i] = @ + 1]
  OBVIOUS
<1>13. /\ idev' \in [Idev -> IdevT] /\ Evolves(idev, idev') /\ Counts(idev', R)
       /\ \A j \in Idev : Refs(j)' = R[j]
  BY <1>4, <1>10, <1>11, <1>12
<1>14. /\ nip_ptr' = nip_ptr /\ ifa' \in [Ifa -> IfaT] /\ cfg' \in CfgT /\ rd' \in [Reader -> RdT]
       /\ Entries(dst', ifa', rd') /\ ListsOk(ifa', cfg', idev) /\ IfdownOk(cfg', idev)
       /\ \A s \in Soft : ReaderOk(rd', ifa', idev, s)
       /\ \A s \in Soft : rd'[s].pc \in {"rcu", "hash"} => s \in InRcu
  BY <1>1, <1>4, <1>5, <1>6, ReadersInRcu
<1> QED
  BY <1>7, <1>13, <1>14, RefStep

\* An address in free memory, with a route of its own.
LEMMA NewAddressOk ==
  ASSUME Inv, NEW o \in Dst, Unreached(dst, ifa, rd, o), NEW E, Entries(E, ifa, rd),
         E[o].kind = "route", "ifa" \in E[o].hold, NEW f \in FreeIfa, NEW F,
         F[f].mem = "live", F[f].rt = o, \A g \in Ifa : g # f => F[g] = ifa[g]
  PROVE  Entries(E, F, rd)
<1>1. f \in Ifa /\ ifa[f].mem = "free"
  BY DEF FreeIfa, NoIfa
<1>2. \A g \in Ifa : ifa[g].mem = "live" => ifa[g].rt # o
  BY DEF Unreached
<1>3. o # NONE
  OBVIOUS
<1>4. ASSUME NEW g \in Ifa
      PROVE  AddressOk(E, F, g)
  <2>1. CASE g = f
    BY <1>1, <1>2, <1>3, <2>1 DEF AddressOk
  <2>2. CASE g # f
    <3>1. AddressOk(E, ifa, g) /\ F[g] = ifa[g]
      BY <2>2 DEF Entries
    <3> QED
      BY <1>1, <1>2, <3>1 DEF AddressOk
  <2> QED
    BY <2>1, <2>2
<1> QED
  BY <1>4 DEF Entries

\* What nip_add_addr finds: the idev i, live in J, which counts R references.
Ready(J, R, i) ==
  /\ J \in [Idev -> IdevT] /\ R \in [Idev -> Nat] /\ Counts(J, R) /\ J[i].mem = "live"
  /\ Pointers(nip_ptr', J) /\ IfdownOk(cfg, J) /\ ListsOk(ifa, cfg, J)
  /\ \A s \in Soft : ReaderOk(rd, ifa, J, s)
  /\ \A j \in Idev : LoRef(j)' = LoRef(j) /\ R[j] = Refs(j) + PtrRef(j)' - PtrRef(j)

\* nin_dev_hold for the address and for its route.
LEMMA HoldTwice ==
  ASSUME NEW J \in [Idev -> IdevT], NEW R \in [Idev -> Nat], Counts(J, R), NEW i \in Idev
  PROVE  /\ Hold(Hold(J, i), i) \in [Idev -> IdevT] /\ Evolves(J, Hold(Hold(J, i), i))
         /\ Counts(Hold(Hold(J, i), i), [R EXCEPT ![i] = R[i] + 2])
         /\ \A j \in Idev : Hold(Hold(J, i), i)[j].mem = J[j].mem
<1>1. PICK K, Q : K = Hold(J, i) /\ Q = [R EXCEPT ![i] = @ + 1]
  OBVIOUS
<1>2. /\ K \in [Idev -> IdevT] /\ Counts(K, Q) /\ Evolves(J, K)
      /\ \A j \in Idev : K[j].mem = J[j].mem
  <2>1. /\ Hold(J, i) \in [Idev -> IdevT] /\ Counts(Hold(J, i), [R EXCEPT ![i] = @ + 1])
        /\ Evolves(J, Hold(J, i)) /\ \A j \in Idev : Hold(J, i)[j].mem = J[j].mem
    BY HoldOk
  <2> QED
    BY <1>1, <2>1
<1>3. Q \in [Idev -> Nat] /\ Q[i] = R[i] + 1
  BY <1>1
<1>4. /\ Hold(K, i) \in [Idev -> IdevT] /\ Counts(Hold(K, i), [Q EXCEPT ![i] = @ + 1])
      /\ Evolves(K, Hold(K, i)) /\ \A j \in Idev : Hold(K, i)[j].mem = K[j].mem
  BY <1>2, <1>3, HoldOk
<1>5. [Q EXCEPT ![i] = @ + 1] = [R EXCEPT ![i] = R[i] + 2]
  <2>1. R[i] + 1 + 1 = R[i] + 2
    OBVIOUS
  <2> QED
    BY <1>1, <1>3, <2>1
<1>6. Evolves(J, Hold(K, i))
  BY <1>2, <1>4, EvolvesTrans
<1> QED
  BY <1>1, <1>2, <1>4, <1>5, <1>6

\* nip_add_addr.
LEMMA AddAddrKeeps ==
  ASSUME Inv, NEW d \in Managed, NEW a \in Addr, NEW i \in Idev, NEW J, NEW R, Ready(J, R, i),
         nip_ptr' \in [Dev -> Idev \cup {NONE}], nip_add_addr(J, d, a, i), UNCHANGED <<cfg, rd>>
  PROVE  Inv'
<1>1. /\ dst \in [Dst -> DstT] /\ ifa \in [Ifa -> IfaT] /\ rd \in [Reader -> RdT]
      /\ cfg \in CfgT /\ d \in Dev
  BY DEF Inv, Types
<1>2. /\ J \in [Idev -> IdevT] /\ R \in [Idev -> Nat] /\ Counts(J, R) /\ J[i].mem = "live"
      /\ Pointers(nip_ptr', J) /\ IfdownOk(cfg, J) /\ ListsOk(ifa, cfg, J)
      /\ \A s \in Soft : ReaderOk(rd, ifa, J, s)
      /\ \A j \in Idev : LoRef(j)' = LoRef(j) /\ R[j] = Refs(j) + PtrRef(j)' - PtrRef(j)
  BY DEF Ready
<1>3. PICK f \in FreeIfa, o \in FreeDst : f = kzalloc(FreeIfa) /\ o = kzalloc(FreeDst)
  BY DEF nip_add_addr, kzalloc
<1>4. PICK y : y = [NoIfa EXCEPT !.mem = "live", !.addr = a, !.idev = i, !.rt = o,
                                 !.hashed = TRUE, !.listed = TRUE]
  OBVIOUS
<1>5. /\ idev' = Hold(Hold(J, i), i) /\ ifa' = [ifa EXCEPT ![f] = y]
      /\ \/ dst' = [dst EXCEPT ![o] = NewRoute(d, i, "local", a, {"ifa", "node"}, TRUE)]
         \/ dst' = [dst EXCEPT ![o] = NewRoute(d, i, "local", a, {"ifa"}, FALSE)]
  BY <1>3, <1>4 DEF nip_add_addr
<1>6. PICK v, h, E : /\ RouteOf(v, i, h) /\ "ifa" \in h
                     /\ E = dst' /\ Placed(E, o, v)
  <2>1. ASSUME NEW h, NEW t, NEW l, t = "local", h = {"ifa", "node"}, l = TRUE
        PROVE  RouteOf(NewRoute(d, i, t, a, h, l), i, h)
    BY <1>1, <2>1, NewRouteIs
  <2>2. ASSUME NEW h, NEW t, NEW l, t = "local", h = {"ifa"}, l = FALSE
        PROVE  RouteOf(NewRoute(d, i, t, a, h, l), i, h)
    BY <1>1, <2>2, NewRouteIs
  <2>3. CASE dst' = [dst EXCEPT ![o] = NewRoute(d, i, "local", a, {"ifa", "node"}, TRUE)]
    <3>1. RouteOf(NewRoute(d, i, "local", a, {"ifa", "node"}, TRUE), i, {"ifa", "node"})
      BY <2>1
    <3> QED
      BY <2>3, <3>1 DEF Placed
  <2>4. CASE dst' = [dst EXCEPT ![o] = NewRoute(d, i, "local", a, {"ifa"}, FALSE)]
    <3>1. RouteOf(NewRoute(d, i, "local", a, {"ifa"}, FALSE), i, {"ifa"})
      BY <2>2
    <3> QED
      BY <2>4, <3>1 DEF Placed
  <2> QED
    BY <1>5, <2>3, <2>4
<1>7. /\ o \in Dst /\ dst[o].idev = NONE /\ Unreached(dst, ifa, rd, o)
      /\ E \in [Dst -> DstT] /\ Entries(E, ifa, rd)
      /\ E[o].idev = i /\ E[o].kind = "route" /\ "ifa" \in E[o].hold
      /\ \A x \in Dst : x # o => E[x] = dst[x]
  BY <1>6, NewRouteOk
<1>8. f \in Ifa /\ ifa[f].mem = "free"
  BY DEF FreeIfa, NoIfa
<1>9. y \in IfaT /\ y.mem = "live" /\ y.idev = i /\ y.rt = o
  <2>1. y = [mem |-> "live", addr |-> a, idev |-> i, rt |-> o,
             hashed |-> TRUE, listed |-> TRUE, gp |-> {}]
    BY <1>4 DEF NoIfa
  <2> QED
    BY <1>7, <2>1 DEF IfaT
<1>10. /\ ifa' \in [Ifa -> IfaT] /\ ifa'[f] = y
       /\ \A g \in Ifa : g # f => ifa'[g] = ifa[g]
  BY <1>1, <1>5, <1>8, <1>9
<1>11. Entries(dst', ifa', rd')
  <2>1. PICK F : F = ifa'
    OBVIOUS
  <2>2. F[f].mem = "live" /\ F[f].rt = o /\ \A g \in Ifa : g # f => F[g] = ifa[g]
    BY <1>9, <1>10, <2>1
  <2>3. Entries(E, F, rd)
    BY <1>7, <2>2, NewAddressOk
  <2> QED
    BY <1>6, <2>1, <2>3
<1>12. /\ Hold(Hold(J, i), i) \in [Idev -> IdevT] /\ Evolves(J, Hold(Hold(J, i), i))
       /\ Counts(Hold(Hold(J, i), i), [R EXCEPT ![i] = R[i] + 2])
       /\ \A j \in Idev : Hold(Hold(J, i), i)[j].mem = J[j].mem
  BY <1>2, HoldTwice
<1>13. PICK K, Q : K = Hold(Hold(J, i), i) /\ Q = [R EXCEPT ![i] = R[i] + 2]
  OBVIOUS
<1>14. /\ K \in [Idev -> IdevT] /\ Evolves(J, K) /\ Counts(K, Q) /\ idev' = K
       /\ \A j \in Idev : K[j].mem = J[j].mem
  BY <1>5, <1>12, <1>13
<1>15. Types'
  BY <1>1, <1>6, <1>7, <1>10, <1>14 DEF Types
<1>16. ASSUME NEW j \in Idev
       PROVE  Refs(j)' = IF j = i THEN R[j] + 2 ELSE R[j]
  <2>1. \A k \in Idev : /\ IfaSet(k)' \ {f} = IfaSet(k) \ {f}
                        /\ DstSet(k)' \ {o} = DstSet(k) \ {o}
                        /\ RefSet(k)' \ {NONE} = RefSet(k) \ {NONE}
    <3>1. \A k \in Idev : IfaSet(k)' \ {f} = IfaSet(k) \ {f}
      BY <1>10 DEF IfaSet
    <3>2. \A k \in Idev : DstSet(k)' \ {o} = DstSet(k) \ {o}
      BY <1>6, <1>7 DEF DstSet
    <3>3. \A k \in Idev : RefSet(k)' = RefSet(k)
      BY DEF RefSet
    <3> QED
      BY <3>1, <3>2, <3>3
  <2>2. Refs(j)' = Refs(j) + (PtrRef(j)' - PtrRef(j)) + (LoRef(j)' - LoRef(j))
                        + (CfgRef(j)' - CfgRef(j))
                        + (One(f, IfaSet(j)') - One(f, IfaSet(j)))
                        + (One(o, DstSet(j)') - One(o, DstSet(j)))
                        + (One(NONE, RefSet(j)') - One(NONE, RefSet(j)))
    BY <2>1, RefsChange
  <2>3. One(f, IfaSet(j)) = 0 /\ One(f, IfaSet(j)') = IF j = i THEN 1 ELSE 0
    BY <1>8, <1>9, <1>10 DEF One, IfaSet
  <2>4. One(o, DstSet(j)) = 0 /\ One(o, DstSet(j)') = IF j = i THEN 1 ELSE 0
    BY <1>6, <1>7 DEF One, DstSet
  <2>5. CfgRef(j)' = CfgRef(j) /\ One(NONE, RefSet(j)') = One(NONE, RefSet(j))
    BY DEF CfgRef, One, RefSet
  <2>6. /\ LoRef(j)' = LoRef(j) /\ R[j] = Refs(j) + PtrRef(j)' - PtrRef(j)
    BY <1>2
  <2>7. /\ Refs(j) \in Nat /\ PtrRef(j) \in Nat /\ PtrRef(j)' \in Nat /\ LoRef(j) \in Nat
        /\ CfgRef(j) \in Nat /\ One(NONE, RefSet(j)) \in Nat
    BY RefsBound DEF PtrRef, LoRef, CfgRef, One
  <2>8. PICK p \in Nat, q \in Nat, n \in Nat :
          p = PtrRef(j) /\ q = PtrRef(j)' /\ n = Refs(j) /\ R[j] = n + q - p
    BY <2>6, <2>7
  <2>9. PICK u \in Nat : u = IF j = i THEN 1 ELSE 0
    OBVIOUS
  <2>10. Refs(j)' = n + (q - p) + 0 + 0 + (u - 0) + (u - 0) + 0
    BY <2>2, <2>3, <2>4, <2>5, <2>6, <2>7, <2>8, <2>9
  <2>11. Refs(j)' = R[j] + u + u
    BY <2>8, <2>10
  <2>12. R[j] \in Nat
    BY <1>2
  <2> QED
    BY <2>9, <2>11, <2>12
<1>17. Counts(K, RefsF')
  <2>1. \A j \in Idev : RefsF'[j] = Refs(j)'
    BY DEF RefsF
  <2>2. \A j \in Idev : Q[j] = IF j = i THEN R[j] + 2 ELSE R[j]
    BY <1>2, <1>13
  <2>3. \A j \in Idev : RefsF'[j] = Q[j]
    BY <1>16, <2>1, <2>2
  <2> QED
    BY <1>14, <2>3 DEF Counts
<1>18. ListsOk(ifa', cfg', J)
  <2>1. f \notin cfg.del
    BY <1>2, <1>8 DEF ListsOk
  <2>2. i # NONE
    OBVIOUS
  <2> QED
    BY <1>2, <1>9, <1>10, <2>1, <2>2 DEF ListsOk
<1>19. ASSUME NEW s \in Soft
       PROVE  ReaderOk(rd', ifa', J, s)
  <2>1. ReaderOk(rd, ifa, J, s)
    BY <1>2
  <2>2. rd[s].pc = "hash" => rd[s].p \in Ifa /\ rd[s].p # f
    BY <1>8, <2>1 DEF ReaderOk, Safe
  <2>3. rd[s].pc = "hash" => ifa'[rd[s].p] = ifa[rd[s].p]
    BY <1>10, <2>2
  <2> QED
    BY <2>1, <2>3 DEF ReaderOk, Safe
<1>20. Becomes(K)
  BY <1>14 DEF Becomes
<1>21. \A s \in Soft : rd'[s].pc \in {"rcu", "hash"} =>
         /\ s \in InRcu \/ \A j \in Idev : K[j].mem = J[j].mem
         /\ \A j \in Idev : s \in K[j].gp => s \in idev'[j].gp
  BY <1>14
<1>22. Pointers(nip_ptr', J) /\ IfdownOk(cfg', J)
  BY <1>2
<1>23. Idevs'
  BY <1>14, <1>15, <1>17, <1>18, <1>19, <1>20, <1>21, <1>22, IdevsStep
<1> QED
  BY <1>11, <1>15, <1>23 DEF Inv

\* ninet_addr_add, with the idev of the device or with a new one.
LEMMA AddrAddKeeps ==
  ASSUME Inv, NEW d \in Managed, NEW a \in Addr, ninet_addr_add(d, a)
  PROVE  Inv'
<1>1. /\ nip_ptr \in [Dev -> Idev \cup {NONE}] /\ d \in Dev /\ Pointers(nip_ptr, idev)
      /\ IfdownOk(cfg, idev) /\ ListsOk(ifa, cfg, idev)
      /\ \A s \in Soft : ReaderOk(rd, ifa, idev, s)
  BY DEF Inv, Types, Idevs
<1>2. UNCHANGED <<cfg, rd>>
  BY DEF ninet_addr_add
<1>3. \A j \in Idev : Refs(j) \in Nat /\ PtrRef(j) \in Nat
  BY RefsBound DEF PtrRef
<1>4. CASE nip_ptr[d] # NONE
  <2>1. PICK i \in Idev : i = nip_ptr[d]
    BY <1>1, <1>4
  <2>2. nip_add_addr(idev, d, a, i) /\ nip_ptr' = nip_ptr
    BY <1>4, <2>1 DEF ninet_addr_add
  <2>3. /\ idev \in [Idev -> IdevT] /\ RefsF \in [Idev -> Nat] /\ Counts(idev, RefsF)
        /\ \A j \in Idev : RefsF[j] = Refs(j)
    BY CountsNow
  <2>4. idev[i].mem = "live"
    BY <1>1, <1>4, <2>1 DEF Pointers
  <2>5. \A j \in Idev : LoRef(j)' = LoRef(j) /\ PtrRef(j)' = PtrRef(j)
    BY <2>2 DEF LoRef, PtrRef
  <2>6. \A j \in Idev : RefsF[j] = Refs(j) + PtrRef(j)' - PtrRef(j)
    BY <1>3, <2>3, <2>5
  <2>7. Ready(idev, RefsF, i)
    BY <1>1, <2>2, <2>3, <2>4, <2>5, <2>6 DEF Ready
  <2>8. nip_ptr' \in [Dev -> Idev \cup {NONE}]
    BY <1>1, <2>2
  <2>9. PICK J, R : J = idev /\ R = RefsF
    OBVIOUS
  <2>10. Ready(J, R, i) /\ nip_add_addr(J, d, a, i)
    BY <2>2, <2>7, <2>9
  <2> QED
    BY <1>2, <2>8, <2>10, AddAddrKeeps
<1>5. CASE nip_ptr[d] = NONE
  <2>1. PICK i \in FreeIdev : i = kzalloc(FreeIdev)
    BY <1>5 DEF ninet_addr_add, kzalloc
  <2>2. /\ nip_ptr' = [nip_ptr EXCEPT ![d] = i]
        /\ \/ nip_add_addr(WithIdev(d, i), d, a, i)
           \/ idev' = WithIdev(d, i) /\ UNCHANGED <<ifa, dst>>
    BY <1>5, <2>1 DEF ninet_addr_add
  <2>3. CASE idev' = WithIdev(d, i) /\ UNCHANGED <<ifa, dst>>
    BY <1>2, <1>5, <2>2, <2>3, AddDevKeeps
  <2>4. CASE nip_add_addr(WithIdev(d, i), d, a, i)
    <3>1. PICK J, R : J = WithIdev(d, i) /\ R = [RefsF EXCEPT ![i] = 1]
      OBVIOUS
    <3>2. /\ nip_ptr' \in [Dev -> Idev \cup {NONE}] /\ WithIdev(d, i) \in [Idev -> IdevT]
          /\ i \in Idev /\ Refs(i) = 0
          /\ [RefsF EXCEPT ![i] = 1] \in [Idev -> Nat]
          /\ Counts(WithIdev(d, i), [RefsF EXCEPT ![i] = 1])
          /\ Pointers(nip_ptr', WithIdev(d, i))
          /\ IfdownOk(cfg, WithIdev(d, i)) /\ ListsOk(ifa, cfg, WithIdev(d, i))
          /\ \A s \in Soft : ReaderOk(rd, ifa, WithIdev(d, i), s)
          /\ \A j \in Idev : /\ LoRef(j)' = LoRef(j)
                             /\ PtrRef(j)' = IF j = i THEN 1 ELSE PtrRef(j)
          /\ PtrRef(i) = 0
          /\ WithIdev(d, i)[i].mem = "live"
      BY <1>5, <2>2, NewIdev
    <3>3. /\ J \in [Idev -> IdevT] /\ R \in [Idev -> Nat] /\ Counts(J, R) /\ J[i].mem = "live"
          /\ Pointers(nip_ptr', J) /\ IfdownOk(cfg, J) /\ ListsOk(ifa, cfg, J)
          /\ \A s \in Soft : ReaderOk(rd, ifa, J, s)
      BY <3>1, <3>2
    <3>4. \A j \in Idev : LoRef(j)' = LoRef(j) /\ R[j] = Refs(j) + PtrRef(j)' - PtrRef(j)
      <4>1. \A j \in Idev : R[j] = IF j = i THEN 1 ELSE Refs(j)
        BY <3>1, <3>2 DEF RefsF
      <4> QED
        BY <1>3, <3>2, <4>1
    <3>5. Ready(J, R, i)
      BY <3>3, <3>4 DEF Ready
    <3>6. nip_add_addr(J, d, a, i) /\ i \in Idev /\ nip_ptr' \in [Dev -> Idev \cup {NONE}]
      BY <2>4, <3>1, <3>2
    <3> QED
      BY <1>2, <3>5, <3>6, AddAddrKeeps
  <2> QED
    BY <2>2, <2>3, <2>4
<1> QED
  BY <1>4, <1>5

-----------------------------------------------------------------------------
(* The theorems.                                                           *)

\* The first idev has the references of dev->nip_ptr and of the two special entries.
LEMMA InitRefs ==
  ASSUME Init, NEW i \in Idev, i = nip_ptr[Lo]
  PROVE  \A j \in Idev : Refs(j) = IF j = i THEN 3 ELSE 0
<1>1. TAKE j \in Idev
<1>2. /\ \A d \in Dev : nip_ptr[d] = IF d = Lo THEN i ELSE NONE
      /\ \A f \in Ifa : ifa[f].mem = "free"
      /\ \A o \in Dst : dst[o].idev = NONE
      /\ \A s \in Soft : rd[s].pc = "idle"
      /\ cfg.step = "idle"
  BY DEF Init, NoIfa, NoDst, NoRd, NoCfg
<1>3. PtrRef(j) = (IF j = i THEN 1 ELSE 0) /\ LoRef(j) = (IF j = i THEN 2 ELSE 0)
      /\ CfgRef(j) = 0
  BY <1>2 DEF PtrRef, LoRef, CfgRef
<1>4. IfaSet(j) = {} /\ DstSet(j) = {} /\ RefSet(j) = {}
  <2>1. j # NONE
    OBVIOUS
  <2>2. IfaSet(j) = {}
    BY <1>2 DEF IfaSet
  <2>3. DstSet(j) = {}
    BY <1>2, <2>1 DEF DstSet
  <2>4. RefSet(j) = {}
    BY <1>2 DEF RefSet
  <2> QED
    BY <2>2, <2>3, <2>4
<1>5. Cardinality(IfaSet(j)) = 0 /\ Cardinality(DstSet(j)) = 0 /\ Cardinality(RefSet(j)) = 0
  BY <1>4, FS_EmptySet
<1>6. Refs(j) = PtrRef(j) + LoRef(j) + CfgRef(j)
                   + Cardinality(IfaSet(j)) + Cardinality(DstSet(j)) + Cardinality(RefSet(j))
  BY RefsIs
<1> QED
  BY <1>3, <1>5, <1>6

LEMMA InvInit ==
  ASSUME Init
  PROVE  Inv
<1>1. PICK i \in Idev : i = CHOOSE j \in Idev : TRUE
  OBVIOUS
<1>2. PICK x : x = [NoIdev EXCEPT !.mem = "live", !.dev = Lo, !.refcnt = 3]
  OBVIOUS
<1>3. /\ nip_ptr = [d \in Dev |-> IF d = Lo THEN i ELSE NONE]
      /\ idev = [j \in Idev |-> IF j = i THEN x ELSE NoIdev]
      /\ ifa = [f \in Ifa |-> NoIfa] /\ dst = [o \in Dst |-> NoDst]
      /\ cfg = NoCfg /\ rd = [r \in Reader |-> NoRd]
  BY <1>1, <1>2 DEF Init, Reader
<1>4. x \in IdevT /\ x.mem = "live" /\ x.dev = Lo /\ x.refcnt = 3 /\ ~x.dead
  <2>1. x = [mem |-> "live", dev |-> Lo, refcnt |-> 3, dead |-> FALSE, gp |-> {}]
    BY <1>2 DEF NoIdev
  <2> QED
    BY <2>1 DEF IdevT
<1>5. NoIdev \in IdevT /\ NoIdev.mem = "free" /\ NoIdev.refcnt = 0
  BY DEF NoIdev, IdevT
<1>6. /\ NoIfa \in IfaT /\ NoIfa.mem = "free" /\ ~NoIfa.hashed /\ ~NoIfa.listed
  BY DEF NoIfa, IfaT
<1>7. /\ NoDst \in DstT /\ NoDst.kind = "free" /\ NoDst.cb = "none" /\ ~NoDst.linked
      /\ NoDst.slot = NONE /\ NoDst.from = NONE /\ NoDst.idev = NONE
  BY DEF NoDst, DstT
<1>8. NoCfg \in CfgT /\ NoCfg.step = "idle" /\ NoCfg.del = {}
  BY DEF NoCfg, CfgT
<1>9. NoRd \in RdT /\ NoRd.pc = "idle"
  BY DEF NoRd, RdT
<1>10. Types
  BY <1>3, <1>4, <1>5, <1>6, <1>7, <1>8, <1>9 DEF Types
<1>11. Entries(dst, ifa, rd)
  <2>1. \A o \in Dst : EntryOk(dst, o)
    BY <1>3, <1>7 DEF EntryOk
  <2>2. \A r \in Proc : UsesEntry(dst, rd, r) /\ OwnsCopy(dst, rd, r)
    BY <1>3, <1>9 DEF UsesEntry, OwnsCopy, Reader
  <2>3. \A f \in Ifa : AddressOk(dst, ifa, f)
    BY <1>3, <1>6 DEF AddressOk
  <2> QED
    BY <2>1, <2>2, <2>3 DEF Entries
<1>12. nip_ptr[Lo] = i /\ i # NONE
  BY <1>3
<1>13. Counts(idev, RefsF)
  <2>1. \A j \in Idev : RefsF[j] = IF j = i THEN 3 ELSE 0
    BY <1>12, InitRefs DEF RefsF
  <2>2. 3 # Sat /\ 0 # Sat
    OBVIOUS
  <2> QED
    BY <1>3, <1>4, <1>5, <2>1, <2>2 DEF Counts
<1>14. Pointers(nip_ptr, idev)
  BY <1>3, <1>4, <1>5, <1>12 DEF Pointers
<1>15. IfdownOk(cfg, idev) /\ ListsOk(ifa, cfg, idev)
  BY <1>3, <1>6, <1>8 DEF IfdownOk, ListsOk
<1>16. \A s \in Soft : ReaderOk(rd, ifa, idev, s)
  BY <1>3, <1>9 DEF ReaderOk, Reader
<1> QED
  BY <1>10, <1>11, <1>13, <1>14, <1>15, <1>16 DEF Inv, Idevs

LEMMA InvNext ==
  ASSUME Inv, [Next]_vars
  PROVE  Inv'
<1>1. CASE Configure
  <2>1. PICK d \in Managed :
          \/ Register(d) \/ Up(d) \/ MtuTooSmall(d) \/ MtuEnough(d) \/ Down(d) \/ Unregister(d)
          \/ \E a \in Addr : ninet_addr_add(d, a) \/ nip_route_add(d, a)
    BY <1>1 DEF Configure
  <2> QED
    BY <2>1, NotifyKeeps, GoingDownKeeps, AddrAddKeeps, RouteAddKeeps
<1>2. ASSUME NEW f \in Ifa, ninet_addr_del(f)
      PROVE  Inv'
  BY <1>2, AddrDelKeeps
<1>3. ASSUME NEW o \in Dst, nip_route_del(o)
      PROVE  Inv'
  BY <1>3, RouteDelKeeps
<1>4. CASE Ifdown
  BY <1>4, IfdownListsKeep, IfdownPutKeeps, IfdownLastKeeps DEF Ifdown
<1>5. CASE RcuCallback
  BY <1>5, FreePcpuKeeps, RtReleaseKeeps, DstDestroyKeeps, KfreeIdevKeeps, KfreeIfaKeeps
     DEF RcuCallback
<1>6. ASSUME NEW r \in Proc,
             Lookup(r) \/ SaddrLock(r) \/ Drop(r) \/ \E o \in Dst : nip_pol_route(r, o)
      PROVE  Inv'
  <2>1. CASE Install(r)
    BY <2>1, InstallStores, InstallGivesUp
  <2>2. CASE \E o \in Dst : nip_pol_route(r, o)
    BY <2>2, PolRouteKeeps
  <2> QED
    BY <1>6, <2>1, <2>2, CopyReadKeeps, DropKeeps, CopyHoldKeeps, SaddrLockKeeps,
       SaddrUnlockKeeps DEF Lookup
<1>7. ASSUME NEW s \in Soft,
             Read(s) \/ (\E d \in Dev : ReadPtr(s, d)) \/ \E f \in Ifa : ReadHash(s, f)
      PROVE  Inv'
  BY <1>7, ReadDoneKeeps, DevGetKeeps, DevPutKeeps, ReadKeeps DEF Read
<1>8. CASE UNCHANGED vars
  BY <1>8, UnlinkStep DEF vars
<1> QED
  BY <1>1, <1>2, <1>3, <1>4, <1>5, <1>6, <1>7, <1>8 DEF Next

\* The invariant holds in every reachable state.
LEMMA InvAlways == Spec => []Inv
<1>1. Init => Inv
  BY InvInit
<1>2. Inv /\ [Next]_vars => Inv'
  BY InvNext
<1> QED
  BY <1>1, <1>2, PTL DEF Spec

\* nin_dev_hold and nin_dev_put balance for every number of devices, addresses, routes,
\* lookups and readers: the count of an idev is the number of pointers to it from
\* dev->nip_ptr, addresses, routes, per-CPU copies and nin_dev_get, it is live as long as
\* there is one, and nin_dev_finish_destroy never meets an idev that is not dead.  An idev
\* that nip_rt_copy_init incremented at zero is the exception that IdevCounted names.
THEOREM IdevReferencesExact == Spec => []IdevCounted
<1>1. Inv => IdevCounted
  <2>1. SUFFICES ASSUME Inv, NEW i \in Idev, idev[i].refcnt # Sat
                 PROVE  /\ idev[i].refcnt = Refs(i)
                        /\ (idev[i].mem = "live") = (Refs(i) > 0)
                        /\ idev[i].mem # "lost"
    BY DEF IdevCounted
  <2>2. Counts(idev, RefsF) /\ RefsF[i] = Refs(i)
    BY <2>1 DEF Inv, Idevs, RefsF
  <2> QED
    BY <2>1, <2>2 DEF Counts
<1> QED
  BY <1>1, InvAlways, PTL

\* A reader that found an idev through dev->nip_ptr, or an address and its idev through
\* ninet_addr_lst, may use them until rcu_read_unlock, whatever nip_addrconf_ifdown,
\* ninet_addr_del and the RCU callbacks do meanwhile: the memory waits for the reader.
THEOREM ReadersAlwaysSafe == Spec => []ReadersSafe
<1>1. Inv => ReadersSafe
  <2>1. SUFFICES ASSUME Inv, NEW s \in Soft
                 PROVE  /\ rd[s].pc = "rcu" => idev[rd[s].i].mem # "free"
                        /\ rd[s].pc = "hash" => /\ ifa[rd[s].p].mem # "free"
                                                /\ idev[ifa[rd[s].p].idev].mem # "free"
    BY DEF ReadersSafe
  <2>2. ReaderOk(rd, ifa, idev, s)
    BY <2>1 DEF Inv, Idevs
  <2> QED
    BY <2>2 DEF ReaderOk, Safe
<1> QED
  BY <1>1, InvAlways, PTL
=============================================================================
