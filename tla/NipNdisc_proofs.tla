--------------------------- MODULE NipNdisc_proofs ---------------------------
(***************************************************************************)
(* Theorems about NipNdisc, for every set of nodes and addresses, every    *)
(* number of probes and moves and every capacity of the link.              *)
(***************************************************************************)
EXTENDS NipNdisc, TLAPS

-----------------------------------------------------------------------------
(* The inductive invariant.  MacWasOwner speaks of the caches alone; what  *)
(* keeps it true is what the frames on the link and the advertisements     *)
(* that wait in an entry say.                                              *)

Nud    == Valid \cup {"none", "incomplete", "failed"}
Entry  == [nud : Nud, ha : Node \cup {NONE}, probes : Nat, q : SUBSET (Addr \cup {"data"})]
Frame  == [type : {"ns", "na"}, to : Node, eth : Node, src : Addr, dst : Addr \cup {NONE},
           target : Addr \cup {NONE}, lladdr : Node \cup {NONE}, ok : BOOLEAN]
Worlds == [cache : [Node -> [Addr -> Entry]], net : SUBSET Frame]

\* A frame whose checksum is right was sent by a node that had its source address.
\* Only such a frame can change an entry.
TruthfulFrame(m) ==
  /\ m.type = "ns" => m.target \in Addr
  /\ m.type = "na" => m.dst \in Addr
  /\ m.type = "ns" /\ m.ok => m.eth \in had[m.src]
  /\ m.type = "na" /\ m.ok => m.lladdr \in had[m.src]

\* An entry of node n for a: its MAC is that of a node that had a, and what waits in
\* it are packets of the flow and advertisements of addresses n had.
TruthfulEntry(n, a, e) ==
  /\ e.nud \in Valid => e.ha \in had[a]
  /\ \A p \in e.q \ {"data"} : n \in had[p]

Truthful(W) ==
  /\ W \in Worlds
  /\ \A m \in W.net : TruthfulFrame(m)
  /\ \A n \in Node, a \in Addr : TruthfulEntry(n, a, W.cache[n][a])

OwnersRecorded ==
  /\ owner \in [Addr -> Node \cup {NONE}]
  /\ had \in [Addr -> SUBSET Node]
  /\ moves \in Nat
  /\ \A a \in Addr : owner[a] # NONE => owner[a] \in had[a]

NdiscInv == OwnersRecorded /\ Truthful(World)

USE NdiscAssumption DEF NdiscAssumption

-----------------------------------------------------------------------------
(* The helpers that handlers pass a world through.                         *)

\* Emit adds all frames or none.
LEMMA EmitTruthful ==
  ASSUME NEW W, Truthful(W),
         NEW S \in SUBSET Frame, \A m \in S : TruthfulFrame(m)
  PROVE  Truthful(Emit(W, S))
<1>1. CASE Emit(W, S) = W
  BY <1>1
<1>2. CASE Emit(W, S) = [W EXCEPT !.net = @ \cup S]
  BY <1>2 DEF Truthful, Worlds
<1> QED
  BY <1>1, <1>2 DEF Emit

\* One entry is replaced by another.
LEMMA SetEntry ==
  ASSUME NEW W, Truthful(W), NEW n \in Node, NEW a \in Addr,
         NEW e \in Entry, TruthfulEntry(n, a, e)
  PROVE  Truthful([W EXCEPT !.cache[n][a] = e])
<1> DEFINE V == [W EXCEPT !.cache[n][a] = e]
<1>1. W.cache \in [Node -> [Addr -> Entry]] /\ W.net \in SUBSET Frame
  BY DEF Truthful, Worlds
<1>2. V.net = W.net /\ V.cache = [W.cache EXCEPT ![n][a] = e]
  BY DEF Truthful, Worlds
<1>3. V \in Worlds
  BY <1>1, <1>2 DEF Truthful, Worlds
<1>4. ASSUME NEW k \in Node, NEW b \in Addr
      PROVE  TruthfulEntry(k, b, V.cache[k][b])
  <2>1. CASE k = n /\ b = a
    BY <1>1, <1>2, <2>1
  <2>2. CASE ~(k = n /\ b = a)
    <3>1. V.cache[k][b] = W.cache[k][b]
      BY <1>1, <1>2, <2>2
    <3> QED
      BY <3>1 DEF Truthful
  <2> QED
    BY <2>1, <2>2
<1> QED
  BY <1>2, <1>3, <1>4 DEF Truthful

\* Solicitations name addresses the device has.
LEMMA SolicitTruthful ==
  ASSUME OwnersRecorded, NEW W, Truthful(W), NEW n \in Node, NEW a \in Addr
  PROVE  Truthful(nndisc_solicit(W, n, a))
<1> DEFINE S == UNION {nndisc_send_ns(n, a, s) : s \in {b \in Addr : owner[b] = n}}
<1>1. ASSUME NEW m \in S
      PROVE  m \in Frame /\ TruthfulFrame(m)
  <2>1. PICK s \in Addr, k \in Node :
          /\ owner[s] = n
          /\ m = [type |-> "ns", to |-> k, eth |-> n, src |-> s, dst |-> NONE,
                  target |-> a, lladdr |-> NONE, ok |-> TRUE]
    BY <1>1 DEF nndisc_send_ns
  <2>2. n \in had[s]
    BY <2>1 DEF OwnersRecorded
  <2> QED
    BY <2>1, <2>2 DEF Frame, TruthfulFrame
<1>2. Truthful(Emit(W, S))
  BY <1>1, EmitTruthful
<1> QED
  BY <1>2 DEF nndisc_solicit

\* So do advertisements.
LEMMA NaTruthful ==
  ASSUME OwnersRecorded, NEW n \in Node, NEW s \in Addr, NEW d \in Addr, NEW m \in Node,
         n \in had[s]
  PROVE  NaFrame(n, s, d, m) \in Frame /\ TruthfulFrame(NaFrame(n, s, d, m))
BY DEF NaFrame, Frame, TruthfulFrame

\* nip_output of a packet of the flow or of an advertisement of an own address.
LEMMA OutputTruthful ==
  ASSUME OwnersRecorded, NEW W, Truthful(W), NEW n \in Node, NEW d \in Addr,
         NEW p \in Addr \cup {"data"}, p # "data" => n \in had[p]
  PROVE  Truthful(nip_output(W, n, d, p))
<1> DEFINE e == W.cache[n][d]
<1>1. e \in Entry /\ TruthfulEntry(n, d, e)
  BY DEF Truthful, Worlds
<1>2. W \in Worlds
  BY DEF Truthful
<1>3. CASE e.nud \in Valid
  <2> DEFINE f == [e EXCEPT !.nud = IF @ = "stale" THEN "delay" ELSE @]
             V == [W EXCEPT !.cache[n][d] = f]
  <2> DEFINE U == [W EXCEPT !.cache[n][d].nud = IF @ = "stale" THEN "delay" ELSE @]
  <2>0. U = V
    BY <1>2 DEF Worlds
  <2>1. nip_output(W, n, d, p) = Xmit(V, n, d, e.ha, p)
    <3>1. nip_output(W, n, d, p) = Xmit(U, n, d, e.ha, p)
      BY <1>3 DEF nip_output, Valid
    <3> QED
      BY <2>0, <3>1
  <2>2. f \in Entry /\ TruthfulEntry(n, d, f)
    BY <1>1, <1>3 DEF Entry, TruthfulEntry, Valid, Nud
  <2>3. Truthful(V)
    BY <2>2, SetEntry
  <2>4. CASE p = "data"
    BY <2>1, <2>3, <2>4 DEF Xmit
  <2>5. CASE p # "data"
    <3>1. e.ha \in Node
      BY <1>1, <1>3 DEF TruthfulEntry, OwnersRecorded
    <3>2. NaFrame(n, p, d, e.ha) \in Frame /\ TruthfulFrame(NaFrame(n, p, d, e.ha))
      BY <2>5, <3>1, NaTruthful
    <3>3. Truthful(Emit(V, {NaFrame(n, p, d, e.ha)}))
      BY <2>3, <3>2, EmitTruthful
    <3> QED
      BY <2>1, <2>5, <3>3 DEF Xmit
  <2> QED
    BY <2>4, <2>5
<1>4. CASE e.nud = "incomplete"
  <2> DEFINE f == [e EXCEPT !.q = @ \cup {p}]
  <2>1. nip_output(W, n, d, p) = [W EXCEPT !.cache[n][d] = f]
    BY <1>2, <1>4 DEF nip_output, Worlds, Valid
  <2>2. f \in Entry /\ TruthfulEntry(n, d, f)
    BY <1>1, <1>4 DEF Entry, TruthfulEntry, Valid
  <2>3. Truthful([W EXCEPT !.cache[n][d] = f])
    BY <2>2, SetEntry
  <2> QED
    BY <2>1, <2>3
<1>5. CASE e.nud \notin Valid /\ e.nud # "incomplete"
  <2> DEFINE f == [NoEntry EXCEPT !.nud = "incomplete", !.probes = 1, !.q = {p}]
  <2>1. nip_output(W, n, d, p) = nndisc_solicit([W EXCEPT !.cache[n][d] = f], n, d)
    BY <1>5 DEF nip_output
  <2>2. f \in Entry /\ TruthfulEntry(n, d, f)
    BY DEF Entry, TruthfulEntry, Valid, NoEntry, Nud
  <2>3. Truthful([W EXCEPT !.cache[n][d] = f])
    BY <2>2, SetEntry
  <2> QED
    BY <2>1, <2>3, SolicitTruthful
<1> QED
  BY <1>3, <1>4, <1>5

\* neigh_update with the MAC of a node that had the address.
LEMMA UpdateTruthful ==
  ASSUME OwnersRecorded, NEW W, Truthful(W), NEW n \in Node, NEW a \in Addr,
         NEW ha \in had[a], NEW nud \in {"stale", "reachable"}
  PROVE  Truthful(neigh_update(W, n, a, ha, nud))
<1> DEFINE e == W.cache[n][a]
           same == e.nud \in Valid /\ e.ha = ha /\ nud = "stale"
           f == [nud |-> IF same THEN e.nud ELSE nud, ha |-> ha,
                 probes |-> IF same THEN e.probes ELSE 0, q |-> {}]
           V == [W EXCEPT !.cache[n][a] = f]
           S == {NaFrame(n, p, a, ha) : p \in e.q \ {"data"}}
<1>1. e \in Entry /\ TruthfulEntry(n, a, e) /\ ha \in Node
  BY DEF Truthful, Worlds, OwnersRecorded
<1>2. f \in Entry /\ TruthfulEntry(n, a, f)
  BY <1>1 DEF Entry, TruthfulEntry, Valid, Nud
<1>3. Truthful(V)
  BY <1>2, SetEntry
<1>4. \A p \in e.q \ {"data"} : p \in Addr /\ n \in had[p]
  BY <1>1 DEF Entry, TruthfulEntry
<1>5. \A m \in S : m \in Frame /\ TruthfulFrame(m)
  BY <1>1, <1>4, NaTruthful
<1>6. Truthful(Emit(V, S))
  BY <1>3, <1>5, EmitTruthful
<1> QED
  BY <1>6 DEF neigh_update

-----------------------------------------------------------------------------
(* The steps.                                                              *)

\* At first there are no entries and no frames.
LEMMA NdiscInit == Init => NdiscInv
<1> SUFFICES ASSUME Init PROVE NdiscInv
  OBVIOUS
<1>1. OwnersRecorded
  BY DEF Init, OwnersRecorded
<1>2. NoEntry \in Entry
  BY DEF NoEntry, Entry, Nud
<1>3. Truthful(World)
  BY <1>2 DEF Init, Truthful, World, Worlds, TruthfulEntry, NoEntry, Valid
<1> QED
  BY <1>1, <1>3 DEF NdiscInv

\* A handler that leaves the owners alone keeps the invariant if the world it makes
\* is truthful.
LEMMA BecomesInv ==
  ASSUME NdiscInv, UNCHANGED <<owner, moves, had>>, NEW W, Truthful(W), Becomes(W)
  PROVE  NdiscInv'
<1>1. World' = W
  BY DEF Truthful, Worlds, World, Becomes
<1> QED
  BY <1>1 DEF NdiscInv, OwnersRecorded, Truthful, TruthfulFrame, TruthfulEntry

\* Taking a frame off the link.
LEMMA TakenTruthful ==
  ASSUME NdiscInv, NEW m \in net
  PROVE  /\ Truthful(Taken(m)) /\ m \in Frame /\ TruthfulFrame(m)
BY DEF NdiscInv, Truthful, World, Worlds, Taken

\* Reception of a solicitation or an advertisement.
LEMMA ReceiveInv ==
  ASSUME NdiscInv, NEW m \in net, nip_icmp_rcv(m)
  PROVE  NdiscInv'
<1>1. /\ Truthful(Taken(m)) /\ m \in Frame /\ TruthfulFrame(m)
      /\ UNCHANGED <<owner, moves, had>> /\ OwnersRecorded
  BY TakenTruthful DEF nip_icmp_rcv, NdiscInv
<1>2. CASE Becomes(Taken(m))
  BY <1>1, <1>2, BecomesInv
<1>3. CASE m.type = "ns" /\ m.ok /\ nip_addr_local(m.to, m.target)
  <2> DEFINE U == neigh_update(Taken(m), m.to, m.src, m.eth, "stale")
  <2>1. m.to \in Node /\ m.src \in Addr /\ m.target \in Addr /\ m.eth \in had[m.src]
    BY <1>1, <1>3 DEF Frame, TruthfulFrame
  <2>2. m.to \in had[m.target]
    BY <1>1, <1>3, <2>1 DEF nip_addr_local, OwnersRecorded
  <2>3. Truthful(U)
    BY <1>1, <2>1, UpdateTruthful
  <2>4. /\ Truthful(nndisc_send_na(U, m.to, m.src, m.target))
        /\ Truthful(nndisc_send_na(Taken(m), m.to, m.src, m.target))
    BY <1>1, <2>1, <2>2, <2>3, OutputTruthful DEF nndisc_send_na
  <2>5. \/ Becomes(nndisc_send_na(U, m.to, m.src, m.target))
        \/ Becomes(nndisc_send_na(Taken(m), m.to, m.src, m.target))
    BY <1>3 DEF nip_icmp_rcv, nndisc_rcv_ns
  <2> QED
    BY <1>1, <2>4, <2>5, BecomesInv
<1>4. CASE m.type = "na" /\ m.ok /\ Becomes(neigh_update(Taken(m), m.to, m.src, m.lladdr, "reachable"))
  <2>1. m.to \in Node /\ m.src \in Addr /\ m.lladdr \in had[m.src]
    BY <1>1, <1>4 DEF Frame, TruthfulFrame
  <2>2. Truthful(neigh_update(Taken(m), m.to, m.src, m.lladdr, "reachable"))
    BY <1>1, <2>1, UpdateTruthful
  <2> QED
    BY <1>1, <1>4, <2>2, BecomesInv
<1> QED
  BY <1>2, <1>3, <1>4 DEF nip_icmp_rcv, nndisc_rcv_ns, nndisc_rcv_na

\* The neighbour core's timer.
LEMMA TimerInv ==
  ASSUME NdiscInv, NEW n \in Node, NEW a \in Addr, neigh_timer_handler(n, a)
  PROVE  NdiscInv'
<1> DEFINE e == cache[n][a]
           Set(f) == [World EXCEPT !.cache[n][a] = f]
<1>1. /\ UNCHANGED <<owner, moves, had>> /\ OwnersRecorded /\ Truthful(World)
      /\ e \in Entry /\ TruthfulEntry(n, a, e)
  BY DEF neigh_timer_handler, NdiscInv, Truthful, Worlds, World
<1>2. CASE e.nud = "reachable" /\ Becomes(Set([e EXCEPT !.nud = "stale"]))
  <2> DEFINE f == [e EXCEPT !.nud = "stale"]
  <2>1. f \in Entry /\ TruthfulEntry(n, a, f)
    BY <1>1, <1>2 DEF Entry, TruthfulEntry, Valid, Nud
  <2> QED
    BY <1>1, <1>2, <2>1, SetEntry, BecomesInv
<1>3. CASE /\ e.nud = "delay"
           /\ Becomes(nndisc_solicit(Set([e EXCEPT !.nud = "probe", !.probes = 1]), n, a))
  <2> DEFINE f == [e EXCEPT !.nud = "probe", !.probes = 1]
  <2>1. f \in Entry /\ TruthfulEntry(n, a, f)
    BY <1>1, <1>3 DEF Entry, TruthfulEntry, Valid, Nud
  <2>2. Truthful(nndisc_solicit(Set(f), n, a))
    BY <1>1, <2>1, SetEntry, SolicitTruthful
  <2> QED
    BY <1>1, <1>3, <2>2, BecomesInv
<1>4. CASE /\ e.nud \in {"incomplete", "probe"}
           /\ Becomes(nndisc_solicit(Set([e EXCEPT !.probes = @ + 1]), n, a))
  <2> DEFINE f == [e EXCEPT !.probes = @ + 1]
  <2>1. f \in Entry /\ TruthfulEntry(n, a, f)
    BY <1>1, <1>4 DEF Entry, TruthfulEntry, Valid, Nud
  <2>2. Truthful(nndisc_solicit(Set(f), n, a))
    BY <1>1, <2>1, SetEntry, SolicitTruthful
  <2> QED
    BY <1>1, <1>4, <2>2, BecomesInv
<1>5. CASE Becomes(Set([NoEntry EXCEPT !.nud = "failed"]))
  <2> DEFINE f == [NoEntry EXCEPT !.nud = "failed"]
  <2>1. f \in Entry /\ TruthfulEntry(n, a, f)
    BY DEF Entry, TruthfulEntry, Valid, NoEntry, Nud
  <2> QED
    BY <1>1, <1>5, <2>1, SetEntry, BecomesInv
<1> QED
  BY <1>2, <1>3, <1>4, <1>5 DEF neigh_timer_handler

\* The link loses and damages frames; a damaged frame does not pass the checksum.
LEMMA LinkInv ==
  ASSUME NdiscInv, NEW m \in net, Lose(m) \/ Corrupt(m)
  PROVE  NdiscInv'
<1>1. Truthful(Taken(m)) /\ m \in Frame /\ TruthfulFrame(m)
  BY TakenTruthful
<1>2. CASE Lose(m)
  <2>1. Becomes(Taken(m))
    BY <1>2 DEF Lose, Becomes, Taken, World
  <2> QED
    BY <1>1, <1>2, <2>1, BecomesInv DEF Lose
<1>3. CASE Corrupt(m)
  <2>1. PICK w \in IF m.type = "na" THEN {[m EXCEPT !.lladdr = l] : l \in Node \ {m.lladdr}}
                                    ELSE {[m EXCEPT !.src = s] : s \in Addr \ {m.src}} :
          net' = (net \ {m}) \cup {[w EXCEPT !.ok = FALSE]}
    BY <1>3 DEF Corrupt
  <2> DEFINE v == [w EXCEPT !.ok = FALSE]
             V == [Taken(m) EXCEPT !.net = @ \cup {v}]
  <2>2. v \in Frame /\ TruthfulFrame(v)
    <3>1. CASE m.type = "na"
      <4>1. PICK l \in Node : w = [m EXCEPT !.lladdr = l]
        BY <2>1, <3>1
      <4>2. w \in Frame /\ w.type = "na" /\ w.dst = m.dst
        BY <1>1, <3>1, <4>1 DEF Frame
      <4> QED
        BY <1>1, <3>1, <4>2 DEF Frame, TruthfulFrame
    <3>2. CASE m.type # "na"
      <4>1. PICK s \in Addr : w = [m EXCEPT !.src = s]
        BY <2>1, <3>2
      <4>2. w \in Frame /\ w.type = "ns" /\ w.target = m.target
        BY <1>1, <3>2, <4>1 DEF Frame
      <4> QED
        BY <1>1, <3>2, <4>2 DEF Frame, TruthfulFrame
    <3> QED
      BY <3>1, <3>2
  <2>3. Truthful(V)
    BY <1>1, <2>2 DEF Truthful, Worlds
  <2>4. Becomes(V)
    BY <1>3, <2>1 DEF Becomes, Corrupt, Taken, World
  <2> QED
    BY <1>3, <2>3, <2>4, BecomesInv DEF Corrupt
<1> QED
  BY <1>2, <1>3

\* Addresses move: the history grows and everything that was truthful stays so.
LEMMA MoveInv ==
  ASSUME NdiscInv, NEW a \in Addr, AddrDel(a) \/ \E n \in Node : AddrAdd(a, n)
  PROVE  NdiscInv'
<1>1. CASE AddrDel(a)
  BY <1>1 DEF AddrDel, NdiscInv, OwnersRecorded, Truthful, World, TruthfulFrame, TruthfulEntry
<1>2. ASSUME NEW n \in Node, AddrAdd(a, n)
      PROVE  NdiscInv'
  <2>1. \A b \in Addr : had[b] \subseteq had'[b]
    BY <1>2 DEF AddrAdd, NdiscInv, OwnersRecorded
  <2>2. OwnersRecorded'
    BY <1>2 DEF AddrAdd, NdiscInv, OwnersRecorded
  <2>3. World' = World /\ Truthful(World) /\ World \in Worlds
    BY <1>2 DEF AddrAdd, World, NdiscInv, Truthful
  <2>4. ASSUME NEW m \in World.net
        PROVE  TruthfulFrame(m)'
    BY <2>1, <2>3 DEF Truthful, TruthfulFrame, Worlds, Frame
  <2>5. ASSUME NEW k \in Node, NEW b \in Addr
        PROVE  TruthfulEntry(k, b, World.cache[k][b])'
    <3> DEFINE e == World.cache[k][b]
    <3>1. e \in Entry /\ TruthfulEntry(k, b, e)
      BY <2>3 DEF Truthful, Worlds
    <3> QED
      BY <2>1, <2>3, <3>1 DEF TruthfulEntry, Entry
  <2> QED
    BY <2>2, <2>3, <2>4, <2>5 DEF NdiscInv, Truthful
<1> QED
  BY <1>1, <1>2

\* Every step keeps the invariant.
LEMMA NdiscStep == NdiscInv /\ [Next]_vars => NdiscInv'
<1> SUFFICES ASSUME NdiscInv, [Next]_vars PROVE NdiscInv'
  OBVIOUS
<1>1. ASSUME NEW m \in net, nip_icmp_rcv(m) \/ Lose(m) \/ Corrupt(m)
      PROVE  NdiscInv'
  BY <1>1, ReceiveInv, LinkInv
<1>2. ASSUME NEW n \in Node, NEW a \in Addr, neigh_timer_handler(n, a)
      PROVE  NdiscInv'
  BY <1>2, TimerInv
<1>3. ASSUME NEW n \in Node, NEW a \in Addr, neigh_periodic_work(n, a)
      PROVE  NdiscInv'
  <2>1. Truthful(World) /\ UNCHANGED <<owner, moves, had>>
    BY <1>3 DEF NdiscInv, neigh_periodic_work
  <2>2. NoEntry \in Entry /\ TruthfulEntry(n, a, NoEntry)
    BY DEF NoEntry, Entry, TruthfulEntry, Valid, Nud
  <2>3. Becomes([World EXCEPT !.cache[n][a] = NoEntry])
    BY <1>3 DEF neigh_periodic_work, Becomes, World
  <2> QED
    BY <2>1, <2>2, <2>3, SetEntry, BecomesInv
<1>4. ASSUME NEW f \in Flows, Traffic(f[1], f[2])
      PROVE  NdiscInv'
  <2>1. f[1] \in Node /\ f[2] \in Addr
    OBVIOUS
  <2>2. Truthful(nip_output(World, f[1], f[2], "data"))
    BY <2>1, OutputTruthful DEF NdiscInv
  <2> QED
    BY <1>4, <2>2, BecomesInv DEF Traffic
<1>5. ASSUME NEW a \in Mobile, AddrDel(a) \/ \E n \in Node : AddrAdd(a, n)
      PROVE  NdiscInv'
  BY <1>5, MoveInv
<1>6. CASE UNCHANGED vars
  BY <1>6 DEF vars, NdiscInv, OwnersRecorded, Truthful, World, TruthfulFrame, TruthfulEntry
<1> QED
  BY <1>1, <1>2, <1>3, <1>4, <1>5, <1>6 DEF Next

\* Whatever the link loses, delays or damages and however addresses move, a valid
\* entry holds the MAC of a node that has or had the address.
THEOREM MacOfAnOwner == Spec => []MacWasOwner
<1>1. NdiscInv => MacWasOwner
  BY DEF NdiscInv, Truthful, TruthfulEntry, World, MacWasOwner
<1> QED
  BY NdiscInit, NdiscStep, <1>1, PTL DEF Spec
=============================================================================
