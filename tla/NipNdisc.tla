------------------------------ MODULE NipNdisc ------------------------------
(***************************************************************************)
(* Neighbour discovery on one link: nndisc.c, icmp.c, nip_output.          *)
(*                                                                         *)
(* Every node keeps an entry per address it talks to, whose states and     *)
(* timer are those of the kernel's neighbour core (external).  NewIP gives *)
(* it the solicitation, which is always broadcast, and updates it from the *)
(* solicitations and advertisements it receives.  Frames are lost, delayed *)
(* past one another and corrupted, and addresses move between nodes.       *)
(***************************************************************************)
EXTENDS Integers, FiniteSets

CONSTANTS
  Node,       \* devices on the link, which also stand for their MAC addresses
  Addr,       \* NewIP addresses
  Start,      \* Addr -> the node it is configured on at first
  Flows,      \* pairs of a node and the address it keeps sending to
  Mobile,     \* the addresses that are removed and configured again
  NONE,       \* no node
  Probes,     \* bound: solicitations before an entry fails (NIP_NEIGH_*_PROBES)
  MaxMoves,   \* bound: how often an address is configured
  MaxNet      \* bound: frames on the link, more are lost

ASSUME NdiscAssumption ==
  /\ Start \in [Addr -> Node] /\ Flows \subseteq Node \X Addr /\ Mobile \subseteq Addr
  /\ NONE \notin Node
  /\ Probes \in Nat \ {0} /\ MaxMoves \in Nat /\ MaxNet \in Nat

VARIABLES
  owner,   \* Addr -> the node in whose idev->addr_list it is
  cache,   \* Node -> Addr -> nud_state, ha, probes and arp_queue of the entry
  net,     \* frames on the link
  moves,   \* addresses configured so far
  had      \* Addr -> the nodes that have had it (history)

vars == <<owner, cache, net, moves, had>>

Valid == {"reachable", "stale", "delay", "probe"}

\* No entry.
NoEntry == [nud |-> "none", ha |-> NONE, probes |-> 0, q |-> {}]

Init ==
  /\ owner = Start
  /\ cache = [n \in Node |-> [a \in Addr |-> NoEntry]]
  /\ net   = {}
  /\ moves = 0
  /\ had   = [a \in Addr |-> {Start[a]}]

-----------------------------------------------------------------------------
(* Sending.  W is a record of cache and net that a handler passes on.      *)

World == [cache |-> cache, net |-> net]
Becomes(W) == cache' = W.cache /\ net' = W.net

\* dst_output to the link: frames that find no memory are dropped.
Emit(W, S) ==
  IF Cardinality(W.net \cup S) > MaxNet THEN W ELSE [W EXCEPT !.net = @ \cup S]

\* nip_addr_local.
nip_addr_local(n, a) == owner[a] = n

\* nndisc_send_ns: the entry of the broadcast address is NUD_NOARP from
\* nndisc_constructor on, so the frame goes out at once and to all nodes.
nndisc_send_ns(n, target, s) ==
  {[type |-> "ns", to |-> m, eth |-> n, src |-> s, dst |-> NONE, target |-> target,
    lladdr |-> NONE, ok |-> TRUE] : m \in Node \ {n}}

\* nndisc_solicit: one solicitation from each address of the device, or none.
nndisc_solicit(W, n, target) ==
  Emit(W, UNION {nndisc_send_ns(n, target, s) : s \in {b \in Addr : owner[b] = n}})

\* An advertisement of address s by n, on its way to address d and MAC m.
NaFrame(n, s, d, m) ==
  [type |-> "na", to |-> m, eth |-> n, src |-> s, dst |-> d, target |-> NONE,
   lladdr |-> n, ok |-> TRUE]

\* neigh_connected_output of the packet p to address d: a packet of the flow leaves
\* the model, an advertisement of p goes to MAC m.
Xmit(W, n, d, m, p) == IF p = "data" THEN W ELSE Emit(W, {NaFrame(n, p, d, m)})

\* neigh_output of the neighbour core, called by nip_output.  A stale entry is used
\* and will be verified; without a valid entry the packet waits for the answer.
nip_output(W, n, d, p) ==
  LET e == W.cache[n][d] IN
  CASE e.nud \in Valid ->
         Xmit([W EXCEPT !.cache[n][d].nud = IF @ = "stale" THEN "delay" ELSE @],
              n, d, e.ha, p)
    [] e.nud = "incomplete" -> [W EXCEPT !.cache[n][d].q = @ \cup {p}]
    [] OTHER -> nndisc_solicit([W EXCEPT !.cache[n][d] =
                                  [NoEntry EXCEPT !.nud = "incomplete", !.probes = 1,
                                                  !.q = {p}]], n, d)

\* neigh_update with NEIGH_UPDATE_F_OVERRIDE.  What waited is sent.
neigh_update(W, n, a, ha, nud) ==
  LET e == W.cache[n][a]
      same == e.nud \in Valid /\ e.ha = ha /\ nud = "stale"
      V == [W EXCEPT !.cache[n][a] =
              [nud |-> IF same THEN e.nud ELSE nud, ha |-> ha,
               probes |-> IF same THEN e.probes ELSE 0, q |-> {}]]
  IN  Emit(V, {NaFrame(n, p, a, ha) : p \in e.q \ {"data"}})

-----------------------------------------------------------------------------
(* Receiving.                                                              *)

Taken(m) == [World EXCEPT !.net = @ \ {m}]

\* nndisc_send_na: the advertisement of target goes to the solicitor like any packet.
nndisc_send_na(W, n, d, target) == nip_output(W, n, d, target)

\* Mutant: the solicitation is answered for addresses of other nodes too.
rcv_ns_any(m) ==
  IF m.ok
    THEN Becomes(nndisc_send_na(neigh_update(Taken(m), m.to, m.src, m.eth, "stale"),
                                m.to, m.src, m.target))
    ELSE Becomes(Taken(m))

\* nndisc_rcv_ns: for an address of the device, with a correct checksum.  The entry
\* of the sender is made or updated, unless there is no memory for it.
nndisc_rcv_ns(m) ==
  IF nip_addr_local(m.to, m.target) /\ m.ok
    THEN \/ Becomes(nndisc_send_na(neigh_update(Taken(m), m.to, m.src, m.eth, "stale"),
                                   m.to, m.src, m.target))
         \/ /\ cache[m.to][m.src].nud = "none"
            /\ Becomes(nndisc_send_na(Taken(m), m.to, m.src, m.target))
    ELSE Becomes(Taken(m))

\* Mutant: the checksum is not verified.
rcv_na_unchecked(m) ==
  IF cache[m.to][m.src].nud # "none"
    THEN Becomes(neigh_update(Taken(m), m.to, m.src, m.lladdr, "reachable"))
    ELSE Becomes(Taken(m))

\* nndisc_rcv_na: only an entry that exists is updated.
nndisc_rcv_na(m) ==
  IF m.ok /\ cache[m.to][m.src].nud # "none"
    THEN Becomes(neigh_update(Taken(m), m.to, m.src, m.lladdr, "reachable"))
    ELSE Becomes(Taken(m))

\* nip_rcv to nip_icmp_rcv and nndisc_rcv: a solicitation is broadcast, an
\* advertisement must be for an address of this node.
nip_icmp_rcv(m) ==
  /\ \/ m.type = "ns" /\ nndisc_rcv_ns(m)
     \/ m.type = "na" /\ nip_addr_local(m.to, m.dst) /\ nndisc_rcv_na(m)
     \/ m.type = "na" /\ ~nip_addr_local(m.to, m.dst) /\ Becomes(Taken(m))
  /\ UNCHANGED <<owner, moves, had>>

-----------------------------------------------------------------------------
(* The neighbour core.                                                     *)

\* neigh_timer_handler.  Packets that wait for an entry that fails are freed by
\* nndisc_error_report.
neigh_timer_handler(n, a) ==
  LET e == cache[n][a]
      Set(f) == [World EXCEPT !.cache[n][a] = f]
  IN  /\ \/ /\ e.nud = "reachable"
            /\ Becomes(Set([e EXCEPT !.nud = "stale"]))
         \/ /\ e.nud = "delay"
            /\ Becomes(nndisc_solicit(Set([e EXCEPT !.nud = "probe", !.probes = 1]), n, a))
         \/ /\ e.nud \in {"incomplete", "probe"} /\ e.probes < Probes
            /\ Becomes(nndisc_solicit(Set([e EXCEPT !.probes = @ + 1]), n, a))
         \/ /\ e.nud \in {"incomplete", "probe"} /\ e.probes >= Probes
            /\ Becomes(Set([NoEntry EXCEPT !.nud = "failed"]))
      /\ UNCHANGED <<owner, moves, had>>

\* neigh_periodic_work frees an entry that is not used.
neigh_periodic_work(n, a) ==
  /\ cache[n][a].nud \in {"stale", "failed"}
  /\ cache' = [cache EXCEPT ![n][a] = NoEntry]
  /\ UNCHANGED <<owner, net, moves, had>>

-----------------------------------------------------------------------------
(* The environment.                                                        *)

\* A node sends a packet of a flow.
Traffic(n, a) ==
  /\ Becomes(nip_output(World, n, a, "data"))
  /\ UNCHANGED <<owner, moves, had>>

Lose(m) ==
  /\ net' = net \ {m}
  /\ UNCHANGED <<owner, cache, moves, had>>

\* The MAC in an advertisement or the source address of a solicitation is damaged;
\* the checksum covers both.
Corrupt(m) ==
  /\ m.ok
  /\ \E w \in IF m.type = "na" THEN {[m EXCEPT !.lladdr = l] : l \in Node \ {m.lladdr}}
                               ELSE {[m EXCEPT !.src = s] : s \in Addr \ {m.src}} :
       net' = (net \ {m}) \cup {[w EXCEPT !.ok = FALSE]}
  /\ UNCHANGED <<owner, cache, moves, had>>

\* ninet_addr_del and ninet_addr_add: an address is on one node at a time, and not
\* on one that sends to it through the link.
AddrDel(a) ==
  /\ owner[a] # NONE /\ moves < MaxMoves
  /\ owner' = [owner EXCEPT ![a] = NONE]
  /\ UNCHANGED <<cache, net, moves, had>>

AddrAdd(a, n) ==
  /\ owner[a] = NONE /\ moves < MaxMoves /\ <<n, a>> \notin Flows
  /\ owner' = [owner EXCEPT ![a] = n]
  /\ had'   = [had EXCEPT ![a] = @ \cup {n}]
  /\ moves' = moves + 1
  /\ UNCHANGED <<cache, net>>

Next ==
  \/ \E m \in net : nip_icmp_rcv(m) \/ Lose(m) \/ Corrupt(m)
  \/ \E n \in Node, a \in Addr : neigh_timer_handler(n, a) \/ neigh_periodic_work(n, a)
  \/ \E f \in Flows : Traffic(f[1], f[2])
  \/ \E a \in Mobile : AddrDel(a) \/ \E n \in Node : AddrAdd(a, n)

\* Timers expire and the flows go on.  Nothing is assumed of the link.
Fairness ==
  /\ \A n \in Node, a \in Addr : WF_vars(neigh_timer_handler(n, a))
  /\ \A f \in Flows : WF_vars(Traffic(f[1], f[2]))

Spec == Init /\ [][Next]_vars /\ Fairness

-----------------------------------------------------------------------------
(* Properties.                                                             *)

\* A valid entry has the MAC of a node that has, or once had, the address: whatever
\* is lost, late or damaged, nndisc_rcv_ns and nndisc_rcv_na take a MAC only from a
\* node that spoke for its own address.
MacWasOwner ==
  \A n \in Node, a \in Addr : cache[n][a].nud \in Valid => cache[n][a].ha \in had[a]

\* When addresses have stopped moving, a node that keeps sending to an address ends
\* up never using the MAC of a node that no longer has it, although advertisements
\* of the old owner may arrive after those of the new one.
StaleHealed ==
  \A f \in Flows :
    <>[](cache[f[1]][f[2]].nud \in Valid => cache[f[1]][f[2]].ha = owner[f[2]])
=============================================================================
