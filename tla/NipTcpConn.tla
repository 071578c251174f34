----------------------------- MODULE NipTcpConn -----------------------------
(***************************************************************************)
(* Opening and closing a NewIP TCP connection (tcp_nip.c, tcp_nip_input.c, *)
(* tcp_nip_output.c, tcp_nip_timer.c, ninet_connection_sock.c): the        *)
(* handshake with its request and timer, data just enough to tell a clean  *)
(* close from an aborted one, shutdown, close, disconnect, resets, and the *)
(* keepalive timer that stands in for TIME_WAIT.                           *)
(*                                                                         *)
(* "C" connects once to a port on which "S" listens.  A segment stays on   *)
(* the wire until it is lost: it may be delayed, reordered or delivered    *)
(* several times.  A unit of data is a segment; delayed acknowledgements   *)
(* (NipTcpRecv) are sent at once here, the send window (NipTcpSend) is     *)
(* open, and SO_KEEPALIVE is off.                                          *)
(***************************************************************************)
EXTENDS Integers, FiniteSets, Sequences, Bags

CONSTANTS
  Data,            \* Data[e]: the units end e may send
  Halves,          \* bound: the ends whose application also calls shutdown and disconnect
  Retries,         \* sysctl_tcp_retries2, tcp_syn_retries and the retries of an orphan
  SynackRetries,   \* sysctl_tcp_synack_retries
  MaxReq,          \* bound: requests the listener ever makes
  MaxBacklog,      \* bound: segments on the backlog of an owned socket
  MaxNet,          \* bound: segments on the wire; when more are sent, some are lost
  Handlers         \* bound: softirq handlers that hold a listener or request at once

ASSUME ConnAssumption ==
  /\ Data \in [{"C", "S"} -> Nat]
  /\ Retries \in Nat /\ SynackRetries \in Nat /\ MaxReq \in Nat /\ MaxBacklog \in Nat
  /\ MaxNet \in Nat /\ Handlers \in Nat /\ Halves \subseteq {"C", "S"}
  /\ \A e \in {"C", "S"} : Data[e] <= 3

VARIABLES
  sk,       \* sk[e]: the socket of the client, and the child of the listener
  listen,   \* the listener is in TCP_LISTEN
  reqs,     \* the requests in the ehash table: their generation and num_timeout
  gen,      \* requests made so far
  child,    \* the request the child was made from, and the requests made before the child
  queued,   \* the child is on the accept queue
  found,    \* bag: what each handler has found in its lookup, with the segment
  net       \* segments on the wire

vars == <<sk, listen, reqs, gen, child, queued, found, net>>

Ends    == {"C", "S"}
Peer(e) == IF e = "C" THEN "S" ELSE "C"

\* Initial sequence numbers are far apart: secure_tcp_nip_sequence_number is clocked.
Isn(g)  == 10 * g
Window  == 5

\* What a handler of the server holds between its lookup and the handling: the listener
\* and a SYN (all SYNs of the client are the same), or a request and a segment.
Listener == [at |-> "listener"]
AtRequest(g, m) == [at |-> "request", g |-> g, m |-> m]

NoChild == [g |-> 0, made |-> 0]

Msg(e, flags, seq, end, ack) ==
  [src |-> e, flags |-> flags, seq |-> seq, end |-> end, ack |-> ack]

Has(m, f) == f \in m.flags

\* A socket in TCP_CLOSE as tcp_nip_init_sock leaves it.
Fresh ==
  [st |-> "CLOSE", una |-> 0, nxt |-> 0, fin |-> FALSE, rcv |-> 0, ofo |-> {}, unread |-> 0,
   rshut |-> FALSE, sshut |-> FALSE, rtx |-> 0, ka |-> FALSE,
   dead |-> FALSE, destroyed |-> 0, phase |-> "none", closed |-> FALSE, backlog |-> <<>>]

\* tcp_set_state puts a socket in TCP_CLOSE out of the ehash table.
Hashed(s) == s.st # "CLOSE"

-----------------------------------------------------------------------------
(* What is sent.  Handlers return the socket and the segments.             *)

Result(s, out) == [s |-> s, out |-> out]

\* __tcp_nip_send_ack
Ack(e, s) == IF s.st = "CLOSE" THEN {} ELSE {Msg(e, {"ACK"}, s.nxt, s.nxt, s.rcv)}

\* tcp_nip_send_active_reset; never retransmitted.
ActiveReset(e, s) == {Msg(e, {"ACK", "RST"}, s.nxt, s.nxt, s.rcv)}

\* tcp_nip_send_reset when no socket was found.
Reset(e, m) ==
  IF Has(m, "RST") THEN {}
  ELSE {IF Has(m, "ACK") THEN Msg(e, {"RST"}, m.ack, m.ack, 0)
        ELSE Msg(e, {"RST", "ACK"}, 0, 0, m.end)}

\* The head of the write queue.
Head1(e, s) ==
  CASE s.st = "SYN_SENT" -> Msg(e, {"SYN"}, s.una, s.una + 1, 0)
    [] s.st # "SYN_SENT" /\ s.fin /\ s.una = s.nxt - 1 ->
         Msg(e, {"ACK", "FIN"}, s.una, s.nxt, s.rcv)
    [] OTHER -> Msg(e, {"ACK"}, s.una, s.una + 1, s.rcv)

\* tcp_nip_send_fin: the window is open, so the FIN is a segment of its own.
SendFin(e, s) ==
  Result([s EXCEPT !.fin = TRUE, !.nxt = @ + 1],
         {Msg(e, {"ACK", "FIN"}, s.nxt, s.nxt + 1, s.rcv)})

-----------------------------------------------------------------------------
(* The end of a socket.                                                    *)

\* sk_prot->destroy, the queues and the last reference: nothing of the socket is left but
\* the call of tcp_nip_close that may still be in progress.
Destroy(s) ==
  [Fresh EXCEPT !.dead = TRUE, !.destroyed = s.destroyed + 1,
                !.phase = s.phase, !.closed = s.closed, !.backlog = s.backlog]

\* A connection is over and its socket still open: the timers are cleared, and none of its
\* numbers is used again.
Closed(shut) == [Fresh EXCEPT !.una = 1, !.nxt = 1, !.rshut = shut, !.sshut = shut]

\* tcp_nip_done, also by way of tcp_nip_reset and tcp_nip_write_err: an orphan is destroyed.
tcp_nip_done(s) == IF s.dead THEN Destroy(s) ELSE Closed(TRUE)

\* The table new_state and tcp_nip_close_state.
new_state(st) ==
  CASE st \in {"ESTABLISHED", "SYN_RECV"} -> [st |-> "FIN_WAIT1", fin |-> TRUE]
    [] st = "CLOSE_WAIT"                  -> [st |-> "LAST_ACK",  fin |-> TRUE]
    [] st \in {"SYN_SENT", "CLOSE"}       -> [st |-> "CLOSE",     fin |-> FALSE]
    [] OTHER                              -> [st |-> st,          fin |-> FALSE]

CloseState(e, s) ==
  LET to == new_state(s.st)
      u  == [s EXCEPT !.st = to.st]
  IN IF to.fin THEN SendFin(e, u)
     ELSE Result(IF to.st = "CLOSE" THEN Closed(s.rshut) ELSE u, {})

-----------------------------------------------------------------------------
(* Segments received.                                                      *)

\* tcp_nip_fin
tcp_nip_fin(s) ==
  [s EXCEPT !.rshut = TRUE,
            !.st = CASE s.st \in {"SYN_RECV", "ESTABLISHED"} -> "CLOSE_WAIT"
                     [] s.st = "FIN_WAIT1" -> "CLOSING"
                     [] OTHER -> s.st,
            !.ka = @ \/ s.st = "FIN_WAIT2"]

\* tcp_nip_data_queue: what continues the stream is taken, with what waits behind it in the
\* out-of-order queue; what lies ahead waits.
DataQueue(e, s, m) ==
  LET wait == s.ofo \cup {m}
      upto == CHOOSE k \in s.rcv .. s.rcv + Window :
                /\ \A j \in s.rcv .. k - 1 : \E w \in wait : w.seq = j
                /\ \A w \in wait : w.seq # k
      eaten == {w \in wait : w.seq < upto}
      t    == [s EXCEPT !.rcv = upto, !.ofo = wait \ eaten,
                        !.unread = @ + Cardinality({w \in eaten : ~Has(w, "FIN")})]
      u    == IF \E w \in eaten : Has(w, "FIN") THEN tcp_nip_fin(t) ELSE t
  IN CASE m.seq = m.end -> Result(s, {})
       [] m.seq # m.end /\ m.end <= s.rcv -> Result(s, Ack(e, s))
       [] OTHER -> Result(u, Ack(e, u))

\* tcp_nip_ack: whether the acknowledgement is old (0), for something unsent (-1) or good.
AckValue(s, m) == IF m.ack < s.una THEN 0 ELSE IF m.ack > s.nxt THEN -1 ELSE 1

Acked(s, m) ==
  IF AckValue(s, m) = 1 /\ m.ack > s.una THEN [s EXCEPT !.una = m.ack, !.rtx = 0] ELSE s

\* tcp_nip_sequence; everything received has been acknowledged: rcv_wup = rcv_nxt.
tcp_nip_sequence(s, m) == m.end >= s.rcv /\ m.seq <= s.rcv + Window

\* tcp_nip_reset_check
tcp_nip_reset_check(s, m) ==
  m.seq = s.rcv - 1 /\ s.st \in {"CLOSE_WAIT", "LAST_ACK", "CLOSING"}

\* tcp_nip_validate_incoming: what becomes of a segment that is refused or a reset.
Invalid(s, m) == ~tcp_nip_sequence(s, m) \/ Has(m, "RST")

Refuse(e, s, m) ==
  IF ~Has(m, "RST") THEN Result(s, Ack(e, s))
  ELSE IF tcp_nip_reset_check(s, m) \/ (tcp_nip_sequence(s, m) /\ m.seq = s.rcv)
    THEN Result(tcp_nip_done(s), {})
  ELSE Result(s, {})

\* tcp_nip_rcv_established
RcvEstablished(e, s, m) ==
  IF Invalid(s, m) THEN Refuse(e, s, m)
  ELSE IF AckValue(s, m) < 0 THEN Result(s, {})
  ELSE DataQueue(e, Acked(s, m), m)

\* tcp_nip_rcv_synsent_state_process
RcvSynSent(e, s, m) ==
  LET u == [s EXCEPT !.st = "ESTABLISHED", !.una = m.ack, !.rtx = 0, !.rcv = m.seq + 1]
  IN IF ~Has(m, "ACK") \/ m.ack <= s.una \/ m.ack > s.nxt THEN Result(s, {})
     ELSE IF Has(m, "RST") THEN Result(tcp_nip_done(s), {})
     ELSE IF ~Has(m, "SYN") THEN Result(s, {})
     ELSE Result(u, Ack(e, u))

\* Units of m that are not in sequence space yet, its FIN apart.
NewData(s, m) == m.end # m.seq /\ m.end - (IF Has(m, "FIN") THEN 1 ELSE 0) > s.rcv

\* The first switch of tcp_nip_rcv_state_process: what the acknowledgement does.
AckStep(s, m) ==
  LET all == s.una = s.nxt
  IN CASE s.st = "SYN_RECV" -> [s EXCEPT !.st = "ESTABLISHED", !.una = m.ack]
       [] s.st = "FIN_WAIT1" /\ all ->
            IF NewData(s, m) THEN tcp_nip_done([s EXCEPT !.st = "FIN_WAIT2"])
            ELSE [s EXCEPT !.st = "FIN_WAIT2", !.sshut = TRUE, !.ka = TRUE]
       [] s.st = "CLOSING" /\ all  -> [s EXCEPT !.ka = TRUE]
       [] s.st = "LAST_ACK" /\ all -> tcp_nip_done(s)
       [] OTHER -> s

\* tcp_nip_rcv_state_process from SYN_RECV on.  tcp_nip_ack returns -1 for something unsent,
\* which the bool it is stored in takes for acceptable.
RcvStateProcess(e, s, m) ==
  LET t == Acked(s, m)
      u == AckStep(t, m)
  IN IF m.flags \cap {"ACK", "RST", "SYN"} = {} THEN Result(s, {})
     ELSE IF Invalid(s, m) THEN Refuse(e, s, m)
     ELSE IF AckValue(s, m) = 0 THEN Result(s, {})
     ELSE IF u.st = "CLOSE" \/ (s.st = "CLOSING" /\ t.una = t.nxt) THEN Result(u, {})
     ELSE IF u.st \in {"CLOSE_WAIT", "CLOSING", "LAST_ACK"} /\ m.seq >= u.rcv THEN Result(u, {})
     ELSE IF u.st # "ESTABLISHED" /\ u.rshut /\ NewData(u, m) THEN Result(tcp_nip_done(u), {})
     ELSE DataQueue(e, u, m)

\* tcp_nip_do_rcv
DoRcv(e, s, m) ==
  CASE s.st = "CLOSE"       -> Result(s, {})
    [] s.st = "SYN_SENT"    -> RcvSynSent(e, s, m)
    [] s.st = "ESTABLISHED" -> RcvEstablished(e, s, m)
    [] OTHER                -> RcvStateProcess(e, s, m)

-----------------------------------------------------------------------------
Init ==
  /\ sk = [e \in Ends |-> Fresh]
  /\ listen = TRUE
  /\ reqs = {}
  /\ gen = 0
  /\ child = NoChild
  /\ queued = FALSE
  /\ found = EmptyBag
  /\ net = {}

\* What does not fit on the wire displaces something, or is lost itself.
Transmit(out) ==
  LET all == net \cup out
  IN net' \in IF Cardinality(all) <= MaxNet THEN {all}
              ELSE {n \in SUBSET all : Cardinality(n) = MaxNet}

Apply(e, r) == sk' = [sk EXCEPT ![e] = r.s] /\ Transmit(r.out)

Server == <<listen, reqs, gen, child, queued, found>>

\* A call of the application: the socket is open and not in another call.
User(e) == ~sk[e].dead /\ (e = "S" => sk[e].nxt # 0 /\ ~queued)

\* __tcp_nip_connect and tcp_nip_connect_init: the SYN is queued, sent and timed.
SendSyn(e, s) ==
  LET u == [s EXCEPT !.st = "SYN_SENT", !.nxt = s.una + 1]
  IN Result(u, {Head1(e, u)})

\* tcp_nip_connect
Connect ==
  /\ sk["C"] = Fresh
  /\ Apply("C", SendSyn("C", sk["C"]))
  /\ UNCHANGED Server

\* tcp_nip_sendmsg of one unit.
Send(e) ==
  LET s    == sk[e]
      sent == s.nxt - (IF e = "S" THEN Isn(child.g) ELSE 0) - 1
  IN /\ User(e) /\ s.st \in {"ESTABLISHED", "CLOSE_WAIT"} /\ ~s.sshut /\ sent < Data[e]
     /\ Apply(e, Result([s EXCEPT !.nxt = @ + 1],
                        {Msg(e, {"ACK"}, s.nxt, s.nxt + 1, s.rcv)}))
     /\ UNCHANGED Server

\* tcp_nip_recvmsg takes what is there.
Read(e) ==
  /\ User(e) /\ sk[e].unread > 0
  /\ sk' = [sk EXCEPT ![e].unread = 0]
  /\ UNCHANGED <<Server, net>>

\* tcp_nip_shutdown(SEND_SHUTDOWN)
Shutdown(e) ==
  /\ User(e) /\ e \in Halves /\ ~sk[e].sshut
  /\ sk[e].st \in {"ESTABLISHED", "SYN_SENT", "SYN_RECV", "CLOSE_WAIT"}
  /\ Apply(e, CloseState(e, [sk[e] EXCEPT !.sshut = TRUE]))
  /\ UNCHANGED Server

\* The body of tcp_nip_close: unread data aborts the connection.
CloseBody(e, s) ==
  IF s.st = "CLOSE" THEN Result(s, {})
  ELSE IF s.unread > 0 THEN Result(Closed(TRUE), ActiveReset(e, s))
  ELSE CloseState(e, s)

\* tcp_nip_close up to sock_orphan: the socket is owned, its segments go to the backlog.
Close(e) ==
  LET r == CloseBody(e, [sk[e] EXCEPT !.rshut = TRUE, !.sshut = TRUE])
  IN /\ User(e)
     /\ Apply(e, Result([r.s EXCEPT !.unread = 0, !.dead = TRUE, !.phase = "owned",
                                    !.closed = r.s.st = "CLOSE"], r.out))
     /\ UNCHANGED Server

\* Its release_sock: the backlog is processed, segments that arrive meanwhile included.
CloseBacklog(e) ==
  LET s == [sk[e] EXCEPT !.backlog = Tail(@)]
  IN /\ sk[e].phase = "owned" /\ sk[e].backlog # <<>>
     /\ Apply(e, DoRcv(e, s, Head(sk[e].backlog)))
     /\ UNCHANGED Server

CloseRelease(e) ==
  /\ sk[e].phase = "owned" /\ sk[e].backlog = <<>>
  /\ sk' = [sk EXCEPT ![e].phase = "judge"]
  /\ UNCHANGED <<Server, net>>

\* Mutant: a socket that tcp_nip_done has destroyed is destroyed again.
judge_twice(s) ==
  LET t == IF s.st = "CLOSE" THEN Destroy(s) ELSE s
  IN [t EXCEPT !.phase = "done", !.closed = FALSE]

\* The rest of tcp_nip_close: a socket in TCP_CLOSE is destroyed, unless it went there after
\* the decision, when tcp_nip_done has destroyed the orphan.
Judge(s) ==
  LET t == IF s.st = "CLOSE" /\ s.closed THEN Destroy(s) ELSE s
  IN [t EXCEPT !.phase = "done", !.closed = FALSE]

CloseJudge(e) ==
  /\ sk[e].phase = "judge"
  /\ sk' = [sk EXCEPT ![e] = Judge(@)]
  /\ UNCHANGED <<Server, net>>

\* tcp_nip_disconnect of a socket that is not listening.
Disconnected(e, s) ==
  LET abort == s.st \in {"ESTABLISHED", "CLOSE_WAIT", "FIN_WAIT1", "FIN_WAIT2", "SYN_RECV"}
  IN Result(Closed(FALSE), IF abort THEN ActiveReset(e, s) ELSE {})

Disconnect(e) ==
  /\ User(e) /\ e \in Halves /\ Hashed(sk[e])
  /\ Apply(e, Disconnected(e, sk[e]))
  /\ UNCHANGED Server

-----------------------------------------------------------------------------
(* Timers.                                                                 *)

\* tcp_nip_retransmit_timer and tcp_nip_write_timeout.  A timer that finds the socket owned is
\* deferred to the release, which comes to the same as firing after it.
RetransmitTimer(e) ==
  LET s == sk[e]
  IN /\ Hashed(s) /\ s.una < s.nxt /\ s.phase # "owned"
     /\ Apply(e, IF s.rtx > Retries THEN Result(tcp_nip_done(s), {})
                 ELSE Result([s EXCEPT !.rtx = @ + 1], {Head1(e, s)}))
     /\ UNCHANGED Server

\* Mutant: a timer that finds the socket owned is lost.
keepalive_lost(s) ==
  IF s.phase = "owned" THEN [s EXCEPT !.ka = FALSE]
  ELSE IF s.st \in {"FIN_WAIT2", "CLOSING"} /\ s.dead THEN tcp_nip_done(s)
  ELSE [s EXCEPT !.ka = FALSE]

\* tcp_nip_keepalive_timer without SO_KEEPALIVE: an owned socket is tried again later, an
\* orphan in FIN_WAIT2 or CLOSING is done, any other is left without a timer.
KeepaliveExpired(s) ==
  IF s.phase = "owned" THEN s
  ELSE IF s.st \in {"FIN_WAIT2", "CLOSING"} /\ s.dead THEN tcp_nip_done(s)
  ELSE [s EXCEPT !.ka = FALSE]

KeepaliveTimer(e) ==
  /\ sk[e].ka
  /\ sk' = [sk EXCEPT ![e] = KeepaliveExpired(@)]
  /\ UNCHANGED <<Server, net>>

-----------------------------------------------------------------------------
(* The server side of the handshake.                                       *)

\* tcp_nip_make_synack
Synack(g) == Msg("S", {"SYN", "ACK"}, Isn(g), Isn(g) + 1, 1)

\* ninet_reqsk_alloc and tcp_nip_openreq_init
Request(g) == [g |-> g, timeout |-> 0]

\* A handler takes up what it has found, or has dealt with it.
Hold(f)    == BagCardinality(found) < Handlers /\ found' = found (+) SetToBag({f})
Release(f) == BagIn(f, found) /\ found' = found (-) SetToBag({f})

\* tcp_nip_rcv finds the listener.  A segment that does not ask for a connection is
\* discarded (TCP_LISTEN in tcp_nip_rcv_state_process).
FindListener(m) ==
  /\ Has(m, "SYN") /\ m.flags \cap {"ACK", "RST", "FIN"} = {}
  /\ Hold(Listener)
  /\ UNCHANGED <<sk, listen, reqs, gen, child, queued, net>>

\* tcp_nip_conn_request, without the lock of the listener: a request with its timer enters
\* the ehash table, whatever has entered it since the lookup.  A full queue drops the SYN.
ConnRequest ==
  /\ Release(Listener)
  /\ IF listen /\ gen < MaxReq
       THEN /\ gen' = gen + 1
            /\ reqs' = reqs \cup {Request(gen + 1)}
            /\ Transmit({Synack(gen + 1)})
       ELSE UNCHANGED <<reqs, gen, net>>
  /\ UNCHANGED <<sk, listen, child, queued>>

\* ninet_reqsk_timer_handler
RequestTimer(g) ==
  /\ \E r \in reqs :
       /\ r.g = g
       /\ IF r.timeout <= SynackRetries
            THEN /\ reqs' = (reqs \ {r}) \cup {[r EXCEPT !.timeout = @ + 1]}
                 /\ Transmit({Synack(g)})
            ELSE reqs' = reqs \ {r} /\ UNCHANGED net
  /\ UNCHANGED <<sk, listen, gen, child, queued, found>>

\* Mutant: the acknowledgement number is not compared.
check_req_any(m, g) == Has(m, "ACK")

\* tcp_nip_check_req: only an acknowledgement of the SYN+ACK makes a child, RST or not.
check_req(m, g) == Has(m, "ACK") /\ m.ack = Isn(g) + 1

\* tcp_nip_rcv finds a request and checks the segment.
FindRequest(m, g) ==
  /\ check_req(m, g)
  /\ Hold(AtRequest(g, m))
  /\ UNCHANGED <<sk, listen, reqs, gen, child, queued, net>>

\* Mutant: the child is kept whoever owns the request.
own_always(g) == TRUE

\* inet_ehash_nolisten: the child replaces the request only if it is still in the table.
own_req(g) == \E r \in reqs : r.g = g

\* tcp_nip_create_openreq_child
Child(g) == [Fresh EXCEPT !.st = "SYN_RECV", !.una = Isn(g) + 1, !.nxt = Isn(g) + 1, !.rcv = 1]

\* The rest of tcp_nip_check_req, and tcp_nip_child_process.  A child of a listener that
\* has been closed is disconnected at once.
MakeChild(g, m) ==
  /\ Release(AtRequest(g, m))
  /\ IF own_req(g) /\ listen
       THEN /\ Apply("S", RcvStateProcess("S", Child(g), m))
            /\ child' = [g |-> g, made |-> gen]
            /\ queued' = TRUE
       ELSE /\ IF own_req(g) THEN Transmit(ActiveReset("S", Child(g))) ELSE UNCHANGED net
            /\ UNCHANGED <<sk, child, queued>>
  /\ reqs' = {r \in reqs : r.g # g}
  /\ UNCHANGED <<listen, gen>>

\* ninet_csk_accept
Accept == queued /\ queued' = FALSE /\ UNCHANGED <<sk, listen, reqs, gen, child, found, net>>

\* tcp_nip_close of the listener: a child nobody accepted is disconnected and destroyed.
\* Bound: not while the application has the child.
ListenClose ==
  /\ listen /\ (queued \/ sk["S"].nxt = 0)
  /\ listen' = FALSE /\ queued' = FALSE
  /\ IF queued
       THEN LET r == Disconnected("S", sk["S"])
            IN Apply("S", Result([Destroy(r.s) EXCEPT !.phase = "done"], r.out))
       ELSE UNCHANGED <<sk, net>>
  /\ UNCHANGED <<reqs, gen, child, found>>

Lose(m) == net' = net \ {m} /\ UNCHANGED <<sk, Server>>

\* __ninet_lookup_established walks a chain that inet_ehash_insert extends at its head: it
\* meets what was inserted last.
SocketMet(e)  == Hashed(sk[e]) /\ (e = "S" => \A r \in reqs : r.g <= child.made)
RequestMet(r) == (\A q \in reqs : q.g <= r.g) /\ (Hashed(sk["S"]) => r.g > child.made)
NoneMet(e)    == ~Hashed(sk[e]) /\ (e = "S" => reqs = {})

\* tcp_nip_rcv: the lookup finds the connection or a request, else the listener.
Rcv(m) ==
  LET e == Peer(m.src)
      s == sk[e]
  IN \/ /\ SocketMet(e) /\ s.phase # "owned"
        /\ Apply(e, DoRcv(e, s, m))
        /\ UNCHANGED Server
     \/ /\ SocketMet(e) /\ s.phase = "owned" /\ Len(s.backlog) < MaxBacklog
        /\ sk' = [sk EXCEPT ![e].backlog = Append(@, m)]
        /\ UNCHANGED <<Server, net>>
     \/ /\ e = "S"
        /\ \E r \in reqs : RequestMet(r) /\ FindRequest(m, r.g)
     \/ /\ e = "S" /\ NoneMet(e) /\ listen
        /\ FindListener(m)
     \/ /\ NoneMet(e) /\ (e = "S" => ~listen)
        /\ Transmit(Reset(e, m))
        /\ UNCHANGED <<sk, Server>>

Next ==
  \/ Connect \/ Accept \/ ListenClose
  \/ \E g \in 1 .. MaxReq : RequestTimer(g)
  \/ \E e \in Ends : \/ Send(e) \/ Read(e) \/ Shutdown(e) \/ Disconnect(e)
                     \/ Close(e) \/ CloseBacklog(e) \/ CloseRelease(e) \/ CloseJudge(e)
                     \/ RetransmitTimer(e) \/ KeepaliveTimer(e)
  \/ ConnRequest
  \/ \E f \in BagToSet(found) : f.at = "request" /\ MakeChild(f.g, f.m)
  \/ \E m \in net : Rcv(m) \/ Lose(m)

\* Armed timers fire, and a call of close returns.
Fairness ==
  /\ \A e \in Ends : /\ WF_vars(RetransmitTimer(e)) /\ WF_vars(KeepaliveTimer(e))
                     /\ []<>(sk[e].phase \in {"none", "done"})
  /\ \A g \in 1 .. MaxReq : WF_vars(RequestTimer(g))

Spec == Init /\ [][Next]_vars

FairSpec == Spec /\ Fairness

-----------------------------------------------------------------------------
(* Properties.                                                             *)

\* While both ends have the connection they agree on it: each has received up to somewhere
\* between what the other knows to be acknowledged and what the other has sent.  Numbers of
\* another request are far away, so a child made from an old acknowledgement, for a request
\* that timed out or was answered by another handler, shows here.
PeersAgree ==
  LET c == sk["C"]
      s == sk["S"]
  IN Hashed(s) /\ Hashed(c) /\ c.st # "SYN_SENT" =>
       /\ s.una <= c.rcv /\ c.rcv <= s.nxt
       /\ c.una <= s.rcv /\ s.rcv <= c.nxt

\* A connection gets one child, put on the accept queue once: two copies of the last
\* acknowledgement are handled at once, the request timer races with both, and copies of the
\* SYN may have inserted further requests, before the child or beside it.
OneChild == [][child' # child \/ (queued' /\ ~queued) => child = NoChild]_vars

\* A socket is destroyed at most once: tcp_nip_close, the backlog it releases, resets and
\* timers race for the orphan.
DestroyedOnce == \A e \in Ends : sk[e].destroyed <= 1

\* An orphan that still has its FIN to be acknowledged, or whose keepalive timer is armed, is
\* eventually destroyed, whatever the network loses.
OrphanReleased ==
  \A e \in Ends :
    (sk[e].dead /\ (sk[e].st \in {"FIN_WAIT1", "LAST_ACK"} \/ sk[e].ka)) ~> sk[e].destroyed = 1

\* "NewIP TCP doesn't have TIME_WAIT state, so socket in TCP_CLOSING uses keepalive timer to
\* release socket" (tcp_nip_timer.c): an orphan in CLOSING is eventually destroyed.
ClosingReleased ==
  \A e \in Ends : (sk[e].dead /\ sk[e].st = "CLOSING") ~> sk[e].destroyed = 1
=============================================================================
