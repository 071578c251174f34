-------------------------- MODULE NipTcpConn_proofs --------------------------
(***************************************************************************)
(* Theorems about NipTcpConn, for every number of retries, requests,       *)
(* handlers and segments on the wire and on a backlog.  Only the last two  *)
(* use the bound on the data: the numbers of two requests never meet.      *)
(***************************************************************************)
EXTENDS NipTcpConn, TLAPS

-----------------------------------------------------------------------------
(* The inductive invariant.                                                *)

SockFields ==
  {"st", "una", "nxt", "fin", "rcv", "ofo", "unread", "rshut", "sshut", "rtx", "ka",
   "dead", "destroyed", "phase", "closed", "backlog"}

IsSock(s) == s = [x \in SockFields |-> s[x]]

\* What a socket is through its end.  tcp_nip_close decides that it will destroy the socket
\* (closed) only for one in TCP_CLOSE; from then on nothing else may destroy it.  A socket
\* that is in the ehash table, or still the application's, has not been destroyed.
EndInv(s) ==
  /\ IsSock(s)
  /\ s.dead \in BOOLEAN /\ s.closed \in BOOLEAN /\ s.destroyed \in {0, 1}
  /\ s.closed => s.st = "CLOSE" /\ s.dead
  /\ (s.st # "CLOSE" \/ s.closed \/ ~s.dead) => s.destroyed = 0

ConnInv ==
  /\ sk = [e \in Ends |-> sk[e]]
  /\ \A e \in Ends : EndInv(sk[e])
  /\ \A r \in reqs : r = [g |-> r.g, timeout |-> r.timeout]

-----------------------------------------------------------------------------
(* Handlers.                                                               *)

\* t is s with other numbers, queues or timers, or in another state of a connection.
Keeps(s, t) ==
  /\ IsSock(t)
  /\ t.dead = s.dead /\ t.closed = s.closed /\ t.destroyed = s.destroyed
  /\ t.st = "CLOSE" <=> s.st = "CLOSE"

\* What a handler may make of a socket: it goes on, or it is in TCP_CLOSE for good.
Outcome(s, t) == EndInv(t) /\ (s.st = "CLOSE" => t.st = "CLOSE")

\* A handler that keeps the fields of the end of a socket keeps EndInv.
LEMMA KeepsOutcome ==
  ASSUME NEW s, NEW t, EndInv(s), Keeps(s, t)
  PROVE  Outcome(s, t)
  BY DEF EndInv, Keeps, Outcome

\* Two such steps one after the other.
LEMMA KeepsTrans ==
  ASSUME NEW s, NEW t, NEW u, Keeps(s, t), Keeps(t, u)
  PROVE  Keeps(s, u)
  BY DEF Keeps

\* A new socket.
LEMMA FreshEnd == EndInv(Fresh)
  BY DEF EndInv, IsSock, SockFields, Fresh

\* tcp_nip_set_state(TCP_CLOSE) of a socket that is still the application's.
LEMMA ClosedEnd ==
  ASSUME NEW shut
  PROVE  EndInv(Closed(shut)) /\ Closed(shut).st = "CLOSE" /\ ~Closed(shut).dead
  BY DEF EndInv, IsSock, SockFields, Closed, Fresh

\* What inet_csk_destroy_sock changes.
LEMMA DestroyFields ==
  ASSUME NEW s
  PROVE  /\ IsSock(Destroy(s)) /\ Destroy(s).st = "CLOSE" /\ Destroy(s).dead = TRUE
         /\ Destroy(s).destroyed = s.destroyed + 1 /\ Destroy(s).closed = s.closed
  BY DEF IsSock, SockFields, Destroy, Fresh

\* An orphan is destroyed by tcp_nip_done from a state in the ehash table only.
LEMMA DoneOutcome ==
  ASSUME NEW s, EndInv(s), Hashed(s)
  PROVE  Outcome(s, tcp_nip_done(s)) /\ tcp_nip_done(s).st = "CLOSE"
<1>1. CASE s.dead
  <2>1. tcp_nip_done(s) = Destroy(s) /\ s.destroyed = 0 /\ s.closed = FALSE
    BY <1>1 DEF tcp_nip_done, EndInv, Hashed
  <2>2. PICK t : t = Destroy(s)
    OBVIOUS
  <2>3. IsSock(t) /\ t.st = "CLOSE" /\ t.dead = TRUE /\ t.destroyed = 1 /\ t.closed = FALSE
    <3>1. /\ IsSock(t) /\ t.st = "CLOSE" /\ t.dead = TRUE
          /\ t.destroyed = s.destroyed + 1 /\ t.closed = s.closed
      BY <2>2, DestroyFields
    <3>2. s.destroyed + 1 = 1
      BY <2>1
    <3> QED
      BY <2>1, <3>1, <3>2
  <2> QED
    BY <2>1, <2>2, <2>3 DEF EndInv, Outcome
<1>2. CASE ~s.dead
  BY <1>2, ClosedEnd DEF tcp_nip_done, Outcome
<1> QED
  BY <1>1, <1>2

\* tcp_nip_fin moves between states of a connection only.
LEMMA FinKeeps ==
  ASSUME NEW s, IsSock(s)
  PROVE  Keeps(s, tcp_nip_fin(s))
<1>1. PICK v : v = CASE s.st \in {"SYN_RECV", "ESTABLISHED"} -> "CLOSE_WAIT"
                     [] s.st = "FIN_WAIT1" -> "CLOSING"
                     [] OTHER -> s.st
  OBVIOUS
<1>2. v = "CLOSE" <=> s.st = "CLOSE"
  BY <1>1
<1>3. PICK b : b = (s.ka \/ s.st = "FIN_WAIT2")
  OBVIOUS
<1>4. tcp_nip_fin(s) = [s EXCEPT !.rshut = TRUE, !.st = v, !.ka = b]
  BY <1>1, <1>3 DEF tcp_nip_fin, IsSock, SockFields
<1> QED
  BY <1>2, <1>4 DEF Keeps, IsSock, SockFields


\* tcp_nip_data_queue, with the FIN it may reach.
LEMMA DataQueueKeeps ==
  ASSUME NEW e, NEW s, NEW m, IsSock(s)
  PROVE  Keeps(s, DataQueue(e, s, m).s)
<1>1. Keeps(s, s)
  BY DEF Keeps
<1>2. ASSUME NEW r, NEW o, NEW n, NEW fin,
             NEW t, t = [s EXCEPT !.rcv = r, !.ofo = o, !.unread = n]
      PROVE  Keeps(s, t) /\ Keeps(s, IF fin THEN tcp_nip_fin(t) ELSE t)
  <2>1. Keeps(s, t)
    BY <1>2 DEF Keeps, IsSock, SockFields
  <2>2. Keeps(t, tcp_nip_fin(t))
    BY <2>1, FinKeeps DEF Keeps
  <2>3. Keeps(s, tcp_nip_fin(t))
    BY <2>1, <2>2, KeepsTrans
  <2> QED
    BY <2>1, <2>3
<1>3. DataQueue(e, s, m).s = s \/ Keeps(s, DataQueue(e, s, m).s)
  BY <1>2 DEF DataQueue, Result
<1> QED
  BY <1>1, <1>3

\* tcp_nip_ack moves snd_una and the retransmission timer only.
LEMMA AckedKeeps ==
  ASSUME NEW s, NEW m, IsSock(s)
  PROVE  Keeps(s, Acked(s, m))
<1>1. Keeps(s, s)
  BY DEF Keeps
<1>2. Keeps(s, [s EXCEPT !.una = m.ack, !.rtx = 0])
  BY DEF Keeps, IsSock, SockFields
<1> QED
  BY <1>1, <1>2 DEF Acked

\* A reset is only obeyed by a socket in the ehash table.
LEMMA RefuseOutcome ==
  ASSUME NEW e, NEW s, NEW m, EndInv(s), Hashed(s)
  PROVE  Outcome(s, Refuse(e, s, m).s)
<1>1. Outcome(s, s)
  BY DEF Outcome
<1> QED
  BY <1>1, DoneOutcome DEF Refuse, Result

\* tcp_nip_rcv_established.
LEMMA EstablishedOutcome ==
  ASSUME NEW e, NEW s, NEW m, EndInv(s), Hashed(s)
  PROVE  Outcome(s, RcvEstablished(e, s, m).s)
<1>1. Outcome(s, s)
  BY DEF Outcome
<1>2. IsSock(s)
  BY DEF EndInv
<1>3. Keeps(s, Acked(s, m))
  BY <1>2, AckedKeeps
<1>4. PICK t : t = Acked(s, m)
  OBVIOUS
<1>5. IsSock(t)
  BY <1>3, <1>4 DEF Keeps
<1>6. Keeps(t, DataQueue(e, t, m).s)
  BY <1>5, DataQueueKeeps
<1>7. Keeps(s, DataQueue(e, t, m).s)
  BY <1>3, <1>4, <1>6, KeepsTrans
<1>8. Outcome(s, DataQueue(e, t, m).s)
  BY <1>7, KeepsOutcome
<1>9. Outcome(s, Refuse(e, s, m).s)
  BY RefuseOutcome
<1> QED
  BY <1>1, <1>4, <1>8, <1>9 DEF RcvEstablished, Result

\* tcp_nip_rcv_synsent_state_process.
LEMMA SynSentOutcome ==
  ASSUME NEW e, NEW s, NEW m, EndInv(s), s.st = "SYN_SENT"
  PROVE  Outcome(s, RcvSynSent(e, s, m).s)
<1>1. Outcome(s, s)
  BY DEF Outcome
<1>2. Hashed(s)
  BY DEF Hashed
<1>3. Outcome(s, tcp_nip_done(s))
  BY <1>2, DoneOutcome
<1>4. PICK u : u = [s EXCEPT !.st = "ESTABLISHED", !.una = m.ack, !.rtx = 0, !.rcv = m.seq + 1]
  OBVIOUS
<1>5. Keeps(s, u)
  BY <1>4 DEF Keeps, EndInv, IsSock, SockFields
<1>6. Outcome(s, u)
  BY <1>5, KeepsOutcome
<1> QED
  BY <1>1, <1>3, <1>4, <1>6 DEF RcvSynSent, Result

\* What the acknowledgement does: the close it may complete is that of a hashed socket.
LEMMA AckStepOutcome ==
  ASSUME NEW s, NEW m, EndInv(s), Hashed(s)
  PROVE  Outcome(s, AckStep(s, m))
<1>1. Outcome(s, s)
  BY DEF Outcome
<1>2. PICK a : a = [s EXCEPT !.st = "ESTABLISHED", !.una = m.ack]
  OBVIOUS
<1>3. PICK b : b = [s EXCEPT !.st = "FIN_WAIT2"]
  OBVIOUS
<1>4. PICK c : c = [s EXCEPT !.st = "FIN_WAIT2", !.sshut = TRUE, !.ka = TRUE]
  OBVIOUS
<1>5. PICK d : d = [s EXCEPT !.ka = TRUE]
  OBVIOUS
<1>6. IsSock(s) /\ s.st # "CLOSE"
  BY DEF EndInv, Hashed
<1>7. Keeps(s, a)
  BY <1>2, <1>6 DEF Keeps, IsSock, SockFields
<1>8. Keeps(s, b) /\ b.st = "FIN_WAIT2"
  BY <1>3, <1>6 DEF Keeps, IsSock, SockFields
<1>9. Keeps(s, c)
  BY <1>4, <1>6 DEF Keeps, IsSock, SockFields
<1>10. Keeps(s, d)
  BY <1>5, <1>6 DEF Keeps, IsSock, SockFields
<1>11. Outcome(s, a) /\ Outcome(s, b) /\ Outcome(s, c) /\ Outcome(s, d)
  BY <1>7, <1>8, <1>9, <1>10, KeepsOutcome
<1>12. EndInv(b) /\ Hashed(b)
  BY <1>8, <1>11 DEF Outcome, Hashed
<1>13. Outcome(b, tcp_nip_done(b)) /\ Outcome(s, tcp_nip_done(s))
  BY <1>12, DoneOutcome
<1>14. Outcome(s, tcp_nip_done(b))
  BY <1>6, <1>13 DEF Outcome
<1> QED
  BY <1>1, <1>2, <1>3, <1>4, <1>5, <1>11, <1>13, <1>14 DEF AckStep

\* tcp_nip_rcv_state_process, in the states after SYN_SENT.
LEMMA StateProcessOutcome ==
  ASSUME NEW e, NEW s, NEW m, EndInv(s), Hashed(s)
  PROVE  Outcome(s, RcvStateProcess(e, s, m).s)
<1>1. Outcome(s, s) /\ IsSock(s) /\ s.st # "CLOSE"
  BY DEF Outcome, EndInv, Hashed
<1>2. PICK t : t = Acked(s, m)
  OBVIOUS
<1>3. Keeps(s, t)
  BY <1>1, <1>2, AckedKeeps
<1>4. EndInv(t) /\ Hashed(t)
  BY <1>1, <1>3, KeepsOutcome DEF Outcome, Keeps, Hashed
<1>5. PICK u : u = AckStep(t, m)
  OBVIOUS
<1>6. Outcome(t, u)
  BY <1>4, <1>5, AckStepOutcome
<1>7. EndInv(u) /\ Outcome(s, u)
  BY <1>1, <1>6 DEF Outcome
<1>8. Hashed(u) => Outcome(s, tcp_nip_done(u))
  BY <1>1, <1>7, DoneOutcome DEF Outcome
<1>9. Outcome(s, DataQueue(e, u, m).s)
  <2>1. Keeps(u, DataQueue(e, u, m).s)
    BY <1>7, DataQueueKeeps DEF EndInv
  <2>2. Outcome(u, DataQueue(e, u, m).s)
    BY <1>7, <2>1, KeepsOutcome
  <2> QED
    BY <1>1, <2>2 DEF Outcome
<1>10. Outcome(s, Refuse(e, s, m).s)
  BY RefuseOutcome
<1> QED
  BY <1>1, <1>2, <1>5, <1>7, <1>8, <1>9, <1>10 DEF RcvStateProcess, Result, Hashed

\* tcp_nip_do_rcv for every state of the socket.
LEMMA DoRcvOutcome ==
  ASSUME NEW e, NEW s, NEW m, EndInv(s)
  PROVE  Outcome(s, DoRcv(e, s, m).s)
<1>1. Outcome(s, s)
  BY DEF Outcome
<1>2. CASE s.st = "CLOSE"
  BY <1>1, <1>2 DEF DoRcv, Result
<1>3. CASE s.st = "SYN_SENT"
  BY <1>3, SynSentOutcome DEF DoRcv
<1>4. CASE s.st = "ESTABLISHED"
  BY <1>4, EstablishedOutcome DEF DoRcv, Hashed
<1>5. CASE s.st \notin {"CLOSE", "SYN_SENT", "ESTABLISHED"}
  BY <1>5, StateProcessOutcome DEF DoRcv, Hashed
<1> QED
  BY <1>2, <1>3, <1>4, <1>5

-----------------------------------------------------------------------------
(* Actions.                                                                *)

\* A step that changes one socket and leaves requests and handlers alone.
LEMMA OneSocket ==
  ASSUME ConnInv, NEW e \in Ends, NEW t, sk' = [sk EXCEPT ![e] = t], Outcome(sk[e], t),
         UNCHANGED <<reqs, found>>
  PROVE  ConnInv'
<1>1. sk = [x \in Ends |-> sk[x]] /\ EndInv(t) /\ (sk[e].st = "CLOSE" => t.st = "CLOSE")
  BY DEF ConnInv, Outcome
<1>2. /\ sk' = [x \in Ends |-> sk'[x]]
      /\ \A x \in Ends : sk'[x] = IF x = e THEN t ELSE sk[x]
  BY <1>1
<1>3. \A x \in Ends : EndInv(sk'[x])
  BY <1>1, <1>2 DEF ConnInv
<1>4. (\A x \in Ends : EndInv(sk[x]))'
  BY <1>3 DEF Ends
<1> QED
  BY <1>2, <1>4 DEF ConnInv

\* The step of one end, as a step of the array of sockets.
LEMMA ApplyOne ==
  ASSUME ConnInv, NEW e \in Ends, NEW r, Apply(e, r), Outcome(sk[e], r.s),
         UNCHANGED Server
  PROVE  ConnInv'
<1>1. sk' = [sk EXCEPT ![e] = r.s] /\ UNCHANGED <<reqs, found>>
  BY DEF Apply, Server
<1> QED
  BY <1>1, OneSocket

\* EndInv of one socket, from the invariant.
LEMMA SocketEnd ==
  ASSUME ConnInv, NEW e \in Ends
  PROVE  EndInv(sk[e]) /\ IsSock(sk[e]) /\ Outcome(sk[e], sk[e])
  BY DEF ConnInv, EndInv, Outcome

\* connect starts from a socket in TCP_CLOSE that is the application's.
LEMMA ConnectInv ==
  ASSUME ConnInv, Connect
  PROVE  ConnInv'
<1>1. "C" \in Ends
  BY DEF Ends
<1>2. PICK u : u = [Fresh EXCEPT !.st = "SYN_SENT", !.nxt = Fresh.una + 1]
  OBVIOUS
<1>3. EndInv(u)
  BY <1>2 DEF EndInv, IsSock, SockFields, Fresh
<1>4. SendSyn("C", sk["C"]).s = u /\ sk' = [sk EXCEPT !["C"] = u]
  BY <1>2 DEF Connect, SendSyn, Result, Apply
<1>5. UNCHANGED <<reqs, found>>
  BY DEF Connect, Server
<1>6. sk = [x \in Ends |-> sk[x]]
  BY DEF ConnInv
<1>7. /\ sk' = [x \in Ends |-> sk'[x]]
      /\ sk'["C"] = u /\ sk'["S"] = sk["S"]
  BY <1>1, <1>4, <1>6 DEF Ends
<1>8. (\A x \in Ends : EndInv(sk[x]))'
  BY <1>3, <1>7 DEF ConnInv, Ends
<1> QED
  BY <1>5, <1>7, <1>8 DEF ConnInv

\* sendmsg changes sequence numbers and the timer only.
LEMMA SendInv ==
  ASSUME ConnInv, NEW e \in Ends, Send(e)
  PROVE  ConnInv'
<1>1. PICK t : t = [sk[e] EXCEPT !.nxt = sk[e].nxt + 1]
  OBVIOUS
<1>2. Keeps(sk[e], t)
  BY <1>1, SocketEnd DEF Keeps, IsSock, SockFields
<1>3. Outcome(sk[e], t)
  BY <1>2, SocketEnd, KeepsOutcome
<1>4. sk' = [sk EXCEPT ![e] = t] /\ UNCHANGED <<reqs, found>>
  BY <1>1 DEF Send, Apply, Result, Server
<1> QED
  BY <1>3, <1>4, OneSocket

\* recvmsg changes the unread bytes only.
LEMMA ReadInv ==
  ASSUME ConnInv, NEW e \in Ends, Read(e)
  PROVE  ConnInv'
<1>1. PICK t : t = [sk[e] EXCEPT !.unread = 0]
  OBVIOUS
<1>2. Keeps(sk[e], t)
  BY <1>1, SocketEnd DEF Keeps, IsSock, SockFields
<1>3. Outcome(sk[e], t)
  BY <1>2, SocketEnd, KeepsOutcome
<1>4. sk' = [sk EXCEPT ![e] = t] /\ UNCHANGED <<reqs, found>>
  BY <1>1 DEF Read, Server
<1> QED
  BY <1>3, <1>4, OneSocket

\* tcp_nip_close_state of a socket that is the application's.
LEMMA CloseStateOutcome ==
  ASSUME NEW e, NEW s, EndInv(s), ~s.dead
  PROVE  Outcome(s, CloseState(e, s).s) /\ ~CloseState(e, s).s.dead
<1>1. PICK to : to = new_state(s.st)
  OBVIOUS
<1>2. PICK u : u = [s EXCEPT !.st = to.st]
  OBVIOUS
<1>3. to.fin => to.st # "CLOSE" /\ s.st # "CLOSE"
  BY <1>1 DEF new_state
<1>4. s.st = "CLOSE" => to.st = "CLOSE"
  BY <1>1 DEF new_state
<1>5. IsSock(u) /\ u.st = to.st /\ u.dead = s.dead /\ u.closed = s.closed
      /\ u.destroyed = s.destroyed
  BY <1>2 DEF EndInv, IsSock, SockFields
<1>6. CASE to.fin
  <2>1. PICK v : v = [u EXCEPT !.fin = TRUE, !.nxt = u.nxt + 1]
    OBVIOUS
  <2>2. Keeps(u, v) /\ Keeps(s, v)
    BY <1>3, <1>5, <1>6, <2>1 DEF Keeps, IsSock, SockFields
  <2>3. Outcome(s, v) /\ v.dead = s.dead
    BY <2>2, KeepsOutcome DEF Keeps
  <2>4. CloseState(e, s).s = v
    BY <1>1, <1>2, <1>6, <2>1 DEF CloseState, SendFin, Result
  <2> QED
    BY <2>3, <2>4
<1>7. CASE ~to.fin /\ to.st = "CLOSE"
  <2>1. CloseState(e, s).s = Closed(s.rshut)
    BY <1>1, <1>7 DEF CloseState, Result
  <2> QED
    BY <2>1, ClosedEnd DEF Outcome
<1>8. CASE ~to.fin /\ to.st # "CLOSE"
  <2>1. CloseState(e, s).s = u
    BY <1>1, <1>2, <1>8 DEF CloseState, Result
  <2>2. EndInv(u) /\ Outcome(s, u)
    BY <1>4, <1>5, <1>8 DEF EndInv, Outcome
  <2> QED
    BY <1>5, <2>1, <2>2
<1> QED
  BY <1>6, <1>7, <1>8

\* shutdown closes by tcp_nip_close_state, which destroys nothing.
LEMMA ShutdownInv ==
  ASSUME ConnInv, NEW e \in Ends, Shutdown(e)
  PROVE  ConnInv'
<1>1. PICK s : s = [sk[e] EXCEPT !.sshut = TRUE]
  OBVIOUS
<1>2. Keeps(sk[e], s)
  BY <1>1, SocketEnd DEF Keeps, IsSock, SockFields
<1>3. EndInv(s) /\ ~s.dead
  BY <1>2, SocketEnd, KeepsOutcome DEF Keeps, Outcome, Shutdown, User
<1>4. Outcome(s, CloseState(e, s).s)
  BY <1>3, CloseStateOutcome
<1>5. Outcome(sk[e], CloseState(e, s).s)
  BY <1>2, <1>4 DEF Outcome, Keeps
<1>6. Apply(e, CloseState(e, s)) /\ UNCHANGED Server
  BY <1>1 DEF Shutdown
<1> QED
  BY <1>5, <1>6, ApplyOne

\* tcp_nip_disconnect of a socket that is the application's.
LEMMA DisconnectInv ==
  ASSUME ConnInv, NEW e \in Ends, Disconnect(e)
  PROVE  ConnInv'
<1>1. Apply(e, Disconnected(e, sk[e])) /\ UNCHANGED Server
  BY DEF Disconnect
<1>2. Disconnected(e, sk[e]).s = Closed(FALSE)
  BY DEF Disconnected, Result
<1>3. Outcome(sk[e], Disconnected(e, sk[e]).s)
  BY <1>2, ClosedEnd DEF Outcome
<1> QED
  BY <1>1, <1>3, ApplyOne

\* tcp_nip_close makes the socket an orphan, and decides whether it will destroy it.
LEMMA CloseInv ==
  ASSUME ConnInv, NEW e \in Ends, Close(e)
  PROVE  ConnInv'
<1>1. PICK s : s = [sk[e] EXCEPT !.rshut = TRUE, !.sshut = TRUE]
  OBVIOUS
<1>2. Keeps(sk[e], s)
  BY <1>1, SocketEnd DEF Keeps, IsSock, SockFields
<1>3. EndInv(s) /\ ~s.dead
  BY <1>2, SocketEnd, KeepsOutcome DEF Keeps, Outcome, Close, User
<1>4. PICK r : r = CloseBody(e, s)
  OBVIOUS
<1>5. Outcome(s, r.s) /\ ~r.s.dead
  <2>1. CASE s.st = "CLOSE"
    BY <1>3, <1>4, <2>1 DEF CloseBody, Result, Outcome
  <2>2. CASE s.st # "CLOSE" /\ s.unread > 0
    <3>1. r.s = Closed(TRUE)
      BY <1>4, <2>2 DEF CloseBody, Result
    <3> QED
      BY <3>1, <2>2, ClosedEnd DEF Outcome
  <2>3. CASE s.st # "CLOSE" /\ ~(s.unread > 0)
    <3>1. r = CloseState(e, s)
      BY <1>4, <2>3 DEF CloseBody
    <3> QED
      BY <1>3, <3>1, CloseStateOutcome
  <2> QED
    BY <2>1, <2>2, <2>3
<1>6. PICK v : v = r.s
  OBVIOUS
<1>7. PICK t : t = [v EXCEPT !.unread = 0, !.dead = TRUE, !.phase = "owned",
                             !.closed = v.st = "CLOSE"]
  OBVIOUS
<1>8. EndInv(v) /\ ~v.dead /\ (s.st = "CLOSE" => v.st = "CLOSE")
  BY <1>5, <1>6 DEF Outcome
<1>9. IsSock(v) /\ v.destroyed = 0
  BY <1>8 DEF EndInv
<1>10. /\ IsSock(t) /\ t.dead = TRUE /\ t.closed = (v.st = "CLOSE")
       /\ t.destroyed = 0 /\ t.st = v.st
  BY <1>7, <1>9 DEF IsSock, SockFields
<1>11. EndInv(t)
  BY <1>10 DEF EndInv
<1>12. Outcome(sk[e], t)
  BY <1>2, <1>8, <1>10, <1>11 DEF Outcome, Keeps
<1>13. sk' = [sk EXCEPT ![e] = t] /\ UNCHANGED <<reqs, found>>
  BY <1>1, <1>4, <1>6, <1>7 DEF Close, Apply, Result, Server
<1> QED
  BY <1>12, <1>13, OneSocket

\* A segment of the backlog, processed while tcp_nip_close holds the socket.
LEMMA CloseBacklogInv ==
  ASSUME ConnInv, NEW e \in Ends, CloseBacklog(e)
  PROVE  ConnInv'
<1>1. PICK s : s = [sk[e] EXCEPT !.backlog = Tail(sk[e].backlog)]
  OBVIOUS
<1>2. PICK m : m = Head(sk[e].backlog)
  OBVIOUS
<1>3. Keeps(sk[e], s)
  BY <1>1, SocketEnd DEF Keeps, IsSock, SockFields
<1>4. EndInv(s)
  BY <1>3, SocketEnd, KeepsOutcome DEF Outcome
<1>5. Outcome(s, DoRcv(e, s, m).s)
  BY <1>4, DoRcvOutcome
<1>6. Outcome(sk[e], DoRcv(e, s, m).s)
  BY <1>3, <1>5 DEF Outcome, Keeps
<1>7. Apply(e, DoRcv(e, s, m)) /\ UNCHANGED Server
  BY <1>1, <1>2 DEF CloseBacklog
<1> QED
  BY <1>6, <1>7, ApplyOne

\* The end of release_sock in tcp_nip_close changes no end of a socket.
LEMMA CloseReleaseInv ==
  ASSUME ConnInv, NEW e \in Ends, CloseRelease(e)
  PROVE  ConnInv'
<1>1. PICK t : t = [sk[e] EXCEPT !.phase = "judge"]
  OBVIOUS
<1>2. Keeps(sk[e], t)
  BY <1>1, SocketEnd DEF Keeps, IsSock, SockFields
<1>3. Outcome(sk[e], t)
  BY <1>2, SocketEnd, KeepsOutcome
<1>4. sk' = [sk EXCEPT ![e] = t] /\ UNCHANGED <<reqs, found>>
  BY <1>1 DEF CloseRelease, Server
<1> QED
  BY <1>3, <1>4, OneSocket

\* The end of tcp_nip_close destroys the socket only if it decided so before the backlog was
\* processed: one that a segment of the backlog closed has been destroyed by tcp_nip_done.
LEMMA CloseJudgeInv ==
  ASSUME ConnInv, NEW e \in Ends, CloseJudge(e)
  PROVE  ConnInv'
<1>1. PICK s : s = sk[e]
  OBVIOUS
<1>2. EndInv(s)
  BY <1>1, SocketEnd
<1>3. PICK t : t = IF s.st = "CLOSE" /\ s.closed THEN Destroy(s) ELSE s
  OBVIOUS
<1>4. /\ IsSock(t) /\ t.dead \in BOOLEAN /\ t.destroyed \in {0, 1}
      /\ (s.st = "CLOSE" => t.st = "CLOSE")
      /\ (t.st # "CLOSE" \/ ~t.dead => t.destroyed = 0)
  <2>1. CASE s.st = "CLOSE" /\ s.closed
    <3>1. s.destroyed + 1 = 1
      BY <1>2, <2>1 DEF EndInv
    <3>2. IsSock(t) /\ t.st = "CLOSE" /\ t.dead = TRUE /\ t.destroyed = s.destroyed + 1
      BY <1>3, <2>1, DestroyFields
    <3> QED
      BY <3>1, <3>2
  <2>2. CASE ~(s.st = "CLOSE" /\ s.closed)
    BY <1>2, <1>3, <2>2 DEF EndInv
  <2> QED
    BY <2>1, <2>2
<1>5. PICK u : u = [t EXCEPT !.phase = "done", !.closed = FALSE]
  OBVIOUS
<1>6. /\ IsSock(u) /\ u.dead = t.dead /\ u.destroyed = t.destroyed /\ u.st = t.st
      /\ u.closed = FALSE
  BY <1>4, <1>5 DEF IsSock, SockFields
<1>7. Outcome(s, u)
  BY <1>4, <1>6 DEF EndInv, Outcome
<1>8. sk' = [sk EXCEPT ![e] = u] /\ UNCHANGED <<reqs, found>>
  BY <1>1, <1>3, <1>5 DEF CloseJudge, Judge, Server
<1> QED
  BY <1>1, <1>7, <1>8, OneSocket

\* The retransmission timer gives up a socket of the ehash table only.
LEMMA RetransmitTimerInv ==
  ASSUME ConnInv, NEW e \in Ends, RetransmitTimer(e)
  PROVE  ConnInv'
<1>1. PICK s : s = sk[e]
  OBVIOUS
<1>2. EndInv(s) /\ Hashed(s)
  BY <1>1, SocketEnd DEF RetransmitTimer
<1>3. PICK r : r = IF s.rtx > Retries THEN Result(tcp_nip_done(s), {})
                   ELSE Result([s EXCEPT !.rtx = s.rtx + 1], {Head1(e, s)})
  OBVIOUS
<1>4. Keeps(s, [s EXCEPT !.rtx = s.rtx + 1])
  BY <1>2 DEF Keeps, EndInv, IsSock, SockFields
<1>5. Outcome(s, [s EXCEPT !.rtx = s.rtx + 1]) /\ Outcome(s, tcp_nip_done(s))
  BY <1>2, <1>4, KeepsOutcome, DoneOutcome
<1>6. Outcome(sk[e], r.s)
  BY <1>1, <1>3, <1>5 DEF Result
<1>7. Apply(e, r) /\ UNCHANGED Server
  BY <1>1, <1>3 DEF RetransmitTimer
<1> QED
  BY <1>6, <1>7, ApplyOne

\* The keepalive timer ends an orphan of the ehash table only.
LEMMA KeepaliveTimerInv ==
  ASSUME ConnInv, NEW e \in Ends, KeepaliveTimer(e)
  PROVE  ConnInv'
<1>1. PICK s : s = sk[e]
  OBVIOUS
<1>2. EndInv(s) /\ Outcome(s, s)
  BY <1>1, SocketEnd
<1>3. Keeps(s, [s EXCEPT !.ka = FALSE])
  BY <1>2 DEF Keeps, EndInv, IsSock, SockFields
<1>4. Outcome(s, [s EXCEPT !.ka = FALSE])
  BY <1>2, <1>3, KeepsOutcome
<1>5. s.st \in {"FIN_WAIT2", "CLOSING"} => Outcome(s, tcp_nip_done(s))
  BY <1>2, DoneOutcome DEF Hashed
<1>6. Outcome(sk[e], KeepaliveExpired(s))
  BY <1>1, <1>2, <1>4, <1>5 DEF KeepaliveExpired
<1>7. sk' = [sk EXCEPT ![e] = KeepaliveExpired(s)] /\ UNCHANGED <<reqs, found>>
  BY <1>1 DEF KeepaliveTimer, Server
<1> QED
  BY <1>6, <1>7, OneSocket

-----------------------------------------------------------------------------
(* The server side of the handshake.                                       *)

\* A step that leaves the sockets alone.
LEMMA SocketsQuiet ==
  ASSUME ConnInv, UNCHANGED sk
  PROVE  (sk = [e \in Ends |-> sk[e]])' /\ (\A e \in Ends : EndInv(sk[e]))'
  BY DEF ConnInv

\* What the handlers hold after one of them has taken something up, or dealt with it.
LEMMA HoldAdds ==
  ASSUME NEW f, Hold(f)
  PROVE  BagToSet(found') = BagToSet(found) \cup {f}
  BY DEF Hold, BagToSet, SetToBag, (+)

LEMMA ReleaseRemoves ==
  ASSUME NEW f, Release(f)
  PROVE  f \in BagToSet(found) /\ BagToSet(found') \subseteq BagToSet(found)
  BY DEF Release, BagIn, BagToSet, SetToBag, (-)

\* A handler finds the listener, or a request.
LEMMA FindInv ==
  ASSUME ConnInv, NEW m, FindListener(m) \/ \E g : FindRequest(m, g)
  PROVE  ConnInv'
<1>1. UNCHANGED <<sk, reqs>>
  BY DEF FindListener, FindRequest
<1> QED
  BY <1>1, SocketsQuiet DEF ConnInv

\* A request enters the table.
LEMMA ConnRequestInv ==
  ASSUME ConnInv, ConnRequest
  PROVE  ConnInv'
<1>1. /\ UNCHANGED sk
      /\ reqs' = reqs \/ reqs' = reqs \cup {Request(gen + 1)}
  BY DEF ConnRequest
<1>2. (\A r \in reqs : r = [g |-> r.g, timeout |-> r.timeout])'
  BY <1>1 DEF ConnInv, Request
<1> QED
  BY <1>1, <1>2, SocketsQuiet DEF ConnInv

\* The requests after their timer: the same ones, or one less.
Generations(R) == {r.g : r \in R}

LEMMA TimerRequests ==
  ASSUME ConnInv, NEW g, RequestTimer(g)
  PROVE  /\ \A r \in reqs' : r = [g |-> r.g, timeout |-> r.timeout]
         /\ Generations(reqs') \subseteq Generations(reqs) /\ g \in Generations(reqs)
<1>1. PICK r \in reqs : /\ r.g = g
                        /\ \/ reqs' = (reqs \ {r}) \cup {[r EXCEPT !.timeout = r.timeout + 1]}
                           \/ reqs' = reqs \ {r}
  BY DEF RequestTimer
<1>2. PICK t : t = [r EXCEPT !.timeout = r.timeout + 1]
  OBVIOUS
<1>3. t = [g |-> t.g, timeout |-> t.timeout] /\ t.g = r.g
  BY <1>2 DEF ConnInv
<1> QED
  BY <1>1, <1>2, <1>3 DEF ConnInv, Generations

\* The request timer drops a request without making a child.
LEMMA RequestTimerInv ==
  ASSUME ConnInv, NEW g, RequestTimer(g)
  PROVE  ConnInv'
<1>1. UNCHANGED <<sk, found>>
  BY DEF RequestTimer
<1>2. (\A r \in reqs : r = [g |-> r.g, timeout |-> r.timeout])'
  BY TimerRequests
<1> QED
  BY <1>1, <1>2, SocketsQuiet DEF ConnInv

\* The child is a new socket that its first segment has reached.
LEMMA MakeChildInv ==
  ASSUME ConnInv, NEW g, NEW m, MakeChild(g, m)
  PROVE  ConnInv'
<1>2. reqs' = {r \in reqs : r.g # g}
  BY DEF MakeChild
<1>3. (\A r \in reqs : r = [g |-> r.g, timeout |-> r.timeout])'
  BY <1>2 DEF ConnInv
<1>4. (sk = [x \in Ends |-> sk[x]])' /\ (\A x \in Ends : EndInv(sk[x]))'
  <2>1. CASE own_req(g) /\ listen
    <3>1. PICK t : t = RcvStateProcess("S", Child(g), m).s
      OBVIOUS
    <3>2. EndInv(Child(g)) /\ Hashed(Child(g))
      BY DEF Child, Fresh, EndInv, IsSock, SockFields, Hashed
    <3>3. EndInv(t)
      BY <3>1, <3>2, StateProcessOutcome DEF Outcome
    <3>4. sk' = [sk EXCEPT !["S"] = t]
      BY <2>1, <3>1 DEF MakeChild, Apply
    <3>5. sk = [x \in Ends |-> sk[x]]
      BY DEF ConnInv
    <3>6. sk' = [x \in Ends |-> sk'[x]] /\ sk'["S"] = t /\ sk'["C"] = sk["C"]
      BY <3>4, <3>5 DEF Ends
    <3>7. (\A x \in Ends : EndInv(sk[x]))'
      BY <3>3, <3>6 DEF ConnInv, Ends
    <3> QED
      BY <3>6, <3>7
  <2>2. CASE ~(own_req(g) /\ listen)
    <3>1. UNCHANGED sk
      BY <2>2 DEF MakeChild
    <3> QED
      BY <3>1, SocketsQuiet
  <2> QED
    BY <2>1, <2>2
<1> QED
  BY <1>2, <1>3, <1>4 DEF ConnInv

\* A child nobody accepted is disconnected first, so it is destroyed once.
LEMMA ListenCloseInv ==
  ASSUME ConnInv, ListenClose
  PROVE  ConnInv'
<1>1. UNCHANGED <<reqs, found>> /\ "S" \in Ends
  BY DEF ListenClose, Ends
<1>2. CASE queued
  <2>1. PICK t : t = [Destroy(Closed(FALSE)) EXCEPT !.phase = "done"]
    OBVIOUS
  <2>2. /\ IsSock(t) /\ t.st = "CLOSE" /\ t.dead = TRUE /\ t.closed = FALSE
        /\ t.destroyed = 1
    <3>1. PICK w : w = Closed(FALSE)
      OBVIOUS
    <3>2. PICK d : d = Destroy(w)
      OBVIOUS
    <3>3. w.destroyed = 0 /\ w.closed = FALSE
      BY <3>1 DEF Closed, Fresh
    <3>4. /\ IsSock(d) /\ d.st = "CLOSE" /\ d.dead = TRUE
          /\ d.destroyed = w.destroyed + 1 /\ d.closed = w.closed
      BY <3>2, DestroyFields
    <3>5. w.destroyed + 1 = 1
      BY <3>3
    <3>6. d.destroyed = 1 /\ d.closed = FALSE
      BY <3>3, <3>4, <3>5
    <3>7. t = [d EXCEPT !.phase = "done"]
      BY <2>1, <3>1, <3>2
    <3> QED
      BY <3>4, <3>6, <3>7 DEF IsSock, SockFields
  <2>3. Outcome(sk["S"], t)
    BY <2>2 DEF Outcome, EndInv
  <2>4. sk' = [sk EXCEPT !["S"] = t]
    BY <1>2, <2>1 DEF ListenClose, Apply, Result, Disconnected
  <2> QED
    BY <1>1, <2>3, <2>4, OneSocket
<1>3. CASE ~queued
  <2>1. UNCHANGED sk
    BY <1>3 DEF ListenClose
  <2> QED
    BY <1>1, <2>1, SocketsQuiet DEF ConnInv
<1> QED
  BY <1>2, <1>3

\* A segment for a socket: processed, put on the backlog or refused.
LEMMA RcvInv ==
  ASSUME ConnInv, NEW m, Rcv(m)
  PROVE  ConnInv'
<1>1. PICK e : e = Peer(m.src)
  OBVIOUS
<1>2. e \in Ends
  BY <1>1 DEF Peer, Ends
<1>3. CASE Apply(e, DoRcv(e, sk[e], m)) /\ UNCHANGED Server
  <2>1. Outcome(sk[e], DoRcv(e, sk[e], m).s)
    BY <1>2, SocketEnd, DoRcvOutcome
  <2> QED
    BY <1>2, <1>3, <2>1, ApplyOne
<1>4. CASE sk' = [sk EXCEPT ![e].backlog = Append(sk[e].backlog, m)] /\ UNCHANGED Server
  <2>1. PICK t : t = [sk[e] EXCEPT !.backlog = Append(sk[e].backlog, m)]
    OBVIOUS
  <2>2. Keeps(sk[e], t)
    BY <1>2, <2>1, SocketEnd DEF Keeps, IsSock, SockFields
  <2>3. Outcome(sk[e], t)
    BY <1>2, <2>2, SocketEnd, KeepsOutcome
  <2>4. sk' = [sk EXCEPT ![e] = t] /\ UNCHANGED <<reqs, found>>
    BY <1>4, <2>1 DEF Server
  <2> QED
    BY <1>2, <2>3, <2>4, OneSocket
<1>5. CASE FindListener(m) \/ \E g : FindRequest(m, g)
  BY <1>5, FindInv
<1>6. CASE UNCHANGED <<sk, Server>>
  BY <1>6, SocketsQuiet DEF ConnInv, Server
<1> QED
  BY <1>1, <1>3, <1>4, <1>5, <1>6 DEF Rcv

-----------------------------------------------------------------------------
(* Theorems.                                                               *)

\* ConnInv holds in every reachable state.
LEMMA ConnInvariant == Spec => []ConnInv
<1>1. Init => ConnInv
  <2> SUFFICES ASSUME Init PROVE ConnInv
    OBVIOUS
  <2>1. sk = [e \in Ends |-> sk[e]] /\ \A e \in Ends : EndInv(sk[e])
    BY FreshEnd DEF Init
  <2>2. reqs = {}
    BY DEF Init
  <2> QED
    BY <2>1, <2>2 DEF ConnInv
<1>2. ConnInv /\ [Next]_vars => ConnInv'
  <2> SUFFICES ASSUME ConnInv, [Next]_vars PROVE ConnInv'
    OBVIOUS
  <2>1. CASE Connect
    BY <2>1, ConnectInv
  <2>2. CASE Accept
    BY <2>2, SocketsQuiet DEF Accept, ConnInv
  <2>3. CASE ListenClose
    BY <2>3, ListenCloseInv
  <2>4. CASE \E g \in 1 .. MaxReq : RequestTimer(g)
    BY <2>4, RequestTimerInv
  <2>5. ASSUME NEW e \in Ends,
               \/ Send(e) \/ Read(e) \/ Shutdown(e) \/ Disconnect(e)
               \/ Close(e) \/ CloseBacklog(e) \/ CloseRelease(e) \/ CloseJudge(e)
               \/ RetransmitTimer(e) \/ KeepaliveTimer(e)
        PROVE  ConnInv'
    BY <2>5, SendInv, ReadInv, ShutdownInv, DisconnectInv, CloseInv, CloseBacklogInv,
       CloseReleaseInv, CloseJudgeInv, RetransmitTimerInv, KeepaliveTimerInv
  <2>6. ASSUME ConnRequest \/ \E g, m : MakeChild(g, m)
        PROVE  ConnInv'
    BY <2>6, ConnRequestInv, MakeChildInv
  <2>7. ASSUME NEW m \in net, Rcv(m) \/ Lose(m)
        PROVE  ConnInv'
    <3>1. CASE Rcv(m)
      BY <3>1, RcvInv
    <3>2. CASE Lose(m)
      BY <3>2, SocketsQuiet DEF Lose, Server, ConnInv
    <3> QED
      BY <2>7, <3>1, <3>2
  <2>8. CASE UNCHANGED vars
    BY <2>8, SocketsQuiet DEF vars, ConnInv
  <2> QED
    BY <2>1, <2>2, <2>3, <2>4, <2>5, <2>6, <2>7, <2>8 DEF Next
<1> QED
  BY <1>1, <1>2, PTL DEF Spec

\* No socket is destroyed twice: tcp_nip_close, the backlog it releases, resets, timers and
\* the close of the listener may all try to, in any order.
THEOREM NoDoubleDestroy == Spec => []DestroyedOnce
<1>1. ConnInv => DestroyedOnce
  BY DEF ConnInv, EndInv, DestroyedOnce
<1> QED
  BY <1>1, ConnInvariant, PTL

-----------------------------------------------------------------------------
(* Agreement of the two ends.  P stands for all segments ever sent: the    *)
(* wire, the backlogs, the out-of-order queues and the handlers hold some  *)
(* of them, so what is true of P is true wherever a segment turns up late. *)

\* The segments there are.
Msgs == [src : Ends, flags : SUBSET {"SYN", "ACK", "FIN", "RST"}, seq : Nat, end : Nat, ack : Nat]

From(P, e) == {m \in P : m.src = e}

\* A segment that may wait in an out-of-order queue.
Stored(m) == m.seq # m.end /\ ~Has(m, "RST")

\* The application may still send.
Open(s) == s.st \in {"SYN_RECV", "ESTABLISHED", "CLOSE_WAIT"}

\* An end of a connection whose numbers begin at base, those of its peer at q, and which has
\* been sent the segments In.  It has room for three units and its FIN; something that
\* the peer cannot have sent, q + 5, ends what DataQueue takes at once.
Sane(base, q, In, s) ==
  /\ s.st \notin {"CLOSE", "SYN_SENT"}
  /\ s.nxt \in base + 1 .. base + 5
  /\ Open(s) => s.nxt <= base + 4
  /\ s.una \in Nat /\ base + 1 <= s.una
  /\ s.rcv \in q + 1 .. q + 5
  /\ s.ofo \subseteq In /\ \A w \in s.ofo : Stored(w)
  /\ s.backlog \in Seq(In)
  /\ In \subseteq Msgs /\ \A w \in In : Stored(w) => w.seq # q + 5

\* A segment of the client c when it is connected to request b.
FromClient(b, c, m) ==
  /\ Has(m, "ACK") => 10 * b + 1 <= m.ack /\ m.ack <= c.rcv
  /\ ~Has(m, "RST") => m.ack <= c.rcv
  /\ Stored(m) => m.seq + 1 <= c.nxt

\* A segment of the server after g requests.
FromServer(g, m) ==
  Stored(m) => \E h \in 1 .. g : 10 * h <= m.seq /\ m.seq <= 10 * h + 4

\* A segment of the server when it has the connection of request b, as v.
FromPeer(b, v, m) ==
  /\ ~Has(m, "RST") => m.ack <= v.rcv
  /\ Stored(m) /\ m.seq <= 10 * b + 4 => m.seq + 1 <= v.nxt

\* The server has the connection of request b, as a socket or still as a request, which is
\* as good as the child it becomes.
Live(b, s, R) == Hashed(s) \/ b \in R
View(b, s) == IF Hashed(s) THEN s ELSE Child(b)

Fits(c, v) ==
  /\ v.una <= c.rcv /\ c.rcv <= v.nxt
  /\ c.una <= v.rcv /\ v.rcv <= c.nxt

\* What is true of the segments of either end as long as the client has, or had, the
\* connection of request b only; b is 0 before it has one.
OfClient(b, m) ==
  /\ Has(m, "ACK") => 10 * b + 1 <= m.ack /\ m.ack <= 10 * b + 5
  /\ Stored(m) => m.seq # 5

OfServer(m) == Has(m, "RST") \/ Has(m, "ACK")

\* A handler has found the listener, or request b.
OfHandler(b, P, f) == f.at = "request" => f.g = b /\ b # 0 /\ f.m \in From(P, "C")

\* The server: g requests were made, those of R are in the table, and the child k, if there is
\* one, was made from request b, which has left the table.
Sides(b, P, N, s, R, k, g, F) ==
  /\ g \in Nat /\ b \in Nat /\ b <= g /\ R \subseteq 1 .. g
  /\ N \subseteq P /\ P \subseteq Msgs
  /\ k = NoChild \/ (k.g = b /\ b # 0 /\ b \notin R)
  /\ Hashed(s) => k.g = b /\ b # 0 /\ b \notin R /\ Sane(10 * b, 0, From(P, "C"), s)
  /\ \A x \in BagToSet(F) : OfHandler(b, P, x)
  /\ \A m \in From(P, "C") : OfClient(b, m)
  /\ \A m \in From(P, "S") : OfServer(m)

\* The client has the connection of request b, and the server agrees if it has it.
Agrees(b, P, c, s, R, g) ==
  /\ b # 0
  /\ Sane(0, 10 * b, From(P, "S"), c)
  /\ \A m \in From(P, "C") : FromClient(b, c, m)
  /\ \A m \in From(P, "S") : FromServer(g, m)
  /\ Live(b, s, R) => /\ Fits(c, View(b, s))
                      /\ \A m \in From(P, "S") : FromPeer(b, View(b, s), m)

\* The client before its connection.
Connecting(c) ==
  /\ c.st = "SYN_SENT" /\ c.una = 0 /\ c.nxt = 1 /\ c.phase = "none"
  /\ c.unread = 0 /\ c.ofo = {} /\ c.backlog = <<>>

Syn == Msg("C", {"SYN"}, 0, 1, 0)

\* Until then there are SYNs, SYN+ACKs of the g requests made so far, and resets.
Opening(g, m) ==
  /\ m.src = "C" => m = Syn \/ (Has(m, "RST") /\ ~Has(m, "ACK"))
  /\ m.src = "S" => Has(m, "RST") \/ \E h \in 1 .. g : m = Synack(h)

Unopened(P, c, s, q, g) ==
  /\ c = Fresh \/ Connecting(c)
  /\ s = Fresh /\ ~q
  /\ \A m \in P : Opening(g, m)

\* The client's only connection is over.
Over(c) == c.st = "CLOSE" /\ (c.dead \/ c.nxt = 1)

\* What a step of an end does to its numbers: it may send one unit or a FIN, take an
\* acknowledgement it has been sent, and go on as far as it has been sent something.
Advances(base, q, In, s, t) ==
  /\ Sane(base, q, In, t)
  /\ s.nxt <= t.nxt
  /\ t.una = s.una \/ \E m \in In : ~Has(m, "RST") /\ t.una = m.ack /\ s.una <= m.ack
  /\ s.rcv <= t.rcv
  /\ t.rcv = s.rcv \/ \E w \in In : Stored(w) /\ t.rcv = w.seq + 1

\* What it sends then.
Emits(e, s, t, o) ==
  \A m \in o : /\ m \in Msgs /\ m.src = e /\ ~Has(m, "RST") /\ Has(m, "ACK") /\ m.ack = t.rcv
               /\ m.seq # m.end => m.seq \in {s.una, s.nxt} /\ m.seq + 1 <= t.nxt

\* Or it is over, with a reset at most, which acknowledges what has been received.
Finishes(e, s, t, o) ==
  /\ t.st = "CLOSE" /\ (Hashed(s) \/ Over(s) => Over(t))
  /\ \A m \in o : m \in Msgs /\ m.src = e /\ Has(m, "RST") /\ Hashed(s) /\ m.ack = s.rcv

Moves(e, base, q, In, s, r) ==
  \/ Finishes(e, s, r.s, r.out)
  \/ Hashed(s) /\ Advances(base, q, In, s, r.s) /\ Emits(e, s, r.s, r.out)

Same(s, t) ==
  t.st = s.st /\ t.una = s.una /\ t.nxt = s.nxt /\ t.rcv = s.rcv /\ (s.dead => t.dead)

\* Of five numbers of which one is missing there is a first one that is missing.
LEMMA LeastGap ==
  ASSUME NEW r \in Int, NEW p \in r .. r + 4, NEW C, p \notin C
  PROVE  \E k \in r .. p : k \notin C /\ \A j \in r .. k - 1 : j \in C
<1>1. CASE r \notin C
  BY <1>1
<1>2. CASE r \in C /\ r + 1 \notin C
  <2>1. r + 1 \in r .. p /\ \A j \in r .. (r + 1) - 1 : j \in C
    BY <1>2
  <2> QED
    BY <1>2, <2>1
<1>3. CASE r \in C /\ r + 1 \in C /\ r + 2 \notin C
  <2>1. r + 2 \in r .. p /\ \A j \in r .. (r + 2) - 1 : j = r \/ j = r + 1
    BY <1>3
  <2> QED
    BY <1>3, <2>1
<1>4. CASE r \in C /\ r + 1 \in C /\ r + 2 \in C /\ r + 3 \notin C
  <2>1. r + 3 \in r .. p /\ \A j \in r .. (r + 3) - 1 : j = r \/ j = r + 1 \/ j = r + 2
    BY <1>4
  <2> QED
    BY <1>4, <2>1
<1>5. CASE r \in C /\ r + 1 \in C /\ r + 2 \in C /\ r + 3 \in C
  <2>1. p = r + 4
    BY <1>5
  <2>2. r + 4 \in r .. p
    BY <2>1
  <2>3. \A j \in r .. (r + 4) - 1 : j = r \/ j = r + 1 \/ j = r + 2 \/ j = r + 3
    OBVIOUS
  <2> QED
    BY <1>5, <2>1, <2>2, <2>3
<1> QED
  BY <1>1, <1>2, <1>3, <1>4, <1>5

\* The bytes tcp_nip_data_queue takes end where something is missing.
Taken(s, m) ==
  CHOOSE k \in s.rcv .. s.rcv + Window :
    /\ \A j \in s.rcv .. k - 1 : \E w \in s.ofo \cup {m} : w.seq = j
    /\ \A w \in s.ofo \cup {m} : w.seq # k

\* What the CHOOSE of DataQueue finds: the end of a stored segment, or nothing new.
LEMMA TakenIs ==
  ASSUME NEW base \in Nat, NEW q \in Nat, NEW In, NEW s, Sane(base, q, In, s),
         NEW m \in In, Stored(m), NEW k, k = Taken(s, m)
  PROVE  /\ k \in s.rcv .. q + 5
         /\ k = s.rcv \/ \E w \in In : Stored(w) /\ k = w.seq + 1
<1>1. PICK W : W = s.ofo \cup {m}
  OBVIOUS
<1>2. /\ \A w \in W : w \in In /\ Stored(w) /\ w.seq \in Nat /\ w.seq # q + 5
      /\ s.rcv \in q + 1 .. q + 5
  BY <1>1 DEF Sane, Msgs
<1>3. PICK C : C = {w.seq : w \in W}
  OBVIOUS
<1>4. PICK j \in s.rcv .. q + 5 : j \notin C /\ \A i \in s.rcv .. j - 1 : i \in C
  <2>1. s.rcv \in Int /\ q + 5 \in s.rcv .. s.rcv + 4 /\ q + 5 \notin C
    BY <1>2, <1>3
  <2> QED
    BY <2>1, LeastGap
<1> DEFINE D(i) == /\ \A x \in s.rcv .. i - 1 : \E w \in W : w.seq = x
                   /\ \A w \in W : w.seq # i
           B == s.rcv .. s.rcv + Window
<1>5. j \in B /\ D(j)
  BY <1>2, <1>3, <1>4 DEF Window
<1>6. k = CHOOSE i \in B : D(i)
  BY <1>1 DEF Taken
<1>7. k \in B /\ D(k)
  <2> HIDE DEF B, D
  <2> QED
    BY <1>5, <1>6
<1>8. k \in s.rcv .. q + 5
  <2>1. ~(j \in s.rcv .. k - 1)
    BY <1>3, <1>4, <1>7
  <2>2. k \in Int /\ s.rcv \in Int /\ j \in Int /\ s.rcv <= k /\ s.rcv <= j /\ j <= q + 5
    BY <1>2, <1>4, <1>7
  <2> QED
    BY <2>1, <2>2
<1>9. CASE k # s.rcv
  <2>1. k - 1 \in s.rcv .. k - 1 /\ k \in Int
    BY <1>2, <1>8, <1>9
  <2>2. PICK w \in W : w.seq = k - 1
    BY <1>7, <2>1
  <2>3. w \in In /\ Stored(w) /\ k = w.seq + 1
    BY <1>2, <2>1, <2>2
  <2> QED
    BY <1>8, <2>3
<1> QED
  BY <1>8, <1>9

\* A FIN that is reached changes the state only.
LEMMA FinSame ==
  ASSUME NEW t, IsSock(t), t.st \notin {"CLOSE", "SYN_SENT"}
  PROVE  LET f == tcp_nip_fin(t)
         IN /\ f.st \notin {"CLOSE", "SYN_SENT"} /\ (Open(f) => Open(t))
            /\ f.una = t.una /\ f.nxt = t.nxt /\ f.rcv = t.rcv /\ f.ofo = t.ofo
            /\ f.backlog = t.backlog /\ IsSock(f)
<1>1. PICK v : v = CASE t.st \in {"SYN_RECV", "ESTABLISHED"} -> "CLOSE_WAIT"
                     [] t.st = "FIN_WAIT1" -> "CLOSING"
                     [] OTHER -> t.st
  OBVIOUS
<1>2. v \notin {"CLOSE", "SYN_SENT"} /\ (v \in {"SYN_RECV", "ESTABLISHED", "CLOSE_WAIT"} =>
        t.st \in {"SYN_RECV", "ESTABLISHED", "CLOSE_WAIT"})
  BY <1>1
<1>3. PICK b : b = (t.ka \/ t.st = "FIN_WAIT2")
  OBVIOUS
<1>4. tcp_nip_fin(t) = [t EXCEPT !.rshut = TRUE, !.st = v, !.ka = b]
  BY <1>1, <1>3 DEF tcp_nip_fin, IsSock, SockFields
<1>5. PICK f : f = tcp_nip_fin(t)
  OBVIOUS
<1>6. /\ f.st = v /\ f.una = t.una /\ f.nxt = t.nxt /\ f.rcv = t.rcv /\ f.ofo = t.ofo
      /\ f.backlog = t.backlog /\ IsSock(f)
  BY <1>4, <1>5 DEF IsSock, SockFields
<1> QED
  BY <1>2, <1>5, <1>6 DEF Open

\* An acknowledgement of a sane end.
LEMMA AckEmits ==
  ASSUME NEW e \in Ends, NEW base \in Nat, NEW q \in Nat, NEW In, NEW s, NEW t,
         Sane(base, q, In, t)
  PROVE  Emits(e, s, t, Ack(e, t))
<1>1. t.nxt \in Nat /\ t.rcv \in Nat /\ t.st # "CLOSE"
  BY DEF Sane
<1>2. PICK m : m = Msg(e, {"ACK"}, t.nxt, t.nxt, t.rcv)
  OBVIOUS
<1>3. /\ m \in Msgs /\ m.src = e /\ m.flags = {"ACK"} /\ m.seq = m.end /\ m.ack = t.rcv
  BY <1>1, <1>2 DEF Msg, Msgs
<1>4. Ack(e, t) = {m}
  BY <1>1, <1>2 DEF Ack
<1> QED
  BY <1>3, <1>4 DEF Emits, Has

\* tcp_nip_data_queue.
LEMMA DataQueueMoves ==
  ASSUME NEW e \in Ends, NEW base \in Nat, NEW q \in Nat, NEW In, NEW s, IsSock(s),
         Sane(base, q, In, s), NEW m \in In, ~Has(m, "RST"), NEW r, r = DataQueue(e, s, m)
  PROVE  /\ Advances(base, q, In, s, r.s) /\ r.s.una = s.una /\ r.s.nxt = s.nxt
         /\ \A a : Emits(e, a, r.s, r.out)
<1>1. m \in Msgs /\ m.seq \in Nat /\ m.end \in Nat /\ s.rcv \in Nat /\ s.nxt \in Nat
  BY DEF Sane, Msgs
<1>2. Advances(base, q, In, s, s)
  BY <1>1 DEF Advances
<1>3. \A a : Emits(e, a, s, {}) /\ Emits(e, a, s, Ack(e, s))
  BY AckEmits DEF Emits
<1>4. CASE m.seq = m.end
  <2>1. r = Result(s, {})
    BY <1>4 DEF DataQueue
  <2>2. r.s = s /\ r.out = {}
    BY <2>1 DEF Result
  <2> QED
    BY <1>2, <1>3, <2>2
<1>5. CASE m.seq # m.end /\ m.end <= s.rcv
  <2>1. r = Result(s, Ack(e, s))
    BY <1>5 DEF DataQueue
  <2>2. r.s = s /\ r.out = Ack(e, s)
    BY <2>1 DEF Result
  <2> QED
    BY <1>2, <1>3, <2>2
<1>6. CASE m.seq # m.end /\ ~(m.end <= s.rcv)
  <2>1. Stored(m)
    BY <1>6 DEF Stored
  <2>2. PICK k : k = Taken(s, m)
    OBVIOUS
  <2>3. /\ k \in s.rcv .. q + 5
        /\ k = s.rcv \/ \E w \in In : Stored(w) /\ k = w.seq + 1
    BY <2>1, <2>2, TakenIs
  <2>4. PICK eaten : eaten = {w \in s.ofo \cup {m} : w.seq < k}
    OBVIOUS
  <2>5. PICK O, n : /\ O = (s.ofo \cup {m}) \ eaten
                    /\ n = s.unread + Cardinality({w \in eaten : ~Has(w, "FIN")})
    OBVIOUS
  <2>6. PICK t : t = [s EXCEPT !.rcv = k, !.ofo = O, !.unread = n]
    OBVIOUS
  <2>7. PICK u : u = IF \E w \in eaten : Has(w, "FIN") THEN tcp_nip_fin(t) ELSE t
    OBVIOUS
  <2>8. r = Result(u, Ack(e, u))
    BY <1>6, <2>2, <2>4, <2>5, <2>6, <2>7 DEF DataQueue, Taken
  <2>9. /\ IsSock(t) /\ t.st = s.st /\ t.una = s.una /\ t.nxt = s.nxt /\ t.rcv = k
        /\ t.ofo = O /\ t.backlog = s.backlog
    BY <2>6 DEF IsSock, SockFields
  <2>10. /\ u.st \notin {"CLOSE", "SYN_SENT"} /\ (Open(u) => Open(s))
         /\ u.una = s.una /\ u.nxt = s.nxt /\ u.rcv = k /\ u.ofo = O
         /\ u.backlog = s.backlog
    <3>1. t.st \notin {"CLOSE", "SYN_SENT"} /\ (Open(t) => Open(s))
      BY <2>9 DEF Sane, Open
    <3> QED
      BY <2>7, <2>9, <3>1, FinSame
  <2>11. O \subseteq In /\ \A w \in O : Stored(w)
    BY <2>1, <2>5 DEF Sane
  <2>12. k \in q + 1 .. q + 5 /\ s.rcv <= k
    BY <1>1, <2>3 DEF Sane
  <2>13. Sane(base, q, In, u)
    BY <2>10, <2>11, <2>12 DEF Sane
  <2>14. Advances(base, q, In, s, u)
    BY <1>1, <2>3, <2>10, <2>12, <2>13 DEF Advances
  <2>15. r.s = u /\ r.out = Ack(e, u)
    BY <2>8 DEF Result
  <2> QED
    BY <2>10, <2>13, <2>14, <2>15, AckEmits
<1> QED
  BY <1>4, <1>5, <1>6

\* The end of a socket leaves it in TCP_CLOSE for good.
LEMMA DoneOver ==
  ASSUME NEW s
  PROVE  Over(tcp_nip_done(s))
  BY DEF tcp_nip_done, Destroy, Closed, Fresh, Over

\* The same, as a step.
LEMMA DoneMoves ==
  ASSUME NEW e, NEW base, NEW q, NEW In, NEW s, NEW u
  PROVE  Moves(e, base, q, In, s, Result(tcp_nip_done(u), {}))
<1>1. PICK t : t = tcp_nip_done(u)
  OBVIOUS
<1>2. Over(t) /\ Result(t, {}).s = t /\ Result(t, {}).out = {}
  BY <1>1, DoneOver DEF Result
<1> QED
  BY <1>1, <1>2 DEF Moves, Finishes, Over

\* A step that changes nothing.
LEMMA StayMoves ==
  ASSUME NEW e \in Ends, NEW base \in Nat, NEW q \in Nat, NEW In, NEW s, Sane(base, q, In, s)
  PROVE  /\ Moves(e, base, q, In, s, Result(s, {}))
         /\ Moves(e, base, q, In, s, Result(s, Ack(e, s)))
<1>1. s.rcv \in Nat /\ s.nxt \in Nat /\ Hashed(s)
  BY DEF Sane, Hashed
<1>2. Advances(base, q, In, s, s)
  BY <1>1 DEF Advances
<1>3. Emits(e, s, s, {}) /\ Emits(e, s, s, Ack(e, s))
  BY AckEmits DEF Emits
<1> QED
  BY <1>1, <1>2, <1>3 DEF Moves, Result

\* tcp_nip_validate_incoming.
LEMMA RefuseMoves ==
  ASSUME NEW e \in Ends, NEW base \in Nat, NEW q \in Nat, NEW In, NEW s, Sane(base, q, In, s),
         NEW m
  PROVE  Moves(e, base, q, In, s, Refuse(e, s, m))
  BY StayMoves, DoneMoves DEF Refuse

\* An end whose acknowledgement is taken, or whose state has moved on with it.
Acks(In, s, t) ==
  /\ IsSock(t) /\ t.st \notin {"CLOSE", "SYN_SENT"} /\ (Open(t) => Open(s))
  /\ t.nxt = s.nxt /\ t.rcv = s.rcv /\ t.ofo = s.ofo /\ t.backlog = s.backlog
  /\ t.una = s.una \/ \E m \in In : ~Has(m, "RST") /\ t.una = m.ack /\ s.una <= m.ack

\* Such an end stays sane.
LEMMA AcksSane ==
  ASSUME NEW base \in Nat, NEW q \in Nat, NEW In, NEW s, Sane(base, q, In, s), NEW t,
         Acks(In, s, t)
  PROVE  Sane(base, q, In, t) /\ Advances(base, q, In, s, t)
<1>1. s.rcv \in Nat /\ s.nxt \in Nat /\ s.una \in Nat /\ base + 1 <= s.una
  BY DEF Sane
<1>2. t.una \in Nat /\ base + 1 <= t.una
  <2>1. CASE t.una = s.una
    BY <1>1, <2>1
  <2>2. ASSUME NEW m \in In, t.una = m.ack, s.una <= m.ack
        PROVE  t.una \in Nat /\ base + 1 <= t.una
    <3>1. m.ack \in Nat
      BY DEF Sane, Msgs
    <3> QED
      BY <1>1, <2>2, <3>1
  <2> QED
    BY <2>1, <2>2 DEF Acks
<1>3. Sane(base, q, In, t)
  BY <1>2 DEF Sane, Acks
<1> QED
  BY <1>1, <1>3 DEF Acks, Advances

\* tcp_nip_ack.
LEMMA AckedAcks ==
  ASSUME NEW base \in Nat, NEW q \in Nat, NEW In, NEW s, IsSock(s), Sane(base, q, In, s),
         NEW m \in In, ~Has(m, "RST")
  PROVE  Acks(In, s, Acked(s, m)) /\ Acked(s, m).st = s.st
<1>1. m.ack \in Nat /\ s.una \in Nat /\ s.st \notin {"CLOSE", "SYN_SENT"}
  BY DEF Sane, Msgs
<1>2. Acks(In, s, s)
  BY <1>1 DEF Acks
<1>3. PICK t : t = [s EXCEPT !.una = m.ack, !.rtx = 0]
  OBVIOUS
<1>4. CASE m.ack > s.una
  <2>1. /\ IsSock(t) /\ t.st = s.st /\ t.nxt = s.nxt /\ t.rcv = s.rcv /\ t.ofo = s.ofo
        /\ t.backlog = s.backlog /\ t.una = m.ack
    BY <1>3 DEF IsSock, SockFields
  <2>2. Acks(In, s, t)
    BY <1>1, <1>4, <2>1 DEF Acks, Open
  <2> QED
    BY <1>2, <1>3, <2>1, <2>2 DEF Acked
<1> QED
  BY <1>2, <1>4 DEF Acked

\* tcp_nip_rcv_established.
LEMMA EstablishedMoves ==
  ASSUME NEW e \in Ends, NEW base \in Nat, NEW q \in Nat, NEW In, NEW s, IsSock(s),
         Sane(base, q, In, s), NEW m \in In
  PROVE  Moves(e, base, q, In, s, RcvEstablished(e, s, m))
<1>1. CASE Invalid(s, m)
  BY <1>1, RefuseMoves DEF RcvEstablished
<1>2. CASE ~Invalid(s, m) /\ AckValue(s, m) < 0
  BY <1>2, StayMoves DEF RcvEstablished
<1>3. CASE ~Invalid(s, m) /\ ~(AckValue(s, m) < 0)
  <2>1. ~Has(m, "RST")
    BY <1>3 DEF Invalid
  <2>2. PICK t : t = Acked(s, m)
    OBVIOUS
  <2>3. Acks(In, s, t)
    BY <2>1, <2>2, AckedAcks
  <2>4. Sane(base, q, In, t) /\ IsSock(t)
    BY <2>3, AcksSane DEF Acks
  <2>5. PICK r : r = DataQueue(e, t, m)
    OBVIOUS
  <2>6. /\ Advances(base, q, In, t, r.s) /\ r.s.una = t.una
        /\ Emits(e, s, r.s, r.out)
    BY <2>1, <2>4, <2>5, DataQueueMoves
  <2>7. Advances(base, q, In, s, r.s) /\ Hashed(s)
    BY <2>3, <2>6 DEF Advances, Acks, Sane, Hashed
  <2>8. RcvEstablished(e, s, m) = r
    BY <1>3, <2>2, <2>5 DEF RcvEstablished
  <2> QED
    BY <2>6, <2>7, <2>8 DEF Moves
<1> QED
  BY <1>1, <1>2, <1>3

\* What the acknowledgement does to the state.
LEMMA AckStepAcks ==
  ASSUME NEW base \in Nat, NEW q \in Nat, NEW In, NEW s, IsSock(s), Sane(base, q, In, s),
         NEW m \in In, ~Has(m, "RST"), s.una <= m.ack
  PROVE  Over(AckStep(s, m)) \/ Acks(In, s, AckStep(s, m))
<1>1. PICK a : a = [s EXCEPT !.st = "ESTABLISHED", !.una = m.ack]
  OBVIOUS
<1>2. PICK c : c = [s EXCEPT !.st = "FIN_WAIT2", !.sshut = TRUE, !.ka = TRUE]
  OBVIOUS
<1>3. PICK d : d = [s EXCEPT !.ka = TRUE]
  OBVIOUS
<1>4. s.st \notin {"CLOSE", "SYN_SENT"} /\ Acks(In, s, s)
  BY DEF Sane, Acks
<1>5. s.st = "SYN_RECV" => Acks(In, s, a)
  <2>1. /\ IsSock(a) /\ a.st = "ESTABLISHED" /\ a.nxt = s.nxt /\ a.rcv = s.rcv /\ a.ofo = s.ofo
        /\ a.backlog = s.backlog /\ a.una = m.ack
    BY <1>1 DEF IsSock, SockFields
  <2> QED
    BY <2>1 DEF Acks, Open
<1>6. Acks(In, s, c)
  <2>1. /\ IsSock(c) /\ c.st = "FIN_WAIT2" /\ c.nxt = s.nxt /\ c.rcv = s.rcv /\ c.ofo = s.ofo
        /\ c.backlog = s.backlog /\ c.una = s.una
    BY <1>2 DEF IsSock, SockFields
  <2> QED
    BY <2>1 DEF Acks, Open
<1>7. Acks(In, s, d)
  <2>1. /\ IsSock(d) /\ d.st = s.st /\ d.nxt = s.nxt /\ d.rcv = s.rcv /\ d.ofo = s.ofo
        /\ d.backlog = s.backlog /\ d.una = s.una
    BY <1>3 DEF IsSock, SockFields
  <2> QED
    BY <1>4, <2>1 DEF Acks, Open
<1> QED
  BY <1>1, <1>2, <1>3, <1>4, <1>5, <1>6, <1>7, DoneOver DEF AckStep

\* tcp_nip_rcv_state_process.
LEMMA StateProcessMoves ==
  ASSUME NEW e \in Ends, NEW base \in Nat, NEW q \in Nat, NEW In, NEW s, IsSock(s),
         Sane(base, q, In, s), NEW m \in In
  PROVE  Moves(e, base, q, In, s, RcvStateProcess(e, s, m))
<1>1. CASE m.flags \cap {"ACK", "RST", "SYN"} = {}
  BY <1>1, StayMoves DEF RcvStateProcess
<1>2. CASE m.flags \cap {"ACK", "RST", "SYN"} # {} /\ Invalid(s, m)
  BY <1>2, RefuseMoves DEF RcvStateProcess
<1>3. CASE m.flags \cap {"ACK", "RST", "SYN"} # {} /\ ~Invalid(s, m) /\ AckValue(s, m) = 0
  BY <1>3, StayMoves DEF RcvStateProcess
<1>4. CASE m.flags \cap {"ACK", "RST", "SYN"} # {} /\ ~Invalid(s, m) /\ AckValue(s, m) # 0
  <2>1. ~Has(m, "RST") /\ s.una \in Nat /\ m.ack \in Nat /\ s.una <= m.ack
    BY <1>4 DEF Invalid, AckValue, Sane, Msgs
  <2>2. PICK t : t = Acked(s, m)
    OBVIOUS
  <2>3. Acks(In, s, t) /\ t.una <= m.ack
    <3>1. t.una = s.una \/ t.una = m.ack
      BY <2>2 DEF Acked, IsSock, SockFields
    <3> QED
      BY <2>1, <2>2, <3>1, AckedAcks
  <2>4. Sane(base, q, In, t) /\ IsSock(t)
    BY <2>3, AcksSane DEF Acks
  <2>5. PICK u : u = AckStep(t, m)
    OBVIOUS
  <2>6. Over(u) \/ Acks(In, t, u)
    BY <2>1, <2>3, <2>4, <2>5, AckStepAcks
  <2>7. CASE Over(u)
    <3>1. RcvStateProcess(e, s, m) = Result(u, {})
      BY <1>4, <2>2, <2>5, <2>7 DEF RcvStateProcess, Over
    <3> QED
      BY <2>7, <3>1 DEF Moves, Finishes, Result, Over
  <2>8. CASE Acks(In, t, u)
    <3>1. Acks(In, s, u)
      <4>1. u.una = s.una \/ \E x \in In : ~Has(x, "RST") /\ u.una = x.ack /\ s.una <= x.ack
        <5>1. CASE u.una = t.una
          BY <2>3, <5>1 DEF Acks
        <5>2. ASSUME NEW x \in In, ~Has(x, "RST"), u.una = x.ack, t.una <= x.ack
              PROVE  s.una <= x.ack
          <6>1. x.ack \in Nat /\ t.una \in Nat
            BY <2>4 DEF Sane, Msgs
          <6>2. s.una <= t.una
            BY <2>1, <2>3 DEF Acks
          <6> QED
            BY <2>1, <5>2, <6>1, <6>2
        <5> QED
          BY <2>8, <5>1, <5>2 DEF Acks
      <4> QED
        BY <2>3, <2>8, <4>1 DEF Acks
    <3>2. Sane(base, q, In, u) /\ IsSock(u) /\ Advances(base, q, In, s, u) /\ Hashed(s)
      BY <3>1, AcksSane DEF Acks, Sane, Hashed
    <3>3. Moves(e, base, q, In, s, Result(u, {}))
      <4>1. Emits(e, s, u, {})
        BY DEF Emits
      <4> QED
        BY <3>2, <4>1 DEF Moves, Result
    <3>4. PICK r : r = DataQueue(e, u, m)
      OBVIOUS
    <3>5. /\ Advances(base, q, In, u, r.s) /\ r.s.una = u.una
          /\ Emits(e, s, r.s, r.out)
      BY <2>1, <3>2, <3>4, DataQueueMoves
    <3>6. Advances(base, q, In, s, r.s)
      BY <3>1, <3>5 DEF Advances, Acks
    <3>7. Moves(e, base, q, In, s, r)
      BY <3>2, <3>5, <3>6 DEF Moves
    <3>8. \/ RcvStateProcess(e, s, m) = Result(u, {})
          \/ RcvStateProcess(e, s, m) = Result(tcp_nip_done(u), {})
          \/ RcvStateProcess(e, s, m) = r
      BY <1>4, <2>2, <2>5, <3>4 DEF RcvStateProcess
    <3> QED
      BY <3>3, <3>7, <3>8, DoneMoves
  <2> QED
    BY <2>6, <2>7, <2>8
<1> QED
  BY <1>1, <1>2, <1>3, <1>4

\* tcp_nip_do_rcv.
LEMMA DoRcvMoves ==
  ASSUME NEW e \in Ends, NEW base \in Nat, NEW q \in Nat, NEW In, NEW s, IsSock(s),
         s.st # "SYN_SENT", NEW m, Hashed(s) => Sane(base, q, In, s) /\ m \in In
  PROVE  Moves(e, base, q, In, s, DoRcv(e, s, m))
<1>1. CASE s.st = "CLOSE"
  <2>1. DoRcv(e, s, m) = Result(s, {})
    BY <1>1 DEF DoRcv
  <2> QED
    BY <1>1, <2>1 DEF Moves, Finishes, Result, Hashed
<1>2. CASE s.st = "ESTABLISHED"
  BY <1>2, EstablishedMoves DEF DoRcv, Hashed
<1>3. CASE s.st \notin {"CLOSE", "SYN_SENT", "ESTABLISHED"}
  BY <1>3, StateProcessMoves DEF DoRcv, Hashed
<1> QED
  BY <1>1, <1>2, <1>3

-----------------------------------------------------------------------------
(* The steps of one end, as they are in the actions.                       *)

Ready(e, base, q, In) ==
  sk[e].st # "SYN_SENT" /\ (Hashed(sk[e]) => Sane(base, q, In, sk[e]))

StepOf(e, r) == sk' = [sk EXCEPT ![e] = r.s] /\ net' \subseteq net \cup r.out /\ UNCHANGED Server

\* The number Send counts from.
FirstOf(e) == IF e = "S" THEN Isn(child.g) ELSE 0

EndMoves(e, base, q, In) == \E r : StepOf(e, r) /\ Moves(e, base, q, In, sk[e], r)

\* Apply transmits what it returns, or loses it.
LEMMA ApplyStep ==
  ASSUME NEW e, NEW r, Apply(e, r), UNCHANGED Server
  PROVE  StepOf(e, r)
  BY DEF Apply, Transmit, StepOf

\* A step that leaves the numbers alone.
LEMMA SameMoves ==
  ASSUME ConnInv, NEW e \in Ends, NEW base \in Nat, NEW q \in Nat, NEW In,
         Ready(e, base, q, In), NEW t, sk' = [sk EXCEPT ![e] = t], UNCHANGED <<Server, net>>,
         Same(sk[e], t), t.ofo = sk[e].ofo,
         Hashed(sk[e]) => t.backlog \in Seq(In)
  PROVE  EndMoves(e, base, q, In)
<1>1. PICK r : r = Result(t, {})
  OBVIOUS
<1>2. r.s = t /\ r.out = {} /\ StepOf(e, r)
  BY <1>1 DEF Result, StepOf
<1>3. CASE Hashed(sk[e])
  <2>1. sk[e].rcv \in Nat /\ sk[e].nxt \in Nat
    BY <1>3 DEF Ready, Sane
  <2>2. Sane(base, q, In, t)
    BY <1>3 DEF Ready, Sane, Same, Open
  <2>3. Advances(base, q, In, sk[e], t) /\ Emits(e, sk[e], t, {})
    BY <2>1, <2>2 DEF Advances, Emits, Same
  <2> QED
    BY <1>2, <1>3, <2>3 DEF EndMoves, Moves
<1>4. CASE ~Hashed(sk[e])
  BY <1>2, <1>4 DEF EndMoves, Moves, Finishes, Same, Hashed, Over
<1> QED
  BY <1>3, <1>4

\* A handler that starts from, or ends in, the same numbers.
LEMMA MovesFrom ==
  ASSUME NEW e, NEW base, NEW q, NEW In, NEW s, NEW u, Same(s, u), NEW r,
         Moves(e, base, q, In, u, r)
  PROVE  Moves(e, base, q, In, s, r)
  BY DEF Moves, Finishes, Advances, Emits, Same, Hashed, Over

\* A step that goes on with fields other than the numbers.
LEMMA MovesTo ==
  ASSUME NEW e, NEW base, NEW q, NEW In, NEW s, NEW r, Moves(e, base, q, In, s, r),
         NEW t, Same(r.s, t), t.ofo = r.s.ofo, t.backlog = r.s.backlog
  PROVE  Moves(e, base, q, In, s, Result(t, r.out))
<1>1. Result(t, r.out).s = t /\ Result(t, r.out).out = r.out
  BY DEF Result
<1>2. CASE Finishes(e, s, r.s, r.out)
  BY <1>1, <1>2 DEF Moves, Finishes, Same, Over
<1>3. CASE Hashed(s) /\ Advances(base, q, In, s, r.s) /\ Emits(e, s, r.s, r.out)
  <2>1. Sane(base, q, In, t)
    BY <1>3 DEF Advances, Sane, Same, Open
  <2>2. Advances(base, q, In, s, t) /\ Emits(e, s, t, r.out)
    BY <1>3, <2>1 DEF Advances, Emits, Same
  <2> QED
    BY <1>1, <1>3, <2>2 DEF Moves
<1> QED
  BY <1>2, <1>3 DEF Moves

\* A segment with the next numbers of a sane end.
LEMMA NextEmits ==
  ASSUME NEW e \in Ends, NEW s, NEW t, s.nxt \in Nat, t.rcv = s.rcv, s.rcv \in Nat,
         t.nxt = s.nxt + 1, NEW f, f \in {{"ACK"}, {"ACK", "FIN"}}
  PROVE  Emits(e, s, t, {Msg(e, f, s.nxt, s.nxt + 1, s.rcv)})
<1>1. PICK m : m = Msg(e, f, s.nxt, s.nxt + 1, s.rcv)
  OBVIOUS
<1>2. /\ m \in Msgs /\ m.src = e /\ "RST" \notin m.flags /\ "ACK" \in m.flags
      /\ m.seq = s.nxt /\ m.ack = s.rcv
  BY <1>1 DEF Msg, Msgs
<1> QED
  BY <1>1, <1>2 DEF Emits, Has

\* The application sends three units at most.
LEMMA SendMoves ==
  ASSUME ConnInv, NEW e \in Ends, NEW base \in Nat, NEW q \in Nat, NEW In,
         Ready(e, base, q, In), Send(e), Hashed(sk[e]) => base = FirstOf(e)
  PROVE  EndMoves(e, base, q, In)
<1>1. PICK s : s = sk[e]
  OBVIOUS
<1>2. Sane(base, q, In, s) /\ IsSock(s) /\ Hashed(s) /\ Open(s)
  BY <1>1, SocketEnd DEF Send, Ready, Hashed, Open
<1>3. s.nxt \in Nat /\ s.rcv \in Nat /\ s.nxt \in base + 1 .. base + 5
  BY <1>2 DEF Sane
<1>4. s.nxt <= base + 3
  <2>1. s.nxt - base - 1 < Data[e] /\ Data[e] \in Nat /\ Data[e] <= 3
    BY <1>1, <1>2, ConnAssumption DEF Send, Ends, ConnAssumption, FirstOf
  <2> QED
    BY <1>3, <2>1
<1>5. PICK t : t = [s EXCEPT !.nxt = s.nxt + 1]
  OBVIOUS
<1>6. /\ t.st = s.st /\ t.una = s.una /\ t.nxt = s.nxt + 1 /\ t.rcv = s.rcv /\ t.ofo = s.ofo
      /\ t.backlog = s.backlog
  BY <1>2, <1>5 DEF IsSock, SockFields
<1>7. t.nxt \in base + 1 .. base + 5 /\ t.nxt <= base + 4
  BY <1>3, <1>4, <1>6
<1>8. Sane(base, q, In, t)
  BY <1>2, <1>6, <1>7 DEF Sane, Open
<1>9. Advances(base, q, In, s, t)
  BY <1>3, <1>6, <1>8 DEF Advances
<1>10. PICK o : o = {Msg(e, {"ACK"}, s.nxt, s.nxt + 1, s.rcv)}
  OBVIOUS
<1>11. Emits(e, s, t, o)
  BY <1>3, <1>6, <1>10, NextEmits
<1>12. Result(t, o).s = t /\ Result(t, o).out = o
  BY DEF Result
<1>13. Moves(e, base, q, In, s, Result(t, o))
  BY <1>2, <1>9, <1>11, <1>12 DEF Moves
<1>14. Apply(e, Result(t, o)) /\ UNCHANGED Server
  BY <1>1, <1>5, <1>10 DEF Send
<1> QED
  BY <1>1, <1>13, <1>14, ApplyStep DEF EndMoves

\* tcp_nip_recvmsg, and the end of release_sock.
LEMMA ReadMoves ==
  ASSUME ConnInv, NEW e \in Ends, NEW base \in Nat, NEW q \in Nat, NEW In,
         Ready(e, base, q, In), Read(e) \/ CloseRelease(e)
  PROVE  EndMoves(e, base, q, In)
<1>1. PICK s : s = sk[e]
  OBVIOUS
<1>2. PICK t, u : t = [s EXCEPT !.unread = 0] /\ u = [s EXCEPT !.phase = "judge"]
  OBVIOUS
<1>3. IsSock(s)
  BY <1>1, SocketEnd
<1>4. /\ Same(s, t) /\ t.ofo = s.ofo /\ t.backlog = s.backlog
      /\ Same(s, u) /\ u.ofo = s.ofo /\ u.backlog = s.backlog
  BY <1>2, <1>3 DEF IsSock, SockFields, Same
<1>5. Hashed(s) => s.backlog \in Seq(In)
  BY <1>1 DEF Ready, Sane
<1>6. UNCHANGED <<Server, net>> /\ (sk' = [sk EXCEPT ![e] = t] \/ sk' = [sk EXCEPT ![e] = u])
  BY <1>1, <1>2 DEF Read, CloseRelease
<1> QED
  BY <1>1, <1>4, <1>5, <1>6, SameMoves

\* tcp_nip_close_state: the FIN is the last number an end uses.
LEMMA CloseStateMoves ==
  ASSUME NEW e \in Ends, NEW base \in Nat, NEW q \in Nat, NEW In, NEW s, IsSock(s),
         Sane(base, q, In, s)
  PROVE  Moves(e, base, q, In, s, CloseState(e, s))
<1>1. PICK to : to = new_state(s.st)
  OBVIOUS
<1>2. PICK u : u = [s EXCEPT !.st = to.st]
  OBVIOUS
<1>3. /\ to.fin => Open(s) /\ to.st \in {"FIN_WAIT1", "LAST_ACK"}
      /\ ~to.fin => to.st = s.st
      /\ s.st \notin {"CLOSE", "SYN_SENT"}
  BY <1>1 DEF new_state, Open, Sane
<1>4. /\ IsSock(u) /\ u.st = to.st /\ u.una = s.una /\ u.nxt = s.nxt /\ u.rcv = s.rcv
      /\ u.ofo = s.ofo /\ u.backlog = s.backlog
  BY <1>2 DEF IsSock, SockFields
<1>5. s.nxt \in Nat /\ s.rcv \in Nat /\ s.nxt \in base + 1 .. base + 5 /\ Hashed(s)
  BY DEF Sane, Hashed
<1>6. CASE to.fin
  <2>1. PICK v : v = [u EXCEPT !.fin = TRUE, !.nxt = u.nxt + 1]
    OBVIOUS
  <2>2. /\ v.st = to.st /\ v.una = s.una /\ v.nxt = s.nxt + 1 /\ v.rcv = s.rcv
        /\ v.ofo = s.ofo /\ v.backlog = s.backlog
    BY <1>4, <2>1 DEF IsSock, SockFields
  <2>3. v.nxt \in base + 1 .. base + 5 /\ ~Open(v) /\ v.st \notin {"CLOSE", "SYN_SENT"}
    <3>1. s.nxt <= base + 4
      BY <1>3, <1>6 DEF Sane
    <3> QED
      BY <1>3, <1>5, <1>6, <2>2, <3>1 DEF Open
  <2>4. Sane(base, q, In, v)
    BY <2>2, <2>3 DEF Sane
  <2>5. Advances(base, q, In, s, v)
    BY <1>5, <2>2, <2>4 DEF Advances
  <2>6. PICK o : o = {Msg(e, {"ACK", "FIN"}, s.nxt, s.nxt + 1, s.rcv)}
    OBVIOUS
  <2>7. Emits(e, s, v, o)
    BY <1>5, <2>2, <2>6, NextEmits
  <2>8. CloseState(e, s) = Result(v, o)
    BY <1>1, <1>2, <1>4, <1>6, <2>1, <2>6 DEF CloseState, SendFin
  <2> QED
    BY <1>5, <2>5, <2>7, <2>8 DEF Moves, Result
<1>7. CASE ~to.fin
  <2>1. CloseState(e, s) = Result(u, {})
    BY <1>1, <1>2, <1>3, <1>7 DEF CloseState
  <2>2. Sane(base, q, In, u)
    BY <1>3, <1>4, <1>7 DEF Sane, Open
  <2>3. Advances(base, q, In, s, u) /\ Emits(e, s, u, {})
    BY <1>4, <1>5, <2>2 DEF Advances, Emits
  <2> QED
    BY <1>5, <2>1, <2>3 DEF Moves, Result
<1> QED
  BY <1>6, <1>7

\* tcp_nip_shutdown.
LEMMA ShutdownMoves ==
  ASSUME ConnInv, NEW e \in Ends, NEW base \in Nat, NEW q \in Nat, NEW In,
         Ready(e, base, q, In), Shutdown(e)
  PROVE  EndMoves(e, base, q, In)
<1>1. PICK s : s = [sk[e] EXCEPT !.sshut = TRUE]
  OBVIOUS
<1>2. IsSock(s) /\ Same(sk[e], s) /\ s.ofo = sk[e].ofo /\ s.backlog = sk[e].backlog
  BY <1>1, SocketEnd DEF IsSock, SockFields, Same
<1>3. Sane(base, q, In, s)
  BY <1>2 DEF Shutdown, Ready, Hashed, Sane, Same, Open
<1>4. Moves(e, base, q, In, sk[e], CloseState(e, s))
  BY <1>2, <1>3, CloseStateMoves, MovesFrom
<1>5. Apply(e, CloseState(e, s)) /\ UNCHANGED Server
  BY <1>1 DEF Shutdown
<1> QED
  BY <1>4, <1>5, ApplyStep DEF EndMoves

\* Resets that an end sends when it gives the connection up.
LEMMA ResetFinishes ==
  ASSUME NEW e \in Ends, NEW base \in Nat, NEW q \in Nat, NEW In, NEW s,
         Sane(base, q, In, s), NEW shut, NEW o, o \in {{}, ActiveReset(e, s)}
  PROVE  Moves(e, base, q, In, s, Result(Closed(shut), o))
<1>1. s.nxt \in Nat /\ s.rcv \in Nat
  BY DEF Sane
<1>2. PICK m : m = Msg(e, {"ACK", "RST"}, s.nxt, s.nxt, s.rcv)
  OBVIOUS
<1>3. m \in Msgs /\ m.src = e /\ Has(m, "RST") /\ m.ack = s.rcv /\ Hashed(s)
  BY <1>1, <1>2 DEF Msg, Msgs, Has, Sane, Hashed
<1>4. PICK t : t = Closed(shut)
  OBVIOUS
<1>5. Over(t)
  BY <1>4 DEF Closed, Fresh, Over
<1>6. \A x \in o : x = m
  BY <1>2 DEF ActiveReset
<1> QED
  BY <1>3, <1>4, <1>5, <1>6 DEF Moves, Finishes, Result, Over

\* tcp_nip_disconnect.
LEMMA DisconnectMoves ==
  ASSUME ConnInv, NEW e \in Ends, NEW base \in Nat, NEW q \in Nat, NEW In,
         Ready(e, base, q, In), Disconnect(e)
  PROVE  EndMoves(e, base, q, In)
<1>1. PICK r : r = Disconnected(e, sk[e])
  OBVIOUS
<1>2. Sane(base, q, In, sk[e])
  BY DEF Disconnect, Ready
<1>3. \E o \in {{}, ActiveReset(e, sk[e])} : r = Result(Closed(FALSE), o)
  BY <1>1 DEF Disconnected
<1>4. Moves(e, base, q, In, sk[e], r)
  BY <1>2, <1>3, ResetFinishes
<1>5. Apply(e, r) /\ UNCHANGED Server
  BY <1>1 DEF Disconnect
<1> QED
  BY <1>4, <1>5, ApplyStep DEF EndMoves

\* tcp_nip_close up to sock_orphan.
LEMMA CloseMoves ==
  ASSUME ConnInv, NEW e \in Ends, NEW base \in Nat, NEW q \in Nat, NEW In,
         Ready(e, base, q, In), Close(e)
  PROVE  EndMoves(e, base, q, In)
<1>1. PICK s : s = [sk[e] EXCEPT !.rshut = TRUE, !.sshut = TRUE]
  OBVIOUS
<1>2. IsSock(s) /\ Same(sk[e], s) /\ s.ofo = sk[e].ofo /\ s.backlog = sk[e].backlog
  BY <1>1, SocketEnd DEF IsSock, SockFields, Same
<1>3. Hashed(s) => Sane(base, q, In, s)
  BY <1>2 DEF Ready, Hashed, Sane, Same, Open
<1>4. PICK r : r = CloseBody(e, s)
  OBVIOUS
<1>5. Moves(e, base, q, In, s, r) /\ IsSock(r.s)
  <2>1. CASE s.st = "CLOSE"
    <3>1. r = Result(s, {})
      BY <1>4, <2>1 DEF CloseBody
    <3> QED
      BY <1>2, <2>1, <3>1 DEF Moves, Finishes, Result, Hashed
  <2>2. CASE s.st # "CLOSE" /\ s.unread > 0
    <3>1. r = Result(Closed(TRUE), ActiveReset(e, s))
      BY <1>4, <2>2 DEF CloseBody
    <3>2. Moves(e, base, q, In, s, r)
      BY <1>3, <2>2, <3>1, ResetFinishes DEF Hashed
    <3>3. r.s = Closed(TRUE)
      BY <3>1 DEF Result
    <3> QED
      BY <3>2, <3>3, ClosedEnd DEF EndInv
  <2>3. CASE s.st # "CLOSE" /\ ~(s.unread > 0)
    <3>1. r = CloseState(e, s)
      BY <1>4, <2>3 DEF CloseBody
    <3>2. EndInv(s) /\ ~s.dead
      <4>1. Keeps(sk[e], s)
        BY <1>1, SocketEnd DEF Keeps, IsSock, SockFields
      <4> QED
        BY <4>1, SocketEnd, KeepsOutcome DEF Keeps, Outcome, Close, User
    <3>3. IsSock(r.s)
      BY <3>1, <3>2, CloseStateOutcome DEF Outcome, EndInv
    <3> QED
      BY <1>2, <1>3, <2>3, <3>1, <3>3, CloseStateMoves DEF Hashed
  <2> QED
    BY <2>1, <2>2, <2>3
<1>6. PICK v : v = r.s
  OBVIOUS
<1>7. PICK t : t = [v EXCEPT !.unread = 0, !.dead = TRUE, !.phase = "owned",
                             !.closed = v.st = "CLOSE"]
  OBVIOUS
<1>8. Same(v, t) /\ t.ofo = v.ofo /\ t.backlog = v.backlog
  <2>1. IsSock(v)
    BY <1>5, <1>6
  <2> QED
    BY <1>7, <2>1 DEF IsSock, SockFields, Same
<1>9. Moves(e, base, q, In, s, Result(t, r.out))
  BY <1>5, <1>6, <1>8, MovesTo
<1>10. Moves(e, base, q, In, sk[e], Result(t, r.out))
  BY <1>2, <1>9, MovesFrom
<1>11. Apply(e, Result(t, r.out)) /\ UNCHANGED Server
  BY <1>1, <1>4, <1>6, <1>7 DEF Close
<1> QED
  BY <1>10, <1>11, ApplyStep DEF EndMoves

\* A segment from the backlog.
LEMMA CloseBacklogMoves ==
  ASSUME ConnInv, NEW e \in Ends, NEW base \in Nat, NEW q \in Nat, NEW In,
         Ready(e, base, q, In), CloseBacklog(e)
  PROVE  EndMoves(e, base, q, In)
<1>1. PICK s : s = [sk[e] EXCEPT !.backlog = Tail(sk[e].backlog)]
  OBVIOUS
<1>2. PICK m : m = Head(sk[e].backlog)
  OBVIOUS
<1>3. IsSock(s) /\ Same(sk[e], s) /\ s.ofo = sk[e].ofo /\ s.backlog = Tail(sk[e].backlog)
  BY <1>1, SocketEnd DEF IsSock, SockFields, Same
<1>4. ASSUME Hashed(s)
      PROVE  Sane(base, q, In, s) /\ m \in In
  <2>1. Sane(base, q, In, sk[e])
    BY <1>3, <1>4 DEF Ready, Hashed, Same
  <2>2. sk[e].backlog \in Seq(In) /\ sk[e].backlog # <<>>
    BY <2>1 DEF Sane, CloseBacklog
  <2>3. PICK B : B = sk[e].backlog
    OBVIOUS
  <2>4. Tail(B) \in Seq(In) /\ Head(B) \in In
    BY <2>2, <2>3
  <2> QED
    BY <1>2, <1>3, <2>1, <2>3, <2>4 DEF Sane, Same, Open
<1>5. s.st # "SYN_SENT"
  BY <1>3 DEF Ready, Same
<1>6. Moves(e, base, q, In, s, DoRcv(e, s, m))
  BY <1>3, <1>4, <1>5, DoRcvMoves
<1>7. Moves(e, base, q, In, sk[e], DoRcv(e, s, m))
  BY <1>3, <1>6, MovesFrom
<1>8. Apply(e, DoRcv(e, s, m)) /\ UNCHANGED Server
  BY <1>1, <1>2 DEF CloseBacklog
<1> QED
  BY <1>7, <1>8, ApplyStep DEF EndMoves

\* A socket the end of tcp_nip_close destroys is in TCP_CLOSE already.
LEMMA CloseJudgeMoves ==
  ASSUME ConnInv, NEW e \in Ends, NEW base \in Nat, NEW q \in Nat, NEW In,
         Ready(e, base, q, In), CloseJudge(e)
  PROVE  EndMoves(e, base, q, In)
<1>1. PICK s : s = sk[e]
  OBVIOUS
<1>2. PICK t : t = Judge(s)
  OBVIOUS
<1>3. sk' = [sk EXCEPT ![e] = t] /\ UNCHANGED <<Server, net>>
  BY <1>1, <1>2 DEF CloseJudge
<1>4. CASE s.st = "CLOSE" /\ s.closed
  <2>1. t.st = "CLOSE" /\ t.dead = TRUE
    BY <1>2, <1>4 DEF Judge, Destroy, Fresh
  <2>2. Finishes(e, s, t, {})
    BY <2>1 DEF Finishes, Over
  <2>3. Moves(e, base, q, In, s, Result(t, {})) /\ StepOf(e, Result(t, {}))
    BY <1>3, <2>2 DEF Moves, Result, StepOf
  <2> QED
    BY <1>1, <2>3 DEF EndMoves
<1>5. CASE ~(s.st = "CLOSE" /\ s.closed)
  <2>1. t = [s EXCEPT !.phase = "done", !.closed = FALSE]
    BY <1>2, <1>5 DEF Judge
  <2>2. Same(s, t) /\ t.ofo = s.ofo /\ t.backlog = s.backlog
    BY <1>1, <2>1, SocketEnd DEF IsSock, SockFields, Same
  <2>3. Hashed(s) => s.backlog \in Seq(In)
    BY <1>1 DEF Ready, Sane
  <2> QED
    BY <1>1, <1>3, <2>2, <2>3, SameMoves
<1> QED
  BY <1>4, <1>5

\* What is sent again is what was sent first.
LEMMA RetransmitMoves ==
  ASSUME ConnInv, NEW e \in Ends, NEW base \in Nat, NEW q \in Nat, NEW In,
         Ready(e, base, q, In), RetransmitTimer(e)
  PROVE  EndMoves(e, base, q, In)
<1>1. PICK s : s = sk[e]
  OBVIOUS
<1>2. Sane(base, q, In, s) /\ Hashed(s) /\ IsSock(s) /\ s.una < s.nxt
  BY <1>1, SocketEnd DEF RetransmitTimer, Ready
<1>3. PICK r : r = IF s.rtx > Retries THEN Result(tcp_nip_done(s), {})
                   ELSE Result([s EXCEPT !.rtx = s.rtx + 1], {Head1(e, s)})
  OBVIOUS
<1>4. PICK t : t = [s EXCEPT !.rtx = s.rtx + 1]
  OBVIOUS
<1>5. Same(s, t) /\ t.ofo = s.ofo /\ t.backlog = s.backlog
  BY <1>2, <1>4 DEF IsSock, SockFields, Same
<1>6. s.nxt \in Nat /\ s.una \in Nat /\ s.rcv \in Nat /\ s.st # "SYN_SENT"
  BY <1>2 DEF Sane
<1>7. PICK m : m = Head1(e, s)
  OBVIOUS
<1>8. /\ m \in Msgs /\ m.src = e /\ ~Has(m, "RST") /\ Has(m, "ACK") /\ m.ack = s.rcv
      /\ m.seq = s.una
  <2>1. CASE s.fin /\ s.una = s.nxt - 1
    <3>1. m = Msg(e, {"ACK", "FIN"}, s.una, s.nxt, s.rcv)
      BY <1>6, <1>7, <2>1 DEF Head1
    <3> QED
      BY <1>6, <3>1 DEF Msg, Msgs, Has
  <2>2. CASE ~(s.fin /\ s.una = s.nxt - 1)
    <3>1. m = Msg(e, {"ACK"}, s.una, s.una + 1, s.rcv)
      BY <1>6, <1>7, <2>2 DEF Head1
    <3> QED
      BY <1>6, <3>1 DEF Msg, Msgs, Has
  <2> QED
    BY <2>1, <2>2
<1>9. Emits(e, s, t, {m})
  BY <1>2, <1>5, <1>6, <1>8 DEF Emits, Same
<1>10. Sane(base, q, In, t)
  BY <1>2, <1>5 DEF Sane, Same, Open
<1>11. Advances(base, q, In, s, t)
  BY <1>5, <1>6, <1>10 DEF Advances, Same
<1>12. Moves(e, base, q, In, s, Result(t, {m}))
  BY <1>2, <1>9, <1>11 DEF Moves, Result
<1>13. Moves(e, base, q, In, s, r)
  BY <1>3, <1>4, <1>7, <1>12, DoneMoves
<1>14. Apply(e, r) /\ UNCHANGED Server
  BY <1>1, <1>3 DEF RetransmitTimer
<1> QED
  BY <1>1, <1>13, <1>14, ApplyStep DEF EndMoves

\* tcp_nip_keepalive_timer.
LEMMA KeepaliveMoves ==
  ASSUME ConnInv, NEW e \in Ends, NEW base \in Nat, NEW q \in Nat, NEW In,
         Ready(e, base, q, In), KeepaliveTimer(e)
  PROVE  EndMoves(e, base, q, In)
<1>1. PICK s : s = sk[e]
  OBVIOUS
<1>2. PICK t : t = KeepaliveExpired(s)
  OBVIOUS
<1>3. sk' = [sk EXCEPT ![e] = t] /\ UNCHANGED <<Server, net>>
  BY <1>1, <1>2 DEF KeepaliveTimer
<1>4. CASE t = tcp_nip_done(s)
  <2>1. Moves(e, base, q, In, s, Result(t, {}))
    BY <1>4, DoneMoves
  <2>2. StepOf(e, Result(t, {}))
    BY <1>3 DEF StepOf, Result
  <2> QED
    BY <1>1, <2>1, <2>2 DEF EndMoves
<1>5. CASE t = s \/ t = [s EXCEPT !.ka = FALSE]
  <2>1. Same(s, t) /\ t.ofo = s.ofo /\ t.backlog = s.backlog
    BY <1>1, <1>5, SocketEnd DEF IsSock, SockFields, Same
  <2>2. Hashed(s) => s.backlog \in Seq(In)
    BY <1>1 DEF Ready, Sane
  <2> QED
    BY <1>1, <1>3, <2>1, <2>2, SameMoves
<1> QED
  BY <1>2, <1>4, <1>5 DEF KeepaliveExpired

\* A segment for a connection.
LEMMA SegmentMoves ==
  ASSUME ConnInv, NEW e \in Ends, NEW base \in Nat, NEW q \in Nat, NEW In,
         Ready(e, base, q, In), NEW m, m \in In, Hashed(sk[e]),
         \/ Apply(e, DoRcv(e, sk[e], m)) /\ UNCHANGED Server
         \/ /\ sk' = [sk EXCEPT ![e].backlog = Append(sk[e].backlog, m)]
            /\ UNCHANGED <<Server, net>>
  PROVE  EndMoves(e, base, q, In)
<1>1. PICK s : s = sk[e]
  OBVIOUS
<1>2. IsSock(s) /\ Sane(base, q, In, s) /\ s.st # "SYN_SENT"
  BY <1>1, SocketEnd DEF Ready
<1>3. CASE Apply(e, DoRcv(e, s, m)) /\ UNCHANGED Server
  <2>1. Moves(e, base, q, In, s, DoRcv(e, s, m))
    BY <1>2, DoRcvMoves
  <2> QED
    BY <1>1, <1>3, <2>1, ApplyStep DEF EndMoves
<1>4. CASE sk' = [sk EXCEPT ![e].backlog = Append(s.backlog, m)] /\ UNCHANGED <<Server, net>>
  <2>1. PICK t : t = [s EXCEPT !.backlog = Append(s.backlog, m)]
    OBVIOUS
  <2>2. Same(s, t) /\ t.ofo = s.ofo /\ t.backlog = Append(s.backlog, m)
    BY <1>2, <2>1 DEF IsSock, SockFields, Same
  <2>3. t.backlog \in Seq(In)
    BY <1>2, <2>2 DEF Sane
  <2>4. sk' = [sk EXCEPT ![e] = t]
    BY <1>1, <1>4, <2>1
  <2> QED
    BY <1>1, <1>4, <2>2, <2>3, <2>4, SameMoves
<1> QED
  BY <1>1, <1>3, <1>4

\* All steps of one end.
LEMMA ActionMoves ==
  ASSUME ConnInv, NEW e \in Ends, NEW base \in Nat, NEW q \in Nat, NEW In,
         Ready(e, base, q, In), Hashed(sk[e]) => base = FirstOf(e),
         \/ Send(e) \/ Read(e) \/ Shutdown(e) \/ Disconnect(e)
         \/ Close(e) \/ CloseBacklog(e) \/ CloseRelease(e) \/ CloseJudge(e)
         \/ RetransmitTimer(e) \/ KeepaliveTimer(e)
  PROVE  EndMoves(e, base, q, In)
  BY SendMoves, ReadMoves, ShutdownMoves, DisconnectMoves, CloseMoves, CloseBacklogMoves,
     CloseJudgeMoves, RetransmitMoves, KeepaliveMoves

-----------------------------------------------------------------------------
(* The steps of one end, and what they mean for the other.                 *)

\* A larger set of segments.
LEMMA SaneGrows ==
  ASSUME NEW base, NEW q, NEW In, NEW s, Sane(base, q, In, s), NEW J, In \subseteq J,
         J \subseteq Msgs, \A w \in J : Stored(w) => w.seq # q + 5
  PROVE  Sane(base, q, J, s)
<1>1. PICK B : B = s.backlog
  OBVIOUS
<1>2. B \in Seq(J)
  BY <1>1 DEF Sane
<1> QED
  BY <1>1, <1>2 DEF Sane

\* The numbers of a child, or of the request it will be made from.
LEMMA ChildIs ==
  ASSUME NEW h \in Nat
  PROVE  LET d == Child(h)
         IN /\ d.st = "SYN_RECV" /\ d.una = 10 * h + 1 /\ d.nxt = 10 * h + 1 /\ d.rcv = 1
            /\ d.ofo = {} /\ d.backlog = <<>> /\ ~d.dead /\ IsSock(d)
  BY DEF Child, Fresh, Isn, IsSock, SockFields

\* tcp_nip_make_synack.
LEMMA SynackIs ==
  ASSUME NEW h \in Nat, NEW m, m = Synack(h)
  PROVE  /\ m \in Msgs /\ m.src = "S" /\ m.flags = {"SYN", "ACK"} /\ m.seq = 10 * h
         /\ m.end = 10 * h + 1 /\ m.ack = 1
  BY DEF Synack, Msg, Msgs, Isn, Ends

\* The segments of one end after some of another, or of the same.
LEMMA FromGrows ==
  ASSUME NEW P, NEW o
  PROVE  /\ (\A m \in o : m.src = "C") =>
              From(P \cup o, "C") = From(P, "C") \cup o /\ From(P \cup o, "S") = From(P, "S")
         /\ (\A m \in o : m.src = "S") =>
              From(P \cup o, "S") = From(P, "S") \cup o /\ From(P \cup o, "C") = From(P, "C")
<1>1. "S" # "C"
  OBVIOUS
<1> QED
  BY <1>1 DEF From

-----------------------------------------------------------------------------
(* Sides: what is true as long as the client has one connection at most.   *)

\* The client sends what it may.
LEMMA ClientSides ==
  ASSUME NEW b, NEW P, NEW N, NEW s, NEW R, NEW k, NEW g, NEW F, Sides(b, P, N, s, R, k, g, F),
         NEW o, \A m \in o : m \in Msgs /\ m.src = "C" /\ OfClient(b, m),
         NEW M, M \subseteq N \cup o
  PROVE  Sides(b, P \cup o, M, s, R, k, g, F)
<1>1. PICK I, J : I = From(P, "S") /\ J = From(P, "C")
  OBVIOUS
<1>2. From(P \cup o, "C") = J \cup o /\ From(P \cup o, "S") = I
  BY <1>1, FromGrows
<1>3. P \cup o \subseteq Msgs /\ M \subseteq P \cup o
  BY DEF Sides
<1>4. \A m \in J \cup o : OfClient(b, m)
  BY <1>1 DEF Sides
<1>5. ASSUME Hashed(s)
      PROVE  Sane(10 * b, 0, J \cup o, s)
  <2>1. Sane(10 * b, 0, J, s)
    BY <1>1, <1>5 DEF Sides
  <2>2. J \cup o \subseteq Msgs
    BY <1>1, <1>3 DEF From
  <2>3. \A w \in J \cup o : Stored(w) => w.seq # 0 + 5
    BY <1>4 DEF OfClient
  <2> QED
    BY <2>1, <2>2, <2>3, SaneGrows
<1>6. \A x \in BagToSet(F) : OfHandler(b, P \cup o, x)
  BY <1>1, <1>2 DEF Sides, OfHandler
<1> QED
  BY <1>1, <1>2, <1>3, <1>4, <1>5, <1>6 DEF Sides

\* What the server sends without a connection.
Replies(g, o) ==
  \A m \in o : /\ m \in Msgs /\ m.src = "S"
               /\ Has(m, "RST") \/ \E h \in 1 .. g : m = Synack(h)

LEMMA RepliesAre ==
  ASSUME NEW g, NEW o, Replies(g, o)
  PROVE  \A m \in o : m \in Msgs /\ m.src = "S" /\ OfServer(m)
<1> SUFFICES ASSUME NEW m \in o PROVE m \in Msgs /\ m.src = "S" /\ OfServer(m)
  OBVIOUS
<1>1. CASE Has(m, "RST")
  BY <1>1 DEF Replies, OfServer
<1>2. ASSUME NEW h \in 1 .. g, m = Synack(h)
      PROVE  OfServer(m)
  <2>1. m.flags = {"SYN", "ACK"}
    BY <1>2 DEF Synack, Msg
  <2> QED
    BY <2>1 DEF OfServer, Has
<1> QED
  BY <1>1, <1>2 DEF Replies

\* The server sends what it may, and its requests and handlers move on without a new child.
LEMMA ServerSides ==
  ASSUME NEW b, NEW P, NEW N, NEW s, NEW R, NEW k, NEW g, NEW F, Sides(b, P, N, s, R, k, g, F),
         NEW d, Hashed(d) => Hashed(s) /\ Sane(10 * b, 0, From(P, "C"), d),
         NEW S, NEW h \in Nat, g <= h, S \subseteq 1 .. h, b \in S => b \in R,
         NEW G, \A x \in BagToSet(G) : OfHandler(b, P, x),
         NEW o, \A m \in o : m \in Msgs /\ m.src = "S" /\ OfServer(m),
         NEW M, M \subseteq N \cup o
  PROVE  Sides(b, P \cup o, M, d, S, k, h, G)
<1>1. PICK I, J : I = From(P, "S") /\ J = From(P, "C")
  OBVIOUS
<1>2. From(P \cup o, "S") = I \cup o /\ From(P \cup o, "C") = J
  BY <1>1, FromGrows
<1>3. P \cup o \subseteq Msgs /\ M \subseteq P \cup o
  BY DEF Sides
<1>4. \A m \in I \cup o : OfServer(m)
  BY <1>1 DEF Sides
<1>5. /\ h \in Nat /\ b \in Nat /\ b <= h /\ S \subseteq 1 .. h
      /\ k = NoChild \/ (k.g = b /\ b # 0 /\ b \notin S)
  BY DEF Sides
<1>6. ASSUME Hashed(d)
      PROVE  k.g = b /\ b # 0 /\ b \notin S /\ Sane(10 * b, 0, J, d)
  BY <1>1, <1>6 DEF Sides
<1>7. \A x \in BagToSet(G) : OfHandler(b, P \cup o, x)
  BY <1>1, <1>2 DEF OfHandler
<1>8. \A m \in J : OfClient(b, m)
  BY <1>1 DEF Sides
<1> QED
  BY <1>2, <1>3, <1>4, <1>5, <1>6, <1>7, <1>8 DEF Sides

\* The child takes the place of its request.
LEMMA ChildSides ==
  ASSUME NEW b, NEW P, NEW N, NEW s, NEW R, NEW k, NEW g, NEW F, Sides(b, P, N, s, R, k, g, F),
         b \in R, b # 0, NEW S, S \subseteq R, b \notin S, NEW l, l.g = b
  PROVE  /\ Sides(b, P, N, Child(b), S, l, g, F)
         /\ Sane(10 * b, 0, From(P, "C"), Child(b)) /\ Hashed(Child(b)) /\ ~Hashed(s) /\ b \in Nat
<1>1. PICK J, d : J = From(P, "C") /\ d = Child(b)
  OBVIOUS
<1>2. b \in Nat /\ J \subseteq Msgs /\ ~Hashed(s)
  BY <1>1 DEF Sides, From
<1>3. /\ d.st = "SYN_RECV" /\ d.una = 10 * b + 1 /\ d.nxt = 10 * b + 1 /\ d.rcv = 1
      /\ d.ofo = {} /\ d.backlog = <<>>
  BY <1>1, <1>2, ChildIs
<1>4. \A w \in J : Stored(w) => w.seq # 0 + 5
  BY <1>1 DEF Sides, OfClient
<1>5. Sane(10 * b, 0, J, d) /\ Hashed(d)
  BY <1>2, <1>3, <1>4 DEF Sane, Hashed
<1>6. Sides(b, P, N, d, S, l, g, F)
  BY <1>1, <1>2, <1>5 DEF Sides
<1> QED
  BY <1>1, <1>2, <1>5, <1>6

-----------------------------------------------------------------------------
(* Agrees: what one end does, and what it means for the other.             *)

\* The numbers of the server's side of a connection, be it a socket or a request.
LEMMA ViewIs ==
  ASSUME NEW b, NEW P, NEW N, NEW s, NEW R, NEW k, NEW g, NEW F, Sides(b, P, N, s, R, k, g, F),
         NEW v, v = View(b, s)
  PROVE  /\ v.una \in Nat /\ v.nxt \in Nat /\ v.rcv \in Nat
         /\ 10 * b + 1 <= v.nxt /\ v.nxt <= 10 * b + 5 /\ 1 <= v.rcv
<1>1. b \in Nat
  BY DEF Sides
<1>2. CASE Hashed(s)
  <2>1. v = s /\ Sane(10 * b, 0, From(P, "C"), s)
    BY <1>2 DEF View, Sides
  <2> QED
    BY <1>1, <2>1 DEF Sane
<1>3. CASE ~Hashed(s)
  <2>1. v = Child(b)
    BY <1>3 DEF View
  <2>2. v.una = 10 * b + 1 /\ v.nxt = 10 * b + 1 /\ v.rcv = 1
    BY <1>1, <2>1, ChildIs
  <2> QED
    BY <1>1, <2>2
<1> QED
  BY <1>2, <1>3

\* The numbers of the client.
LEMMA ClientIs ==
  ASSUME NEW b \in Nat, NEW In, NEW c, Sane(0, 10 * b, In, c)
  PROVE  /\ c.nxt \in Nat /\ c.nxt <= 5 /\ c.una \in Nat
         /\ c.rcv \in Nat /\ 10 * b + 1 <= c.rcv /\ c.rcv <= 10 * b + 5
  BY DEF Sane

\* A segment of the client is of the connection.
LEMMA FromClientIs ==
  ASSUME NEW b \in Nat, NEW In, NEW c, Sane(0, 10 * b, In, c), NEW m \in Msgs, FromClient(b, c, m)
  PROVE  OfClient(b, m)
<1>1. m.ack \in Nat /\ m.seq \in Nat
  BY DEF Msgs
<1>2. /\ c.nxt \in Nat /\ c.nxt <= 5 /\ c.rcv \in Nat /\ c.rcv <= 10 * b + 5
  BY ClientIs
<1>3. Has(m, "ACK") => 10 * b + 1 <= m.ack /\ m.ack <= 10 * b + 5
  BY <1>1, <1>2 DEF FromClient
<1>4. Stored(m) => m.seq # 5
  BY <1>1, <1>2 DEF FromClient
<1> QED
  BY <1>3, <1>4 DEF OfClient

\* A step of the client that goes on.
LEMMA ClientAdvances ==
  ASSUME NEW b, NEW P, NEW N, NEW s, NEW R, NEW k, NEW g, NEW F, Sides(b, P, N, s, R, k, g, F),
         NEW c, Agrees(b, P, c, s, R, g),
         NEW d, NEW o, Advances(0, 10 * b, From(P, "S"), c, d), Emits("C", c, d, o)
  PROVE  /\ Agrees(b, P \cup o, d, s, R, g)
         /\ \A m \in o : m \in Msgs /\ m.src = "C" /\ OfClient(b, m)
<1>1. PICK I, J : I = From(P, "S") /\ J = From(P, "C")
  OBVIOUS
<1>2. From(P \cup o, "C") = J \cup o /\ From(P \cup o, "S") = I
  <2>1. \A m \in o : m.src = "C"
    BY DEF Emits
  <2> QED
    BY <1>1, <2>1, FromGrows
<1>3. J \subseteq Msgs /\ o \subseteq Msgs
  BY <1>1 DEF From, Sides, Emits
<1>4. b \in Nat /\ b # 0 /\ Sane(0, 10 * b, I, c) /\ Sane(0, 10 * b, I, d)
  BY <1>1 DEF Sides, Agrees, Advances
<1>5. /\ c.nxt \in Nat /\ d.nxt \in Nat /\ c.nxt <= d.nxt /\ d.nxt <= 5
      /\ c.rcv \in Nat /\ d.rcv \in Nat /\ c.rcv <= d.rcv /\ 10 * b + 1 <= d.rcv
      /\ d.rcv <= 10 * b + 5 /\ c.una \in Nat /\ d.una \in Nat
  BY <1>4, ClientIs DEF Advances
<1>6. \A m \in J \cup o : FromClient(b, d, m)
  <2>1. ASSUME NEW m \in J
        PROVE  FromClient(b, d, m)
    <3>1. m.ack \in Nat /\ m.seq \in Nat /\ FromClient(b, c, m)
      BY <1>1, <1>3 DEF Msgs, Agrees
    <3> QED
      BY <1>4, <1>5, <3>1 DEF FromClient
  <2>2. ASSUME NEW m \in o
        PROVE  FromClient(b, d, m)
    BY <1>5 DEF Emits, FromClient, Stored
  <2> QED
    BY <2>1, <2>2
<1>7. ASSUME Live(b, s, R)
      PROVE  /\ Fits(d, View(b, s))
             /\ \A m \in I : FromPeer(b, View(b, s), m)
  <2>1. PICK v : v = View(b, s)
    OBVIOUS
  <2>2. /\ v.una \in Nat /\ v.nxt \in Nat /\ v.rcv \in Nat
    BY <2>1, ViewIs
  <2>3. Fits(c, v) /\ \A m \in I : FromPeer(b, v, m)
    BY <1>1, <1>7, <2>1 DEF Agrees
  <2>4. d.rcv <= v.nxt
    <3>1. CASE d.rcv = c.rcv
      BY <2>3, <3>1 DEF Fits
    <3>2. ASSUME NEW w \in I, Stored(w), d.rcv = w.seq + 1
          PROVE  d.rcv <= v.nxt
      <4>1. w.seq \in Nat
        BY <1>1 DEF From, Sides, Msgs
      <4>2. w.seq <= 10 * b + 4
        BY <1>4, <1>5, <3>2, <4>1
      <4> QED
        BY <2>3, <3>2, <4>2 DEF FromPeer
    <3> QED
      BY <1>1, <3>1, <3>2 DEF Advances
  <2>5. d.una <= v.rcv
    <3>1. CASE d.una = c.una
      BY <2>3, <3>1 DEF Fits
    <3>2. ASSUME NEW m \in I, ~Has(m, "RST"), d.una = m.ack
          PROVE  d.una <= v.rcv
      BY <2>3, <3>2 DEF FromPeer
    <3> QED
      BY <1>1, <3>1, <3>2 DEF Advances
  <2>6. Fits(d, v)
    BY <1>5, <2>2, <2>3, <2>4, <2>5 DEF Fits
  <2> QED
    BY <2>1, <2>3, <2>6
<1>8. \A m \in I : FromServer(g, m)
  BY <1>1 DEF Agrees
<1>9. Agrees(b, P \cup o, d, s, R, g)
  BY <1>2, <1>4, <1>6, <1>7, <1>8 DEF Agrees
<1>10. \A m \in o : m \in Msgs /\ m.src = "C" /\ OfClient(b, m)
  BY <1>3, <1>4, <1>6, FromClientIs DEF Emits
<1> QED
  BY <1>9, <1>10

\* A step of the server's socket that goes on.
LEMMA ServerAdvances ==
  ASSUME NEW b, NEW P, NEW N, NEW s, NEW R, NEW k, NEW g, NEW F, Sides(b, P, N, s, R, k, g, F),
         NEW c, Agrees(b, P, c, s, R, g), Hashed(s),
         NEW d, NEW o, Advances(10 * b, 0, From(P, "C"), s, d), Emits("S", s, d, o)
  PROVE  Agrees(b, P \cup o, c, d, R, g)
<1>1. PICK I, J : I = From(P, "S") /\ J = From(P, "C")
  OBVIOUS
<1>2. From(P \cup o, "S") = I \cup o /\ From(P \cup o, "C") = J
  <2>1. \A m \in o : m.src = "S"
    BY DEF Emits
  <2> QED
    BY <1>1, <2>1, FromGrows
<1>3. I \subseteq Msgs /\ J \subseteq Msgs /\ o \subseteq Msgs
  BY <1>1 DEF From, Sides, Emits
<1>4. /\ b \in Nat /\ b # 0 /\ g \in Nat /\ b \in 1 .. g /\ Sane(0, 10 * b, I, c)
      /\ Sane(10 * b, 0, J, s) /\ Sane(10 * b, 0, J, d)
  BY <1>1 DEF Sides, Agrees, Advances
<1>5. /\ s.nxt \in Nat /\ d.nxt \in Nat /\ s.nxt <= d.nxt /\ d.nxt <= 10 * b + 5
      /\ s.rcv \in Nat /\ d.rcv \in Nat /\ s.rcv <= d.rcv
      /\ s.una \in Nat /\ d.una \in Nat /\ 10 * b + 1 <= s.una /\ 10 * b + 1 <= s.nxt
  BY <1>4 DEF Sane, Advances
<1>6. c.nxt \in Nat /\ c.rcv \in Nat /\ c.una \in Nat
  BY <1>4, ClientIs
<1>7. ASSUME NEW m \in o, Stored(m)
      PROVE  m.seq \in Nat /\ 10 * b <= m.seq /\ m.seq <= 10 * b + 4
  <2>1. m.seq \in Nat /\ m.seq \in {s.una, s.nxt} /\ m.seq + 1 <= d.nxt
    BY <1>7 DEF Emits, Stored, Msgs
  <2> QED
    BY <1>4, <1>5, <2>1
<1>8. \A m \in I \cup o : FromServer(g, m)
  <2>1. \A m \in I : FromServer(g, m)
    BY <1>1 DEF Agrees
  <2>2. \A m \in o : FromServer(g, m)
    BY <1>4, <1>7 DEF FromServer
  <2> QED
    BY <2>1, <2>2
<1>9. Sane(0, 10 * b, I \cup o, c)
  <2>1. \A w \in I \cup o : Stored(w) => w.seq # 10 * b + 5
    <3>1. \A w \in I : Stored(w) => w.seq # 10 * b + 5
      BY <1>4 DEF Sane
    <3>2. \A w \in o : Stored(w) => w.seq # 10 * b + 5
      BY <1>4, <1>7
    <3> QED
      BY <3>1, <3>2
  <2> QED
    BY <1>3, <1>4, <2>1, SaneGrows
<1>10. Fits(c, s) /\ \A m \in I : FromPeer(b, s, m)
  BY <1>1 DEF Agrees, Live, View
<1>11. Fits(c, d)
  <2>1. d.una <= c.rcv
    <3>1. CASE d.una = s.una
      BY <1>10, <3>1 DEF Fits
    <3>2. ASSUME NEW m \in J, ~Has(m, "RST"), d.una = m.ack
          PROVE  d.una <= c.rcv
      BY <1>1, <3>2 DEF Agrees, FromClient
    <3> QED
      BY <1>1, <3>1, <3>2 DEF Advances
  <2>2. d.rcv <= c.nxt
    <3>1. CASE d.rcv = s.rcv
      BY <1>10, <3>1 DEF Fits
    <3>2. ASSUME NEW w \in J, Stored(w), d.rcv = w.seq + 1
          PROVE  d.rcv <= c.nxt
      BY <1>1, <3>2 DEF Agrees, FromClient
    <3> QED
      BY <1>1, <3>1, <3>2 DEF Advances
  <2> QED
    BY <1>5, <1>6, <1>10, <2>1, <2>2 DEF Fits
<1>12. \A m \in I \cup o : FromPeer(b, d, m)
  <2>1. ASSUME NEW m \in I
        PROVE  FromPeer(b, d, m)
    <3>1. m.ack \in Nat /\ m.seq \in Nat
      BY <1>3 DEF Msgs
    <3> QED
      BY <1>5, <1>10, <3>1 DEF FromPeer
  <2>2. ASSUME NEW m \in o
        PROVE  FromPeer(b, d, m)
    BY <1>5 DEF FromPeer, Emits, Stored
  <2> QED
    BY <2>1, <2>2
<1>13. View(b, d) = d
  BY <1>4 DEF View, Hashed, Sane
<1>14. \A m \in J : FromClient(b, c, m)
  BY <1>1 DEF Agrees
<1> QED
  BY <1>2, <1>4, <1>8, <1>9, <1>11, <1>12, <1>13, <1>14 DEF Agrees

\* A step of the server that makes no child: the connection stays as it is on this side, or
\* there is none any more.
LEMMA ServerRests ==
  ASSUME NEW b, NEW P, NEW N, NEW s, NEW R, NEW k, NEW g, NEW F, Sides(b, P, N, s, R, k, g, F),
         NEW c, Agrees(b, P, c, s, R, g), NEW d, d = s \/ ~Hashed(d),
         NEW S, NEW h \in Nat, g <= h, b \in S => b \in R, NEW o, Replies(h, o)
  PROVE  Agrees(b, P \cup o, c, d, S, h)
<1>1. PICK I, J : I = From(P, "S") /\ J = From(P, "C")
  OBVIOUS
<1>2. From(P \cup o, "S") = I \cup o /\ From(P \cup o, "C") = J
  <2>1. \A m \in o : m.src = "S"
    BY DEF Replies
  <2> QED
    BY <1>1, <2>1, FromGrows
<1>3. /\ b \in Nat /\ b # 0 /\ g \in Nat /\ Sane(0, 10 * b, I, c)
      /\ I \cup o \subseteq Msgs
  <2>1. I \subseteq Msgs
    BY <1>1 DEF Sides, From
  <2>2. o \subseteq Msgs
    BY DEF Replies
  <2> QED
    BY <1>1, <2>1, <2>2 DEF Sides, Agrees
<1>4. ASSUME NEW m \in o, Stored(m)
      PROVE  \E i \in 1 .. h : /\ m.seq = 10 * i /\ m.ack = 1 /\ i \in Nat
  <2>1. PICK i \in 1 .. h : m = Synack(i)
    BY <1>4 DEF Replies, Stored
  <2>2. i \in Nat
    OBVIOUS
  <2>3. m.seq = 10 * i /\ m.ack = 1
    BY <2>1, <2>2, SynackIs
  <2> QED
    BY <2>2, <2>3
<1>5. \A m \in I \cup o : FromServer(h, m)
  <2>1. ASSUME NEW m \in I, Stored(m)
        PROVE  \E i \in 1 .. h : 10 * i <= m.seq /\ m.seq <= 10 * i + 4
    <3>1. PICK i \in 1 .. g : 10 * i <= m.seq /\ m.seq <= 10 * i + 4
      BY <1>1, <2>1 DEF Agrees, FromServer
    <3>2. i \in 1 .. h
      BY <1>3
    <3> QED
      BY <3>1, <3>2
  <2>2. ASSUME NEW m \in o, Stored(m)
        PROVE  \E i \in 1 .. h : 10 * i <= m.seq /\ m.seq <= 10 * i + 4
    <3>1. PICK i \in 1 .. h : m.seq = 10 * i /\ i \in Nat
      BY <1>4, <2>2
    <3>2. 10 * i <= m.seq /\ m.seq <= 10 * i + 4
      BY <3>1
    <3> QED
      BY <3>2
  <2> QED
    BY <2>1, <2>2 DEF FromServer
<1>6. Sane(0, 10 * b, I \cup o, c)
  <2>1. \A w \in I : Stored(w) => w.seq # 10 * b + 5
    BY <1>3 DEF Sane
  <2>2. ASSUME NEW w \in o, Stored(w)
        PROVE  w.seq # 10 * b + 5
    <3>1. PICK i \in 1 .. h : w.seq = 10 * i /\ i \in Nat
      BY <1>4, <2>2
    <3> QED
      BY <1>3, <3>1
  <2>3. \A w \in I \cup o : Stored(w) => w.seq # 10 * b + 5
    BY <2>1, <2>2
  <2> QED
    BY <1>3, <2>3, SaneGrows
<1>7. ASSUME Live(b, d, S)
      PROVE  /\ Fits(c, View(b, d))
             /\ \A m \in I \cup o : FromPeer(b, View(b, d), m)
  <2>1. PICK v : v = View(b, s)
    OBVIOUS
  <2>2. Live(b, s, R) /\ View(b, d) = v
    BY <1>7, <2>1 DEF Live, View, Sides
  <2>3. Fits(c, v) /\ \A m \in I : FromPeer(b, v, m)
    BY <1>1, <2>1, <2>2 DEF Agrees
  <2>4. v.nxt \in Nat /\ v.rcv \in Nat /\ 10 * b + 1 <= v.nxt /\ 1 <= v.rcv
    BY <2>1, ViewIs
  <2>5. ASSUME NEW m \in o
        PROVE  FromPeer(b, v, m)
    <3>1. CASE Has(m, "RST")
      BY <3>1 DEF FromPeer, Stored
    <3>2. ASSUME NEW i \in 1 .. h, m = Synack(i)
          PROVE  FromPeer(b, v, m)
      <4>0. i \in Nat
        OBVIOUS
      <4>1. m.seq = 10 * i /\ m.ack = 1
        BY <3>2, <4>0, SynackIs
      <4>2. m.ack <= v.rcv
        BY <2>4, <4>1
      <4>3. m.seq <= 10 * b + 4 => m.seq + 1 <= v.nxt
        BY <1>3, <2>4, <4>0, <4>1
      <4> QED
        BY <4>2, <4>3 DEF FromPeer
    <3> QED
      BY <3>1, <3>2 DEF Replies
  <2> QED
    BY <2>2, <2>3, <2>5
<1>8. \A m \in J : FromClient(b, c, m)
  BY <1>1 DEF Agrees
<1> QED
  BY <1>2, <1>3, <1>5, <1>6, <1>7, <1>8 DEF Agrees

\* The child has the numbers of its request.
LEMMA ChildAgrees ==
  ASSUME NEW b, NEW P, NEW c, NEW s, NEW R, NEW g, Agrees(b, P, c, s, R, g), b \in R,
         ~Hashed(s), NEW d, d = Child(b), Hashed(d), NEW S
  PROVE  Agrees(b, P, c, d, S, g)
<1>1. View(b, d) = d /\ View(b, s) = d /\ Live(b, s, R)
  BY DEF View, Live
<1> QED
  BY <1>1 DEF Agrees

-----------------------------------------------------------------------------
(* The inductive invariant of PeersAgree and OneChild.                     *)

SidesNow(b, P)  == Sides(b, P, net, sk["S"], Generations(reqs), child, gen, found)
SidesNext(b, P) == Sides(b, P, net', sk'["S"], Generations(reqs'), child', gen', found')

AgreesNow(b, P)  == Agrees(b, P, sk["C"], sk["S"], Generations(reqs), gen)
AgreesNext(b, P) == Agrees(b, P, sk'["C"], sk'["S"], Generations(reqs'), gen')

Before(b, P)     == b = 0 /\ Unopened(P, sk["C"], sk["S"], queued, gen)
BeforeNext(b, P) == b = 0 /\ Unopened(P, sk'["C"], sk'["S"], queued', gen')

AgreeInv == \E b, P : SidesNow(b, P) /\ (Over(sk["C"]) \/ Before(b, P) \/ AgreesNow(b, P))

\* The next state satisfies it.
LEMMA AgreeNext ==
  ASSUME NEW b, NEW P, SidesNext(b, P),
         Over(sk'["C"]) \/ BeforeNext(b, P) \/ AgreesNext(b, P)
  PROVE  AgreeInv'
  BY DEF AgreeInv, SidesNow, SidesNext, AgreesNow, AgreesNext, Before, BeforeNext

\* A step of the server that makes no child.
Rests(b, P, o) ==
  /\ sk'["S"] = sk["S"] \/ ~Hashed(sk'["S"])
  /\ gen' \in Nat /\ gen <= gen' /\ Generations(reqs') \subseteq 1 .. gen'
  /\ b \in Generations(reqs') => b \in Generations(reqs)
  /\ child' = child /\ (\A x \in BagToSet(found') : OfHandler(b, P, x))
  /\ Replies(gen', o)

\* A step of the child.
Goes(b, P, o) ==
  /\ Hashed(sk["S"]) /\ Advances(10 * b, 0, From(P, "C"), sk["S"], sk'["S"])
  /\ Emits("S", sk["S"], sk'["S"], o) /\ UNCHANGED <<reqs, gen, child, found>>

\* The step that makes it.
Born(b, P, o) ==
  /\ b \in Generations(reqs) /\ b # 0
  /\ Generations(reqs') \subseteq Generations(reqs) /\ b \notin Generations(reqs')
  /\ child'.g = b /\ gen' = gen /\ (\A x \in BagToSet(found') : OfHandler(b, P, x))
  /\ Moves("S", 10 * b, 0, From(P, "C"), Child(b), Result(sk'["S"], o))

ServerStep(b, P, o) ==
  /\ sk'["C"] = sk["C"] /\ net' \subseteq net \cup o
  /\ Rests(b, P, o) \/ Goes(b, P, o) \/ Born(b, P, o)

\* What SidesNow says, for steps that look at parts of it.
LEMMA SidesIs ==
  ASSUME NEW b, NEW P, SidesNow(b, P)
  PROVE  /\ gen \in Nat /\ gen <= gen /\ b \in Nat /\ b <= gen
         /\ Generations(reqs) \subseteq 1 .. gen
         /\ net \subseteq P /\ P \subseteq Msgs
         /\ child = NoChild \/ (child.g = b /\ b # 0 /\ b \notin Generations(reqs))
         /\ Hashed(sk["S"]) => child.g = b /\ b # 0 /\ Sane(10 * b, 0, From(P, "C"), sk["S"])
         /\ \A x \in BagToSet(found) : OfHandler(b, P, x)
         /\ \A m \in From(P, "C") : OfClient(b, m)
         /\ \A m \in From(P, "S") : OfServer(m)
  BY DEF SidesNow, Sides

\* The segments of a socket that goes on.
LEMMA EmitsAre ==
  ASSUME NEW s, NEW t, NEW o, Emits("S", s, t, o)
  PROVE  \A m \in o : m \in Msgs /\ m.src = "S" /\ OfServer(m)
  BY DEF Emits, OfServer

\* A socket that gives up replies with resets.
LEMMA FinishesAre ==
  ASSUME NEW s, NEW t, NEW o, Finishes("S", s, t, o), NEW g
  PROVE  ~Hashed(t) /\ Replies(g, o)
  BY DEF Finishes, Hashed, Replies

\* Every step of the server keeps Sides.
LEMMA ServerStepSides ==
  ASSUME NEW b, NEW P, SidesNow(b, P), NEW o, ServerStep(b, P, o)
  PROVE  SidesNext(b, P \cup o)
<1>1. PICK N, s, R, k, g, F : /\ N = net /\ s = sk["S"] /\ R = Generations(reqs) /\ k = child
                              /\ g = gen /\ F = found
  OBVIOUS
<1>2. PICK M, d, S, l, h, G : /\ M = net' /\ d = sk'["S"] /\ S = Generations(reqs')
                              /\ l = child' /\ h = gen' /\ G = found'
  OBVIOUS
<1>3. Sides(b, P, N, s, R, k, g, F) /\ M \subseteq N \cup o
  BY <1>1, <1>2 DEF SidesNow, ServerStep
<1>4. g \in Nat /\ g <= g /\ R \subseteq 1 .. g /\ \A x \in BagToSet(F) : OfHandler(b, P, x)
  BY <1>3 DEF Sides
<1>5. CASE Rests(b, P, o)
  <2>1. /\ d = s \/ ~Hashed(d)
        /\ h \in Nat /\ g <= h /\ S \subseteq 1 .. h /\ (b \in S => b \in R) /\ l = k
        /\ (\A x \in BagToSet(G) : OfHandler(b, P, x)) /\ Replies(h, o)
    BY <1>1, <1>2, <1>5 DEF Rests
  <2>2. Hashed(d) => Hashed(s) /\ Sane(10 * b, 0, From(P, "C"), d)
    BY <1>3, <2>1 DEF Sides
  <2>3. \A m \in o : m \in Msgs /\ m.src = "S" /\ OfServer(m)
    BY <2>1, RepliesAre
  <2>4. Sides(b, P \cup o, M, d, S, k, h, G)
    BY <1>3, <2>1, <2>2, <2>3, ServerSides
  <2> QED
    BY <1>2, <2>1, <2>4 DEF SidesNext
<1>6. CASE Goes(b, P, o)
  <2>1. /\ Hashed(s) /\ Advances(10 * b, 0, From(P, "C"), s, d) /\ Emits("S", s, d, o)
        /\ S = R /\ l = k /\ h = g /\ G = F
    BY <1>1, <1>2, <1>6 DEF Goes
  <2>2. Sane(10 * b, 0, From(P, "C"), d)
    BY <2>1 DEF Advances
  <2>3. \A m \in o : m \in Msgs /\ m.src = "S" /\ OfServer(m)
    BY <2>1, EmitsAre
  <2>4. Sides(b, P \cup o, M, d, R, k, g, F)
    BY <1>3, <1>4, <2>1, <2>2, <2>3, ServerSides
  <2> QED
    BY <1>2, <2>1, <2>4 DEF SidesNext
<1>7. CASE Born(b, P, o)
  <2>1. /\ b \in R /\ b # 0 /\ S \subseteq R /\ b \notin S /\ l.g = b /\ h = g
        /\ \A x \in BagToSet(G) : OfHandler(b, P, x)
        /\ Moves("S", 10 * b, 0, From(P, "C"), Child(b), Result(d, o))
    BY <1>1, <1>2, <1>7 DEF Born
  <2>2. PICK w : w = Child(b)
    OBVIOUS
  <2>3. Sides(b, P, N, w, S, l, g, F) /\ Hashed(w)
    BY <1>3, <2>1, <2>2, ChildSides
  <2>4. \/ Finishes("S", w, d, o)
        \/ Advances(10 * b, 0, From(P, "C"), w, d) /\ Emits("S", w, d, o)
    BY <2>1, <2>2 DEF Moves, Result
  <2>5. Hashed(d) => Hashed(w) /\ Sane(10 * b, 0, From(P, "C"), d)
    BY <2>3, <2>4, FinishesAre DEF Advances
  <2>6. \A m \in o : m \in Msgs /\ m.src = "S" /\ OfServer(m)
    BY <2>4, EmitsAre, FinishesAre, RepliesAre
  <2>7. S \subseteq 1 .. g
    BY <1>4, <2>1
  <2>8. Sides(b, P \cup o, M, d, S, l, g, G)
    BY <1>3, <1>4, <2>1, <2>3, <2>5, <2>6, <2>7, ServerSides
  <2> QED
    BY <1>2, <2>1, <2>8 DEF SidesNext
<1> QED
  BY <1>5, <1>6, <1>7 DEF ServerStep

\* Every step of the server keeps Agrees.
LEMMA ServerStepAgrees ==
  ASSUME NEW b, NEW P, SidesNow(b, P), AgreesNow(b, P), NEW o, ServerStep(b, P, o)
  PROVE  AgreesNext(b, P \cup o)
<1>1. PICK N, s, R, k, g, F, c : /\ N = net /\ s = sk["S"] /\ R = Generations(reqs) /\ k = child
                                 /\ g = gen /\ F = found /\ c = sk["C"]
  OBVIOUS
<1>2. PICK d, S, l, h : d = sk'["S"] /\ S = Generations(reqs') /\ l = child' /\ h = gen'
  OBVIOUS
<1>3. Sides(b, P, N, s, R, k, g, F) /\ Agrees(b, P, c, s, R, g) /\ sk'["C"] = c
  BY <1>1 DEF SidesNow, AgreesNow, ServerStep
<1>4. g \in Nat /\ g <= g
  BY <1>3 DEF Sides
<1>5. CASE Rests(b, P, o)
  <2>1. /\ d = s \/ ~Hashed(d)
        /\ h \in Nat /\ g <= h /\ (b \in S => b \in R) /\ Replies(h, o)
    BY <1>1, <1>2, <1>5 DEF Rests
  <2>2. Agrees(b, P \cup o, c, d, S, h)
    BY <1>3, <2>1, ServerRests
  <2> QED
    BY <1>2, <1>3, <2>2 DEF AgreesNext
<1>6. CASE Goes(b, P, o)
  <2>1. /\ Hashed(s) /\ Advances(10 * b, 0, From(P, "C"), s, d) /\ Emits("S", s, d, o)
        /\ S = R /\ h = g
    BY <1>1, <1>2, <1>6 DEF Goes
  <2>2. Agrees(b, P \cup o, c, d, R, g)
    BY <1>3, <2>1, ServerAdvances
  <2> QED
    BY <1>2, <1>3, <2>1, <2>2 DEF AgreesNext
<1>7. CASE Born(b, P, o)
  <2>1. /\ b \in R /\ b # 0 /\ S \subseteq R /\ b \notin S /\ l.g = b /\ h = g
        /\ Moves("S", 10 * b, 0, From(P, "C"), Child(b), Result(d, o))
    BY <1>1, <1>2, <1>7 DEF Born
  <2>2. PICK w : w = Child(b)
    OBVIOUS
  <2>3. Sides(b, P, N, w, S, l, g, F) /\ Hashed(w) /\ ~Hashed(s)
    BY <1>3, <2>1, <2>2, ChildSides
  <2>4. Agrees(b, P, c, w, S, g)
    BY <1>3, <2>1, <2>2, <2>3, ChildAgrees
  <2>5. CASE Finishes("S", w, d, o)
    <3>1. ~Hashed(d) /\ Replies(g, o)
      BY <2>5, FinishesAre
    <3>2. Agrees(b, P \cup o, c, d, S, g)
      BY <1>4, <2>3, <2>4, <3>1, ServerRests
    <3> QED
      BY <1>2, <1>3, <2>1, <3>2 DEF AgreesNext
  <2>6. CASE Advances(10 * b, 0, From(P, "C"), w, d) /\ Emits("S", w, d, o)
    <3>1. Agrees(b, P \cup o, c, d, S, g)
      BY <2>3, <2>4, <2>6, ServerAdvances
    <3> QED
      BY <1>2, <1>3, <2>1, <3>1 DEF AgreesNext
  <2> QED
    BY <2>1, <2>2, <2>5, <2>6 DEF Moves, Result
<1> QED
  BY <1>5, <1>6, <1>7 DEF ServerStep

-----------------------------------------------------------------------------
(* The actions of the server.                                              *)

\* A step that leaves sockets, requests and handlers alone.
LEMMA QuietStep ==
  ASSUME NEW b, NEW P, SidesNow(b, P), UNCHANGED <<sk, reqs, gen, child, found>>,
         NEW o, Replies(gen, o), net' \subseteq net \cup o
  PROVE  ServerStep(b, P, o)
<1>1. /\ sk'["C"] = sk["C"] /\ sk'["S"] = sk["S"] /\ gen' = gen /\ child' = child
      /\ found' = found /\ Generations(reqs') = Generations(reqs)
  OBVIOUS
<1>2. Rests(b, P, o)
  BY <1>1, SidesIs DEF Rests
<1> QED
  BY <1>1, <1>2 DEF ServerStep

\* A reset is a reply.
LEMMA ResetReplies ==
  ASSUME NEW m \in Msgs, NEW g
  PROVE  Replies(g, Reset("S", m))
<1>1. PICK x, y : /\ x = Msg("S", {"RST"}, m.ack, m.ack, 0)
                  /\ y = Msg("S", {"RST", "ACK"}, 0, 0, m.end)
  OBVIOUS
<1>2. /\ x \in Msgs /\ x.src = "S" /\ Has(x, "RST")
      /\ y \in Msgs /\ y.src = "S" /\ Has(y, "RST")
  BY <1>1 DEF Msg, Msgs, Has, Ends
<1>3. \A z \in Reset("S", m) : z = x \/ z = y
  BY <1>1 DEF Reset
<1> QED
  BY <1>2, <1>3 DEF Replies

\* tcp_nip_send_active_reset.
LEMMA ActiveResetReplies ==
  ASSUME NEW s, s.nxt \in Nat, s.rcv \in Nat, NEW g
  PROVE  Replies(g, ActiveReset("S", s))
<1>1. PICK m : m = Msg("S", {"ACK", "RST"}, s.nxt, s.nxt, s.rcv)
  OBVIOUS
<1>2. m \in Msgs /\ m.src = "S" /\ Has(m, "RST")
  BY <1>1 DEF Msg, Msgs, Has, Ends
<1> QED
  BY <1>1, <1>2 DEF ActiveReset, Replies

\* The SYN+ACK of a request.
LEMMA SynackReplies ==
  ASSUME NEW g \in Nat, NEW h \in 1 .. g
  PROVE  Replies(g, {Synack(h)})
<1>1. h \in Nat
  OBVIOUS
<1>2. Synack(h) \in Msgs /\ Synack(h).src = "S"
  BY <1>1, SynackIs
<1> QED
  BY <1>2 DEF Replies

\* A handler takes something up that is of the connection, or has dealt with it.
LEMMA HandlerHolds ==
  ASSUME NEW b, NEW P, SidesNow(b, P), NEW f, OfHandler(b, P, f), Hold(f)
  PROVE  \A x \in BagToSet(found') : OfHandler(b, P, x)
  BY HoldAdds, SidesIs

LEMMA HandlerReleases ==
  ASSUME NEW b, NEW P, SidesNow(b, P), NEW f, Release(f)
  PROVE  OfHandler(b, P, f) /\ \A x \in BagToSet(found') : OfHandler(b, P, x)
  BY ReleaseRemoves, SidesIs

\* tcp_nip_rcv finds the listener.
LEMMA FindListenerStep ==
  ASSUME ConnInv, NEW b, NEW P, SidesNow(b, P), NEW m, FindListener(m)
  PROVE  ServerStep(b, P, {})
<1>1. OfHandler(b, P, Listener)
  BY DEF OfHandler, Listener
<1>2. UNCHANGED <<sk, reqs, gen, child, net>> /\ Hold(Listener)
  BY DEF FindListener
<1>3. Rests(b, P, {})
  BY <1>1, <1>2, HandlerHolds, SidesIs DEF Rests, Replies
<1> QED
  BY <1>2, <1>3 DEF ServerStep

\* tcp_nip_conn_request: a new request is not the one of the connection.
LEMMA ConnRequestStep ==
  ASSUME ConnInv, NEW b, NEW P, SidesNow(b, P), ConnRequest
  PROVE  \E o : ServerStep(b, P, o)
<1>2. UNCHANGED <<sk, child>> /\ Release(Listener)
  BY DEF ConnRequest
<1>3. \A x \in BagToSet(found') : OfHandler(b, P, x)
  BY <1>2, HandlerReleases
<1>4. CASE /\ gen' = gen + 1 /\ reqs' = reqs \cup {Request(gen + 1)}
           /\ Transmit({Synack(gen + 1)})
  <2>1. Generations(reqs') = Generations(reqs) \cup {gen + 1}
    <3>1. Request(gen + 1).g = gen + 1
      BY DEF Request
    <3>2. reqs' = reqs \cup {Request(gen + 1)}
      BY <1>4
    <3> QED
      BY <3>1, <3>2 DEF Generations
  <2>2. /\ gen' \in Nat /\ gen <= gen' /\ gen + 1 \in 1 .. gen' /\ b # gen + 1
        /\ Generations(reqs) \subseteq 1 .. gen'
    BY <1>4, SidesIs
  <2>3. Replies(gen', {Synack(gen + 1)})
    BY <2>2, SynackReplies
  <2>4. Rests(b, P, {Synack(gen + 1)})
    BY <1>2, <1>3, <2>1, <2>2, <2>3 DEF Rests
  <2> QED
    BY <1>2, <1>4, <2>4 DEF ServerStep, Transmit
<1>5. CASE UNCHANGED <<reqs, gen, net>>
  <2>1. Rests(b, P, {})
    BY <1>2, <1>3, <1>5, SidesIs DEF Rests, Replies
  <2> QED
    BY <1>2, <1>5, <2>1 DEF ServerStep
<1> QED
  BY <1>4, <1>5 DEF ConnRequest

\* ninet_reqsk_timer_handler: the request goes, or sends its SYN+ACK again.
LEMMA RequestTimerStep ==
  ASSUME ConnInv, NEW b, NEW P, SidesNow(b, P), NEW g, RequestTimer(g)
  PROVE  \E o : ServerStep(b, P, o)
<1>1. UNCHANGED <<sk, gen, child, found>>
  BY DEF RequestTimer
<1>2. Generations(reqs') \subseteq Generations(reqs) /\ g \in Generations(reqs)
  BY TimerRequests
<1>3. g \in 1 .. gen
  BY <1>2, SidesIs
<1>4. ASSUME NEW o, Replies(gen, o), net' \subseteq net \cup o
      PROVE  ServerStep(b, P, o)
  BY <1>1, <1>2, <1>4, SidesIs DEF Rests, ServerStep
<1>5. Replies(gen, {}) /\ Replies(gen, {Synack(g)})
  BY <1>3, SynackReplies, SidesIs DEF Replies
<1>6. net' \subseteq net \cup {Synack(g)} \/ net' \subseteq net \cup {}
  BY DEF RequestTimer, Transmit
<1> QED
  BY <1>4, <1>5, <1>6

\* tcp_nip_check_req: an acknowledgement that fits a request is of the connection of that
\* request, and numbers of other requests are out of reach.
LEMMA FindRequestStep ==
  ASSUME ConnInv, NEW b, NEW P, SidesNow(b, P), NEW m \in From(P, "C"),
         NEW g \in Generations(reqs), FindRequest(m, g)
  PROVE  ServerStep(b, P, {})
<1>1. /\ UNCHANGED <<sk, reqs, gen, child, net>> /\ Has(m, "ACK") /\ m.ack = 10 * g + 1
      /\ Hold(AtRequest(g, m))
  BY DEF FindRequest, check_req, Isn
<1>2. /\ b \in Nat /\ g \in Nat /\ g # 0
      /\ 10 * b + 1 <= 10 * g + 1 /\ 10 * g + 1 <= 10 * b + 5
  <2>1. g \in 1 .. gen
    BY SidesIs
  <2> QED
    BY <1>1, <2>1, SidesIs DEF OfClient
<1>3. g = b /\ b # 0
  BY <1>2
<1>4. OfHandler(b, P, AtRequest(g, m))
  BY <1>3 DEF OfHandler, AtRequest
<1>5. Rests(b, P, {})
  BY <1>1, <1>4, HandlerHolds, SidesIs DEF Rests, Replies
<1> QED
  BY <1>1, <1>5 DEF ServerStep

\* tcp_nip_check_req makes the child from the request of the connection.
LEMMA MakeChildStep ==
  ASSUME ConnInv, NEW b, NEW P, SidesNow(b, P), NEW g, NEW m, MakeChild(g, m)
  PROVE  \E o : ServerStep(b, P, o)
<1>1. PICK f : f = AtRequest(g, m)
  OBVIOUS
<1>2. /\ g = b /\ m \in From(P, "C") /\ b \in Nat /\ b # 0 /\ gen \in Nat /\ gen' = gen
  <2>1. OfHandler(b, P, f) /\ gen' = gen
    BY <1>1, HandlerReleases DEF MakeChild
  <2>2. f.at = "request" /\ f.g = g /\ f.m = m
    BY <1>1 DEF AtRequest
  <2> QED
    BY <2>1, <2>2, SidesIs DEF OfHandler
<1>3. \A x \in BagToSet(found') : OfHandler(b, P, x)
  BY HandlerReleases DEF MakeChild
<1>4. reqs' = {r \in reqs : r.g # b}
  BY <1>2 DEF MakeChild
<1>5. Generations(reqs') \subseteq Generations(reqs) /\ b \notin Generations(reqs')
  BY <1>4 DEF Generations
<1>6. own_req(b) <=> b \in Generations(reqs)
  BY DEF own_req, Generations
<1>7. CASE own_req(b) /\ listen
  <2>1. PICK d, r : d = Child(b) /\ r = RcvStateProcess("S", d, m)
    OBVIOUS
  <2>2. IsSock(d)
    BY <1>2, <2>1, ChildIs
  <2>3. Sane(10 * b, 0, From(P, "C"), d)
    <3>1. PICK R : R = Generations(reqs)
      OBVIOUS
    <3>2. PICK S, l : S = Generations(reqs') /\ l = [g |-> b]
      OBVIOUS
    <3>3. /\ Sides(b, P, net, sk["S"], R, child, gen, found)
          /\ b \in R /\ S \subseteq R /\ b \notin S /\ l.g = b
      BY <1>5, <1>6, <1>7, <3>1, <3>2 DEF SidesNow
    <3> QED
      BY <1>2, <2>1, <3>3, ChildSides
  <2>4. Moves("S", 10 * b, 0, From(P, "C"), d, r)
    <3>1. 10 * b \in Nat /\ 0 \in Nat /\ "S" \in Ends
      BY <1>2 DEF Ends
    <3> QED
      BY <1>2, <2>1, <2>2, <2>3, <3>1, StateProcessMoves
  <2>5. PICK o : o = r.out
    OBVIOUS
  <2>6. /\ sk'["S"] = r.s /\ sk'["C"] = sk["C"] /\ net' \subseteq net \cup o
    <3>1. Apply("S", r)
      BY <1>2, <1>7, <2>1 DEF MakeChild
    <3> QED
      BY <2>5, <3>1 DEF Apply, Transmit, ConnInv, Ends
  <2>7. child'.g = b
    BY <1>2, <1>7 DEF MakeChild
  <2>8. Moves("S", 10 * b, 0, From(P, "C"), Child(b), Result(sk'["S"], o))
    BY <2>1, <2>4, <2>5, <2>6 DEF Moves, Result
  <2>9. Born(b, P, o)
    BY <1>2, <1>3, <1>5, <1>6, <1>7, <2>7, <2>8 DEF Born
  <2> QED
    BY <2>6, <2>9 DEF ServerStep
<1>8. CASE ~(own_req(b) /\ listen)
  <2>1. UNCHANGED <<sk, child>>
    BY <1>2, <1>8 DEF MakeChild
  <2>2. ASSUME NEW o, Replies(gen, o), net' \subseteq net \cup o
        PROVE  ServerStep(b, P, o)
    BY <1>2, <1>3, <1>5, <2>1, <2>2, SidesIs DEF Rests, ServerStep
  <2>3. Replies(gen, {}) /\ Replies(gen, ActiveReset("S", Child(b)))
    <3>1. PICK d : d = Child(b)
      OBVIOUS
    <3>2. d.nxt \in Nat /\ d.rcv \in Nat
      BY <1>2, <3>1, ChildIs
    <3> QED
      BY <3>1, <3>2, ActiveResetReplies DEF Replies
  <2>4. net' \subseteq net \cup {} \/ net' \subseteq net \cup ActiveReset("S", Child(b))
    BY <1>2, <1>8 DEF MakeChild, Transmit
  <2> QED
    BY <2>2, <2>3, <2>4
<1> QED
  BY <1>7, <1>8

\* A child nobody accepted is reset.
LEMMA ListenCloseStep ==
  ASSUME ConnInv, NEW b, NEW P, SidesNow(b, P), ListenClose
  PROVE  \E o : ServerStep(b, P, o)
<1>1. UNCHANGED <<reqs, gen, child, found>>
  BY DEF ListenClose
<1>2. CASE queued
  <2>1. PICK s, r, t : /\ s = sk["S"] /\ r = Disconnected("S", s)
                       /\ t = [Destroy(r.s) EXCEPT !.phase = "done"]
    OBVIOUS
  <2>2. Apply("S", Result(t, r.out))
    BY <1>2, <2>1 DEF ListenClose
  <2>3. sk'["S"] = t /\ sk'["C"] = sk["C"] /\ net' \subseteq net \cup r.out
    BY <2>2 DEF Apply, Transmit, Result, ConnInv, Ends
  <2>4. ~Hashed(t)
    BY <2>1 DEF Destroy, Fresh, Hashed
  <2>5. Replies(gen, r.out)
    <3>1. CASE r.out = {}
      BY <3>1 DEF Replies
    <3>2. CASE Hashed(s) /\ r.out = ActiveReset("S", s)
      <4>1. Sane(10 * b, 0, From(P, "C"), s) /\ b \in Nat
        BY <2>1, <3>2, SidesIs
      <4>2. s.nxt \in Nat /\ s.rcv \in Nat
        BY <4>1 DEF Sane
      <4> QED
        BY <3>2, <4>2, ActiveResetReplies
    <3> QED
      BY <2>1, <3>1, <3>2 DEF Disconnected, Result, Hashed
  <2>6. Rests(b, P, r.out)
    BY <1>1, <2>3, <2>4, <2>5, SidesIs DEF Rests
  <2> QED
    BY <2>3, <2>6 DEF ServerStep
<1>3. CASE ~queued
  <2>1. UNCHANGED <<sk, net>>
    BY <1>3 DEF ListenClose
  <2>2. Replies(gen, {}) /\ net' \subseteq net \cup {}
    BY <2>1 DEF Replies
  <2> QED
    BY <1>1, <2>1, <2>2, QuietStep
<1> QED
  BY <1>2, <1>3

\* A step of the child by itself.
LEMMA EndStep ==
  ASSUME ConnInv, NEW b, NEW P, SidesNow(b, P), EndMoves("S", 10 * b, 0, From(P, "C"))
  PROVE  \E o : ServerStep(b, P, o)
<1>1. PICK r : StepOf("S", r) /\ Moves("S", 10 * b, 0, From(P, "C"), sk["S"], r)
  BY DEF EndMoves
<1>2. PICK o : o = r.out
  OBVIOUS
<1>3. /\ sk'["S"] = r.s /\ sk'["C"] = sk["C"] /\ net' \subseteq net \cup o
      /\ UNCHANGED <<reqs, gen, child, found>>
  BY <1>1, <1>2 DEF StepOf, Server, ConnInv, Ends
<1>4. CASE Finishes("S", sk["S"], r.s, o)
  <2>1. ~Hashed(sk'["S"]) /\ Replies(gen, o)
    BY <1>3, <1>4, FinishesAre
  <2>2. Rests(b, P, o)
    BY <1>3, <2>1, SidesIs DEF Rests
  <2> QED
    BY <1>3, <2>2 DEF ServerStep
<1>5. CASE /\ Hashed(sk["S"]) /\ Advances(10 * b, 0, From(P, "C"), sk["S"], r.s)
           /\ Emits("S", sk["S"], r.s, o)
  BY <1>3, <1>5 DEF ServerStep, Goes
<1> QED
  BY <1>1, <1>2, <1>4, <1>5 DEF Moves

\* The number the child counts from is that of its request.
LEMMA ServerReady ==
  ASSUME NEW b, NEW P, SidesNow(b, P)
  PROVE  /\ Ready("S", 10 * b, 0, From(P, "C")) /\ 10 * b \in Nat /\ 0 \in Nat /\ "S" \in Ends
         /\ Hashed(sk["S"]) => 10 * b = FirstOf("S")
<1>1. b \in Nat /\ Hashed(sk["S"]) => child.g = b /\ Sane(10 * b, 0, From(P, "C"), sk["S"])
  BY SidesIs
<1> QED
  BY <1>1, SidesIs DEF Ready, FirstOf, Isn, Ends, Hashed, Sane

\* A segment on the wire reaches the server.
LEMMA ServerRcvStep ==
  ASSUME ConnInv, NEW b, NEW P, SidesNow(b, P), NEW m \in net, m.src = "C", Rcv(m)
  PROVE  \E o : ServerStep(b, P, o)
<1>1. m \in From(P, "C") /\ m \in Msgs /\ Peer(m.src) = "S"
  BY SidesIs DEF From, Peer
<1>2. CASE /\ Hashed(sk["S"])
           /\ \/ Apply("S", DoRcv("S", sk["S"], m)) /\ UNCHANGED Server
              \/ /\ sk' = [sk EXCEPT !["S"].backlog = Append(sk["S"].backlog, m)]
                 /\ UNCHANGED <<Server, net>>
  <2>1. EndMoves("S", 10 * b, 0, From(P, "C"))
    BY <1>1, <1>2, ServerReady, SegmentMoves
  <2> QED
    BY <2>1, EndStep
<1>3. CASE \E r \in reqs : FindRequest(m, r.g)
  <2>1. PICK r \in reqs : FindRequest(m, r.g)
    BY <1>3
  <2>2. r.g \in Generations(reqs)
    BY DEF Generations
  <2> QED
    BY <1>1, <2>1, <2>2, FindRequestStep
<1>4. CASE FindListener(m)
  BY <1>4, FindListenerStep
<1>5. CASE Transmit(Reset("S", m)) /\ UNCHANGED <<sk, Server>>
  <2>1. Replies(gen, Reset("S", m))
    BY <1>1, ResetReplies
  <2>2. net' \subseteq net \cup Reset("S", m) /\ UNCHANGED <<sk, reqs, gen, child, found>>
    BY <1>5 DEF Transmit, Server
  <2> QED
    BY <2>1, <2>2, QuietStep
<1> QED
  BY <1>1, <1>2, <1>3, <1>4, <1>5 DEF Rcv, SocketMet

\* What is not a step of the client.
ServerAction ==
  \/ Accept \/ ListenClose \/ UNCHANGED vars
  \/ \E g \in 1 .. MaxReq : RequestTimer(g)
  \/ \/ Send("S") \/ Read("S") \/ Shutdown("S") \/ Disconnect("S")
     \/ Close("S") \/ CloseBacklog("S") \/ CloseRelease("S") \/ CloseJudge("S")
     \/ RetransmitTimer("S") \/ KeepaliveTimer("S")
  \/ ConnRequest \/ \E g, m : MakeChild(g, m)
  \/ \E m \in net : Lose(m) \/ (m.src = "C" /\ Rcv(m))

ClientAction ==
  \/ Send("C") \/ Read("C") \/ Shutdown("C") \/ Disconnect("C")
  \/ Close("C") \/ CloseBacklog("C") \/ CloseRelease("C") \/ CloseJudge("C")
  \/ RetransmitTimer("C") \/ KeepaliveTimer("C")

LEMMA Actions ==
  ASSUME ConnInv, NEW b, NEW P, SidesNow(b, P), [Next]_vars
  PROVE  Connect \/ ClientAction \/ (\E m \in net : m.src = "S" /\ Rcv(m)) \/ ServerAction
<1>1. \A m \in net : m.src \in {"C", "S"}
  BY SidesIs DEF Msgs, Ends
<1> QED
  BY <1>1 DEF Next, ServerAction, ClientAction, Ends

\* All steps of the server.
LEMMA ServerSteps ==
  ASSUME ConnInv, NEW b, NEW P, SidesNow(b, P), ServerAction
  PROVE  \E o : ServerStep(b, P, o)
<1>1. CASE Accept \/ UNCHANGED vars \/ \E m \in net : Lose(m)
  <2>1. UNCHANGED <<sk, reqs, gen, child, found>> /\ net' \subseteq net \cup {}
    BY <1>1 DEF Accept, vars, Lose, Server
  <2>2. Replies(gen, {})
    BY DEF Replies
  <2> QED
    BY <2>1, <2>2, QuietStep
<1>2. CASE \/ Send("S") \/ Read("S") \/ Shutdown("S") \/ Disconnect("S")
           \/ Close("S") \/ CloseBacklog("S") \/ CloseRelease("S") \/ CloseJudge("S")
           \/ RetransmitTimer("S") \/ KeepaliveTimer("S")
  <2>1. EndMoves("S", 10 * b, 0, From(P, "C"))
    BY <1>2, ServerReady, ActionMoves
  <2> QED
    BY <2>1, EndStep
<1> QED
  BY <1>1, <1>2, ListenCloseStep, RequestTimerStep, ConnRequestStep, MakeChildStep,
     ServerRcvStep DEF ServerAction


-----------------------------------------------------------------------------
(* The steps of the client.                                                *)

\* A step of the client that sends what it may keeps Sides.
LEMMA ClientStepSides ==
  ASSUME ConnInv, NEW b, NEW P, SidesNow(b, P), NEW r, StepOf("C", r),
         \A m \in r.out : m \in Msgs /\ m.src = "C" /\ OfClient(b, m)
  PROVE  /\ SidesNext(b, P \cup r.out) /\ sk'["C"] = r.s /\ sk'["S"] = sk["S"]
         /\ UNCHANGED <<reqs, gen, child, queued, found>> /\ Generations(reqs') = Generations(reqs)
<1>1. /\ sk'["C"] = r.s /\ sk'["S"] = sk["S"] /\ net' \subseteq net \cup r.out
      /\ UNCHANGED <<reqs, gen, child, queued, found>>
  BY DEF StepOf, Server, ConnInv, Ends
<1>2. Generations(reqs') = Generations(reqs)
  BY <1>1
<1>3. PICK N, s, R, k, g, F : /\ N = net /\ s = sk["S"] /\ R = Generations(reqs) /\ k = child
                              /\ g = gen /\ F = found
  OBVIOUS
<1>4. PICK M, o : M = net' /\ o = r.out
  OBVIOUS
<1>5. Sides(b, P, N, s, R, k, g, F)
  BY <1>3 DEF SidesNow
<1>6. Sides(b, P \cup o, M, s, R, k, g, F)
  BY <1>1, <1>3, <1>4, <1>5, ClientSides
<1>7. SidesNext(b, P \cup r.out)
  BY <1>1, <1>2, <1>3, <1>4, <1>6 DEF SidesNext
<1> QED
  BY <1>1, <1>2, <1>7

\* A client without a connection answers a SYN+ACK with a reset, without ACK since that has.
LEMMA ResetIs ==
  ASSUME NEW m \in Msgs, OfServer(m)
  PROVE  \A x \in Reset("C", m) : x \in Msgs /\ x.src = "C" /\ Has(x, "RST") /\ ~Has(x, "ACK")
<1>1. CASE Has(m, "RST")
  BY <1>1 DEF Reset
<1>2. CASE ~Has(m, "RST")
  <2>1. PICK x : x = Msg("C", {"RST"}, m.ack, m.ack, 0)
    OBVIOUS
  <2>2. x \in Msgs /\ x.src = "C" /\ Has(x, "RST") /\ ~Has(x, "ACK")
    BY <2>1 DEF Msg, Msgs, Has, Ends
  <2>3. Reset("C", m) = {x}
    BY <1>2, <2>1 DEF Reset, OfServer
  <2> QED
    BY <2>2, <2>3
<1> QED
  BY <1>1, <1>2

\* A reset without ACK is of every connection.
LEMMA ResetOfClient ==
  ASSUME NEW b, NEW m, Has(m, "RST"), ~Has(m, "ACK")
  PROVE  OfClient(b, m)
  BY DEF OfClient, Stored

\* A segment that finds no socket of the client.
LEMMA RefusedSegment ==
  ASSUME ConnInv, NEW b, NEW P, SidesNow(b, P), NEW m \in net, m.src = "S", Rcv(m),
         ~Hashed(sk["C"])
  PROVE  \E r : /\ StepOf("C", r) /\ r.s = sk["C"]
                /\ \A x \in r.out : x \in Msgs /\ x.src = "C" /\ Has(x, "RST") /\ ~Has(x, "ACK")
<1>1. PICK r : r = Result(sk["C"], Reset("C", m))
  OBVIOUS
<1>2. r.s = sk["C"] /\ r.out = Reset("C", m)
  BY <1>1 DEF Result
<1>3. Transmit(Reset("C", m)) /\ UNCHANGED <<sk, Server>>
  BY DEF Rcv, SocketMet, Peer
<1>4. StepOf("C", r)
  BY <1>2, <1>3 DEF StepOf, Transmit, ConnInv, Ends
<1>5. m \in Msgs /\ OfServer(m)
  BY SidesIs DEF From
<1> QED
  BY <1>2, <1>4, <1>5, ResetIs

\* A client in TCP_CLOSE does not connect again.
LEMMA OverStep ==
  ASSUME ConnInv, NEW b, NEW P, SidesNow(b, P), Over(sk["C"]),
         Connect \/ ClientAction \/ \E m \in net : m.src = "S" /\ Rcv(m)
  PROVE  AgreeInv'
<1>1. ~Hashed(sk["C"]) /\ "C" \in Ends /\ ~Connect
  BY DEF Over, Hashed, Ends, Connect, Fresh
<1>2. PICK r : /\ StepOf("C", r) /\ Over(r.s)
               /\ \A x \in r.out : x \in Msgs /\ x.src = "C" /\ Has(x, "RST") /\ ~Has(x, "ACK")
  <2>1. CASE ClientAction
    <3>1. Ready("C", 0, 0, {}) /\ 0 \in Nat
      BY <1>1 DEF Ready, Over
    <3>2. EndMoves("C", 0, 0, {})
      BY <1>1, <2>1, <3>1, ActionMoves DEF ClientAction
    <3>3. PICK r : StepOf("C", r) /\ Moves("C", 0, 0, {}, sk["C"], r)
      BY <3>2 DEF EndMoves
    <3>4. Finishes("C", sk["C"], r.s, r.out)
      BY <1>1, <3>3 DEF Moves
    <3> QED
      BY <1>1, <3>3, <3>4 DEF Finishes
  <2>2. CASE \E m \in net : m.src = "S" /\ Rcv(m)
    BY <1>1, <2>2, RefusedSegment
  <2> QED
    BY <1>1, <2>1, <2>2
<1>3. SidesNext(b, P \cup r.out) /\ sk'["C"] = r.s
  BY <1>2, ResetOfClient, ClientStepSides
<1> QED
  BY <1>2, <1>3, AgreeNext

\* A client with a connection.
LEMMA AgreesStep ==
  ASSUME ConnInv, NEW b, NEW P, SidesNow(b, P), AgreesNow(b, P),
         Connect \/ ClientAction \/ \E m \in net : m.src = "S" /\ Rcv(m)
  PROVE  AgreeInv'
<1>1. PICK I, c : I = From(P, "S") /\ c = sk["C"]
  OBVIOUS
<1>2. Sane(0, 10 * b, I, c) /\ b \in Nat
  BY <1>1, SidesIs DEF AgreesNow, Agrees
<1>3. Hashed(c) /\ "C" \in Ends /\ 0 \in Nat /\ 10 * b \in Nat /\ ~Connect
  BY <1>1, <1>2 DEF Sane, Hashed, Ends, Connect, Fresh
<1>4. Ready("C", 0, 10 * b, I)
  BY <1>1, <1>2 DEF Ready, Sane
<1>5. EndMoves("C", 0, 10 * b, I)
  <2>1. CASE ClientAction
    <3>1. 0 = FirstOf("C")
      BY DEF FirstOf
    <3> QED
      BY <1>3, <1>4, <2>1, <3>1, ActionMoves DEF ClientAction
  <2>2. ASSUME NEW m \in net, m.src = "S", Rcv(m)
        PROVE  EndMoves("C", 0, 10 * b, I)
    <3>1. m \in I
      BY <1>1, <2>2, SidesIs DEF From
    <3>2. \/ Apply("C", DoRcv("C", sk["C"], m)) /\ UNCHANGED Server
          \/ /\ sk' = [sk EXCEPT !["C"].backlog = Append(sk["C"].backlog, m)]
             /\ UNCHANGED <<Server, net>>
      BY <1>1, <1>3, <2>2 DEF Rcv, NoneMet, Peer
    <3> QED
      BY <1>1, <1>3, <1>4, <3>1, <3>2, SegmentMoves
  <2> QED
    BY <1>3, <2>1, <2>2
<1>6. PICK r : StepOf("C", r) /\ Moves("C", 0, 10 * b, I, c, r)
  BY <1>1, <1>5 DEF EndMoves
<1>7. CASE Finishes("C", c, r.s, r.out)
  <2>1. Over(r.s)
    BY <1>3, <1>7 DEF Finishes
  <2>2. ASSUME NEW m \in r.out
        PROVE  m \in Msgs /\ m.src = "C" /\ OfClient(b, m)
    <3>1. m \in Msgs /\ m.src = "C" /\ Has(m, "RST") /\ m.ack = c.rcv
      BY <1>7 DEF Finishes
    <3>2. 10 * b + 1 <= m.ack /\ m.ack <= 10 * b + 5
      BY <1>2, <3>1, ClientIs
    <3> QED
      BY <3>1, <3>2 DEF OfClient, Stored
  <2>3. SidesNext(b, P \cup r.out) /\ sk'["C"] = r.s
    BY <1>6, <2>2, ClientStepSides
  <2> QED
    BY <2>1, <2>3, AgreeNext
<1>8. CASE Advances(0, 10 * b, I, c, r.s) /\ Emits("C", c, r.s, r.out)
  <2>1. PICK N, s, R, k, g, F : /\ N = net /\ s = sk["S"] /\ R = Generations(reqs)
                                /\ k = child /\ g = gen /\ F = found
    OBVIOUS
  <2>2. PICK d, o : d = r.s /\ o = r.out
    OBVIOUS
  <2>3. Sides(b, P, N, s, R, k, g, F) /\ Agrees(b, P, c, s, R, g)
    BY <1>1, <2>1 DEF SidesNow, AgreesNow
  <2>4. /\ Agrees(b, P \cup o, d, s, R, g)
        /\ \A m \in o : m \in Msgs /\ m.src = "C" /\ OfClient(b, m)
    BY <1>1, <1>8, <2>2, <2>3, ClientAdvances
  <2>5. /\ SidesNext(b, P \cup o) /\ sk'["C"] = d /\ sk'["S"] = s /\ gen' = g
        /\ Generations(reqs') = R
    BY <1>6, <2>1, <2>2, <2>4, ClientStepSides
  <2>6. AgreesNext(b, P \cup o)
    BY <2>4, <2>5 DEF AgreesNext
  <2> QED
    BY <2>5, <2>6, AgreeNext
<1> QED
  BY <1>6, <1>7, <1>8 DEF Moves

-----------------------------------------------------------------------------
(* Before the connection.                                                  *)

\* The SYN of tcp_nip_connect.
LEMMA SynIs ==
  /\ Syn \in Msgs /\ Syn.src = "C" /\ Syn.flags = {"SYN"} /\ Syn.seq = 0 /\ Syn.ack = 0
  /\ ~Has(Syn, "ACK")
  BY DEF Syn, Msg, Msgs, Ends, Has

\* The segments o are ones of the client in the opening.
Openings(o) ==
  \A m \in o : /\ m \in Msgs /\ m.src = "C"
               /\ m = Syn \/ (Has(m, "RST") /\ ~Has(m, "ACK"))

\* More requests have been made.
LEMMA OpeningGrows ==
  ASSUME NEW g \in Nat, NEW h \in Nat, g <= h, NEW m, Opening(g, m)
  PROVE  Opening(h, m)
<1>1. \A i \in 1 .. g : i \in 1 .. h
  OBVIOUS
<1> QED
  BY <1>1 DEF Opening

\* What a step of the client may make of it.
Opens(r) == (Over(r.s) \/ r.s = Fresh \/ Connecting(r.s)) /\ Openings(r.out)

\* A step of the client before its connection.
LEMMA OpensStep ==
  ASSUME ConnInv, NEW b, NEW P, SidesNow(b, P), Before(b, P), NEW r, StepOf("C", r), Opens(r)
  PROVE  AgreeInv'
<1>1. b = 0 /\ sk["S"] = Fresh /\ ~queued /\ \A m \in P : Opening(gen, m)
  BY DEF Before, Unopened
<1>2. \A m \in r.out : m \in Msgs /\ m.src = "C" /\ OfClient(b, m)
  <2>1. OfClient(0, Syn)
    BY SynIs DEF OfClient
  <2> QED
    BY <1>1, <2>1, ResetOfClient DEF Opens, Openings
<1>3. /\ SidesNext(b, P \cup r.out) /\ sk'["C"] = r.s /\ sk'["S"] = sk["S"]
      /\ gen' = gen /\ queued' = queued
  BY <1>2, ClientStepSides
<1>4. \A m \in P \cup r.out : Opening(gen, m)
  <2>1. "S" # "C"
    OBVIOUS
  <2> QED
    BY <1>1, <2>1 DEF Opens, Openings, Opening
<1>5. Over(sk'["C"]) \/ BeforeNext(b, P \cup r.out)
  BY <1>1, <1>3, <1>4 DEF BeforeNext, Unopened, Opens
<1> QED
  BY <1>3, <1>5, AgreeNext

\* tcp_nip_connect.
LEMMA ConnectOpens ==
  ASSUME Connect
  PROVE  \E r : StepOf("C", r) /\ Opens(r)
<1>1. PICK u : u = [Fresh EXCEPT !.st = "SYN_SENT", !.nxt = 1]
  OBVIOUS
<1>2. u.st = "SYN_SENT" /\ u.una = 0 /\ Connecting(u)
  BY <1>1 DEF Fresh, Connecting
<1>3. Fresh.una + 1 = 1
  BY DEF Fresh
<1>4. Head1("C", u) = Syn
  BY <1>2 DEF Head1, Syn
<1>5. PICK r : r = Result(u, {Syn})
  OBVIOUS
<1>6. SendSyn("C", Fresh) = r
  BY <1>1, <1>3, <1>4, <1>5 DEF SendSyn
<1>7. StepOf("C", r)
  BY <1>6, ApplyStep DEF Connect
<1>8. r.s = u /\ r.out = {Syn}
  BY <1>5 DEF Result
<1> QED
  BY <1>2, <1>7, <1>8, SynIs DEF Opens, Openings

\* The calls and timers of a client that has not connected.
LEMMA FreshClient ==
  ASSUME sk["C"] = Fresh, ClientAction
  PROVE  \E r : StepOf("C", r) /\ Opens(r)
<1>1. /\ Fresh.st = "CLOSE" /\ Fresh.unread = 0 /\ Fresh.phase = "none" /\ ~Fresh.ka
  BY DEF Fresh
<1>2. Close("C")
  <2>1. ~Send("C") /\ ~Read("C") /\ ~Shutdown("C") /\ ~Disconnect("C")
    BY <1>1 DEF Send, Read, Shutdown, Disconnect, Hashed
  <2>2. ~CloseBacklog("C") /\ ~CloseRelease("C") /\ ~CloseJudge("C")
    BY <1>1 DEF CloseBacklog, CloseRelease, CloseJudge
  <2>3. ~RetransmitTimer("C") /\ ~KeepaliveTimer("C")
    BY <1>1 DEF RetransmitTimer, KeepaliveTimer, Hashed
  <2> QED
    BY <2>1, <2>2, <2>3 DEF ClientAction
<1>3. PICK a : a = [Fresh EXCEPT !.rshut = TRUE, !.sshut = TRUE]
  OBVIOUS
<1>4. a.st = "CLOSE"
  BY <1>3 DEF Fresh
<1>5. CloseBody("C", a) = Result(a, {})
  BY <1>4 DEF CloseBody
<1>6. PICK t : t = [a EXCEPT !.unread = 0, !.dead = TRUE, !.phase = "owned",
                             !.closed = a.st = "CLOSE"]
  OBVIOUS
<1>7. t.st = "CLOSE" /\ t.dead
  BY <1>3, <1>6 DEF Fresh
<1>8. Result(a, {}).s = a /\ Result(a, {}).out = {}
  BY DEF Result
<1>9. PICK r : r = Result(t, {})
  OBVIOUS
<1>10. Apply("C", r) /\ UNCHANGED Server
  BY <1>2, <1>3, <1>5, <1>6, <1>8, <1>9 DEF Close
<1>11. Over(r.s) /\ r.out = {}
  BY <1>7, <1>9 DEF Over, Result
<1> QED
  BY <1>10, <1>11, ApplyStep DEF Opens, Openings

\* The calls and timers of a client that has sent its SYN.
LEMMA ConnectingClient ==
  ASSUME ConnInv, Connecting(sk["C"]), ClientAction
  PROVE  \E r : StepOf("C", r) /\ Opens(r)
<1>1. PICK c : c = sk["C"]
  OBVIOUS
<1>2. c.st = "SYN_SENT" /\ c.una = 0 /\ c.nxt = 1 /\ c.phase = "none" /\ c.unread = 0
      /\ IsSock(c)
  BY <1>1, SocketEnd DEF Connecting, Ends
<1>3. ~Send("C") /\ ~CloseBacklog("C") /\ ~CloseRelease("C") /\ ~CloseJudge("C")
  BY <1>1, <1>2 DEF Send, CloseBacklog, CloseRelease, CloseJudge
<1>4. ASSUME NEW t, sk' = [sk EXCEPT !["C"] = t], UNCHANGED <<Server, net>>, Connecting(t)
      PROVE  \E r : StepOf("C", r) /\ Opens(r)
  <2>1. PICK r : r = Result(t, {})
    OBVIOUS
  <2>2. r.s = t /\ r.out = {}
    BY <2>1 DEF Result
  <2> QED
    BY <1>4, <2>2 DEF StepOf, Opens, Openings
<1>5. ASSUME NEW t, Over(t), Apply("C", Result(t, {})), UNCHANGED Server
      PROVE  \E r : StepOf("C", r) /\ Opens(r)
  <2>1. Result(t, {}).s = t /\ Result(t, {}).out = {}
    BY DEF Result
  <2> QED
    BY <1>5, <2>1, ApplyStep DEF Opens, Openings
<1>6. \A x : Over(Closed(x)) /\ Closed(x).st = "CLOSE"
  BY DEF Over, Closed, Fresh
<1>7. CASE Read("C")
  <2>1. PICK t : t = [c EXCEPT !.unread = 0]
    OBVIOUS
  <2>2. Connecting(t)
    BY <1>1, <1>2, <2>1 DEF Connecting, IsSock, SockFields
  <2>3. sk' = [sk EXCEPT !["C"] = t] /\ UNCHANGED <<Server, net>>
    BY <1>1, <1>7, <2>1 DEF Read
  <2> QED
    BY <1>4, <2>2, <2>3
<1>8. CASE KeepaliveTimer("C")
  <2>1. PICK t : t = [c EXCEPT !.ka = FALSE]
    OBVIOUS
  <2>2. Connecting(t)
    BY <1>1, <1>2, <2>1 DEF Connecting, IsSock, SockFields
  <2>3. KeepaliveExpired(c) = t
    BY <1>2, <2>1 DEF KeepaliveExpired
  <2>4. sk' = [sk EXCEPT !["C"] = t] /\ UNCHANGED <<Server, net>>
    BY <1>1, <1>8, <2>3 DEF KeepaliveTimer
  <2> QED
    BY <1>4, <2>2, <2>4
<1>9. CASE Shutdown("C")
  <2>1. PICK u : u = [c EXCEPT !.sshut = TRUE]
    OBVIOUS
  <2>2. u.st = "SYN_SENT"
    BY <1>2, <2>1 DEF IsSock, SockFields
  <2>3. CloseState("C", u) = Result(Closed(u.rshut), {})
    BY <2>2 DEF CloseState, new_state
  <2> QED
    BY <1>1, <1>5, <1>6, <1>9, <2>1, <2>3 DEF Shutdown
<1>10. CASE Disconnect("C")
  BY <1>1, <1>2, <1>5, <1>6, <1>10 DEF Disconnect, Disconnected
<1>11. CASE Close("C")
  <2>1. PICK u : u = [c EXCEPT !.rshut = TRUE, !.sshut = TRUE]
    OBVIOUS
  <2>2. u.st = "SYN_SENT" /\ u.unread = 0
    BY <1>2, <2>1 DEF IsSock, SockFields
  <2>3. CloseState("C", u) = Result(Closed(u.rshut), {})
    BY <2>2 DEF CloseState, new_state
  <2>4. CloseBody("C", u) = Result(Closed(u.rshut), {})
    BY <2>2, <2>3 DEF CloseBody
  <2>5. PICK w : w = Closed(u.rshut)
    OBVIOUS
  <2>6. Result(w, {}).s = w /\ Result(w, {}).out = {}
    BY DEF Result
  <2>7. PICK t : t = [w EXCEPT !.unread = 0, !.dead = TRUE, !.phase = "owned",
                               !.closed = w.st = "CLOSE"]
    OBVIOUS
  <2>8. Over(t)
    BY <2>5, <2>7 DEF Over, Closed, Fresh
  <2>9. Apply("C", Result(t, {})) /\ UNCHANGED Server
    BY <1>1, <1>11, <2>1, <2>4, <2>5, <2>6, <2>7 DEF Close
  <2> QED
    BY <1>5, <2>8, <2>9
<1>12. CASE RetransmitTimer("C")
  <2>1. CASE c.rtx > Retries
    BY <1>1, <1>5, <1>12, <2>1, DoneOver DEF RetransmitTimer
  <2>2. CASE ~(c.rtx > Retries)
    <3>1. PICK t : t = [c EXCEPT !.rtx = c.rtx + 1]
      OBVIOUS
    <3>2. Connecting(t)
      BY <1>1, <1>2, <3>1 DEF Connecting, IsSock, SockFields
    <3>3. Head1("C", c) = Syn
      BY <1>2 DEF Head1, Syn
    <3>4. Apply("C", Result(t, {Syn})) /\ UNCHANGED Server
      BY <1>1, <1>12, <2>2, <3>1, <3>3 DEF RetransmitTimer
    <3>5. Result(t, {Syn}).s = t /\ Result(t, {Syn}).out = {Syn}
      BY DEF Result
    <3>6. Opens(Result(t, {Syn}))
      BY <3>2, <3>5, SynIs DEF Opens, Openings
    <3> QED
      BY <3>4, <3>6, ApplyStep
  <2> QED
    BY <2>1, <2>2
<1> QED
  BY <1>3, <1>7, <1>8, <1>9, <1>10, <1>11, <1>12 DEF ClientAction

\* The client has got a SYN+ACK: the connection is that of its request.
LEMMA Established ==
  ASSUME NEW P, NEW N, NEW s, NEW R, NEW k, NEW g, NEW F, Sides(0, P, N, s, R, k, g, F),
         s = Fresh, \A m \in P : Opening(g, m),
         NEW c, Connecting(c), IsSock(c), NEW h \in 1 .. g,
         NEW u, u = [c EXCEPT !.st = "ESTABLISHED", !.una = 1, !.rtx = 0, !.rcv = 10 * h + 1]
  PROVE  /\ Sides(h, P, N, s, R, k, g, F) /\ Agrees(h, P, u, s, R, g)
         /\ Advances(0, 10 * h, From(P, "S"), u, u) /\ Emits("C", u, u, Ack("C", u))
<1>1. /\ u.st = "ESTABLISHED" /\ u.una = 1 /\ u.nxt = 1 /\ u.rcv = 10 * h + 1 /\ u.ofo = {}
      /\ u.backlog = <<>>
  BY DEF IsSock, SockFields, Connecting
<1>2. g \in Nat /\ h \in Nat /\ h <= g /\ h # 0 /\ R \subseteq 1 .. g /\ P \subseteq Msgs
  BY DEF Sides
<1>3. PICK I, J : I = From(P, "S") /\ J = From(P, "C")
  OBVIOUS
<1>4. I \subseteq Msgs /\ J \subseteq Msgs
  BY <1>2, <1>3 DEF From
<1>5. ASSUME NEW m \in I, ~Has(m, "RST")
      PROVE  \E i \in 1 .. g : i \in Nat /\ m.seq = 10 * i /\ m.ack = 1
  <2>1. PICK i \in 1 .. g : m = Synack(i)
    BY <1>3, <1>5 DEF From, Opening
  <2>2. i \in Nat
    OBVIOUS
  <2> QED
    BY <2>1, <2>2, SynackIs
<1>6. ASSUME NEW m \in J
      PROVE  FromClient(h, u, m) /\ OfClient(h, m)
  <2>1. m = Syn \/ (Has(m, "RST") /\ ~Has(m, "ACK"))
    BY <1>3, <1>6 DEF From, Opening
  <2>2. CASE m = Syn
    <3>1. ~Has(m, "ACK") /\ m.ack <= u.rcv /\ m.seq + 1 <= u.nxt /\ m.seq # 5
      BY <1>1, <1>2, <2>2, SynIs
    <3> QED
      BY <3>1 DEF FromClient, OfClient
  <2>3. CASE Has(m, "RST") /\ ~Has(m, "ACK")
    BY <2>3, ResetOfClient DEF FromClient, Stored
  <2> QED
    BY <2>1, <2>2, <2>3
<1>7. \A w \in I : Stored(w) => w.seq # 10 * h + 5
  <2>1. ASSUME NEW w \in I, Stored(w)
        PROVE  w.seq # 10 * h + 5
    <3>1. PICK i \in 1 .. g : i \in Nat /\ w.seq = 10 * i
      BY <1>5, <2>1 DEF Stored
    <3> QED
      BY <1>2, <3>1
  <2> QED
    BY <2>1
<1>8. Sane(0, 10 * h, I, u)
  <2>1. /\ u.rcv \in 10 * h + 1 .. 10 * h + 5 /\ u.nxt \in 0 + 1 .. 0 + 5 /\ u.nxt <= 0 + 4
        /\ u.una \in Nat /\ 0 + 1 <= u.una
    BY <1>1, <1>2
  <2>2. u.ofo \subseteq I /\ (\A w \in u.ofo : Stored(w)) /\ u.st \notin {"CLOSE", "SYN_SENT"}
    BY <1>1
  <2>3. u.backlog \in Seq(I)
    <3>1. \A T : <<>> \in Seq(T)
      OBVIOUS
    <3> QED
      BY <1>1, <3>1, Zenon
  <2>4. u.nxt \in 0 + 1 .. 0 + 5
    BY <2>1
  <2>5. u.nxt <= 0 + 4
    BY <2>1
  <2> QED
    BY <1>4, <1>7, <2>1, <2>2, <2>3, <2>4, <2>5, Zenon DEF Sane
<1>9. \A m \in I : FromServer(g, m)
  <2>1. ASSUME NEW m \in I, Stored(m)
        PROVE  \E i \in 1 .. g : 10 * i <= m.seq /\ m.seq <= 10 * i + 4
    <3>1. PICK i \in 1 .. g : i \in Nat /\ m.seq = 10 * i
      BY <1>5, <2>1 DEF Stored
    <3>2. 10 * i <= m.seq /\ m.seq <= 10 * i + 4
      BY <3>1
    <3> QED
      BY <3>2
  <2> QED
    BY <2>1 DEF FromServer
<1>10. PICK v : v = View(h, s)
  OBVIOUS
<1>11. v.una = 10 * h + 1 /\ v.nxt = 10 * h + 1 /\ v.rcv = 1 /\ ~Hashed(s)
  <2>1. ~Hashed(s)
    BY DEF Fresh, Hashed
  <2> QED
    BY <1>2, <1>10, <2>1, ChildIs DEF View
<1>12. Fits(u, v)
  BY <1>1, <1>2, <1>11 DEF Fits
<1>13. ASSUME NEW m \in I
       PROVE  FromPeer(h, v, m)
  <2>1. CASE Has(m, "RST")
    BY <2>1 DEF FromPeer, Stored
  <2>2. CASE ~Has(m, "RST")
    <3>1. PICK i \in 1 .. g : i \in Nat /\ m.seq = 10 * i /\ m.ack = 1
      BY <1>5, <2>2
    <3>2. m.ack <= v.rcv /\ (m.seq <= 10 * h + 4 => m.seq + 1 <= v.nxt)
      BY <1>2, <1>11, <3>1
    <3> QED
      BY <3>2 DEF FromPeer
  <2> QED
    BY <2>1, <2>2
<1>14. Agrees(h, P, u, s, R, g)
  BY <1>2, <1>3, <1>6, <1>8, <1>9, <1>10, <1>12, <1>13 DEF Agrees
<1>15. Sides(h, P, N, s, R, k, g, F)
  <2>1. k = NoChild /\ \A x \in BagToSet(F) : OfHandler(h, P, x)
    BY DEF Sides, OfHandler
  <2> QED
    BY <1>2, <1>3, <1>6, <1>11, <2>1 DEF Sides
<1>16. Advances(0, 10 * h, I, u, u)
  BY <1>1, <1>2, <1>8 DEF Advances
<1>17. Emits("C", u, u, Ack("C", u))
  <2>1. "C" \in Ends /\ 0 \in Nat /\ 10 * h \in Nat
    BY <1>2 DEF Ends
  <2> QED
    BY <1>8, <2>1, AckEmits
<1> QED
  BY <1>3, <1>14, <1>15, <1>16, <1>17

\* A segment for a client in SYN_SENT: only a SYN+ACK of one of the requests connects it.
LEMMA SynSentStep ==
  ASSUME ConnInv, NEW b, NEW P, SidesNow(b, P), Before(b, P), Connecting(sk["C"]),
         NEW m \in P, m.src = "S", StepOf("C", RcvSynSent("C", sk["C"], m))
  PROVE  AgreeInv'
<1>1. PICK c, r : c = sk["C"] /\ r = RcvSynSent("C", c, m)
  OBVIOUS
<1>2. c.st = "SYN_SENT" /\ c.una = 0 /\ c.nxt = 1 /\ IsSock(c)
  BY <1>1, SocketEnd DEF Connecting, Ends
<1>3. m \in Msgs /\ m.ack \in Nat /\ Opening(gen, m) /\ gen \in Nat
  BY SidesIs DEF Before, Unopened, Msgs
<1>4. CASE r = Result(c, {})
  <2>1. r.s = c /\ r.out = {}
    BY <1>4 DEF Result
  <2>2. Opens(r)
    BY <1>1, <2>1 DEF Opens, Openings
  <2> QED
    BY <1>1, <2>2, OpensStep
<1>5. CASE r = Result(tcp_nip_done(c), {})
  <2>1. Over(r.s) /\ r.out = {}
    BY <1>5, DoneOver DEF Result
  <2> QED
    BY <1>1, <2>1, OpensStep DEF Opens, Openings
<1>6. CASE r # Result(c, {}) /\ r # Result(tcp_nip_done(c), {})
  <2>1. PICK u : u = [c EXCEPT !.st = "ESTABLISHED", !.una = m.ack, !.rtx = 0, !.rcv = m.seq + 1]
    OBVIOUS
  <2>2. /\ ~Has(m, "RST") /\ ~(m.ack <= c.una) /\ ~(m.ack > c.nxt)
        /\ r = Result(u, Ack("C", u))
    BY <1>1, <1>6, <2>1 DEF RcvSynSent
  <2>3. PICK h \in 1 .. gen : m = Synack(h)
    BY <1>3, <2>2 DEF Opening
  <2>4. h \in Nat /\ m.seq = 10 * h /\ m.ack = 1
    <3>1. h \in Nat
      BY <1>3
    <3> QED
      BY <2>3, <3>1, SynackIs
  <2>5. u = [c EXCEPT !.st = "ESTABLISHED", !.una = 1, !.rtx = 0, !.rcv = 10 * h + 1]
    BY <2>1, <2>4
  <2>6. r.s = u /\ r.out = Ack("C", u)
    BY <2>2 DEF Result
  <2>7. PICK N, s, R, k, g, F : /\ N = net /\ s = sk["S"] /\ R = Generations(reqs)
                                /\ k = child /\ g = gen /\ F = found
    OBVIOUS
  <2>8. /\ Sides(0, P, N, s, R, k, g, F) /\ s = Fresh /\ (\A x \in P : Opening(g, x))
        /\ h \in 1 .. g
    BY <2>7 DEF SidesNow, Before, Unopened
  <2>9. /\ Sides(h, P, N, s, R, k, g, F) /\ Agrees(h, P, u, s, R, g)
        /\ Advances(0, 10 * h, From(P, "S"), u, u) /\ Emits("C", u, u, Ack("C", u))
    <3>1. Connecting(c) /\ IsSock(c)
      BY <1>1, <1>2
    <3> QED
      BY <2>5, <2>8, <3>1, Established, Zenon
  <2>10. PICK o : o = Ack("C", u)
    OBVIOUS
  <2>11. /\ Agrees(h, P \cup o, u, s, R, g)
         /\ \A x \in o : x \in Msgs /\ x.src = "C" /\ OfClient(h, x)
    BY <2>9, <2>10, ClientAdvances
  <2>12. SidesNow(h, P)
    BY <2>7, <2>9 DEF SidesNow
  <2>13. /\ SidesNext(h, P \cup o) /\ sk'["C"] = u /\ sk'["S"] = s /\ gen' = g
         /\ Generations(reqs') = R
    BY <1>1, <2>6, <2>7, <2>10, <2>11, <2>12, ClientStepSides
  <2>14. AgreesNext(h, P \cup o)
    BY <2>11, <2>13 DEF AgreesNext
  <2> QED
    BY <2>13, <2>14, AgreeNext
<1> QED
  BY <1>4, <1>5, <1>6

\* A client without a connection.
LEMMA BeforeClient ==
  ASSUME ConnInv, NEW b, NEW P, SidesNow(b, P), Before(b, P),
         Connect \/ ClientAction \/ \E m \in net : m.src = "S" /\ Rcv(m)
  PROVE  AgreeInv'
<1>1. sk["C"] = Fresh \/ Connecting(sk["C"])
  BY DEF Before, Unopened
<1>2. CASE Connect
  BY <1>2, ConnectOpens, OpensStep
<1>3. CASE ClientAction
  BY <1>1, <1>3, FreshClient, ConnectingClient, OpensStep
<1>4. ASSUME NEW m \in net, m.src = "S", Rcv(m)
      PROVE  AgreeInv'
  <2>1. CASE sk["C"] = Fresh
    <3>1. ~Hashed(sk["C"])
      BY <2>1 DEF Hashed, Fresh
    <3>2. PICK r : /\ StepOf("C", r) /\ r.s = sk["C"]
                   /\ \A x \in r.out : /\ x \in Msgs /\ x.src = "C"
                                       /\ Has(x, "RST") /\ ~Has(x, "ACK")
      BY <1>4, <3>1, RefusedSegment
    <3> QED
      BY <2>1, <3>2, OpensStep DEF Opens, Openings
  <2>2. CASE Connecting(sk["C"])
    <3>1. sk["C"].st = "SYN_SENT" /\ sk["C"].phase = "none"
      BY <2>2 DEF Connecting
    <3>2. Apply("C", DoRcv("C", sk["C"], m)) /\ UNCHANGED Server
      BY <1>4, <3>1 DEF Rcv, Hashed, NoneMet, Peer
    <3>3. StepOf("C", RcvSynSent("C", sk["C"], m))
      BY <3>1, <3>2, ApplyStep DEF DoRcv
    <3>4. m \in P
      BY <1>4, SidesIs
    <3> QED
      BY <1>4, <2>2, <3>3, <3>4, SynSentStep
  <2> QED
    BY <1>1, <2>1, <2>2
<1> QED
  BY <1>2, <1>3, <1>4

\* The server has no socket before the client has a connection.
LEMMA FreshServer ==
  ASSUME NEW b, NEW P, SidesNow(b, P), Before(b, P), ServerAction
  PROVE  sk'["S"] = Fresh /\ ~queued'
<1>1. b = 0 /\ sk["S"] = Fresh /\ ~queued
  BY DEF Before, Unopened
<1>2. /\ Fresh.st = "CLOSE" /\ Fresh.nxt = 0 /\ Fresh.phase = "none" /\ ~Fresh.ka
  BY DEF Fresh
<1>3. /\ ~Send("S") /\ ~Read("S") /\ ~Shutdown("S") /\ ~Disconnect("S") /\ ~Close("S")
  <2>1. ~User("S")
    BY <1>1, <1>2 DEF User
  <2> QED
    BY <2>1 DEF Send, Read, Shutdown, Disconnect, Close
<1>4. /\ ~CloseBacklog("S") /\ ~CloseRelease("S") /\ ~CloseJudge("S")
      /\ ~RetransmitTimer("S") /\ ~KeepaliveTimer("S")
  BY <1>1, <1>2 DEF CloseBacklog, CloseRelease, CloseJudge, RetransmitTimer, KeepaliveTimer, Hashed
<1>5. \A g, m : ~MakeChild(g, m)
  <2> SUFFICES ASSUME NEW g, NEW m, MakeChild(g, m) PROVE FALSE
    OBVIOUS
  <2>1. OfHandler(b, P, AtRequest(g, m))
    BY HandlerReleases DEF MakeChild
  <2> QED
    BY <1>1, <2>1 DEF OfHandler, AtRequest
<1>6. ASSUME NEW m \in net, m.src = "C", Rcv(m)
      PROVE  UNCHANGED <<sk, queued>>
  <2>1. ~SocketMet("S") /\ Peer(m.src) = "S"
    BY <1>1, <1>2, <1>6 DEF SocketMet, Hashed, Peer
  <2>2. ASSUME FindListener(m) \/ \E g : FindRequest(m, g)
        PROVE  UNCHANGED <<sk, queued>>
    BY <2>2 DEF FindListener, FindRequest
  <2> QED
    BY <1>6, <2>1, <2>2 DEF Rcv, Server
<1>7. UNCHANGED <<sk, queued>> \/ (UNCHANGED sk /\ ~queued')
  <2>1. CASE Accept \/ ListenClose
    BY <1>1, <2>1 DEF Accept, ListenClose
  <2>2. CASE UNCHANGED vars \/ \E m \in net : Lose(m)
    BY <2>2 DEF vars, Lose, Server
  <2>3. CASE (\E g \in 1 .. MaxReq : RequestTimer(g)) \/ ConnRequest
    BY <2>3 DEF RequestTimer, ConnRequest
  <2> QED
    BY <1>3, <1>4, <1>5, <1>6, <2>1, <2>2, <2>3 DEF ServerAction
<1> QED
  BY <1>1, <1>7

\* The server before the connection.
LEMMA BeforeServer ==
  ASSUME NEW b, NEW P, SidesNow(b, P), Before(b, P), ServerAction, NEW o, ServerStep(b, P, o)
  PROVE  BeforeNext(b, P \cup o)
<1>1. b = 0 /\ ~Hashed(sk["S"]) /\ (sk["C"] = Fresh \/ Connecting(sk["C"]))
  BY DEF Before, Unopened, Hashed, Fresh
<1>2. /\ gen' \in Nat /\ gen <= gen' /\ Replies(gen', o) /\ sk'["C"] = sk["C"]
  BY <1>1 DEF ServerStep, Goes, Born, Rests
<1>3. gen \in Nat
  BY SidesIs
<1>4. \A m \in P \cup o : Opening(gen', m)
  <2>1. \A m \in P : Opening(gen', m)
    BY <1>2, <1>3, OpeningGrows DEF Before, Unopened
  <2>2. "S" # "C"
    OBVIOUS
  <2> QED
    BY <1>2, <2>1, <2>2 DEF Replies, Opening
<1>5. sk'["S"] = Fresh /\ ~queued'
  BY FreshServer
<1> QED
  BY <1>1, <1>2, <1>4, <1>5 DEF BeforeNext, Unopened

-----------------------------------------------------------------------------
(* The invariant, and what follows from it.                                *)

\* The initial states satisfy AgreeInv.
LEMMA AgreeInit == Init => AgreeInv
<1> SUFFICES ASSUME Init PROVE AgreeInv
  OBVIOUS
<1>1. /\ sk["C"] = Fresh /\ sk["S"] = Fresh /\ ~queued /\ gen = 0 /\ net = {} /\ reqs = {}
      /\ child = NoChild /\ BagToSet(found) = {}
  BY DEF Init, Ends, EmptyBag, SetToBag, BagToSet
<1>2. Generations(reqs) = {} /\ ~Hashed(sk["S"]) /\ From({}, "C") = {} /\ From({}, "S") = {}
  BY <1>1 DEF Generations, Hashed, Fresh, From
<1>3. \A x \in BagToSet(found) : OfHandler(0, {}, x)
  BY <1>1
<1>4. SidesNow(0, {})
  BY <1>1, <1>2, <1>3 DEF SidesNow, Sides
<1>5. Before(0, {})
  BY <1>1 DEF Before, Unopened
<1> QED
  BY <1>4, <1>5 DEF AgreeInv

\* Every step preserves it.
LEMMA AgreeStep == ConnInv /\ AgreeInv /\ [Next]_vars => AgreeInv'
<1> SUFFICES ASSUME ConnInv, AgreeInv, [Next]_vars PROVE AgreeInv'
  OBVIOUS
<1>1. PICK b, P : SidesNow(b, P) /\ (Over(sk["C"]) \/ Before(b, P) \/ AgreesNow(b, P))
  BY DEF AgreeInv
<1>2. CASE Connect \/ ClientAction \/ \E m \in net : m.src = "S" /\ Rcv(m)
  BY <1>1, <1>2, OverStep, BeforeClient, AgreesStep
<1>3. CASE ServerAction
  <2>1. PICK o : ServerStep(b, P, o)
    BY <1>1, <1>3, ServerSteps
  <2>2. SidesNext(b, P \cup o) /\ sk'["C"] = sk["C"]
    BY <1>1, <2>1, ServerStepSides DEF ServerStep
  <2>3. Over(sk'["C"]) \/ BeforeNext(b, P \cup o) \/ AgreesNext(b, P \cup o)
    BY <1>1, <1>3, <2>1, <2>2, BeforeServer, ServerStepAgrees
  <2> QED
    BY <2>2, <2>3, AgreeNext
<1> QED
  BY <1>1, <1>2, <1>3, Actions

\* It is as strong as PeersAgree.
LEMMA AgreeImplies == AgreeInv => PeersAgree
<1> SUFFICES ASSUME AgreeInv PROVE PeersAgree
  OBVIOUS
<1>1. PICK b, P : SidesNow(b, P) /\ (Over(sk["C"]) \/ Before(b, P) \/ AgreesNow(b, P))
  BY DEF AgreeInv
<1>2. CASE Over(sk["C"])
  BY <1>2 DEF Over, PeersAgree, Hashed
<1>3. CASE Before(b, P)
  BY <1>3 DEF Before, Unopened, PeersAgree, Hashed, Fresh
<1>4. CASE AgreesNow(b, P)
  <2>1. Hashed(sk["S"]) => Fits(sk["C"], sk["S"])
    BY <1>4 DEF AgreesNow, Agrees, Live, View
  <2> QED
    BY <2>1 DEF PeersAgree, Fits
<1> QED
  BY <1>1, <1>2, <1>3, <1>4

\* A step of the client leaves the child alone.
LEMMA ClientKeepsChild ==
  ASSUME Connect \/ ClientAction \/ \E m \in net : m.src = "S" /\ Rcv(m)
  PROVE  child' = child
<1>1. ASSUME NEW m, Rcv(m) PROVE child' = child
  <2>1. ASSUME FindListener(m) \/ \E g : FindRequest(m, g)
        PROVE  child' = child
    BY <2>1 DEF FindListener, FindRequest
  <2> QED
    BY <1>1, <2>1 DEF Rcv, Server
<1>2. CASE \/ Connect \/ Send("C") \/ Read("C") \/ Shutdown("C") \/ Disconnect("C")
           \/ Close("C") \/ CloseBacklog("C") \/ CloseRelease("C") \/ CloseJudge("C")
  BY <1>2 DEF Connect, Send, Read, Shutdown, Disconnect, Close, CloseBacklog, CloseRelease,
     CloseJudge, Server
<1>3. CASE RetransmitTimer("C") \/ KeepaliveTimer("C")
  BY <1>3 DEF RetransmitTimer, KeepaliveTimer, Server
<1> QED
  BY <1>1, <1>2, <1>3 DEF ClientAction

\* The accept queue is filled by a child whose request is in the table.
LEMMA QueuedByChild ==
  ASSUME [Next]_vars, queued', ~queued
  PROVE  \E g : own_req(g) /\ child'.g = g
<1>1. ASSUME NEW g, NEW m, MakeChild(g, m) PROVE own_req(g) /\ child'.g = g
  <2>1. own_req(g) /\ child' = [g |-> g, made |-> gen]
    BY <1>1 DEF MakeChild
  <2> QED
    BY <2>1
<1>2. ASSUME NEW m, Rcv(m) PROVE FALSE
  <2>1. ASSUME FindListener(m) \/ \E g : FindRequest(m, g)
        PROVE  queued' = queued
    BY <2>1 DEF FindListener, FindRequest
  <2> QED
    BY <1>2, <2>1 DEF Rcv, Server
<1>3. ASSUME NEW e, \/ Send(e) \/ Read(e) \/ Shutdown(e) \/ Disconnect(e)
                    \/ Close(e) \/ CloseBacklog(e) \/ CloseRelease(e) \/ CloseJudge(e)
      PROVE  FALSE
  BY <1>3 DEF Send, Read, Shutdown, Disconnect, Close, CloseBacklog, CloseRelease, CloseJudge,
     Server
<1>4. ASSUME NEW e, RetransmitTimer(e) \/ KeepaliveTimer(e) PROVE FALSE
  BY <1>4 DEF RetransmitTimer, KeepaliveTimer, Server
<1>5. ASSUME Connect \/ Accept \/ ListenClose \/ ConnRequest PROVE FALSE
  BY <1>5 DEF Connect, Accept, ListenClose, ConnRequest, Server
<1>6. ASSUME NEW g, RequestTimer(g) PROVE FALSE
  BY <1>6 DEF RequestTimer
<1>7. ASSUME NEW m, Lose(m) PROVE FALSE
  BY <1>7 DEF Lose, Server
<1> QED
  BY <1>1, <1>2, <1>3, <1>4, <1>5, <1>6, <1>7 DEF Next, vars

\* A child is made while there is none: its request is in the table.
LEMMA OneChildStep ==
  ASSUME ConnInv, AgreeInv, [Next]_vars
  PROVE  child' # child \/ (queued' /\ ~queued) => child = NoChild
<1>1. PICK b, P : SidesNow(b, P)
  BY DEF AgreeInv
<1>2. child' # child => child = NoChild
  <2>1. CASE Connect \/ ClientAction \/ \E m \in net : m.src = "S" /\ Rcv(m)
    BY <2>1, ClientKeepsChild
  <2>2. CASE ServerAction
    <3>1. PICK o : ServerStep(b, P, o)
      BY <1>1, <2>2, ServerSteps
    <3> QED
      BY <1>1, <3>1, SidesIs DEF ServerStep, Rests, Goes, Born
  <2> QED
    BY <1>1, <2>1, <2>2, Actions
<1>3. ASSUME queued', ~queued, child' = child, child # NoChild
      PROVE  FALSE
  <2>1. PICK g : own_req(g) /\ child'.g = g
    BY <1>3, QueuedByChild
  <2>2. child.g \notin Generations(reqs)
    BY <1>1, <1>3, SidesIs
  <2> QED
    BY <1>3, <2>1, <2>2 DEF own_req, Generations
<1> QED
  BY <1>2, <1>3

\* While both ends have the connection, each has received up to somewhere between what the
\* other knows to be acknowledged and what the other has sent: through every loss, copy,
\* delay and reordering of segments (tcp_nip_data_queue, tcp_nip_ack), and although requests
\* time out, are made anew while the acknowledgement of an older one is on its way, and may
\* stand beside each other and beside the child, since the listener is looked up and the
\* request inserted without a lock (tcp_nip_conn_request, tcp_nip_check_req,
\* ninet_reqsk_timer_handler).
THEOREM PeersAlwaysAgree == Spec => []PeersAgree
<1>1. ConnInv /\ AgreeInv /\ [Next]_vars => AgreeInv'
  BY AgreeStep
<1> QED
  BY <1>1, AgreeInit, AgreeImplies, ConnInvariant, PTL DEF Spec

\* A connection gets one child, accepted once, however many handlers hold a copy of its last acknowledgement,
\* whenever the request timer fires between their lookup and their check (inet_ehash_nolisten
\* refuses a child whose request has left the table), and however many requests the copies of
\* the SYN have made: an acknowledgement fits the request the client is connected to, which
\* is made once (tcp_nip_check_req).
THEOREM OneChildOnly == Spec => OneChild
<1>1. ConnInv /\ AgreeInv /\ [Next]_vars => AgreeInv'
  BY AgreeStep
<1>2. ConnInv /\ AgreeInv /\ [Next]_vars =>
        [child' # child \/ (queued' /\ ~queued) => child = NoChild]_vars
  BY OneChildStep
<1> QED
  BY <1>1, <1>2, AgreeInit, ConnInvariant, PTL DEF Spec, OneChild
=============================================================================
