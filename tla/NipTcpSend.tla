----------------------------- MODULE NipTcpSend -----------------------------
(***************************************************************************)
(* The sending side of a NewIP TCP connection (tcp_nip.c,                  *)
(* tcp_nip_output.c, tcp_nip_input.c, tcp_nip_timer.c): the write queue,   *)
(* the send head, retransmission by timer and by duplicate                 *)
(* acknowledgements, zero-window probes and the FIN.                       *)
(*                                                                         *)
(* Sequence numbers are taken modulo M, as u32 is in the code; a FIN is one *)
(* unit of sequence space.  Of nip_ssthresh only the number of packets one  *)
(* call of tcp_nip_write_xmit may send is kept.  The peer acknowledges what *)
(* it has in sequence and moves the edge of its window; the wire loses,    *)
(* delays, duplicates and reorders.                                        *)
(***************************************************************************)
EXTENDS Integers, FiniteSets, Sequences

CONSTANTS
  M,            \* sequence numbers are 0 .. M - 1
  MSS,          \* units of data in a full segment
  Isn,          \* initial sequence numbers
  Bytes,        \* units the application sends at most
  Sizes,        \* units one call of sendmsg sends
  InitWnd,      \* windows the peer may have when the connection is established
  PeerBuf,      \* window the peer opens when it has read everything
  Low, High,    \* packets sent at once for the lowest and the highest nip_ssthresh
  DupNum,       \* g_dup_ack_retrans_num and g_ack_retrans_num
  Retries,      \* sysctl_tcp_retries2
  MaxProbes,    \* get_nip_probe_max
  MaxFails,     \* bound: local failures to allocate or to transmit
  MaxSegs,      \* bound: segments on the wire
  MaxAcks       \* bound: acknowledgements on the wire

ASSUME SendAssumption ==
  /\ M \in Nat /\ MSS \in Nat \ {0} /\ Bytes \in Nat /\ Isn \subseteq 0 .. M - 1
  /\ Sizes \subseteq 1 .. Bytes /\ InitWnd \subseteq 0 .. PeerBuf /\ PeerBuf \in Nat /\ DupNum \in Nat \ {0}
  /\ Low \in Nat \ {0} /\ High \in Nat /\ Low <= High
  /\ Retries \in Nat /\ MaxProbes \in Nat /\ MaxFails \in Nat /\ MaxSegs \in Nat /\ MaxAcks \in Nat
  /\ 2 * (Bytes + 2 * PeerBuf + 2) < M

VARIABLES
  tp,      \* the socket, fields below
  msg,     \* the tcp_nip_sendmsg in progress: units to queue, some queued, waiting for memory
  left,    \* units the application has still to send
  fails,   \* local failures so far
  segs,    \* segments on the wire
  acks,    \* acknowledgements on the wire
  peer     \* what the peer has in sequence, beyond it, and the edge of its window

vars == <<tp, msg, left, fails, segs, acks, peer>>

Add(a, n)    == (a + n) % M
Diff(a, b)   == (a - b) % M
After(a, b)  == Diff(a, b) \in 1 .. (M \div 2) - 1
Before(a, b) == After(b, a)

Least(S) == CHOOSE x \in S : \A y \in S : x <= y
Smaller(x, y) == IF x <= y THEN x ELSE y

\* An skb of the write queue; pc is tcp_skb_pcount, 0 until the skb is looked at.
Skb(seq, end, pc) == [seq |-> seq, end |-> end, pc |-> pc]

wnd_end(t)   == Add(t.una, t.wnd)
HasHead(t)   == t.head <= Len(t.q)
Result(t, out) == [t |-> t, out |-> out]
Wire(b)      == [seq |-> b.seq, end |-> b.end]

-----------------------------------------------------------------------------
(* Transmission of new data.                                               *)

\* tcp_nip_rearm_rto
tcp_nip_rearm_rto(t) == [t EXCEPT !.timer = IF t.out = 0 THEN "none" ELSE "RETRANS"]

\* tcp_nip_event_new_data_sent for the n skbs from the send head on.
event_new_data_sent(t, n) ==
  LET sent == {i \in t.head .. t.head + n - 1 : t.q[i].pc = 1}
      u == [t EXCEPT !.head = @ + n, !.nxt = t.q[t.head + n - 1].end, !.out = @ + Cardinality(sent)]
  IN IF t.out = 0 THEN tcp_nip_rearm_rto(u) ELSE u

\* Mutant: the packets of an skb are not counted before it is sent.
write_xmit_uncounted(t, k) ==
  LET fits == {i \in t.head .. Len(t.q) :
                 \A j \in t.head .. i : ~After(t.q[j].end, wnd_end(t))}
      n    == Smaller(k, Smaller(t.ssthresh, Cardinality(fits)))
  IN IF n = 0 THEN Result(t, {})
     ELSE Result(event_new_data_sent(t, n), {Wire(t.q[i]) : i \in t.head .. t.head + n - 1})

\* tcp_nip_write_xmit: packets in the window, at most so many.  A failing transmission ends it,
\* after k that succeeded.
tcp_nip_write_xmit(t, k) ==
  LET fits == {i \in t.head .. Len(t.q) :
                 \A j \in t.head .. i : ~After(t.q[j].end, wnd_end(t))}
      n    == Smaller(k, Smaller(t.ssthresh, Cardinality(fits)))
      seen == t.head .. t.head + Smaller(t.ssthresh, n + 1) - 1
      u    == [t EXCEPT !.q = [i \in DOMAIN t.q |-> IF i \in seen THEN [t.q[i] EXCEPT !.pc = 1]
                                                    ELSE t.q[i]]]
  IN IF n = 0 THEN Result(u, {})
     ELSE Result(event_new_data_sent(u, n), {Wire(u.q[i]) : i \in u.head .. u.head + n - 1})

\* __tcp_nip_push_pending_frames and tcp_nip_check_probe_timer
push_pending_frames(t, k) ==
  LET r == tcp_nip_write_xmit(t, k)
  IN IF t.st = "CLOSE" THEN Result(t, {})
     ELSE IF r.t.out = 0 /\ HasHead(r.t) /\ r.t.timer = "none"
       THEN Result([r.t EXCEPT !.timer = "PROBE0"], r.out)
     ELSE r

-----------------------------------------------------------------------------
(* Retransmission.                                                         *)

\* tcp_trim_head in __tcp_nip_retransmit_skb
Trim(t, b) == IF Before(b.seq, t.una) THEN [b EXCEPT !.seq = t.una] ELSE b

\* __tcp_nip_retransmit_skb of the skbs with index in I: what the peer has is cut off, what is
\* outside the window stays, and a packet not counted before is counted now.
retransmit_skb(t, I, ok) ==
  LET inwnd(b) == Before(b.seq, wnd_end(t)) \/ b.seq = t.una
      go == {i \in I : inwnd(Trim(t, t.q[i]))}
      u  == [t EXCEPT !.q = [i \in DOMAIN t.q |->
                               IF i \in go THEN [Trim(t, t.q[i]) EXCEPT !.pc = 1]
                               ELSE IF i \in I THEN Trim(t, t.q[i]) ELSE t.q[i]],
                      !.out = @ + Cardinality({i \in go : t.q[i].pc = 0})]
  IN Result(u, IF ok THEN {Wire(u.q[i]) : i \in go} ELSE {})

NoRange(t) == [t EXCEPT !.selEnd = 0, !.rseq = 0]

\* tcp_nip_ack_retrans: a walk from the head of the queue to the send head or past the range,
\* by plain comparison.  From ack_retrans_seq on DupNum packets are sent again; the range is
\* forgotten when the walk reaches its end.
tcp_nip_ack_retrans(t, ok) ==
  LET stop == Least({i \in 1 .. Len(t.q) : i = t.head \/ t.q[i].seq > t.selEnd} \cup {Len(t.q) + 1})
      from == {i \in 1 .. stop - 1 : t.q[i].seq = t.rseq}
      I    == {i \in 1 .. stop - 1 : \E j \in from : i \in j .. j + DupNum - 1}
      more == \E j \in from : j + DupNum < stop
      r    == retransmit_skb(t, I, ok)
      u    == IF I = {} THEN r.t
              ELSE [r.t EXCEPT !.rseq = t.q[CHOOSE i \in I : i + 1 \notin I].end]
  IN Result(IF ~more /\ stop <= Len(t.q) THEN NoRange(u) ELSE u, r.out)

\* tcp_nip_dup_ack_retrans: the third duplicate opens the range the peer asks for.
tcp_nip_dup_ack_retrans(t, a, ok) ==
  LET u == [t EXCEPT !.sacked = @ + 1]
  IN IF t.q = <<>> THEN Result(t, {})
     ELSE IF u.sacked # 3 THEN Result([u EXCEPT !.sacked = Smaller(@, 4)], {})
     ELSE tcp_nip_ack_retrans([u EXCEPT !.selEnd = Add(a.ack, a.num * MSS), !.rseq = a.ack,
                                        !.ssthresh = Low], ok)

\* tcp_nip_nor_ack_retrans
tcp_nip_nor_ack_retrans(t, a, ok) ==
  LET u == [t EXCEPT !.sacked = 0]
  IN IF t.selEnd = 0 THEN Result(u, {})
     ELSE IF a.ack >= t.selEnd THEN Result(NoRange(u), {})
     ELSE tcp_nip_ack_retrans(u, ok)

-----------------------------------------------------------------------------
(* Acknowledgements.                                                       *)

\* Mutant: what is acknowledged in part is taken off the queue too.
clean_partial(t) ==
  LET n == Cardinality({i \in 1 .. t.head - 1 : After(t.una, t.q[i].seq)})
      u == [t EXCEPT !.q = SubSeq(t.q, n + 1, Len(t.q)), !.head = @ - n,
                     !.out = @ - Cardinality({i \in 1 .. n : t.q[i].pc = 1})]
  IN IF n > 0 THEN tcp_nip_rearm_rto(u) ELSE t

\* Mutant: the timer is restarted only if something is still to be acknowledged.
clean_keeps_timer(t) ==
  LET n == Cardinality({i \in 1 .. t.head - 1 : ~After(t.q[i].end, t.una)})
      u == [t EXCEPT !.q = SubSeq(t.q, n + 1, Len(t.q)), !.head = @ - n,
                     !.out = @ - Cardinality({i \in 1 .. n : t.q[i].pc = 1})]
  IN IF n > 0 /\ u.out > 0 THEN tcp_nip_rearm_rto(u) ELSE u

\* tcp_nip_clean_rtx_queue: skbs acknowledged to their end are freed.
tcp_nip_clean_rtx_queue(t) ==
  LET n == Cardinality({i \in 1 .. t.head - 1 : ~After(t.q[i].end, t.una)})
      u == [t EXCEPT !.q = SubSeq(t.q, n + 1, Len(t.q)), !.head = @ - n,
                     !.out = @ - Cardinality({i \in 1 .. n : t.q[i].pc = 1})]
  IN IF n > 0 THEN tcp_nip_rearm_rto(u) ELSE t

\* tcp_nip_ack_update_window; the peer sends no data, so its sequence number stays.
ack_update_window(t, a) ==
  IF After(a.ack, t.una) \/ a.wnd > t.wnd THEN [t EXCEPT !.wnd = a.wnd] ELSE t

\* tcp_nip_ack_probe, the window after the update.
tcp_nip_ack_probe(t) ==
  [t EXCEPT !.timer = IF After(t.q[t.head].end, wnd_end(t)) THEN "PROBE0" ELSE "none"]

\* tcp_nip_ack: 0 for an old acknowledgement, -1 for something that was not sent.
AckValue(t, a) == IF Before(a.ack, t.una) THEN 0 ELSE IF After(a.ack, t.nxt) THEN -1 ELSE 1

\* ss: the packets tcp_nip_ack_calc_ssthresh allows from now on, by the round-trip time.
tcp_nip_ack(t, a, ss, ok) ==
  LET u == [ack_update_window(t, a) EXCEPT !.probes = 0]
      v == [u EXCEPT !.una = a.ack, !.rtx = 0]
  IN IF AckValue(t, a) # 1 THEN Result(t, {})
     ELSE IF t.out = 0 THEN Result(IF HasHead(u) THEN tcp_nip_ack_probe(u) ELSE u, {})
     ELSE IF After(a.ack, t.una)
       THEN tcp_nip_nor_ack_retrans([tcp_nip_clean_rtx_queue(v) EXCEPT !.ssthresh = ss], a, ok)
     ELSE tcp_nip_dup_ack_retrans(u, a, ok)

-----------------------------------------------------------------------------
(* Timers.                                                                 *)

\* tcp_nip_done: nothing of the queue is sent any more, and no field is used again.
Done(t) ==
  [t EXCEPT !.st = "CLOSE", !.timer = "none", !.q = <<>>, !.head = 1, !.out = 0, !.rtx = 0,
            !.probes = 0, !.sacked = 0, !.selEnd = 0, !.rseq = 0, !.ssthresh = Low]

\* Mutant: a retransmission is counted only once.
retransmit_uncounted(t, ok) ==
  LET r == retransmit_skb(t, {1}, ok)
  IN IF t.out = 0 \/ t.q = <<>> THEN Result(t, {})
     ELSE IF t.rtx > Retries + 1 THEN Result(Done(t), {})
     ELSE Result([r.t EXCEPT !.rtx = 1, !.ssthresh = Low, !.timer = "RETRANS"], r.out)

\* tcp_nip_retransmit_timer and tcp_nip_write_timeout.  A positive error of the transmission
\* is not counted.
tcp_nip_retransmit_timer(t, ok) ==
  LET r == retransmit_skb(t, {1}, ok)
  IN IF t.out = 0 \/ t.q = <<>> THEN Result(t, {})
     ELSE IF t.rtx > Retries THEN Result(Done(t), {})
     ELSE IF ~ok THEN Result([r.t EXCEPT !.rtx = IF @ = 0 THEN 1 ELSE @, !.timer = "RETRANS"], {})
     ELSE Result([r.t EXCEPT !.rtx = @ + 1, !.ssthresh = Low, !.timer = "RETRANS"], r.out)

\* tcp_fragment of the send head at the edge of the window.
Fragment(t, n) ==
  LET b == t.q[t.head]
  IN [t EXCEPT !.q = SubSeq(@, 1, t.head - 1)
                     \o <<Skb(b.seq, Add(b.seq, n), 1), Skb(Add(b.seq, n), b.end, 1)>>
                     \o SubSeq(@, t.head + 1, Len(@))]

\* tcp_nip_write_wakeup: as much of the send head as the window takes, or an empty segment
\* below it.
tcp_nip_write_wakeup(t, ok) ==
  LET b == t.q[t.head]
      n == Diff(wnd_end(t), b.seq)
      u == IF n < Diff(b.end, b.seq) THEN Fragment(t, n) ELSE t
  IN IF ~Before(b.seq, wnd_end(t))
       THEN Result(t, IF ok THEN {[seq |-> Add(t.una, -1), end |-> Add(t.una, -1)]} ELSE {})
     ELSE IF ok THEN Result(event_new_data_sent(u, 1), {Wire(u.q[u.head])})
     ELSE Result(u, {})

\* tcp_nip_probe_timer and tcp_nip_send_probe0
tcp_nip_probe_timer(t, ok) ==
  LET r == tcp_nip_write_wakeup(t, ok)
  IN IF t.out > 0 \/ ~HasHead(t) THEN Result([t EXCEPT !.probes = 0], {})
     ELSE IF t.probes >= MaxProbes THEN Result(Done(t), {})
     ELSE IF r.t.out > 0 \/ ~HasHead(r.t) THEN Result([r.t EXCEPT !.probes = 0], r.out)
     ELSE Result([r.t EXCEPT !.probes = @ + 1, !.timer = "PROBE0"], r.out)

-----------------------------------------------------------------------------
NoMsg == [todo |-> 0, copied |-> FALSE, wait |-> FALSE]

\* tcp_nip_sendmsg owns the socket but while it waits for memory: timers are deferred, and
\* packets go to the backlog, which sk_flush_backlog takes once an skb has been queued.
Owned   == msg.todo > 0 /\ ~msg.wait
Queuing == Owned /\ msg.copied

Init ==
  \E isn \in Isn, wnd \in InitWnd :
    /\ tp = [q |-> <<>>, head |-> 1, una |-> isn, nxt |-> isn, wseq |-> isn, wnd |-> wnd,
             out |-> 0, timer |-> "none", rtx |-> 0, probes |-> 0, sacked |-> 0,
             selEnd |-> 0, rseq |-> 0, ssthresh |-> High, st |-> "ESTABLISHED"]
    /\ msg = NoMsg /\ left = Bytes /\ fails = 0 /\ segs = {} /\ acks = {}
    /\ peer = [nxt |-> isn, have |-> {}, edge |-> Add(isn, wnd)]

\* What the wire can hold after new has been sent: some of it is lost at once.
Sent(S, new, max) == {S} \cup {T \in {S \cup kept : kept \in SUBSET new} : Cardinality(T) <= max}

\* k transmissions of a step succeed before one fails; none fails if k is High.
NoneFails(k) == k = High

\* Whether what is allocated or transmitted in a step succeeds.
May(ok) == fails' = IF ok THEN fails ELSE fails + 1

Apply(r) == tp' = r.t /\ segs' \in Sent(segs, r.out, MaxSegs)

\* What tcp_nip_write_xmit allows after a pause without acknowledgements.
Idle(t, idle) == IF idle THEN [t EXCEPT !.ssthresh = Low] ELSE t

\* tcp_nip_sendmsg of n units takes the socket.
tcp_nip_sendmsg(n) ==
  /\ tp.st = "ESTABLISHED" /\ msg = NoMsg /\ n <= left
  /\ msg' = [NoMsg EXCEPT !.todo = n]
  /\ UNCHANGED <<tp, left, fails, segs, acks, peer>>

\* skb_nip_entail of n units on the socket t.
Entail(t, n) ==
  [t EXCEPT !.q = Append(@, Skb(t.wseq, Add(t.wseq, n), 0)), !.wseq = Add(@, n)]

\* One turn of the loop: an skb of at most MSS; tcp_nip_push after the last one.
QueueSkb(idle, k) ==
  LET n == Smaller(MSS, msg.todo)
      t == Entail(tp, n)
  IN /\ Owned
     /\ left' = left - n
     /\ IF n = msg.todo
          THEN Apply(push_pending_frames(Idle(t, idle), k)) /\ May(NoneFails(k)) /\ msg' = NoMsg
          ELSE /\ tp' = t /\ msg' = [msg EXCEPT !.todo = @ - n, !.copied = TRUE]
               /\ UNCHANGED <<segs, fails>>
     /\ UNCHANGED <<acks, peer>>

\* tcp_nip_push of what has been queued, if any.
PushCopied(idle, k) ==
  IF msg.copied THEN Apply(push_pending_frames(Idle(tp, idle), k)) /\ May(NoneFails(k))
  ELSE UNCHANGED <<tp, segs, fails>>

\* wait_for_memory: sk_stream_wait_memory releases the socket.
WaitForMemory(idle, k) ==
  /\ Owned
  /\ PushCopied(idle, k)
  /\ msg' = [msg EXCEPT !.wait = TRUE]
  /\ UNCHANGED <<left, acks, peer>>

\* sk_stream_wait_memory returns: there is memory, and the socket may still send.
MemoryFreed ==
  /\ msg.wait /\ tp.st = "ESTABLISHED"
  /\ msg' = [msg EXCEPT !.wait = FALSE]
  /\ UNCHANGED <<tp, left, fails, segs, acks, peer>>

\* do_error: it returns because of a timeout, a signal, an error or a shutdown.
WaitFails(idle, k) ==
  /\ msg.wait
  /\ PushCopied(idle, k)
  /\ msg' = NoMsg
  /\ UNCHANGED <<left, acks, peer>>

\* tcp_nip_send_fin: on the tail if that is not sent yet, else on an skb of its own; without
\* memory on the tail even if it has been sent, or not at all.
QueueFin(t, alloc) ==
  IF Len(t.q) > 0 /\ (HasHead(t) \/ ~alloc)
    THEN [t EXCEPT !.q[Len(t.q)].end = Add(@, 1), !.wseq = Add(@, 1)]
  ELSE IF alloc THEN [t EXCEPT !.q = Append(@, Skb(t.wseq, Add(t.wseq, 1), 1)), !.wseq = Add(@, 1)]
  ELSE t

tcp_nip_send_fin(alloc, idle, k) ==
  /\ tp.st = "ESTABLISHED" /\ ~Owned
  /\ LET t == QueueFin([tp EXCEPT !.st = "FIN_WAIT1"], alloc)
     IN Apply(IF ~alloc /\ tp.q = <<>> THEN Result(t, {}) ELSE push_pending_frames(Idle(t, idle), k))
  /\ May(alloc /\ NoneFails(k))
  /\ UNCHANGED <<msg, left, acks, peer>>

\* tcp_nip_rcv_established and tcp_nip_rcv_state_process of a pure acknowledgement, up to
\* tcp_nip_data_snd_check, also from the backlog in the middle of tcp_nip_sendmsg.
RcvAck(a, ss, k) ==
  LET r == tcp_nip_ack(tp, a, ss, NoneFails(k))
      t == IF tp.st = "FIN_WAIT1" /\ r.t.una = tp.wseq THEN [r.t EXCEPT !.st = "FIN_WAIT2"] ELSE r.t
      p == IF HasHead(t) THEN push_pending_frames(t, k) ELSE Result(t, {})
      drop == IF tp.st = "ESTABLISHED" THEN AckValue(tp, a) = -1 ELSE AckValue(tp, a) = 0
  IN /\ tp.st \in {"ESTABLISHED", "FIN_WAIT1"} /\ ~drop
     /\ Owned => msg.copied
     /\ Apply(Result(p.t, r.out \cup p.out))
     /\ May(NoneFails(k))
     /\ UNCHANGED <<msg, left, acks, peer>>

\* tcp_nip_write_timer_handler, from tcp_nip_write_timer or from tcp_nip_release_cb
tcp_nip_write_timer(ok) ==
  LET t == [tp EXCEPT !.timer = "none"]
  IN /\ tp.timer # "none" /\ ~Owned
     /\ Apply(IF tp.timer = "RETRANS" THEN tcp_nip_retransmit_timer(t, ok) ELSE tcp_nip_probe_timer(t, ok))
     /\ May(ok)
     /\ UNCHANGED <<msg, left, acks, peer>>

-----------------------------------------------------------------------------
(* The peer and the wire.                                                  *)

Answer(p, num) == 
  acks' \in Sent(acks, {[ack |-> p.nxt, wnd |-> Diff(p.edge, p.nxt), num |-> num]}, MaxAcks)

PeerReceives(m) ==
  LET have == peer.have \cup {Add(m.seq, i) : i \in 0 .. Diff(m.end, m.seq) - 1}
      ok   == {x \in have : Diff(x, peer.nxt) < Diff(peer.edge, peer.nxt)}
      n    == Least({k \in 0 .. M : Add(peer.nxt, k) \notin ok})
      gap  == Diff(m.seq, peer.nxt)
      p    == [peer EXCEPT !.nxt = Add(@, n), !.have = {x \in ok : Diff(x, peer.nxt) >= n}]
  IN /\ peer' = p
     /\ Answer(p, IF gap < M \div 2 THEN gap \div MSS ELSE 0)
     /\ segs' = segs \ {m}
     /\ UNCHANGED <<tp, msg, left, fails>>

PeerReads ==
  LET p == [peer EXCEPT !.edge = Add(peer.nxt, PeerBuf)]
  IN /\ Diff(p.edge, peer.nxt) > Diff(peer.edge, peer.nxt)
     /\ peer' = p /\ Answer(p, 0)
     /\ UNCHANGED <<tp, msg, left, fails, segs>>

\* An acknowledgement may be delivered any number of times before it is gone.
Lose(a) == acks' = acks \ {a} /\ UNCHANGED <<tp, msg, left, fails, segs, peer>>

\* Bound: at most MaxFails steps have a failure.
Successes == {k \in 0 .. High : NoneFails(k) \/ fails < MaxFails}

Sendmsg ==
  \E k \in Successes, idle \in BOOLEAN : QueueSkb(idle, k) \/ WaitForMemory(idle, k)

WriteTimer == \E k \in Successes : tcp_nip_write_timer(NoneFails(k))

Next ==
  \/ \E n \in Sizes : tcp_nip_sendmsg(n)
  \/ Sendmsg
  \/ MemoryFreed
  \/ \E k \in Successes, idle \in BOOLEAN :
       \/ WaitFails(idle, k)
       \/ \E alloc \in {b \in BOOLEAN : b \/ fails < MaxFails} : tcp_nip_send_fin(alloc, idle, k)
  \/ \E k \in Successes, a \in acks, ss \in {Low, High} : RcvAck(a, ss, k)
  \/ WriteTimer
  \/ /\ tp.st \in {"ESTABLISHED", "FIN_WAIT1"}
     /\ (\E m \in segs : PeerReceives(m)) \/ PeerReads \/ \E a \in acks : Lose(a)

\* A call of tcp_nip_sendmsg goes on.  The write timer, once armed, fires; if the socket is
\* owned then, its handler runs when the socket is released.
Fairness == WF_vars(Sendmsg) /\ SF_vars(WriteTimer)

Spec     == Init /\ [][Next]_vars
FairSpec == Spec /\ Fairness

-----------------------------------------------------------------------------
(* Properties.                                                             *)

\* The write queue holds exactly the stream from the first unacknowledged unit on, without a
\* gap or an overlap, and the send head is where snd_nxt is, whatever was fragmented for a
\* probe, cut off by an acknowledgement or extended by the FIN.  Exception: a FIN put for want
\* of memory on an skb already sent is beyond snd_nxt.
QueueCoversStream ==
  LET q == tp.q
      n == Len(q)
      late == n > 0 /\ ~HasHead(tp) /\ tp.wseq = Add(tp.nxt, 1)
  IN tp.st # "CLOSE" =>
       /\ \A i \in 1 .. n - 1 : q[i].end = q[i + 1].seq
       /\ n > 0 => q[n].end = tp.wseq /\ ~After(q[1].seq, tp.una) /\ After(q[1].end, tp.una)
       /\ n = 0 => tp.una = tp.wseq
       /\ tp.nxt = IF HasHead(tp) THEN q[tp.head].seq ELSE IF late THEN Add(tp.wseq, -1) ELSE tp.wseq
       /\ ~Before(tp.nxt, tp.una)

\* packets_out counts the skbs sent and not acknowledged; it decides whether a timer runs.
PacketsOutExact == tp.out = tp.head - 1

\* While something is in the write queue a timer is pending, and the retransmission timer if
\* something has been sent: no acknowledgement, failure, closed window or wait for memory
\* leaves the queue without one.  A tcp_nip_sendmsg that is about to push what it queued need
\* not have armed the probe timer yet.
TimerCoversQueue ==
  tp.q # <<>> => IF tp.out > 0 THEN tp.timer = "RETRANS" ELSE tp.timer = "PROBE0" \/ Queuing

\* Whatever the wire and the peer do, a queue that holds something is emptied or the
\* connection is given up, unless the peer goes on answering.
DrainsOrGivesUp ==
  tp.q # <<>> ~> (tp.q = <<>> \/ acks # {})
=============================================================================
