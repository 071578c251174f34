----------------------------- MODULE NipTcpRecv -----------------------------
(***************************************************************************)
(* The receiving side of a NewIP TCP connection (tcp_nip_input.c,          *)
(* tcp_nip_recvmsg, window selection of tcp_nip_output.c): the receive     *)
(* queue, the out-of-order queue with its overlaps, the receive window and *)
(* the acknowledgements.                                                   *)
(*                                                                         *)
(* The peer has bytes 0 .. N-1 and a FIN at N.  It sends any of Segment,   *)
(* in any order and any number of times, inside the windows it was given.  *)
(* A byte is its position, so that what is delivered can be compared with  *)
(* what was sent.  Every handler runs with the socket lock held.           *)
(***************************************************************************)
EXTENDS Integers, Sequences, FiniteSets, SequencesExt

CONSTANTS
  N,              \* bytes of the peer
  Segment,        \* what it may send: pairs <<seq, end_seq>>
  Mss,            \* tcp_nip_current_mss
  RcvBuf,         \* sk_rcvbuf
  Overhead,       \* truesize of an skb less its data
  Ssthresh,       \* nip_ssthresh, the limit of the window (not adapted to the RTT here)
  Wscale,         \* 1 << rcv_wscale
  AckNum,         \* get_ack_num()
  DupAckSndMax    \* get_dup_ack_snd_max()

ASSUME RecvAssumption ==
  /\ N \in Nat /\ Mss \in Nat \ {0} /\ RcvBuf \in Nat /\ Overhead \in Nat
  /\ Ssthresh \in Nat /\ Wscale \in Nat \ {0} /\ AckNum \in Nat /\ DupAckSndMax \in Nat \ {0}
  /\ Segment \subseteq {p \in (0 .. N) \X (1 .. N + 1) : p[1] < p[2]}

VARIABLES
  tp,          \* struct tcp_sock with the queues of its sock
  delivered    \* the bytes recvmsg has copied, in order

vars == <<tp, delivered>>

\* A segment as tcp_nip_fill_cb sees it.
Skb(p) ==
  [seq |-> p[1], end |-> p[2], fin |-> p[2] = N + 1,
   data |-> [k \in 1 .. (IF p[2] > N THEN N ELSE p[2]) - p[1] |-> p[1] + k - 1]]

TypeOK ==
  LET queued(q) == \A k \in DOMAIN q :
        /\ q[k].seq \in 0 .. N /\ q[k].end \in 0 .. N + 1 /\ q[k].fin \in BOOLEAN
        /\ \A j \in DOMAIN q[k].data : q[k].data[j] \in 0 .. N - 1
  IN /\ tp.rcv_nxt \in 0 .. N + 1 /\ tp.copied_seq \in Nat
     /\ tp.rcv_wup \in 0 .. tp.rcv_nxt /\ tp.rcv_wnd \in Nat
     /\ queued(tp.rq) /\ queued(tp.ofo) /\ tp.last \in Nat
     /\ tp.sched \in BOOLEAN /\ tp.timer \in BOOLEAN
     /\ tp.dup_ack_cnt \in 0 .. 2 * DupAckSndMax - 1 /\ tp.last_rcv_nxt \in 0 .. N + 1
     /\ tp.state \in {"ESTABLISHED", "CLOSE_WAIT", "CLOSE"}
     /\ delivered \in Seq(0 .. N - 1)

-----------------------------------------------------------------------------
(* The window and acknowledgements.                                        *)

truesize(q) ==
  LET sum[k \in 0 .. Len(q)] == IF k = 0 THEN 0 ELSE sum[k - 1] + Len(q[k].data) + Overhead
  IN sum[Len(q)]
rmem(t)     == truesize(t.rq) + truesize(t.ofo)

\* With the default tcp_adv_win_scale half of the buffer is for overhead.
tcp_win_from_space(space) == space - space \div 2

FullSpace    == tcp_win_from_space(RcvBuf)
FreeSpace(t) == tcp_win_from_space(RcvBuf - rmem(t))

Align(w) == ((w + Wscale - 1) \div Wscale) * Wscale

tcp_receive_window(t) ==
  IF t.rcv_wup + t.rcv_wnd > t.rcv_nxt THEN t.rcv_wup + t.rcv_wnd - t.rcv_nxt ELSE 0

\* __nip_tcp_select_window
select_window(t) ==
  LET mss  == IF Mss > FullSpace THEN FullSpace ELSE Mss
      left == FreeSpace(t)
      half == left < FullSpace \div 2
      free == IF half THEN (left \div Wscale) * Wscale ELSE left
  IN CASE mss = 0 -> 0
       [] half /\ (free < FullSpace \div 16 \/ free < mss) -> 0
       [] OTHER -> Align(IF free > Ssthresh THEN Ssthresh ELSE free)

\* Mutant: the window may shrink.
send_ack_shrink(t) ==
  [t EXCEPT !.rcv_wnd = select_window(t), !.rcv_wup = t.rcv_nxt, !.sched = FALSE, !.timer = FALSE]

\* tcp_nip_send_ack with nip_tcp_select_window: "Never shrink the offered window".
\* Sending clears the delayed acknowledgement.
tcp_nip_send_ack(t) ==
  LET cur == tcp_receive_window(t)
      new == select_window(t)
  IN [t EXCEPT !.rcv_wnd = IF new < cur THEN Align(cur) ELSE new,
               !.rcv_wup = t.rcv_nxt,
               !.sched = FALSE, !.timer = FALSE]

schedule_ack(t) == [t EXCEPT !.sched = TRUE]

\* tcp_nip_send_delayed_ack: a timer that is already set may be due.
tcp_nip_send_delayed_ack(t) ==
  {[t EXCEPT !.sched = TRUE, !.timer = TRUE]}
    \cup (IF t.timer THEN {tcp_nip_send_ack(t)} ELSE {})

\* dup_ack_cnt, of which only its remainder is used from DupAckSndMax on.
NextDup(d) == IF d + 1 = 2 * DupAckSndMax THEN DupAckSndMax ELSE d + 1

\* tcp_nip_ack_snd_check
tcp_nip_ack_snd_check(t) ==
  LET same == t.rcv_nxt = t.last_rcv_nxt
      d    == IF same THEN NextDup(t.dup_ack_cnt) ELSE 0
      u    == [t EXCEPT !.dup_ack_cnt = d, !.last_rcv_nxt = t.rcv_nxt]
  IN CASE ~t.sched -> {t}
       [] t.sched /\ t.ofo # <<>> ->
            {IF d < DupAckSndMax \/ d % DupAckSndMax = 0 THEN tcp_nip_send_ack(u) ELSE u}
       [] t.sched /\ t.ofo = <<>> ->
            IF t.rcv_nxt - t.rcv_wup > AckNum * Mss /\ select_window(t) >= t.rcv_wnd
              THEN {tcp_nip_send_ack(t)}
              ELSE tcp_nip_send_delayed_ack(t)

-----------------------------------------------------------------------------
(* The queues.  c says whether skb_try_coalesce can merge.                 *)


\* tcp_nip_overlap_handle and tcp_nip_left_overlap: the bytes before seq are cut off.
CutLeft(s, seq) == [s EXCEPT !.seq = seq, !.data = SubSeq(@, seq - s.seq + 1, Len(@))]


\* tcp_nip_right_overlap: the length to keep is unsigned, and skb_trim to more than
\* the length of the data keeps all of it.
tcp_nip_right_overlap(s, q) ==
  LET diff == s.end - q.seq
      len  == Len(s.data) - diff
  IN [s EXCEPT !.end = @ - diff, !.data = IF len < 0 THEN @ ELSE SubSeq(@, 1, len)]

\* tcp_nip_try_coalesce when it succeeds.
Merge(to, from) ==
  [to EXCEPT !.end = from.end, !.data = @ \o from.data, !.fin = @ \/ from.fin]

\* Mutant: the FIN, which end_seq includes, is counted again.
fin_twice(t) == [t EXCEPT !.sched = TRUE, !.state = "CLOSE_WAIT", !.rcv_nxt = @ + 1]

\* tcp_nip_fin on a connection that is not closed on this side.
tcp_nip_fin(t) == [t EXCEPT !.sched = TRUE, !.state = "CLOSE_WAIT"]

\* tcp_nip_ofo_queue: the head of the out-of-order queue moves to the receive queue.
\* Returns the socket; the nodes that are left keep their order.
tcp_nip_ofo_queue(t, c) ==
  LET step(a, s) ==
        IF a.stop \/ s.seq > a.t.rcv_nxt
          THEN [a EXCEPT !.stop = TRUE, !.rest = Append(@, s)]
        ELSE IF s.end <= a.t.rcv_nxt THEN a
        ELSE LET rq   == a.t.rq
                 glue == c /\ rq # <<>> /\ s.seq = rq[Len(rq)].end
                 u    == [a.t EXCEPT !.rcv_nxt = s.end,
                                     !.rq = IF glue THEN [rq EXCEPT ![Len(rq)] = Merge(@, s)]
                                            ELSE Append(rq, s)]
             IN [a EXCEPT !.t = IF s.fin THEN tcp_nip_fin(u) ELSE u, !.stop = s.fin]
      end == FoldLeft(step, [t |-> t, rest |-> <<>>, stop |-> FALSE], t.ofo)
      gone == Len(t.ofo) - Len(end.rest)
  IN [end.t EXCEPT !.ofo = end.rest, !.last = IF @ > gone THEN @ - gone ELSE 0]

\* Mutant: ooo_last_skb stays when the new node is the last one.
merge_right_last(t, i, end) ==
  LET stop == {j \in i + 1 .. Len(t.ofo) : end <= t.ofo[j].seq \/ end < t.ofo[j].end}
      j    == CHOOSE k \in stop : \A m \in stop : k <= m
  IN IF stop = {} THEN [t EXCEPT !.ofo = SubSeq(t.ofo, 1, i)]
     ELSE [t EXCEPT !.ofo = SubSeq(t.ofo, 1, i) \o SubSeq(t.ofo, j, Len(t.ofo)),
                    !.last = @ - (j - i - 1)]

\* merge_right of tcp_nip_data_queue_ofo: the node at i, whose segment ended at end,
\* swallows the nodes it covers.
merge_right(t, i, end) ==
  LET o    == t.ofo
      stop == {j \in i + 1 .. Len(o) : end <= o[j].seq \/ end < o[j].end}
      j    == CHOOSE k \in stop : \A m \in stop : k <= m
      node == IF stop # {} /\ end > o[j].seq THEN tcp_nip_right_overlap(o[i], o[j]) ELSE o[i]
  IN IF stop = {}
       THEN [t EXCEPT !.ofo = SubSeq(o, 1, i), !.last = i]
       ELSE [t EXCEPT !.ofo = SubSeq(o, 1, i - 1) \o <<node>> \o SubSeq(o, j, Len(o)),
                      !.last = @ - (j - i - 1)]

\* rb_link_node behind node i.
Insert(t, i, s) ==
  merge_right([t EXCEPT !.ofo = InsertAt(@, i + 1, s), !.last = IF @ > i THEN @ + 1 ELSE @],
              i + 1, s.end)

\* The search meets node i, which overlaps s or ends where s begins.
Overlap(t, i, s, c) ==
  LET o   == t.ofo
      cut == CutLeft(s, o[i].end)
      fit == IF o[i + 1].seq < s.end THEN tcp_nip_right_overlap(cut, o[i + 1]) ELSE cut
  IN CASE s.seq = o[i].end -> [t EXCEPT !.ofo[i] = Merge(@, s)]
       [] s.seq < o[i].end /\ s.end <= o[i].end -> t
       [] s.seq < o[i].end /\ s.end > o[i].end /\ s.seq > o[i].seq ->
            IF c THEN [t EXCEPT !.ofo[i] = Merge(@, fit)] ELSE t
       [] s.seq < o[i].end /\ s.end > o[i].end /\ s.seq = o[i].seq ->
            merge_right([t EXCEPT !.ofo[i] = s], i, s.end)

\* The node the search meets first depends on the shape of the red-black tree, which is
\* left open but for one fact: the root of three nodes is the middle one.
FirstMet(o, meet) == IF Len(o) = 3 /\ 2 \in meet THEN {2} ELSE meet

\* tcp_nip_data_queue_ofo
tcp_nip_data_queue_ofo(t0, s, c) ==
  LET t    == schedule_ack(t0)
      o    == t.ofo
      l    == o[t.last]
      meet == {i \in DOMAIN o : /\ o[i].seq <= s.seq
                                /\ s.seq < o[i].end \/ (s.seq = o[i].end /\ c)}
      pos  == Cardinality({i \in DOMAIN o : o[i].seq <= s.seq})
  IN CASE rmem(t0) > RcvBuf -> {t0}
       [] rmem(t0) <= RcvBuf /\ o = <<>> -> {[t EXCEPT !.ofo = <<s>>, !.last = 1]}
       [] rmem(t0) <= RcvBuf /\ o # <<>> ->
            CASE s.seq >= l.end ->
                   IF s.seq = l.end /\ c THEN {[t EXCEPT !.ofo[t.last] = Merge(@, s)]}
                   ELSE {Insert(t, t.last, s)}
              [] l.seq <= s.seq /\ s.seq < l.end ->
                   IF s.end <= l.end \/ ~c THEN {t}
                   ELSE {[t EXCEPT !.ofo[t.last] = Merge(@, CutLeft(s, l.end))]}
              [] s.seq < l.seq ->
                   IF meet = {} THEN {Insert(t, pos, s)}
                   ELSE {Overlap(t, i, s, c) : i \in FirstMet(o, meet)}

\* tcp_nip_data_queue for a segment with data or FIN.
tcp_nip_data_queue(t, s, c) ==
  LET win == tcp_receive_window(t)
      max == t.rcv_nxt + win
      in  == IF s.seq < t.rcv_nxt THEN CutLeft(s, t.rcv_nxt) ELSE s
      u   == [schedule_ack(t) EXCEPT !.rq = Append(@, in), !.rcv_nxt = s.end]
      v   == IF s.fin THEN tcp_nip_fin(u) ELSE u
  IN IF (s.seq = t.rcv_nxt /\ win = 0) \/ s.seq >= max \/ s.end <= t.rcv_nxt
          \/ win = 0 \/ s.end > max
       THEN {schedule_ack(t)}
     ELSE IF s.seq <= t.rcv_nxt
       THEN {IF v.ofo = <<>> THEN v ELSE tcp_nip_ofo_queue(v, c)}
     ELSE tcp_nip_data_queue_ofo(t, s, c)

\* tcp_nip_sequence
tcp_nip_sequence(t, seq, end) ==
  end >= t.rcv_wup /\ seq <= t.rcv_nxt + tcp_receive_window(t)

\* tcp_nip_rcv_state_process in CLOSE_WAIT: data after the FIN resets the connection.
tcp_nip_rcv_state_process(t, s, c) ==
  IF s.seq >= t.rcv_nxt THEN {t}
  ELSE IF (IF s.fin THEN s.end - 1 ELSE s.end) > t.rcv_nxt THEN {[t EXCEPT !.state = "CLOSE"]}
  ELSE tcp_nip_data_queue(t, s, c)

\* tcp_nip_validate_incoming, then the handler of the state, then the acknowledgement.
Received(t, s, c) ==
  LET queued == IF t.state = "ESTABLISHED" THEN tcp_nip_data_queue(t, s, c)
                ELSE tcp_nip_rcv_state_process(t, s, c)
  IN IF ~tcp_nip_sequence(t, s.seq, s.end)
       THEN {tcp_nip_send_ack(t)}
       ELSE UNION {IF u.state = "CLOSE" THEN {u} ELSE tcp_nip_ack_snd_check(u) : u \in queued}

-----------------------------------------------------------------------------
Init ==
  /\ tp = [rcv_nxt |-> 0, copied_seq |-> 0, rcv_wup |-> 0,
           rcv_wnd |-> Align(IF FullSpace > Ssthresh THEN Ssthresh ELSE FullSpace),
           rq |-> <<>>, ofo |-> <<>>, last |-> 0, sched |-> FALSE, timer |-> FALSE,
           dup_ack_cnt |-> 0, last_rcv_nxt |-> 0, state |-> "ESTABLISHED"]
  /\ delivered = <<>>

\* A segment inside the window that the peer was last offered arrives.
tcp_nip_do_rcv(p) ==
  /\ tp.state # "CLOSE"
  /\ p[2] <= tp.rcv_wup + tp.rcv_wnd
  /\ \E c \in BOOLEAN : tp' \in Received(tp, Skb(p), c)
  /\ UNCHANGED delivered

\* A probe of the peer: sequence number snd_una - 1 and no data.
Probe ==
  /\ tp.state # "CLOSE"
  /\ tp' = tcp_nip_send_ack(tp)
  /\ UNCHANGED delivered

\* tcp_nip_delack_timer_handler
tcp_nip_delack_timer_handler ==
  /\ tp.state # "CLOSE" /\ tp.timer
  /\ tp' = IF tp.sched THEN tcp_nip_send_ack(tp) ELSE [tp EXCEPT !.timer = FALSE]
  /\ UNCHANGED delivered

\* Mutant: no window update when the application has made room.
cleanup_rbuf_quiet(t, copied) ==
  IF t.sched /\ t.rcv_nxt - t.rcv_wup > AckNum * 20 * Mss THEN tcp_nip_send_ack(t) ELSE t

\* tcp_nip_cleanup_rbuf
tcp_nip_cleanup_rbuf(t, copied) ==
  LET now == tcp_receive_window(t)
      new == select_window(t)
      ack == t.sched /\ t.rcv_nxt - t.rcv_wup > AckNum * 20 * Mss
      upd == copied > 0 /\ t.state = "ESTABLISHED" /\ 2 * now <= FullSpace
               /\ new # 0 /\ new >= 2 * now
  IN IF (ack \/ upd) /\ t.state # "CLOSE" THEN tcp_nip_send_ack(t) ELSE t

\* The walk of tcp_nip_recvmsg over the receive queue with room for n bytes.  An skb is
\* removed when it is read to its end; the FIN ends the walk.  One that begins behind the place
\* reached, or ends before it, is reported by a WARN and stays.
Walk(t, n) ==
  LET step(a, s) ==
        LET off  == a.seq - s.seq
            used == IF Len(s.data) - off < a.left THEN Len(s.data) - off ELSE a.left
        IN CASE a.stop \/ a.left = 0 -> [a EXCEPT !.keep = Append(@, s)]
             [] ~a.stop /\ a.left > 0 /\ off < 0 ->
                  [a EXCEPT !.keep = Append(@, s), !.stop = TRUE]
             [] ~a.stop /\ a.left > 0 /\ off \in 0 .. Len(s.data) - 1 ->
                  [a EXCEPT !.out = @ \o SubSeq(s.data, off + 1, off + used),
                            !.left = @ - used,
                            !.keep = IF off + used < Len(s.data) THEN Append(@, s) ELSE @,
                            !.stop = off + used = Len(s.data) /\ s.fin,
                            !.seq = IF off + used = Len(s.data) /\ s.fin THEN @ + used + 1
                                    ELSE @ + used]
             [] ~a.stop /\ a.left > 0 /\ off >= Len(s.data) ->
                  IF s.fin THEN [a EXCEPT !.seq = @ + 1, !.stop = TRUE]
                  ELSE [a EXCEPT !.keep = Append(@, s)]
  IN FoldLeft(step, [seq |-> t.copied_seq, left |-> n, out |-> <<>>, keep |-> <<>>,
                     stop |-> FALSE], t.rq)

\* tcp_nip_recvmsg of n bytes when there is something to read.
tcp_nip_recvmsg(n) ==
  /\ tp.rq # <<>>
  /\ \E a \in {Walk(tp, n)} :
       /\ tp' = tcp_nip_cleanup_rbuf([tp EXCEPT !.copied_seq = a.seq, !.rq = a.keep],
                                     Len(a.out))
       /\ delivered' = delivered \o a.out

Next ==
  \/ \E p \in Segment : tcp_nip_do_rcv(p)
  \/ Probe
  \/ tcp_nip_delack_timer_handler
  \/ \E n \in 1 .. N : tcp_nip_recvmsg(n)

\* The peer goes on retransmitting what is not acknowledged, the network does not lose
\* all of it, and the application reads.  Neither probes nor the timer are needed.
Fairness ==
  /\ WF_vars(\E p \in Segment : p[1] <= tp.rcv_wup /\ tp.rcv_wup < p[2] /\ tcp_nip_do_rcv(p))
  /\ WF_vars(\E n \in 1 .. N : tcp_nip_recvmsg(n))

Spec == Init /\ [][Next]_vars /\ Fairness

-----------------------------------------------------------------------------
(* Properties.                                                             *)



\* ooo_last_skb is the last node of the tree (a NULL dereference otherwise), the tree is
\* ordered, and nothing in it is due.
OfoOrdered ==
  /\ tp.ofo # <<>> => tp.last = Len(tp.ofo)
  /\ \A k \in DOMAIN tp.ofo :
       /\ tp.state = "ESTABLISHED" => tp.ofo[k].seq > tp.rcv_nxt
       /\ k > 1 => tp.ofo[k - 1].seq <= tp.ofo[k].seq

\* "Never shrink the offered window": no step moves the right edge that the peer has
\* been offered to the left.
WindowNeverShrinks == [][tp'.rcv_wup + tp'.rcv_wnd >= tp.rcv_wup + tp.rcv_wnd]_vars

\* Everything the peer has is delivered in the end, and its FIN is acknowledged: the
\* window, once closed, is opened again when the application has read.
AllDelivered == <>(Len(delivered) = N /\ tp.rcv_wup = N + 1)
=============================================================================
