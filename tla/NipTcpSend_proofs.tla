-------------------------- MODULE NipTcpSend_proofs --------------------------
(***************************************************************************)
(* Theorems about NipTcpSend, for every modulus, segment size, initial     *)
(* sequence number, window and amount of data.                             *)
(***************************************************************************)
EXTENDS NipTcpSend, SequenceTheorems, FiniteSetTheorems, WellFoundedInduction, TLAPS

-----------------------------------------------------------------------------
(* Sequence numbers.                                                       *)

SeqNo == 0 .. M - 1

\* Places in the stream: its units, its FIN, and the end.
Place == 0 .. Bytes + 1

\* The sequence number of a place when the initial one is i.
At(i, r) == Add(i, r)

\* A remainder is a sequence number.
LEMMA ModRange ==
  ASSUME NEW m \in Nat, m > 0, NEW a \in Int
  PROVE  a % m \in 0 .. m - 1
  OBVIOUS

\* A remainder of a number at most one turn away.
LEMMA ModNear ==
  ASSUME NEW m \in Nat
  PROVE  /\ \A a \in 0 .. m - 1 : a % m = a
         /\ \A a \in m .. 2 * m - 1 : a % m = a - m
         /\ \A a \in - m .. -1 : a % m = a + m
  OBVIOUS

\* The same, for a number one turn away from where it is wanted.
LEMMA ModIs ==
  ASSUME NEW m \in Nat, NEW x \in 0 .. m - 1, NEW a \in Int, a = x \/ a = x + m \/ a = x - m
  PROVE  a % m = x
<1>1. CASE a = x
  BY <1>1
<1>2. CASE a = x + m
  <2>1. a \in m .. 2 * m - 1
    BY <1>2
  <2>2. a % m = a - m
    BY <2>1, ModNear
  <2> QED
    BY <1>2, <2>2
<1>3. CASE a = x - m
  <2>1. a \in - m .. -1
    BY <1>3
  <2>2. a % m = a + m
    BY <2>1, ModNear
  <2> QED
    BY <1>3, <2>2
<1> QED
  BY <1>1, <1>2, <1>3

\* The constants as the provers need them: the stream is shorter than half the space.
LEMMA Constants ==
  /\ M \in Nat /\ M > 0 /\ Bytes \in Nat /\ MSS \in Nat /\ MSS > 0 /\ M \div 2 \in Nat
  /\ Bytes + 1 <= (M \div 2) - 1 /\ Bytes + 3 < M /\ 2 * (M \div 2) <= M
  /\ Low \in Nat \ {0} /\ High \in Nat \ {0} /\ DupNum \in Nat \ {0}
  BY SendAssumption DEF SendAssumption

\* Sums and differences are sequence numbers.
LEMMA AddRange ==
  ASSUME NEW a \in Int, NEW n \in Int
  PROVE  Add(a, n) \in SeqNo /\ Diff(a, n) \in SeqNo
  BY Constants, ModRange DEF Add, Diff, SeqNo

\* Going on from a place.
LEMMA AtAdd ==
  ASSUME NEW i \in SeqNo, NEW r \in Place, NEW n \in Int, r + n \in -1 .. Bytes + 2
  PROVE  Add(At(i, r), n) = At(i, r + n)
<1>1. i \in Int /\ r \in Int /\ r \in 0 .. M - 1 /\ 0 <= i /\ i < M
  BY Constants DEF SeqNo, Place
<1>2. CASE i + r < M
  <2>1. At(i, r) = i + r
    BY <1>1, <1>2, Constants, ModNear DEF At, Add
  <2> QED
    BY <1>1, <2>1 DEF At, Add
<1>3. CASE i + r >= M
  <2>1. At(i, r) = i + r - M
    <3>1. i + r - M \in 0 .. M - 1 /\ i + r \in Int /\ i + r = (i + r - M) + M
      BY <1>1, <1>3, Constants
    <3> QED
      BY <3>1, Constants, ModIs DEF At, Add
  <2>2. Add(At(i, r), n) = (i + r + n - M) % M
    BY <1>1, <2>1, Constants DEF Add
  <2>3. PICK c \in Int : c = i + r + n
    BY <1>1
  <2>4. c >= 0 /\ c < 2 * M
    BY <1>1, <1>3, <2>3, Constants
  <2>5. (c - M) % M = c % M
    <3>1. CASE c < M
      <4>1. c \in 0 .. M - 1 /\ c - M \in Int
        BY <2>4, <3>1, Constants
      <4>2. c % M = c /\ (c - M) % M = c
        BY <4>1, Constants, ModIs
      <4> QED
        BY <4>2
    <3>2. CASE c >= M
      <4>1. c - M \in 0 .. M - 1 /\ c = (c - M) + M
        BY <2>4, <3>2, Constants
      <4>2. c % M = c - M /\ (c - M) % M = c - M
        BY <4>1, Constants, ModIs
      <4> QED
        BY <4>2
    <3> QED
      BY <3>1, <3>2, Constants
  <2>6. At(i, r + n) = c % M /\ Add(At(i, r), n) = (c - M) % M
    BY <1>1, <2>2, <2>3, Constants DEF At, Add
  <2> QED
    BY <2>5, <2>6
<1> QED
  BY <1>1, <1>2, <1>3, Constants

\* Sequence numbers compare as the places do: the stream is shorter than half the space.
LEMMA AtDiff ==
  ASSUME NEW i \in SeqNo, NEW r \in Place, NEW s \in Place
  PROVE  /\ At(i, r) \in SeqNo
         /\ r >= s => Diff(At(i, r), At(i, s)) = r - s
         /\ After(At(i, r), At(i, s)) <=> r > s
         /\ At(i, r) = At(i, s) <=> r = s
<1>1. /\ i \in Int /\ 0 <= i /\ i < M
      /\ r \in Int /\ 0 <= r /\ r <= Bytes + 1 /\ s \in Int /\ 0 <= s /\ s <= Bytes + 1
  BY Constants DEF SeqNo, Place
<1>2. At(i, r) \in SeqNo /\ At(i, s) \in SeqNo
  BY <1>1, AddRange DEF At
<1>3. PICK a \in SeqNo : a = At(i, r)
  BY <1>2
<1>4. PICK b \in SeqNo : b = At(i, s)
  BY <1>2
<1>5. (a = i + r \/ a = i + r - M) /\ (b = i + s \/ b = i + s - M)
  <2>1. ASSUME NEW x \in {r, s}
        PROVE  (i + x) % M = i + x \/ (i + x) % M = i + x - M
    <3>0. x \in Int /\ 0 <= x /\ x <= Bytes + 1
      BY <1>1
    <3>1. i + x \in Int /\ M \in Nat
      BY <1>1, <3>0, Constants
    <3>2. CASE i + x < M
      <4>1. i + x \in 0 .. M - 1
        BY <1>1, <3>0, <3>2, Constants
      <4> QED
        BY <4>1, <3>1, ModIs
    <3>3. CASE i + x >= M
      <4>1. i + x - M \in 0 .. M - 1 /\ i + x = (i + x - M) + M
        BY <1>1, <3>0, <3>1, <3>3, Constants
      <4> QED
        BY <4>1, <3>1, ModIs
    <3> QED
      BY <3>1, <3>2, <3>3, Constants
  <2> QED
    BY <1>3, <1>4, <2>1 DEF At, Add
<1>6. CASE r >= s
  <2>1. a - b = r - s \/ a - b = r - s - M
    BY <1>1, <1>5, <1>6, Constants DEF SeqNo
  <2>2. (a - b) % M = r - s
    <3>1. r - s \in 0 .. M - 1 /\ a - b \in Int /\ M \in Nat
      BY <1>1, <1>6, Constants DEF SeqNo
    <3> QED
      BY <2>1, <3>1, ModIs
  <2>3. Diff(a, b) = r - s
    BY <2>2 DEF Diff
  <2>4. After(a, b) <=> r > s
    BY <1>1, <1>6, <2>3, Constants DEF After
  <2>5. a = b <=> r = s
    BY <1>1, <1>5, Constants DEF SeqNo
  <2> QED
    BY <1>2, <1>3, <1>4, <2>3, <2>4, <2>5
<1>7. CASE r < s
  <2>1. a - b = r - s \/ a - b = r - s + M
    BY <1>1, <1>5, <1>7, Constants DEF SeqNo
  <2>2. (a - b) % M = r - s + M
    <3>1. r - s + M \in 0 .. M - 1 /\ a - b \in Int /\ M \in Nat
      BY <1>1, <1>7, Constants DEF SeqNo
    <3>2. a - b = r - s + M \/ a - b = (r - s + M) - M
      BY <1>1, <2>1, Constants
    <3> QED
      BY <3>1, <3>2, ModIs
  <2>3. Diff(a, b) = r - s + M
    BY <2>2 DEF Diff
  <2>4. ~After(a, b)
    BY <1>1, <1>7, <2>3, Constants DEF After
  <2>5. a # b
    BY <1>1, <1>5, <1>7, Constants DEF SeqNo
  <2> QED
    BY <1>1, <1>2, <1>3, <1>4, <1>7, <2>4, <2>5
<1> QED
  BY <1>1, <1>6, <1>7

\* The least member of a set of numbers is one.
LEMMA LeastIsLeast ==
  ASSUME NEW S \in SUBSET Nat, S # {}
  PROVE  Least(S) \in S /\ \A y \in S : Least(S) <= y
<1>1. \E x \in S : \A y \in S : ~(<<y, x>> \in OpToRel(<, Nat))
  BY NatLessThanWellFounded, WFMin
<1>2. \A x, y \in Nat : ~(<<y, x>> \in OpToRel(<, Nat)) => x <= y
  BY DEF OpToRel
<1>3. \E x \in S : \A y \in S : x <= y
  BY <1>1, <1>2
<1> QED
  BY <1>3 DEF Least


-----------------------------------------------------------------------------
(* The inductive invariant.                                                *)

TpFields ==
  {"q", "head", "una", "nxt", "wseq", "wnd", "out", "timer", "rtx", "probes", "sacked",
   "selEnd", "rseq", "ssthresh", "st"}

IsTp(t) == t = [x \in TpFields |-> t[x]]

SkbT == [seq : SeqNo, end : SeqNo, pc : {0, 1}]

\* The queue and its counts: what is before the send head has been looked at and is counted.
Shape(t) ==
  /\ IsTp(t)
  /\ t.q \in Seq(SkbT) /\ t.head \in 1 .. Len(t.q) + 1
  /\ t.una \in SeqNo /\ t.wnd \in SeqNo /\ t.ssthresh \in Nat \ {0}
  /\ t.out = t.head - 1
  /\ \A k \in 1 .. Len(t.q) : k < t.head => t.q[k].pc = 1

\* The timer, in the middle of a handler: one that is about to look at the send head has not
\* armed the probe timer yet.
Timed(t) ==
  /\ t.out > 0 => t.timer = "RETRANS"
  /\ t.out = 0 => t.timer \in {"none", "PROBE0"}
  /\ t.q = <<>> => t.timer = "none"

\* The places of the queue in the stream: skb k lies between p[k - 1] and p[k].  Only a FIN
\* put on an skb already sent is beyond snd_nxt.
Placed(t, i, U, X, w, p) ==
  /\ p \in [0 .. Len(t.q) -> Place]
  /\ \A k \in 1 .. Len(t.q) : t.q[k].seq = At(i, p[k - 1]) /\ t.q[k].end = At(i, p[k])
  /\ \A j, k \in 0 .. Len(t.q) : j < k => p[j] < p[k]
  /\ t.una = At(i, U) /\ t.nxt = At(i, X) /\ t.wseq = At(i, w)
  /\ p[Len(t.q)] = w /\ p[0] <= U /\ U <= X
  /\ Len(t.q) > 0 => U < p[1]
  /\ \/ X = p[t.head - 1]
     \/ t.st # "ESTABLISHED" /\ t.head = Len(t.q) + 1 /\ Len(t.q) > 0 /\ X = w - 1

InStream(t, i, w) ==
  \E U, X \in Place : \E p \in [0 .. Len(t.q) -> Place] : Placed(t, i, U, X, w, p)

Mid(t, i, w) == Shape(t) /\ Timed(t) /\ InStream(t, i, w)

\* Between handlers: the first packet of the queue has been looked at, and a timer runs.
Full(t, i, w) ==
  /\ Mid(t, i, w)
  /\ t.q # <<>> => t.q[1].pc = 1 /\ t.timer # "none"

\* A segment on the wire is a part of the stream, or the empty one of a probe.
SegOk(i, m) ==
  \/ m.seq = m.end /\ m.seq \in SeqNo
  \/ \E a, b \in Place : a < b /\ m.seq = At(i, a) /\ m.end = At(i, b)

\* What the peer has, and what it acknowledges, is within the stream.
PeerOk(i) ==
  /\ peer = [nxt |-> peer.nxt, have |-> peer.have, edge |-> peer.edge]
  /\ \E r \in Place : peer.nxt = At(i, r)
  /\ peer.edge \in SeqNo
  /\ \A x \in peer.have : \E r \in 0 .. Bytes : x = At(i, r)
  /\ \A a \in acks : (\E r \in Place : a.ack = At(i, r)) /\ a.wnd \in SeqNo

\* What is left of a connection that has been given up.
Gone(t) ==
  IsTp(t) /\ t.st = "CLOSE" /\ t.q = <<>> /\ t.out = 0 /\ t.head = 1 /\ t.timer = "none"

\* The socket, with l units still to be sent: the stream is never longer than Bytes and a FIN.
\* What a tcp_nip_sendmsg has queued and not pushed may be without a timer.
SocketOk(t, i, l, queuing) ==
  IF t.st = "CLOSE" THEN Gone(t)
  ELSE \E w \in Place : /\ Mid(t, i, w) /\ (queuing \/ Full(t, i, w))
                        /\ w + l <= Bytes + (IF t.st = "ESTABLISHED" THEN 0 ELSE 1)

\* The call in progress: no more than what is left, on a socket that may send if it is owned.
MsgOk ==
  /\ msg = [todo |-> msg.todo, copied |-> msg.copied, wait |-> msg.wait]
  /\ msg.todo \in 0 .. left /\ msg.copied \in BOOLEAN /\ msg.wait \in BOOLEAN
  /\ Owned => tp.st = "ESTABLISHED"

SendInvAt(i) ==
  /\ left \in 0 .. Bytes
  /\ \A m \in segs : SegOk(i, m)
  /\ PeerOk(i)
  /\ MsgOk
  /\ SocketOk(tp, i, left, Queuing)

\* i, the initial sequence number, is the same throughout.
SendInv == \E i \in SeqNo : SendInvAt(i)

-----------------------------------------------------------------------------
(* Handlers.                                                               *)

\* u differs from t in a timer or a counter.
Same(t, u) ==
  /\ IsTp(u) /\ u.wnd \in SeqNo /\ u.ssthresh \in Nat \ {0}
  /\ u.q = t.q /\ u.head = t.head /\ u.una = t.una /\ u.nxt = t.nxt /\ u.wseq = t.wseq
  /\ u.out = t.out /\ u.st = t.st

\* Fields outside the queue and its timers do not matter to the invariant.
LEMMA SameKeeps ==
  ASSUME NEW t, NEW u, NEW i, NEW w, Same(t, u)
  PROVE  /\ Shape(t) => Shape(u)
         /\ InStream(t, i, w) => InStream(u, i, w)
<1>1. Shape(t) => Shape(u)
  BY DEF Same, Shape
<1>2. ASSUME NEW U \in Place, NEW X \in Place, NEW p \in [0 .. Len(t.q) -> Place],
             Placed(t, i, U, X, w, p)
      PROVE  Placed(u, i, U, X, w, p) /\ p \in [0 .. Len(u.q) -> Place]
  BY <1>2 DEF Placed, Same
<1> QED
  BY <1>1, <1>2 DEF InStream

\* The same, while a handler is running.
LEMMA SameMid ==
  ASSUME NEW t, NEW u, NEW i, NEW w, Same(t, u), Mid(t, i, w), u.timer = t.timer
  PROVE  Mid(u, i, w)
<1>1. Timed(u)
  BY DEF Same, Mid, Timed
<1> QED
  BY <1>1, SameKeeps DEF Mid

\* What SMT has to know of a socket and its queue.
LEMMA ShapeFacts ==
  ASSUME NEW t, Shape(t)
  PROVE  /\ Len(t.q) \in Nat /\ t.head \in Nat /\ t.head >= 1 /\ t.head <= Len(t.q) + 1
         /\ t.out \in Nat /\ DOMAIN t.q = 1 .. Len(t.q)
         /\ \A k \in 1 .. Len(t.q) : t.q[k] \in SkbT
         /\ t.q = <<>> <=> Len(t.q) = 0
<1>1. t.q \in Seq(SkbT) /\ t.head \in 1 .. Len(t.q) + 1 /\ t.out = t.head - 1
  BY DEF Shape
<1>2. Len(t.q) \in Nat /\ DOMAIN t.q = 1 .. Len(t.q)
  BY <1>1
<1> QED
  BY <1>1, <1>2

\* How many members an interval has.
LEMMA IntervalCard ==
  ASSUME NEW a \in Nat, NEW n \in Nat
  PROVE  IsFiniteSet(a .. a + n - 1) /\ Cardinality(a .. a + n - 1) = n
<1>1. a + n - 1 \in Int /\ a \in Int
  OBVIOUS
<1>2. Cardinality(a .. a + n - 1) = IF a > a + n - 1 THEN 0 ELSE (a + n - 1) - a + 1
  BY <1>1, FS_Interval
<1>3. IsFiniteSet(a .. a + n - 1)
  BY <1>1, FS_Interval
<1> QED
  BY <1>2, <1>3

\* tcp_nip_event_new_data_sent for n skbs that have been looked at.
LEMMA NewDataSent ==
  ASSUME NEW t, NEW i \in SeqNo, NEW w \in Place, Mid(t, i, w), NEW n \in Nat,
         n >= 1, t.head + n - 1 <= Len(t.q),
         \A k \in t.head .. t.head + n - 1 : t.q[k].pc = 1
  PROVE  LET u == event_new_data_sent(t, n)
         IN  Mid(u, i, w) /\ u.st = t.st /\ u.q = t.q /\ u.out > 0 /\ u.timer = "RETRANS"
<1>1. PICK U \in Place, X \in Place, p \in [0 .. Len(t.q) -> Place] : Placed(t, i, U, X, w, p)
  BY DEF Mid, InStream
<1>2. /\ Len(t.q) \in Nat /\ t.head \in Nat /\ t.head >= 1 /\ t.out = t.head - 1
      /\ IsTp(t) /\ t.out \in Nat
  BY ShapeFacts DEF Mid, Shape
<1>3. {k \in t.head .. t.head + n - 1 : t.q[k].pc = 1} = t.head .. t.head + n - 1
  OBVIOUS
<1>4. Cardinality({k \in t.head .. t.head + n - 1 : t.q[k].pc = 1}) = n
  BY <1>2, <1>3, IntervalCard
<1>5. PICK u : u = [t EXCEPT !.head = t.head + n, !.nxt = t.q[t.head + n - 1].end,
                             !.out = t.out + n]
  OBVIOUS
<1>6. PICK v : v = event_new_data_sent(t, n)
  OBVIOUS
<1>7. v = IF t.out = 0 THEN [u EXCEPT !.timer = IF u.out = 0 THEN "none" ELSE "RETRANS"] ELSE u
  BY <1>4, <1>5, <1>6 DEF event_new_data_sent, tcp_nip_rearm_rto
<1>8. /\ IsTp(u) /\ u.q = t.q /\ u.head = t.head + n /\ u.out = t.out + n /\ u.una = t.una
      /\ u.nxt = t.q[t.head + n - 1].end /\ u.wseq = t.wseq /\ u.wnd = t.wnd /\ u.st = t.st
      /\ u.ssthresh = t.ssthresh /\ u.timer = t.timer
  BY <1>2, <1>5 DEF IsTp, TpFields
<1>9. u.out > 0
  BY <1>2, <1>8
<1>10. /\ IsTp(v) /\ v.q = t.q /\ v.head = t.head + n /\ v.out = t.out + n /\ v.una = t.una
       /\ v.nxt = t.q[t.head + n - 1].end /\ v.wseq = t.wseq /\ v.wnd = t.wnd /\ v.st = t.st
       /\ v.ssthresh = t.ssthresh
  BY <1>7, <1>8 DEF IsTp, TpFields
<1>11. v.timer = "RETRANS"
  <2>1. CASE t.out = 0
    BY <1>7, <1>8, <1>9, <2>1 DEF IsTp, TpFields
  <2>2. CASE t.out # 0
    BY <1>2, <1>7, <1>8, <2>2 DEF Mid, Timed
  <2> QED
    BY <2>1, <2>2
<1>12. v.out > 0 /\ v.out # 0
  BY <1>2, <1>10
<1>13. Shape(v)
  <2>1. v.head \in 1 .. Len(v.q) + 1 /\ v.out = v.head - 1
    BY <1>2, <1>10
  <2>2. ASSUME NEW k \in 1 .. Len(v.q), k < v.head
        PROVE  v.q[k].pc = 1
    <3>1. k < t.head \/ k \in t.head .. t.head + n - 1
      BY <1>2, <1>10, <2>2
    <3> QED
      BY <1>10, <3>1 DEF Mid, Shape
  <2> QED
    BY <1>10, <2>1, <2>2 DEF Mid, Shape
<1>14. Timed(v)
  <2>1. v.q # <<>>
    BY <1>2, <1>10
  <2> QED
    BY <1>11, <1>12, <2>1 DEF Timed
<1>15. PICK Y : Y = p[t.head + n - 1]
  OBVIOUS
<1>16. Y \in Place /\ X <= Y
  <2>1. t.head + n - 1 \in 0 .. Len(t.q) /\ t.head - 1 \in 0 .. Len(t.q)
    BY <1>2
  <2>2. X = p[t.head - 1]
    BY <1>1, <1>2 DEF Placed
  <2>3. p[t.head - 1] < p[t.head + n - 1]
    BY <1>1, <1>2, <2>1 DEF Placed
  <2> QED
    BY <1>15, <2>1, <2>2, <2>3, Constants DEF Place
<1>17. Placed(v, i, U, Y, w, p)
  <2>1. v.nxt = At(i, Y) /\ Y = p[v.head - 1]
    <3>1. PICK k \in 1 .. Len(t.q) : k = t.head + n - 1
      BY <1>2
    <3>2. t.q[k].end = At(i, p[k])
      BY <1>1 DEF Placed
    <3>3. v.head - 1 = k
      BY <1>2, <1>10, <3>1
    <3> QED
      BY <1>10, <1>15, <3>1, <3>2, <3>3
  <2>2. U <= Y
    BY <1>1, <1>16, Constants DEF Placed, Place
  <2> QED
    BY <1>1, <1>10, <2>1, <2>2 DEF Placed
<1>18. InStream(v, i, w)
  BY <1>10, <1>16, <1>17 DEF InStream
<1> QED
  BY <1>6, <1>10, <1>11, <1>12, <1>13, <1>14, <1>18 DEF Mid


\* The segment of an skb of the queue.
LEMMA WireOk ==
  ASSUME NEW t, NEW i \in SeqNo, NEW w, InStream(t, i, w), Shape(t), NEW k \in 1 .. Len(t.q)
  PROVE  SegOk(i, Wire(t.q[k]))
<1>1. PICK U \in Place, X \in Place, p \in [0 .. Len(t.q) -> Place] : Placed(t, i, U, X, w, p)
  BY DEF InStream
<1>2. Len(t.q) \in Nat
  BY ShapeFacts
<1>3. k - 1 \in 0 .. Len(t.q) /\ k \in 0 .. Len(t.q) /\ k - 1 < k
  BY <1>2
<1>4. p[k - 1] \in Place /\ p[k] \in Place /\ p[k - 1] < p[k]
  BY <1>1, <1>3 DEF Placed
<1>5. Wire(t.q[k]).seq = At(i, p[k - 1]) /\ Wire(t.q[k]).end = At(i, p[k])
  BY <1>1 DEF Placed, Wire
<1> QED
  BY <1>4, <1>5 DEF SegOk

\* tcp_nip_write_xmit: what it has looked at is counted when it is sent.
LEMMA WriteXmit ==
  ASSUME NEW t, NEW i \in SeqNo, NEW w \in Place, Mid(t, i, w), NEW s \in Nat
  PROVE  LET r == tcp_nip_write_xmit(t, s)
         IN  /\ Mid(r.t, i, w) /\ r.t.st = t.st
             /\ r.t.q # <<>> => r.t.q[1].pc = 1
             /\ \A m \in r.out : SegOk(i, m)
<1>1. PICK U \in Place, X \in Place, p \in [0 .. Len(t.q) -> Place] : Placed(t, i, U, X, w, p)
  BY DEF Mid, InStream
<1>2. /\ Len(t.q) \in Nat /\ t.head \in Nat /\ t.head >= 1 /\ t.out = t.head - 1
      /\ IsTp(t) /\ t.out \in Nat /\ t.head <= Len(t.q) + 1 /\ t.ssthresh \in Nat
      /\ t.ssthresh >= 1 /\ DOMAIN t.q = 1 .. Len(t.q) /\ t.q \in Seq(SkbT)
      /\ \A k \in 1 .. Len(t.q) : t.q[k] \in SkbT
  BY ShapeFacts DEF Mid, Shape
<1>3. PICK fits : fits = {k \in t.head .. Len(t.q) :
                            \A j \in t.head .. k : ~After(t.q[j].end, wnd_end(t))}
  OBVIOUS
<1>4. Cardinality(fits) \in Nat /\ Cardinality(fits) <= Len(t.q) - t.head + 1
  <2>1. PICK len \in Nat : len = Len(t.q) - t.head + 1
    BY <1>2
  <2>2. t.head .. Len(t.q) = t.head .. t.head + len - 1
    BY <1>2, <2>1
  <2>3. IsFiniteSet(t.head .. Len(t.q)) /\ Cardinality(t.head .. Len(t.q)) = len
    <3>1. t.head \in Nat
      BY <1>2
    <3>2. IsFiniteSet(t.head .. t.head + len - 1) /\ Cardinality(t.head .. t.head + len - 1) = len
      BY <3>1, IntervalCard
    <3> QED
      BY <2>2, <3>2
  <2>4. fits \subseteq t.head .. Len(t.q)
    BY <1>3
  <2>5. IsFiniteSet(fits) /\ Cardinality(fits) <= len
    BY <2>3, <2>4, FS_Subset
  <2> QED
    BY <2>1, <2>5, FS_CardinalityType
<1>5. PICK n : n = Smaller(s, Smaller(t.ssthresh, Cardinality(fits)))
  OBVIOUS
<1>6. n \in Nat /\ n <= t.ssthresh /\ (n > 0 => t.head + n - 1 <= Len(t.q))
  <2>1. PICK f \in Nat : f = Cardinality(fits)
    BY <1>4
  <2>2. n \in Nat /\ n <= t.ssthresh /\ n <= f
    BY <1>2, <1>5, <2>1 DEF Smaller
  <2> QED
    BY <1>2, <1>4, <2>1, <2>2
<1>7. PICK c : c = Smaller(t.ssthresh, n + 1)
  OBVIOUS
<1>8. c \in Nat /\ c >= 1 /\ c >= n
  BY <1>2, <1>6, <1>7 DEF Smaller
<1>9. PICK seen : seen = t.head .. t.head + c - 1
  OBVIOUS
<1>10. PICK Q : Q = [k \in DOMAIN t.q |-> IF k \in seen THEN [t.q[k] EXCEPT !.pc = 1] ELSE t.q[k]]
  OBVIOUS
<1>11. \A k \in 1 .. Len(t.q) :
         /\ [t.q[k] EXCEPT !.pc = 1] \in SkbT
         /\ [t.q[k] EXCEPT !.pc = 1].pc = 1
         /\ [t.q[k] EXCEPT !.pc = 1].seq = t.q[k].seq
         /\ [t.q[k] EXCEPT !.pc = 1].end = t.q[k].end
  BY <1>2 DEF SkbT
<1>12. Q \in Seq(SkbT) /\ Len(Q) = Len(t.q)
  <2>1. Q \in [1 .. Len(t.q) -> SkbT]
    BY <1>2, <1>10, <1>11
  <2> QED
    BY <1>2, <2>1
<1>13. \A k \in 1 .. Len(t.q) :
         Q[k].seq = t.q[k].seq /\ Q[k].end = t.q[k].end /\ Q[k] \in SkbT
  BY <1>2, <1>10, <1>11
<1>14. \A k \in 1 .. Len(t.q) : k \in seen \/ t.q[k].pc = 1 => Q[k].pc = 1
  BY <1>2, <1>10, <1>11
<1>15. PICK u : u = [t EXCEPT !.q = Q]
  OBVIOUS
<1>16. /\ IsTp(u) /\ u.q = Q /\ u.head = t.head /\ u.out = t.out /\ u.una = t.una
       /\ u.nxt = t.nxt /\ u.wseq = t.wseq /\ u.wnd = t.wnd /\ u.st = t.st
       /\ u.ssthresh = t.ssthresh /\ u.timer = t.timer
  BY <1>2, <1>15 DEF IsTp, TpFields
<1>17. Shape(u)
  <2>1. \A k \in 1 .. Len(u.q) : k < u.head => u.q[k].pc = 1
    BY <1>12, <1>14, <1>16 DEF Mid, Shape
  <2> QED
    BY <1>12, <1>16, <2>1 DEF Mid, Shape
<1>18. Placed(u, i, U, X, w, p)
  BY <1>1, <1>12, <1>13, <1>16 DEF Placed
<1>19. InStream(u, i, w)
  BY <1>12, <1>16, <1>18 DEF InStream
<1>20. Mid(u, i, w)
  <2>1. u.q = <<>> <=> t.q = <<>>
    BY <1>2, <1>12, <1>16
  <2> QED
    BY <1>16, <1>17, <1>19, <2>1 DEF Mid, Timed
<1>21. u.q # <<>> => u.q[1].pc = 1
  <2>1. ASSUME u.q # <<>> PROVE u.q[1].pc = 1
    <3>1. 1 \in 1 .. Len(t.q)
      BY <1>2, <1>12, <1>16, <2>1
    <3>2. 1 \in seen \/ t.q[1].pc = 1
      BY <1>2, <1>8, <1>9, <3>1 DEF Mid, Shape
    <3> QED
      BY <1>14, <1>16, <3>1, <3>2
  <2> QED
    BY <2>1
<1>22. PICK r : r = tcp_nip_write_xmit(t, s)
  OBVIOUS
<1>23. r = IF n = 0 THEN Result(u, {})
           ELSE Result(event_new_data_sent(u, n), {Wire(u.q[k]) : k \in u.head .. u.head + n - 1})
  BY <1>3, <1>5, <1>7, <1>9, <1>10, <1>15, <1>22 DEF tcp_nip_write_xmit
<1>24. CASE n = 0
  BY <1>16, <1>20, <1>21, <1>22, <1>23, <1>24 DEF Result
<1>25. CASE n # 0
  <2>1. n >= 1 /\ u.head + n - 1 <= Len(u.q)
    BY <1>6, <1>12, <1>16, <1>25
  <2>2. \A k \in u.head .. u.head + n - 1 : u.q[k].pc = 1 /\ k \in 1 .. Len(u.q)
    BY <1>2, <1>6, <1>8, <1>9, <1>12, <1>14, <1>16, <2>1
  <2>3. PICK v : v = event_new_data_sent(u, n)
    OBVIOUS
  <2>4. Mid(v, i, w) /\ v.st = u.st /\ v.q = u.q
    BY <1>6, <1>20, <2>1, <2>2, <2>3, NewDataSent
  <2>5. \A k \in u.head .. u.head + n - 1 : SegOk(i, Wire(u.q[k]))
    BY <1>17, <1>19, <2>2, WireOk
  <2>6. r.t = v /\ r.out = {Wire(u.q[k]) : k \in u.head .. u.head + n - 1}
    BY <1>23, <1>25, <2>3 DEF Result
  <2> QED
    BY <1>16, <1>21, <1>22, <2>4, <2>5, <2>6
<1> QED
  BY <1>24, <1>25

\* __tcp_nip_push_pending_frames arms the probe timer when nothing could be sent.
LEMMA Push ==
  ASSUME NEW t, NEW i \in SeqNo, NEW w \in Place, Mid(t, i, w), NEW s \in Nat,
         t.st # "CLOSE"
  PROVE  LET r == push_pending_frames(t, s)
         IN  Full(r.t, i, w) /\ r.t.st = t.st /\ \A m \in r.out : SegOk(i, m)
<1>1. PICK r : r = tcp_nip_write_xmit(t, s)
  OBVIOUS
<1>2. /\ Mid(r.t, i, w) /\ r.t.st = t.st
      /\ r.t.q # <<>> => r.t.q[1].pc = 1
      /\ \A m \in r.out : SegOk(i, m)
  BY <1>1, WriteXmit
<1>3. PICK v : v = r.t
  OBVIOUS
<1>4. /\ Len(v.q) \in Nat /\ v.head \in Nat /\ v.out = v.head - 1 /\ v.head >= 1
      /\ v.q = <<>> <=> Len(v.q) = 0
  BY <1>2, <1>3, ShapeFacts DEF Mid, Shape
<1>5. CASE v.out = 0 /\ HasHead(v) /\ v.timer = "none"
  <2>1. PICK u : u = [v EXCEPT !.timer = "PROBE0"]
    OBVIOUS
  <2>2. push_pending_frames(t, s) = Result(u, r.out)
    BY <1>1, <1>3, <1>5, <2>1 DEF push_pending_frames
  <2>3. Same(v, u) /\ u.timer = "PROBE0"
    BY <1>2, <1>3, <2>1 DEF Same, Mid, Shape, IsTp, TpFields
  <2>4. v.q # <<>>
    BY <1>4, <1>5 DEF HasHead
  <2>5. Timed(u)
    BY <1>5, <2>3, <2>4 DEF Timed, Same
  <2>6. Mid(u, i, w)
    BY <1>2, <1>3, <2>3, <2>5, SameKeeps DEF Mid
  <2>7. Full(u, i, w) /\ u.st = t.st
    BY <1>2, <1>3, <2>3, <2>6 DEF Full, Same
  <2> QED
    BY <1>2, <2>2, <2>7 DEF Result
<1>6. CASE ~(v.out = 0 /\ HasHead(v) /\ v.timer = "none")
  <2>1. push_pending_frames(t, s) = r
    BY <1>1, <1>3, <1>6 DEF push_pending_frames
  <2>2. v.q # <<>> => v.timer # "none"
    BY <1>2, <1>3, <1>4, <1>6 DEF HasHead, Mid, Timed
  <2> QED
    BY <1>2, <1>3, <2>1, <2>2 DEF Full
<1> QED
  BY <1>5, <1>6


\* __tcp_nip_retransmit_skb of skbs that have been sent: what is cut off is before snd_una.
LEMMA Retransmit ==
  ASSUME NEW t, NEW i \in SeqNo, NEW w \in Place, Shape(t), InStream(t, i, w),
         NEW ok \in BOOLEAN,
         NEW I \in SUBSET (1 .. t.head - 1)
  PROVE  LET r == retransmit_skb(t, I, ok)
         IN  /\ Shape(r.t) /\ InStream(r.t, i, w) /\ (Timed(t) => Timed(r.t))
             /\ r.t.st = t.st /\ \A m \in r.out : SegOk(i, m)
             /\ r.t.out = t.out /\ r.t.timer = t.timer /\ Len(r.t.q) = Len(t.q)
             /\ r.t.una = t.una /\ r.t.head = t.head /\ r.t.rtx = t.rtx
<1>1. PICK U \in Place, X \in Place, p \in [0 .. Len(t.q) -> Place] : Placed(t, i, U, X, w, p)
  BY DEF InStream
<1>2. /\ Len(t.q) \in Nat /\ t.head \in Nat /\ t.head >= 1 /\ t.out = t.head - 1
      /\ IsTp(t) /\ t.out \in Nat /\ t.head <= Len(t.q) + 1
      /\ DOMAIN t.q = 1 .. Len(t.q) /\ t.q \in Seq(SkbT)
      /\ t.una \in SeqNo /\ \A k \in 1 .. Len(t.q) : t.q[k] \in SkbT
  BY ShapeFacts DEF Shape
<1>3. \A k \in I : k \in 1 .. Len(t.q) /\ k < t.head /\ t.q[k].pc = 1
  BY <1>2 DEF Shape
<1>4. PICK go : go = {k \in I : LET b == Trim(t, t.q[k])
                                IN  Before(b.seq, wnd_end(t)) \/ b.seq = t.una}
  OBVIOUS
<1>5. go \subseteq I /\ {k \in go : t.q[k].pc = 0} = {}
  <2>1. go \subseteq I
    BY <1>4
  <2>2. \A k \in go : t.q[k].pc # 0
    BY <1>3, <2>1
  <2> QED
    BY <2>1, <2>2
<1>6. PICK Q : Q = [k \in DOMAIN t.q |-> IF k \in go THEN [Trim(t, t.q[k]) EXCEPT !.pc = 1]
                                         ELSE IF k \in I THEN Trim(t, t.q[k]) ELSE t.q[k]]
  OBVIOUS
<1>7. PICK z : z = t.out + Cardinality({k \in go : t.q[k].pc = 0})
  OBVIOUS
<1>8. z = t.out
  <2>1. Cardinality({k \in go : t.q[k].pc = 0}) = 0
    BY <1>5, FS_EmptySet
  <2> QED
    BY <1>2, <1>7, <2>1
<1>9. PICK u : u = [t EXCEPT !.q = Q, !.out = z]
  OBVIOUS
<1>10. PICK r : r = retransmit_skb(t, I, ok)
  OBVIOUS
<1>11. r = Result(u, IF ok THEN {Wire(u.q[k]) : k \in go} ELSE {})
  BY <1>4, <1>6, <1>7, <1>9, <1>10 DEF retransmit_skb
<1>12. /\ IsTp(u) /\ u.q = Q /\ u.head = t.head /\ u.out = t.out /\ u.una = t.una
       /\ u.nxt = t.nxt /\ u.wseq = t.wseq /\ u.wnd = t.wnd /\ u.st = t.st
       /\ u.ssthresh = t.ssthresh /\ u.timer = t.timer /\ u.rtx = t.rtx
  BY <1>2, <1>8, <1>9 DEF IsTp, TpFields
<1>13. ASSUME NEW k \in 1 .. Len(t.q)
       PROVE  /\ Trim(t, t.q[k]) \in SkbT /\ Trim(t, t.q[k]).end = t.q[k].end
              /\ Trim(t, t.q[k]).pc = t.q[k].pc
              /\ Trim(t, t.q[k]).seq = IF Before(t.q[k].seq, t.una) THEN t.una ELSE t.q[k].seq
  BY <1>2 DEF Trim, SkbT
<1>14. ASSUME NEW k \in 1 .. Len(t.q)
       PROVE  /\ Q[k] \in SkbT /\ Q[k].end = t.q[k].end /\ Q[k].pc = t.q[k].pc
              /\ Q[k].seq = IF k \in I /\ Before(t.q[k].seq, t.una) THEN t.una ELSE t.q[k].seq
  <2>1. CASE k \in go
    <3>1. Q[k] = [Trim(t, t.q[k]) EXCEPT !.pc = 1] /\ k \in I
      BY <1>2, <1>5, <1>6, <2>1
    <3>2. PICK b \in SkbT : b = Trim(t, t.q[k])
      BY <1>13
    <3>3. Q[k] = [b EXCEPT !.pc = 1] /\ t.q[k].pc = 1
      BY <1>3, <3>1, <3>2
    <3>4. Q[k] \in SkbT /\ Q[k].end = b.end /\ Q[k].pc = 1 /\ Q[k].seq = b.seq
      BY <3>3 DEF SkbT
    <3> QED
      BY <1>13, <3>1, <3>2, <3>3, <3>4
  <2>2. CASE k \notin go /\ k \in I
    <3>1. Q[k] = Trim(t, t.q[k])
      BY <1>2, <1>6, <2>2
    <3> QED
      BY <1>13, <2>2, <3>1
  <2>3. CASE k \notin go /\ k \notin I
    <3>1. Q[k] = t.q[k]
      BY <1>2, <1>6, <2>3
    <3> QED
      BY <1>2, <2>3, <3>1
  <2> QED
    BY <2>1, <2>2, <2>3
<1>15. Q \in Seq(SkbT) /\ Len(Q) = Len(t.q)
  <2>1. Q = [k \in 1 .. Len(t.q) |-> Q[k]]
    BY <1>2, <1>6
  <2>2. Q \in [1 .. Len(t.q) -> SkbT]
    BY <1>14, <2>1
  <2> QED
    BY <1>2, <2>2
<1>16. ASSUME NEW k \in 1 .. Len(t.q)
       PROVE  /\ Before(t.q[k].seq, t.una) <=> p[k - 1] < U
              /\ k > 1 => ~(p[k - 1] < U)
  <2>1. k - 1 \in 0 .. Len(t.q) /\ 1 \in 0 .. Len(t.q)
    BY <1>2
  <2>2. p[k - 1] \in Place /\ p[1] \in Place /\ t.q[k].seq = At(i, p[k - 1]) /\ t.una = At(i, U)
        /\ U < p[1]
    <3>1. Len(t.q) > 0
      BY <1>2
    <3> QED
      BY <1>1, <2>1, <3>1 DEF Placed
  <2>3. After(At(i, U), At(i, p[k - 1])) <=> U > p[k - 1]
    BY <2>2, AtDiff
  <2>4. k > 1 => p[1] <= p[k - 1]
    <3>1. k > 1 => k - 1 = 1 \/ 1 < k - 1
      BY <1>2
    <3>2. 1 < k - 1 => p[1] < p[k - 1]
      BY <1>1, <2>1 DEF Placed
    <3>3. p[1] \in Int /\ p[k - 1] \in Int
      BY <2>2, Constants DEF Place
    <3> QED
      BY <3>1, <3>2, <3>3
  <2> QED
    BY <2>2, <2>3, <2>4, Constants DEF Before, Place
<1>17. PICK P : P = IF 1 \in I /\ p[0] < U THEN [p EXCEPT ![0] = U] ELSE p
  OBVIOUS
<1>18. 0 \in 0 .. Len(t.q) /\ p[0] \in Place
  BY <1>2
<1>19. /\ P \in [0 .. Len(t.q) -> Place]
       /\ \A k \in 1 .. Len(t.q) : P[k] = p[k]
       /\ P[0] = IF 1 \in I /\ p[0] < U THEN U ELSE p[0]
  BY <1>2, <1>17, <1>18
<1>20. Placed(u, i, U, X, w, P)
  <2>1. ASSUME NEW k \in 1 .. Len(u.q)
        PROVE  u.q[k].seq = At(i, P[k - 1]) /\ u.q[k].end = At(i, P[k])
    <3>1. k \in 1 .. Len(t.q) /\ u.q = Q
      BY <1>12, <1>15
    <3>2. t.q[k].seq = At(i, p[k - 1]) /\ t.q[k].end = At(i, p[k]) /\ t.una = At(i, U)
      BY <1>1, <3>1 DEF Placed
    <3>3. u.q[k].end = At(i, P[k])
      BY <1>14, <1>19, <3>1, <3>2
    <3>4. CASE k = 1
      BY <1>14, <1>16, <1>19, <3>1, <3>2, <3>3, <3>4
    <3>5. CASE k > 1
      <4>1. k - 1 \in 1 .. Len(t.q)
        BY <1>2, <3>1, <3>5
      <4> QED
        BY <1>14, <1>16, <1>19, <3>1, <3>2, <3>3, <3>5, <4>1
    <3> QED
      BY <3>1, <3>4, <3>5, <1>2
  <2>2. \A j, k \in 0 .. Len(u.q) : j < k => P[j] < P[k]
    <3>1. ASSUME NEW j \in 0 .. Len(t.q), NEW k \in 0 .. Len(t.q), j < k
          PROVE  P[j] < P[k]
      <4>1. p[j] < p[k] /\ P[k] = p[k] /\ p[k] \in Place /\ Len(t.q) > 0 /\ k \in 1 .. Len(t.q)
        BY <1>1, <1>2, <1>19, <3>1 DEF Placed
      <4>2. CASE j = 0
        <5>1. U < p[1] /\ p[1] <= p[k] /\ p[1] \in Place
          <6>1. U < p[1]
            BY <1>1, <4>1 DEF Placed
          <6>2. 1 \in 0 .. Len(t.q) /\ (1 = k \/ 1 < k)
            BY <1>2, <4>1
          <6>3. 1 = k \/ p[1] < p[k]
            BY <1>1, <6>2 DEF Placed
          <6>4. p[1] \in Place
            BY <6>2
          <6> QED
            BY <4>1, <6>1, <6>3, <6>4, Constants DEF Place
        <5> QED
          BY <1>19, <4>1, <4>2, <5>1, Constants DEF Place
      <4>3. CASE j # 0
        <5>1. P[j] = p[j]
          BY <1>2, <1>19, <3>1, <4>3
        <5> QED
          BY <4>1, <5>1
      <4> QED
        BY <4>2, <4>3
    <3> QED
      BY <1>12, <1>15, <3>1
  <2>3. P[0] <= U
    BY <1>1, <1>18, <1>19, Constants DEF Placed, Place
  <2>4. P[Len(u.q)] = w /\ (Len(u.q) > 0 => U < P[1])
    <3>1. CASE Len(t.q) = 0
      <4>1. 1 \notin I
        BY <1>3, <3>1
      <4> QED
        BY <1>1, <1>12, <1>15, <1>19, <3>1, <4>1 DEF Placed
    <3>2. CASE Len(t.q) > 0
      BY <1>1, <1>2, <1>12, <1>15, <1>19, <3>2 DEF Placed
    <3> QED
      BY <1>2, <3>1, <3>2
  <2>5. P[t.head - 1] = p[t.head - 1]
    <3>1. CASE t.head = 1
      <4>1. 1 \notin I /\ t.head - 1 = 0
        BY <1>3, <3>1
      <4> QED
        BY <1>19, <4>1
    <3>2. CASE t.head > 1
      <4>1. t.head - 1 \in 1 .. Len(t.q)
        BY <1>2, <3>2
      <4> QED
        BY <1>19, <4>1
    <3> QED
      BY <1>2, <3>1, <3>2
  <2>6. P \in [0 .. Len(u.q) -> Place]
    BY <1>12, <1>15, <1>19
  <2> QED
    BY <1>1, <1>12, <1>15, <2>1, <2>2, <2>3, <2>4, <2>5, <2>6 DEF Placed
<1>21. InStream(u, i, w)
  BY <1>12, <1>15, <1>19, <1>20 DEF InStream
<1>22. Shape(u)
  <2>1. \A k \in 1 .. Len(u.q) : k < u.head => u.q[k].pc = 1
    BY <1>12, <1>14, <1>15 DEF Shape
  <2> QED
    BY <1>12, <1>15, <2>1 DEF Shape
<1>23. Timed(t) => Timed(u)
  <2>1. u.q = <<>> <=> t.q = <<>>
    BY <1>2, <1>12, <1>15
  <2> QED
    BY <1>12, <2>1 DEF Timed
<1>24. \A k \in go : SegOk(i, Wire(u.q[k]))
  <2>1. \A k \in go : k \in 1 .. Len(u.q)
    BY <1>3, <1>5, <1>12, <1>15
  <2> QED
    BY <1>21, <1>22, <2>1, WireOk
<1>25. r.t = u /\ \A m \in r.out : \E k \in go : m = Wire(u.q[k])
  BY <1>11 DEF Result
<1> QED
  BY <1>10, <1>12, <1>15, <1>21, <1>22, <1>23, <1>24, <1>25

\* tcp_nip_ack_retrans stops at the send head: it only sends again what has been sent.
LEMMA AckRetrans ==
  ASSUME NEW t, NEW i \in SeqNo, NEW w \in Place, Mid(t, i, w), NEW ok \in BOOLEAN
  PROVE  LET r == tcp_nip_ack_retrans(t, ok)
         IN  Mid(r.t, i, w) /\ r.t.st = t.st /\ r.t.una = t.una /\ \A m \in r.out : SegOk(i, m)
<1>1. Len(t.q) \in Nat /\ t.head \in Nat /\ t.head <= Len(t.q) + 1 /\ t.head >= 1
  BY ShapeFacts DEF Mid
<1> DEFINE S    == {k \in 1 .. Len(t.q) : k = t.head \/ t.q[k].seq > t.selEnd} \cup {Len(t.q) + 1}
           stop == Least(S)
           from == {k \in 1 .. stop - 1 : t.q[k].seq = t.rseq}
           I    == {k \in 1 .. stop - 1 : \E j \in from : k \in j .. j + DupNum - 1}
           more == \E j \in from : j + DupNum < stop
           r    == retransmit_skb(t, I, ok)
           v    == r.t
           e    == t.q[CHOOSE k \in I : k + 1 \notin I].end
           u    == IF I = {} THEN v ELSE [v EXCEPT !.rseq = e]
<1>2. tcp_nip_ack_retrans(t, ok)
        = Result(IF ~more /\ stop <= Len(t.q) THEN NoRange(u) ELSE u, r.out)
  BY DEF tcp_nip_ack_retrans
<1>3. S \in SUBSET Nat /\ S # {} /\ t.head \in S
  BY <1>1
<1>4. stop \in Nat /\ stop <= t.head
  <2> HIDE DEF S
  <2> QED
    BY <1>1, <1>3, LeastIsLeast
<1> HIDE DEF stop
<1>5. I \in SUBSET (1 .. t.head - 1)
  BY <1>1, <1>4
<1> HIDE DEF I, more
<1>6. Mid(r.t, i, w) /\ r.t.st = t.st /\ r.t.una = t.una /\ \A m \in r.out : SegOk(i, m)
  BY <1>5, Retransmit DEF Mid
<1> HIDE DEF r
<1>7. IsTp(v) /\ v.wnd \in SeqNo /\ v.ssthresh \in Nat \ {0}
  BY <1>6 DEF Mid, Shape
<1> HIDE DEF e
<1>8. Same(v, u) /\ u.timer = v.timer
  <2> HIDE DEF v
  <2> QED
    BY <1>7 DEF Same, IsTp, TpFields
<1>9. Same(v, NoRange(u)) /\ NoRange(u).timer = v.timer
  <2> HIDE DEF v, u
  <2> QED
    BY <1>8 DEF Same, NoRange, IsTp, TpFields
<1> HIDE DEF u
<1>10. Mid(u, i, w) /\ Mid(NoRange(u), i, w)
  BY <1>6, <1>8, <1>9, SameMid
<1>11. u.st = t.st /\ NoRange(u).st = t.st /\ u.una = t.una /\ NoRange(u).una = t.una
  BY <1>6, <1>8, <1>9 DEF Same
<1> QED
  BY <1>2, <1>6, <1>10, <1>11 DEF Result


\* The retransmission a duplicate acknowledgement asks for, by its range.
LEMMA DupAckRetrans ==
  ASSUME NEW t, NEW i \in SeqNo, NEW w \in Place, Mid(t, i, w), NEW ok \in BOOLEAN, NEW a
  PROVE  LET r == tcp_nip_dup_ack_retrans(t, a, ok)
         IN  Mid(r.t, i, w) /\ r.t.st = t.st /\ r.t.una = t.una /\ \A m \in r.out : SegOk(i, m)
<1> DEFINE u == [t EXCEPT !.sacked = t.sacked + 1]
           v == [u EXCEPT !.sacked = Smaller(u.sacked, 4)]
           x == [u EXCEPT !.selEnd = Add(a.ack, a.num * MSS), !.rseq = a.ack, !.ssthresh = Low]
<1>1. IsTp(t) /\ t.wnd \in SeqNo /\ t.ssthresh \in Nat \ {0} /\ Low \in Nat \ {0}
  BY Constants DEF Mid, Shape
<1>2. Same(t, u) /\ u.timer = t.timer
  BY <1>1 DEF Same, IsTp, TpFields
<1>3. IsTp(u) /\ u.wnd \in SeqNo /\ u.ssthresh \in Nat \ {0}
  BY <1>2 DEF Same
<1>4. Same(t, v) /\ v.timer = t.timer /\ Same(t, x) /\ x.timer = t.timer
  <2> HIDE DEF u
  <2> QED
    BY <1>1, <1>2, <1>3 DEF Same, IsTp, TpFields
<1>5. tcp_nip_dup_ack_retrans(t, a, ok)
        = IF t.q = <<>> THEN Result(t, {})
          ELSE IF u.sacked # 3 THEN Result(v, {}) ELSE tcp_nip_ack_retrans(x, ok)
  BY DEF tcp_nip_dup_ack_retrans
<1> HIDE DEF v, x
<1>6. Mid(v, i, w) /\ Mid(x, i, w)
  BY <1>4, SameMid
<1>7. LET r == tcp_nip_ack_retrans(x, ok)
      IN  Mid(r.t, i, w) /\ r.t.st = x.st /\ r.t.una = x.una /\ \A m \in r.out : SegOk(i, m)
  BY <1>6, AckRetrans
<1>8. v.st = t.st /\ v.una = t.una /\ x.st = t.st /\ x.una = t.una
  BY <1>4 DEF Same
<1> QED
  BY <1>5, <1>6, <1>7, <1>8 DEF Result

\* The retransmission an acknowledgement of new data may start.
LEMMA NorAckRetrans ==
  ASSUME NEW t, NEW i \in SeqNo, NEW w \in Place, Mid(t, i, w), NEW ok \in BOOLEAN, NEW a
  PROVE  LET r == tcp_nip_nor_ack_retrans(t, a, ok)
         IN  Mid(r.t, i, w) /\ r.t.st = t.st /\ r.t.una = t.una /\ \A m \in r.out : SegOk(i, m)
<1> DEFINE u == [t EXCEPT !.sacked = 0]
<1>1. IsTp(t) /\ t.wnd \in SeqNo /\ t.ssthresh \in Nat \ {0}
  BY DEF Mid, Shape
<1>2. Same(t, u) /\ u.timer = t.timer
  BY <1>1 DEF Same, IsTp, TpFields
<1>3. tcp_nip_nor_ack_retrans(t, a, ok)
        = IF t.selEnd = 0 THEN Result(u, {})
          ELSE IF a.ack >= t.selEnd THEN Result(NoRange(u), {}) ELSE tcp_nip_ack_retrans(u, ok)
  BY DEF tcp_nip_nor_ack_retrans
<1> HIDE DEF u
<1>4. Same(t, NoRange(u)) /\ NoRange(u).timer = t.timer
  BY <1>2 DEF Same, NoRange, IsTp, TpFields
<1>5. Mid(u, i, w) /\ Mid(NoRange(u), i, w)
  BY <1>2, <1>4, SameMid
<1>6. LET r == tcp_nip_ack_retrans(u, ok)
      IN  Mid(r.t, i, w) /\ r.t.st = u.st /\ r.t.una = u.una /\ \A m \in r.out : SegOk(i, m)
  BY <1>5, AckRetrans
<1>7. u.st = t.st /\ u.una = t.una /\ NoRange(u).st = t.st /\ NoRange(u).una = t.una
  BY <1>2, <1>4 DEF Same
<1> QED
  BY <1>3, <1>5, <1>6, <1>7 DEF Result

\* An acknowledgement that tcp_nip_ack takes is of something between snd_una and snd_nxt.
LEMMA AckedPlace ==
  ASSUME NEW t, NEW i \in SeqNo, NEW w \in Place, NEW U \in Place, NEW X \in Place, NEW p,
         Placed(t, i, U, X, w, p), NEW a, NEW A \in Place, a.ack = At(i, A),
         AckValue(t, a) = 1
  PROVE  U <= A /\ A <= X
<1>1. t.una = At(i, U) /\ t.nxt = At(i, X)
  BY DEF Placed
<1>2. ~After(At(i, U), At(i, A)) /\ ~After(At(i, A), At(i, X))
  BY <1>1 DEF AckValue, Before
<1>3. ~(U > A) /\ ~(A > X)
  BY <1>2, AtDiff
<1> QED
  BY <1>3, Constants DEF Place

\* A sequence without its first K elements.
LEMMA TailOfSeq ==
  ASSUME NEW T, NEW s \in Seq(T), NEW K \in Nat, K <= Len(s)
  PROVE  LET r == SubSeq(s, K + 1, Len(s))
         IN  r \in Seq(T) /\ Len(r) = Len(s) - K /\ \A k \in 1 .. Len(s) - K : r[k] = s[k + K]
<1>1. PICK n \in Nat : n = Len(s)
  OBVIOUS
<1>2. SubSeq(s, K + 1, n) \in Seq(T)
  BY <1>1
<1>3. Len(SubSeq(s, K + 1, n)) = n - K
  BY <1>1
<1>4. ASSUME NEW k \in 1 .. n - K PROVE SubSeq(s, K + 1, n)[k] = s[k + K]
  <2>1. k \in 1 .. (n - (K + 1)) + 1 /\ (K + 1) + k - 1 = k + K
    BY <1>1
  <2> QED
    BY <1>1, <2>1
<1> QED
  BY <1>1, <1>2, <1>3, <1>4

\* tcp_nip_clean_rtx_queue after snd_una has moved to A: the skbs up to there go, and the
\* timer is started again or stopped.
LEMMA CleanRtxQueue ==
  ASSUME NEW t, NEW i \in SeqNo, NEW w \in Place, Mid(t, i, w), t.out > 0,
         NEW a, NEW A \in Place, a.ack = At(i, A), AckValue(t, a) = 1,
         NEW v, IsTp(v), v.wnd \in SeqNo, v.ssthresh \in Nat \ {0}, v.una = a.ack,
         v.q = t.q, v.head = t.head, v.nxt = t.nxt, v.wseq = t.wseq, v.out = t.out,
         v.st = t.st, v.timer = t.timer
  PROVE  LET u == tcp_nip_clean_rtx_queue(v)
         IN  Mid(u, i, w) /\ u.st = t.st /\ u.una = a.ack
<1>1. PICK U \in Place, X \in Place, p \in [0 .. Len(t.q) -> Place] : Placed(t, i, U, X, w, p)
  BY DEF Mid, InStream
<1>2. /\ Len(t.q) \in Nat /\ t.head \in Nat /\ t.head >= 1 /\ t.out = t.head - 1
      /\ t.out \in Nat /\ t.head <= Len(t.q) + 1
      /\ DOMAIN t.q = 1 .. Len(t.q) /\ t.q \in Seq(SkbT)
      /\ \A k \in 1 .. Len(t.q) : t.q[k] \in SkbT
  BY ShapeFacts DEF Mid, Shape
<1>3. A <= X /\ A \in Int /\ X \in Int /\ w \in Int /\ At(i, A) \in SeqNo
  <2>1. A <= X
    BY <1>1, AckedPlace
  <2> QED
    BY <2>1, AtDiff, Constants DEF Place
<1>4. \A k \in 0 .. Len(t.q) : p[k] \in Place /\ p[k] \in Int
  BY Constants DEF Place
<1> DEFINE S == {k \in 1 .. t.head : k = t.head \/ p[k] > A}
           f == Least(S)
<1>5. S \in SUBSET Nat /\ S # {} /\ t.head \in S
  BY <1>2
<1>6. f \in S /\ \A y \in S : f <= y
  <2> HIDE DEF S
  <2> QED
    BY <1>5, LeastIsLeast
<1> HIDE DEF f
<1>6a. f \in Nat /\ f >= 1 /\ f <= t.head
  BY <1>2, <1>6
<1>6b. PICK K \in Nat : K = f - 1
  BY <1>6a
<1>7. K \in Nat /\ K <= t.head - 1 /\ K <= Len(t.q) /\ f = K + 1
  BY <1>2, <1>6a, <1>6b
<1>8. \A k \in 1 .. t.head - 1 : p[k] <= A <=> k <= K
  <2> SUFFICES ASSUME NEW k \in 1 .. t.head - 1 PROVE p[k] <= A <=> k <= K
    OBVIOUS
  <2>1. k \in 0 .. Len(t.q) /\ k \in Nat /\ f \in Nat
    BY <1>2, <1>6
  <2>2. CASE k <= K
    <3>1. k \notin S /\ k \in 1 .. t.head
      BY <1>2, <1>6, <1>7, <2>1, <2>2
    <3> QED
      BY <1>3, <1>4, <2>1, <2>2, <3>1
  <2>3. CASE k > K
    <3>1. f < t.head /\ f \in 0 .. Len(t.q) /\ p[f] > A /\ f <= k
      BY <1>2, <1>6, <1>7, <2>1, <2>3
    <3>2. f = k \/ p[f] < p[k]
      BY <1>1, <2>1, <3>1 DEF Placed
    <3> QED
      BY <1>3, <1>4, <1>7, <2>1, <2>3, <3>1, <3>2
  <2> QED
    BY <1>7, <2>1, <2>2, <2>3
<1>9. {k \in 1 .. v.head - 1 : ~After(v.q[k].end, v.una)} = 1 .. K
  <2>1. ASSUME NEW k \in 1 .. t.head - 1
        PROVE  ~After(t.q[k].end, At(i, A)) <=> k <= K
    <3>1. k \in 1 .. Len(t.q) /\ k \in 0 .. Len(t.q)
      BY <1>2
    <3>2. t.q[k].end = At(i, p[k]) /\ p[k] \in Place
      BY <1>1, <1>4, <3>1 DEF Placed
    <3>3. After(At(i, p[k]), At(i, A)) <=> p[k] > A
      BY <3>2, AtDiff
    <3> QED
      BY <1>3, <1>4, <1>8, <3>1, <3>2, <3>3
  <2> QED
    BY <1>2, <1>7, <2>1
<1>10. Cardinality(1 .. K) = K
  <2>1. 1 .. K = 1 .. 1 + K - 1
    BY <1>7
  <2>2. Cardinality(1 .. 1 + K - 1) = K
    BY <1>7, IntervalCard
  <2> QED
    BY <2>1, <2>2
<1>11. {k \in 1 .. K : v.q[k].pc = 1} = 1 .. K
  BY <1>2, <1>7 DEF Mid, Shape
<1> DEFINE n == Cardinality({k \in 1 .. v.head - 1 : ~After(v.q[k].end, v.una)})
           z == Cardinality({k \in 1 .. n : v.q[k].pc = 1})
           u == [v EXCEPT !.q = SubSeq(v.q, n + 1, Len(v.q)), !.head = v.head - n, !.out = v.out - z]
<1>12. tcp_nip_clean_rtx_queue(v) = IF n > 0 THEN tcp_nip_rearm_rto(u) ELSE v
  BY DEF tcp_nip_clean_rtx_queue
<1>13. n = K
  BY <1>9, <1>10
<1> HIDE DEF n
<1>14. z = K
  BY <1>10, <1>11, <1>13
<1> HIDE DEF z
<1>15. CASE K = 0
  <2>1. 1 \in 1 .. t.head - 1 /\ 1 \in 0 .. Len(t.q)
    BY <1>2
  <2>2. A < p[1]
    BY <1>3, <1>4, <1>8, <1>15, <2>1
  <2>3. p[0] <= A
    <3>1. p[0] <= U /\ U \in Int /\ p[0] \in Int
      BY <1>1, <1>2, <1>4, Constants DEF Placed, Place
    <3>2. U <= A
      BY <1>1, AckedPlace
    <3> QED
      BY <1>3, <3>1, <3>2
  <2>4. Placed(v, i, A, X, w, p)
    BY <1>1, <1>3, <2>2, <2>3 DEF Placed
  <2>5. InStream(v, i, w)
    BY <2>4 DEF InStream
  <2>6. Shape(v) /\ Timed(v)
    BY <1>3 DEF Mid, Shape, Timed
  <2>7. tcp_nip_clean_rtx_queue(v) = v
    BY <1>12, <1>13, <1>15
  <2> QED
    BY <2>5, <2>6, <2>7 DEF Mid
<1>16. CASE K > 0
  <2> DEFINE Q == SubSeq(t.q, K + 1, Len(t.q))
  <2>1. /\ Q \in Seq(SkbT) /\ Len(Q) = Len(t.q) - K
        /\ \A k \in 1 .. Len(t.q) - K : Q[k] = t.q[k + K]
    BY <1>2, <1>7, TailOfSeq
  <2> HIDE DEF Q
  <2>2. u = [v EXCEPT !.q = Q, !.head = t.head - K, !.out = t.out - K]
    BY <1>13, <1>14 DEF Q
  <2> HIDE DEF u
  <2>3. PICK x : x = tcp_nip_clean_rtx_queue(v)
    OBVIOUS
  <2>4. x = [u EXCEPT !.timer = IF u.out = 0 THEN "none" ELSE "RETRANS"]
    BY <1>12, <1>13, <1>16, <2>3 DEF tcp_nip_rearm_rto
  <2>5. /\ IsTp(u) /\ u.q = Q /\ u.head = t.head - K /\ u.out = t.out - K /\ u.una = a.ack
        /\ u.nxt = t.nxt /\ u.wseq = t.wseq /\ u.wnd = v.wnd /\ u.st = t.st
        /\ u.ssthresh = v.ssthresh
    BY <2>2 DEF IsTp, TpFields
  <2>6. /\ IsTp(x) /\ x.q = Q /\ x.head = t.head - K /\ x.out = t.out - K /\ x.una = a.ack
        /\ x.nxt = t.nxt /\ x.wseq = t.wseq /\ x.wnd = v.wnd /\ x.st = t.st
        /\ x.ssthresh = v.ssthresh
        /\ x.timer = IF t.out - K = 0 THEN "none" ELSE "RETRANS"
    BY <2>4, <2>5 DEF IsTp, TpFields
  <2>7. Shape(x)
    <3>1. x.head \in 1 .. Len(x.q) + 1 /\ x.out = x.head - 1
      BY <1>2, <1>7, <2>1, <2>6
    <3>2. ASSUME NEW k \in 1 .. Len(x.q), k < x.head
          PROVE  x.q[k].pc = 1
      <4>1. k + K \in 1 .. Len(t.q) /\ k + K < t.head /\ x.q[k] = t.q[k + K]
        BY <1>2, <1>7, <2>1, <2>6, <3>2
      <4> QED
        BY <4>1 DEF Mid, Shape
    <3>3. x.una \in SeqNo
      BY <1>3, <2>6
    <3> QED
      BY <2>1, <2>6, <3>1, <3>2, <3>3 DEF Shape
  <2>8. Timed(x)
    <3>1. x.q = <<>> => t.out - K = 0
      <4>1. x.q = <<>> => Len(t.q) - K = 0
        BY <2>1, <2>6
      <4> QED
        BY <1>2, <1>7, <4>1
    <3> QED
      BY <1>2, <1>7, <2>6, <3>1 DEF Timed
  <2>9. PICK P : P = [k \in 0 .. Len(t.q) - K |-> p[k + K]]
    OBVIOUS
  <2>10. /\ \A k \in 0 .. Len(t.q) - K : k + K \in 0 .. Len(t.q) /\ P[k] = p[k + K]
         /\ P \in [0 .. Len(x.q) -> Place]
    BY <1>2, <1>4, <1>7, <2>1, <2>6, <2>9
  <2>11. p[K] <= A /\ K \in 0 .. Len(t.q)
    BY <1>2, <1>7, <1>8, <1>16
  <2>12. Len(x.q) > 0 => A < P[1]
    <3> SUFFICES ASSUME Len(x.q) > 0 PROVE A < P[1]
      OBVIOUS
    <3>1. K + 1 \in 0 .. Len(t.q) /\ K < Len(t.q) /\ P[1] = p[K + 1]
      BY <1>2, <1>7, <2>1, <2>6, <2>10
    <3>2. CASE K + 1 < t.head
      <4>1. K + 1 \in 1 .. t.head - 1 /\ ~(K + 1 <= K)
        BY <1>2, <1>7, <3>2
      <4> QED
        BY <1>3, <1>4, <1>8, <3>1, <4>1
    <3>3. CASE K + 1 = t.head
      <4>1. X = p[K]
        BY <1>1, <1>2, <1>7, <3>1, <3>3 DEF Placed
      <4>2. p[K] < p[K + 1]
        BY <1>1, <1>7, <2>11, <3>1 DEF Placed
      <4> QED
        BY <1>3, <1>4, <2>11, <3>1, <4>1, <4>2
    <3> QED
      BY <1>2, <1>7, <3>2, <3>3
  <2>12a. Len(x.q) = Len(t.q) - K /\ Len(t.q) - K \in Nat
    BY <1>2, <1>7, <2>1, <2>6
  <2>13. Placed(x, i, A, X, w, P)
    <3>1. ASSUME NEW k \in 1 .. Len(x.q)
          PROVE  x.q[k].seq = At(i, P[k - 1]) /\ x.q[k].end = At(i, P[k])
      <4>1. /\ k + K \in 1 .. Len(t.q) /\ x.q[k] = t.q[k + K] /\ k \in 0 .. Len(t.q) - K
            /\ k - 1 \in 0 .. Len(t.q) - K /\ (k - 1) + K = (k + K) - 1
        <5>1. k \in 1 .. Len(t.q) - K
          BY <2>12a
        <5>2. x.q[k] = t.q[k + K]
          BY <2>1, <2>6, <5>1
        <5> QED
          BY <1>2, <1>7, <5>1, <5>2
      <4>2. P[k] = p[k + K] /\ P[k - 1] = p[(k + K) - 1]
        BY <2>10, <4>1
      <4> QED
        BY <1>1, <4>1, <4>2 DEF Placed
    <3>2. ASSUME NEW j \in 0 .. Len(x.q), NEW k \in 0 .. Len(x.q), j < k
          PROVE  P[j] < P[k]
      <4>1. j + K \in 0 .. Len(t.q) /\ k + K \in 0 .. Len(t.q) /\ j + K < k + K
            /\ j \in 0 .. Len(t.q) - K /\ k \in 0 .. Len(t.q) - K
        BY <1>2, <1>7, <2>12a, <3>2
      <4>2. P[j] = p[j + K] /\ P[k] = p[k + K]
        BY <2>10, <4>1
      <4> QED
        BY <1>1, <4>1, <4>2 DEF Placed
    <3>3. P[Len(x.q)] = w
      <4>1. Len(x.q) \in 0 .. Len(t.q) - K /\ Len(x.q) + K = Len(t.q)
        BY <1>2, <1>7, <2>12a
      <4>2. P[Len(x.q)] = p[Len(t.q)]
        BY <2>10, <4>1
      <4> QED
        BY <1>1, <4>2 DEF Placed
    <3>4. P[0] <= A
      <4>1. 0 \in 0 .. Len(t.q) - K /\ 0 + K = K
        BY <1>2, <1>7
      <4> QED
        BY <2>10, <2>11, <4>1
    <3>5. \/ X = P[x.head - 1]
          \/ x.st # "ESTABLISHED" /\ x.head = Len(x.q) + 1 /\ Len(x.q) > 0 /\ X = w - 1
      <4>1. CASE X = p[t.head - 1]
        <5>1. x.head - 1 \in 0 .. Len(t.q) - K /\ (x.head - 1) + K = t.head - 1
          <6>1. x.head = t.head - K
            BY <2>6
          <6> QED
            BY <1>2, <1>7, <6>1
        <5> QED
          <6>1. P[x.head - 1] = p[t.head - 1]
            BY <2>10, <5>1
          <6> QED
            BY <4>1, <6>1
      <4>2. CASE t.st # "ESTABLISHED" /\ t.head = Len(t.q) + 1 /\ X = w - 1
        <5>1. K # Len(t.q)
          <6>1. SUFFICES ASSUME K = Len(t.q) PROVE FALSE
            OBVIOUS
          <6>2. w <= A
            BY <1>1, <2>11, <6>1 DEF Placed
          <6> QED
            BY <1>3, <4>2, <6>2
        <5> QED
          BY <1>2, <1>7, <2>12a, <2>6, <4>2, <5>1
      <4> QED
        BY <1>1, <4>1, <4>2 DEF Placed
    <3> QED
      BY <1>1, <1>3, <2>6, <2>10, <2>12, <3>1, <3>2, <3>3, <3>4, <3>5 DEF Placed
  <2>14. InStream(x, i, w)
    BY <2>10, <2>13 DEF InStream
  <2> QED
    BY <2>3, <2>6, <2>7, <2>8, <2>14 DEF Mid
<1> QED
  BY <1>7, <1>15, <1>16


\* tcp_nip_ack as a whole.
LEMMA TcpAck ==
  ASSUME NEW t, NEW i \in SeqNo, NEW w \in Place, Mid(t, i, w), NEW ok \in BOOLEAN,
         NEW a, NEW A \in Place, a.ack = At(i, A), a.wnd \in SeqNo, NEW ss \in Nat \ {0}
  PROVE  LET r == tcp_nip_ack(t, a, ss, ok)
         IN  Mid(r.t, i, w) /\ r.t.st = t.st /\ \A m \in r.out : SegOk(i, m)
<1> DEFINE x == ack_update_window(t, a)
           u == [x EXCEPT !.probes = 0]
           v == [u EXCEPT !.una = a.ack, !.rtx = 0]
           c == tcp_nip_clean_rtx_queue(v)
           d == [c EXCEPT !.ssthresh = ss]
           y == tcp_nip_ack_probe(u)
<1>1. IsTp(t) /\ t.wnd \in SeqNo /\ t.ssthresh \in Nat \ {0}
  BY DEF Mid, Shape
<1>2. Same(t, x) /\ x.timer = t.timer
  BY <1>1 DEF Same, IsTp, TpFields, ack_update_window
<1> HIDE DEF x
<1>3. Same(t, u) /\ u.timer = t.timer
  BY <1>2 DEF Same, IsTp, TpFields
<1> HIDE DEF u
<1>4. Mid(u, i, w) /\ u.st = t.st
  BY <1>3, SameMid DEF Same
<1>5. tcp_nip_ack(t, a, ss, ok)
        = IF AckValue(t, a) # 1 THEN Result(t, {})
          ELSE IF t.out = 0 THEN Result(IF HasHead(u) THEN y ELSE u, {})
          ELSE IF After(a.ack, t.una) THEN tcp_nip_nor_ack_retrans(d, a, ok)
          ELSE tcp_nip_dup_ack_retrans(u, a, ok)
  BY DEF tcp_nip_ack, u, x
<1>6. CASE AckValue(t, a) # 1
  BY <1>5, <1>6 DEF Result
<1>7. CASE AckValue(t, a) = 1 /\ t.out = 0
  <2>1. CASE HasHead(u)
    <3>1. Same(u, y) /\ y.timer \in {"none", "PROBE0"}
      BY <1>3 DEF Same, IsTp, TpFields, tcp_nip_ack_probe
    <3>2. Shape(y) /\ InStream(y, i, w)
      BY <1>4, <3>1, SameKeeps DEF Mid
    <3>3. y.q # <<>>
      BY <1>4, <2>1, <3>1, ShapeFacts DEF Same, Mid, HasHead
    <3>4. y.out = 0 /\ y.st = t.st
      BY <1>3, <1>4, <1>7, <3>1 DEF Same
    <3>5. Mid(y, i, w)
      BY <3>1, <3>2, <3>3, <3>4 DEF Mid, Timed
    <3> QED
      BY <1>5, <1>7, <2>1, <3>4, <3>5 DEF Result
  <2>2. CASE ~HasHead(u)
    BY <1>4, <1>5, <1>7, <2>2 DEF Result
  <2> QED
    BY <2>1, <2>2
<1>8. CASE AckValue(t, a) = 1 /\ t.out # 0 /\ After(a.ack, t.una)
  <2>1. t.out > 0
    BY <1>8, ShapeFacts DEF Mid
  <2>2. /\ IsTp(v) /\ v.wnd \in SeqNo /\ v.ssthresh \in Nat \ {0} /\ v.una = a.ack
        /\ v.q = t.q /\ v.head = t.head /\ v.nxt = t.nxt /\ v.wseq = t.wseq /\ v.out = t.out
        /\ v.st = t.st /\ v.timer = t.timer
    BY <1>3 DEF Same, IsTp, TpFields
  <2> HIDE DEF v
  <2>3. Mid(c, i, w) /\ c.st = t.st
    BY <1>8, <2>1, <2>2, CleanRtxQueue
  <2> HIDE DEF c
  <2>4. IsTp(c) /\ c.wnd \in SeqNo
    BY <2>3 DEF Mid, Shape
  <2>5. Same(c, d) /\ d.timer = c.timer
    BY <2>4 DEF Same, IsTp, TpFields
  <2> HIDE DEF d
  <2>6. Mid(d, i, w) /\ d.st = t.st
    BY <2>3, <2>5, SameMid DEF Same
  <2>7. LET r == tcp_nip_nor_ack_retrans(d, a, ok)
        IN  Mid(r.t, i, w) /\ r.t.st = d.st /\ \A m \in r.out : SegOk(i, m)
    BY <2>6, NorAckRetrans
  <2>8. tcp_nip_ack(t, a, ss, ok) = tcp_nip_nor_ack_retrans(d, a, ok)
    BY <1>5, <1>8
  <2> QED
    BY <2>6, <2>7, <2>8
<1>9. CASE AckValue(t, a) = 1 /\ t.out # 0 /\ ~After(a.ack, t.una)
  <2>1. LET r == tcp_nip_dup_ack_retrans(u, a, ok)
        IN  Mid(r.t, i, w) /\ r.t.st = u.st /\ \A m \in r.out : SegOk(i, m)
    BY <1>4, DupAckRetrans
  <2>2. tcp_nip_ack(t, a, ss, ok) = tcp_nip_dup_ack_retrans(u, a, ok)
    BY <1>5, <1>9
  <2> QED
    BY <1>4, <2>1, <2>2
<1> QED
  BY <1>6, <1>7, <1>8, <1>9

\* Once everything has been sent, nothing is left to do about the send head.
LEMMA AllSent ==
  ASSUME NEW t, NEW i, NEW w, Mid(t, i, w), ~HasHead(t)
  PROVE  Full(t, i, w)
<1>1. /\ Len(t.q) \in Nat /\ t.head \in Nat /\ t.head <= Len(t.q) + 1 /\ t.out = t.head - 1
      /\ t.q = <<>> <=> Len(t.q) = 0
  BY ShapeFacts DEF Mid, Shape
<1>2. t.head = Len(t.q) + 1
  BY <1>1 DEF HasHead
<1>3. ASSUME t.q # <<>> PROVE t.out > 0 /\ t.q[1].pc = 1
  <2>1. 1 \in 1 .. Len(t.q) /\ 1 < t.head
    BY <1>1, <1>2, <1>3
  <2> QED
    BY <1>1, <2>1 DEF Mid, Shape
<1> QED
  BY <1>3 DEF Full, Mid, Timed


-----------------------------------------------------------------------------
(* Timers.                                                                 *)

\* tcp_nip_done leaves no queue behind.
LEMMA DoneIsGone ==
  ASSUME NEW t, IsTp(t)
  PROVE  Gone(Done(t))
  BY DEF IsTp, TpFields, Gone, Done

\* The retransmission timer sends the first packet again and starts itself again, or gives up.
LEMMA RetransmitTimer ==
  ASSUME NEW t, NEW i \in SeqNo, NEW w \in Place, Shape(t), InStream(t, i, w), t.out > 0,
         NEW ok \in BOOLEAN
  PROVE  LET r == tcp_nip_retransmit_timer(t, ok)
         IN  /\ \A m \in r.out : SegOk(i, m)
             /\ Gone(r.t) \/ (Full(r.t, i, w) /\ r.t.st = t.st)
<1>1. /\ IsTp(t) /\ Len(t.q) \in Nat /\ t.head \in Nat /\ t.head <= Len(t.q) + 1
      /\ t.out = t.head - 1 /\ t.out \in Nat /\ (t.q = <<>> <=> Len(t.q) = 0)
  BY ShapeFacts DEF Shape
<1>2. {1} \in SUBSET (1 .. t.head - 1) /\ t.q # <<>> /\ t.out # 0 /\ Len(t.q) > 0 /\ t.head > 1
  BY <1>1
<1> DEFINE r == retransmit_skb(t, {1}, ok)
           v == r.t
           x == [v EXCEPT !.rtx = IF v.rtx = 0 THEN 1 ELSE v.rtx, !.timer = "RETRANS"]
           y == [v EXCEPT !.rtx = v.rtx + 1, !.ssthresh = Low, !.timer = "RETRANS"]
<1>3. tcp_nip_retransmit_timer(t, ok)
        = IF t.rtx > Retries THEN Result(Done(t), {})
          ELSE IF ~ok THEN Result(x, {}) ELSE Result(y, r.out)
  BY <1>2 DEF tcp_nip_retransmit_timer
<1>4. /\ Shape(v) /\ InStream(v, i, w) /\ v.st = t.st /\ \A m \in r.out : SegOk(i, m)
      /\ v.out = t.out /\ v.head = t.head /\ Len(v.q) = Len(t.q)
  BY <1>2, Retransmit
<1> HIDE DEF r
<1>5. IsTp(v) /\ v.wnd \in SeqNo /\ v.ssthresh \in Nat \ {0} /\ Low \in Nat \ {0}
  BY <1>4, Constants DEF Shape
<1>6. Same(v, x) /\ x.timer = "RETRANS" /\ Same(v, y) /\ y.timer = "RETRANS"
  <2> HIDE DEF v
  <2> QED
    BY <1>5 DEF Same, IsTp, TpFields
<1> HIDE DEF v, x, y
<1>7. ASSUME NEW z, Same(v, z), z.timer = "RETRANS"
      PROVE  Full(z, i, w) /\ z.st = t.st
  <2>1. Shape(z) /\ InStream(z, i, w)
    BY <1>4, <1>7, SameKeeps
  <2>2. z.out = t.out /\ z.head = t.head /\ Len(z.q) = Len(t.q) /\ z.st = t.st
    BY <1>4, <1>7 DEF Same
  <2>3. z.q # <<>>
    BY <1>2, <2>1, <2>2, ShapeFacts
  <2>4. z.q[1].pc = 1
    <3>1. 1 \in 1 .. Len(z.q) /\ 1 < z.head
      BY <1>1, <1>2, <2>2
    <3> QED
      BY <2>1, <3>1 DEF Shape
  <2> QED
    BY <1>2, <1>7, <2>1, <2>2, <2>3, <2>4 DEF Full, Mid, Timed
<1>8. Full(x, i, w) /\ x.st = t.st /\ Full(y, i, w) /\ y.st = t.st
  BY <1>6, <1>7
<1>9. CASE t.rtx > Retries
  <2>1. PICK g : g = Done(t)
    OBVIOUS
  <2>2. tcp_nip_retransmit_timer(t, ok) = Result(g, {})
    BY <1>3, <1>9, <2>1
  <2>3. Gone(g)
    BY <1>1, <2>1, DoneIsGone
  <2>4. tcp_nip_retransmit_timer(t, ok).t = g /\ tcp_nip_retransmit_timer(t, ok).out = {}
    BY <2>2 DEF Result
  <2> QED
    BY <2>3, <2>4
<1>10. CASE ~(t.rtx > Retries) /\ ~ok
  BY <1>3, <1>8, <1>10 DEF Result
<1>11. CASE ~(t.rtx > Retries) /\ ok
  BY <1>3, <1>4, <1>8, <1>11 DEF Result
<1> QED
  BY <1>9, <1>10, <1>11


\* tcp_fragment of the first skb: the queue covers the same part of the stream.
LEMMA FragmentHead ==
  ASSUME NEW t, NEW i \in SeqNo, NEW w \in Place, NEW U \in Place, NEW X \in Place,
         NEW p \in [0 .. Len(t.q) -> Place], Placed(t, i, U, X, w, p), Shape(t), Timed(t),
         t.head = 1, t.q # <<>>, NEW n \in Nat, 0 < n, U + n < p[1], U = p[0]
  PROVE  LET u == Fragment(t, n)
         IN  /\ Mid(u, i, w) /\ u.q # <<>> /\ u.q[1].pc = 1 /\ u.st = t.st /\ u.out = t.out
             /\ u.head = 1 /\ Len(u.q) > 0
<1>1. /\ Len(t.q) \in Nat /\ Len(t.q) >= 1 /\ DOMAIN t.q = 1 .. Len(t.q) /\ t.q \in Seq(SkbT)
      /\ IsTp(t) /\ t.out = 0
  BY ShapeFacts DEF Shape
<1>2. PICK b : b = t.q[1]
  OBVIOUS
<1>3. 0 \in 0 .. Len(t.q) /\ 1 \in 0 .. Len(t.q) /\ 1 \in 1 .. Len(t.q)
  BY <1>1
<1>4. p[0] \in Place /\ p[1] \in Place /\ p[0] \in Int /\ p[1] \in Int /\ U \in Int /\ p[1] <= Bytes + 1
  BY <1>3, Constants DEF Place
<1>5. U + n \in Place
  BY <1>4, Constants DEF Place
<1>6. b.seq = At(i, U) /\ b.end = At(i, p[1])
  <2>1. t.q[1].seq = At(i, p[1 - 1]) /\ t.q[1].end = At(i, p[1])
    BY <1>3 DEF Placed
  <2> QED
    BY <1>2, <2>1
<1>7. Add(b.seq, n) = At(i, U + n)
  <2>1. U + n \in -1 .. Bytes + 2 /\ n \in Int
    BY <1>5, Constants DEF Place
  <2> QED
    BY <1>6, <2>1, AtAdd
<1>8. At(i, U) \in SeqNo /\ At(i, U + n) \in SeqNo /\ At(i, p[1]) \in SeqNo
  BY <1>4, <1>5, AtDiff
<1> DEFINE c == Skb(At(i, U), At(i, U + n), 1)
           d == Skb(At(i, U + n), At(i, p[1]), 1)
           R == SubSeq(t.q, 2, Len(t.q))
           Q == SubSeq(t.q, 1, 0) \o <<c, d>> \o R
<1>9. c \in SkbT /\ d \in SkbT
  BY <1>8 DEF Skb, SkbT
<1>10. /\ c.seq = At(i, U) /\ c.end = At(i, U + n) /\ c.pc = 1
       /\ d.seq = At(i, U + n) /\ d.end = At(i, p[1]) /\ d.pc = 1
  BY DEF Skb
<1> HIDE DEF c, d
<1>11. /\ R \in Seq(SkbT) /\ Len(R) = Len(t.q) - 1
       /\ \A k \in 1 .. Len(t.q) - 1 : R[k] = t.q[1 + k]
  BY <1>1
<1>12. SubSeq(t.q, 1, 0) = <<>>
  BY <1>1
<1> HIDE DEF R
<1>13. Q = <<c, d>> \o R
  BY <1>9, <1>11, <1>12
<1>14. /\ Q \in Seq(SkbT) /\ Len(Q) = Len(t.q) + 1 /\ Q[1] = c /\ Q[2] = d
       /\ \A k \in 3 .. Len(t.q) + 1 : Q[k] = t.q[k - 1]
  <2> HIDE DEF Q
  <2>1. <<c, d>> \in Seq(SkbT) /\ Len(<<c, d>>) = 2 /\ <<c, d>>[1] = c /\ <<c, d>>[2] = d
    BY <1>9
  <2>2. Q \in Seq(SkbT) /\ Len(Q) = Len(t.q) + 1
    BY <1>1, <1>11, <1>13, <2>1
  <2>3. Q[1] = c /\ Q[2] = d
    BY <1>1, <1>11, <1>13, <2>1
  <2>4. ASSUME NEW k \in 3 .. Len(t.q) + 1 PROVE Q[k] = t.q[k - 1]
    <3>1. Q[k] = R[k - 2]
      BY <1>1, <1>11, <1>13, <2>1
    <3>2. k - 2 \in 1 .. Len(t.q) - 1 /\ 1 + (k - 2) = k - 1
      BY <1>1
    <3> QED
      BY <1>11, <3>1, <3>2
  <2> QED
    BY <2>2, <2>3, <2>4
<1>15. PICK u : u = Fragment(t, n)
  OBVIOUS
<1>16. u = [t EXCEPT !.q = Q]
  <2>1. t.head - 1 = 0 /\ t.head + 1 = 2
    OBVIOUS
  <2> QED
    BY <1>2, <1>6, <1>7, <1>15, <2>1 DEF Fragment, c, d, R
<1> HIDE DEF Q
<1>17. /\ IsTp(u) /\ u.q = Q /\ u.head = 1 /\ u.una = t.una /\ u.nxt = t.nxt /\ u.wseq = t.wseq
       /\ u.wnd = t.wnd /\ u.out = 0 /\ u.st = t.st /\ u.ssthresh = t.ssthresh /\ u.timer = t.timer
  BY <1>1, <1>16 DEF IsTp, TpFields
<1>18. Len(u.q) = Len(t.q) + 1 /\ u.q # <<>>
  BY <1>1, <1>14, <1>17
<1>19. Shape(u)
  <2>1. u.head \in 1 .. Len(u.q) + 1 /\ u.out = u.head - 1 /\ u.q \in Seq(SkbT)
    BY <1>1, <1>14, <1>17, <1>18
  <2>2. \A k \in 1 .. Len(u.q) : ~(k < u.head)
    BY <1>17
  <2> QED
    BY <1>17, <2>1, <2>2 DEF Shape
<1>20. Timed(u)
  BY <1>1, <1>17, <1>18 DEF Timed
<1>21. PICK P : P = [k \in 0 .. Len(t.q) + 1 |-> IF k = 0 THEN U ELSE IF k = 1 THEN U + n ELSE p[k - 1]]
  OBVIOUS
<1>22. \A k \in 2 .. Len(t.q) + 1 : k - 1 \in 0 .. Len(t.q) /\ p[k - 1] \in Place
  BY <1>1
<1>23. /\ P \in [0 .. Len(t.q) + 1 -> Place] /\ P[0] = U /\ P[1] = U + n
       /\ \A k \in 2 .. Len(t.q) + 1 : P[k] = p[k - 1]
  BY <1>1, <1>5, <1>21, <1>22
<1>24. Placed(u, i, U, X, w, P)
  <2>1. ASSUME NEW k \in 1 .. Len(u.q)
        PROVE  u.q[k].seq = At(i, P[k - 1]) /\ u.q[k].end = At(i, P[k])
    <3>1. CASE k = 1
      <4>1. u.q[k] = c /\ k - 1 = 0
        BY <1>14, <1>17, <3>1
      <4> QED
        BY <1>10, <1>23, <3>1, <4>1
    <3>2. CASE k = 2
      <4>1. u.q[k] = d /\ k - 1 = 1 /\ P[2] = p[1]
        <5>1. 2 \in 2 .. Len(t.q) + 1 /\ 2 - 1 = 1
          BY <1>1
        <5> QED
          BY <1>14, <1>17, <1>23, <3>2, <5>1
      <4> QED
        BY <1>10, <1>23, <3>2, <4>1
    <3>3. CASE k > 2
      <4>1. /\ k \in 3 .. Len(t.q) + 1 /\ k \in 2 .. Len(t.q) + 1 /\ k - 1 \in 2 .. Len(t.q) + 1
            /\ k - 1 \in 1 .. Len(t.q)
        BY <1>1, <1>18, <3>3
      <4>2. u.q[k] = t.q[k - 1] /\ P[k] = p[k - 1] /\ P[k - 1] = p[(k - 1) - 1]
        BY <1>14, <1>17, <1>23, <4>1
      <4> QED
        BY <4>1, <4>2 DEF Placed
    <3> QED
      BY <3>1, <3>2, <3>3
  <2>2. ASSUME NEW j \in 0 .. Len(u.q), NEW k \in 0 .. Len(u.q), j < k
        PROVE  P[j] < P[k]
    <3>1. j \in 0 .. Len(t.q) + 1 /\ k \in 0 .. Len(t.q) + 1
      BY <1>18
    <3>2. CASE k = 1
      BY <1>4, <1>23, <2>2, <3>1, <3>2
    <3>3. CASE k > 1
      <4>1. k \in 2 .. Len(t.q) + 1 /\ k - 1 \in 0 .. Len(t.q) /\ P[k] = p[k - 1]
        BY <1>1, <1>23, <3>1, <3>3
      <4>2. p[1] <= p[k - 1] /\ p[k - 1] \in Int
        <5>1. 1 = k - 1 \/ 1 < k - 1
          BY <1>1, <3>1, <3>3
        <5>2. 1 = k - 1 \/ p[1] < p[k - 1]
          BY <1>3, <4>1, <5>1 DEF Placed
        <5>3. p[k - 1] \in Int
          BY <4>1, Constants DEF Place
        <5> QED
          BY <1>4, <5>2, <5>3
      <4>3. CASE j = 0 \/ j = 1
        <5>1. P[j] = U \/ P[j] = U + n
          BY <1>23, <4>3
        <5> QED
          BY <1>4, <4>1, <4>2, <5>1
      <4>4. CASE j > 1
        <5>1. j \in 2 .. Len(t.q) + 1 /\ j - 1 \in 0 .. Len(t.q) /\ P[j] = p[j - 1] /\ j - 1 < k - 1
          BY <1>1, <1>23, <2>2, <3>1, <4>4
        <5> QED
          BY <4>1, <5>1 DEF Placed
      <4> QED
        BY <3>1, <4>3, <4>4
    <3> QED
      BY <2>2, <3>1, <3>2, <3>3
  <2>3. P[Len(u.q)] = w
    <3>1. Len(u.q) \in 2 .. Len(t.q) + 1 /\ Len(u.q) - 1 = Len(t.q)
      BY <1>1, <1>18
    <3>2. P[Len(u.q)] = p[Len(t.q)]
      BY <1>23, <3>1
    <3> QED
      BY <3>2 DEF Placed
  <2>4. X = P[u.head - 1] /\ P[0] <= U /\ U < P[1] /\ U <= X
    <3>1. X = p[0] /\ U <= X
      BY <1>1 DEF Placed
    <3>2. u.head - 1 = 0
      BY <1>17
    <3> QED
      BY <1>4, <1>23, <3>1, <3>2
  <2>5. P \in [0 .. Len(u.q) -> Place]
    BY <1>18, <1>23
  <2> QED
    BY <1>17, <2>1, <2>2, <2>3, <2>4, <2>5 DEF Placed
<1>25. InStream(u, i, w)
  BY <1>18, <1>23, <1>24 DEF InStream
<1> QED
  BY <1>1, <1>10, <1>14, <1>15, <1>17, <1>18, <1>19, <1>20, <1>25 DEF Mid


\* tcp_nip_write_wakeup when nothing is outstanding: the send head is the first skb and begins
\* at snd_una.
LEMMA WriteWakeup ==
  ASSUME NEW t, NEW i \in SeqNo, NEW w \in Place, Mid(t, i, w), t.q # <<>>, t.q[1].pc = 1,
         t.out = 0, NEW ok \in BOOLEAN
  PROVE  LET r == tcp_nip_write_wakeup(t, ok)
         IN  /\ Mid(r.t, i, w) /\ r.t.st = t.st /\ r.t.q # <<>> /\ r.t.q[1].pc = 1
             /\ r.t.out = 0 => HasHead(r.t)
             /\ \A m \in r.out : SegOk(i, m)
<1>1. PICK U \in Place, X \in Place, p \in [0 .. Len(t.q) -> Place] : Placed(t, i, U, X, w, p)
  BY DEF Mid, InStream
<1>2. /\ Len(t.q) \in Nat /\ Len(t.q) >= 1 /\ t.head = 1 /\ Shape(t) /\ Timed(t) /\ t.wnd \in SeqNo
      /\ t.una \in SeqNo
  BY ShapeFacts DEF Mid, Shape
<1>3. 0 \in 0 .. Len(t.q) /\ 1 \in 0 .. Len(t.q) /\ 1 \in 1 .. Len(t.q) /\ HasHead(t)
  BY <1>2 DEF HasHead
<1>4. p[0] \in Place /\ p[1] \in Place /\ p[0] \in Int /\ p[1] \in Int /\ U \in Int
  BY <1>3, Constants DEF Place
<1>5. U = p[0]
  <2>1. X = p[0]
    BY <1>1, <1>2 DEF Placed
  <2> QED
    BY <1>1, <1>4, <2>1 DEF Placed
<1> DEFINE b == t.q[t.head]
           n == Diff(wnd_end(t), b.seq)
           u == IF n < Diff(b.end, b.seq) THEN Fragment(t, n) ELSE t
           e == [seq |-> Add(t.una, -1), end |-> Add(t.una, -1)]
<1>6. tcp_nip_write_wakeup(t, ok)
        = IF ~Before(b.seq, wnd_end(t)) THEN Result(t, IF ok THEN {e} ELSE {})
          ELSE IF ok THEN Result(event_new_data_sent(u, 1), {Wire(u.q[u.head])})
          ELSE Result(u, {})
  BY DEF tcp_nip_write_wakeup
<1>7. b = t.q[1] /\ b.seq = At(i, U) /\ b.end = At(i, p[1])
  <2>1. t.q[1].seq = At(i, p[1 - 1]) /\ t.q[1].end = At(i, p[1])
    BY <1>1, <1>3 DEF Placed
  <2> QED
    BY <1>2, <1>5, <2>1
<1> HIDE DEF b
<1>8. Diff(b.end, b.seq) = p[1] - U
  <2>1. p[1] >= U
    BY <1>1, <1>2, <1>4 DEF Placed
  <2> QED
    BY <1>7, <2>1, <1>4, AtDiff
<1>9. n \in SeqNo
  <2>1. wnd_end(t) \in Int /\ b.seq \in Int
    <3>1. wnd_end(t) \in SeqNo
      <4>1. t.una \in Int /\ t.wnd \in Int
        BY <1>2, Constants DEF SeqNo
      <4> QED
        BY <4>1, AddRange DEF wnd_end
    <3>2. b.seq \in SeqNo
      BY <1>7, AtDiff
    <3> QED
      BY <3>1, <3>2, Constants DEF SeqNo
  <2> QED
    BY <2>1, AddRange
<1>10. CASE ~Before(b.seq, wnd_end(t))
  <2>1. SegOk(i, e)
    <3>1. Add(t.una, -1) \in SeqNo
      <4>1. t.una \in Int /\ -1 \in Int
        BY <1>2, Constants DEF SeqNo
      <4> QED
        BY <4>1, AddRange
    <3> QED
      BY <3>1 DEF SegOk
  <2>2. tcp_nip_write_wakeup(t, ok) = Result(t, IF ok THEN {e} ELSE {})
    BY <1>6, <1>10
  <2> HIDE DEF e
  <2> QED
    BY <1>3, <2>1, <2>2 DEF Result
<1>11. CASE Before(b.seq, wnd_end(t))
  <2>1. n \in Nat /\ 0 < n
    BY <1>9, <1>11, Constants DEF Before, After, SeqNo
  <2> HIDE DEF n
  <2>2. /\ Mid(u, i, w) /\ u.q # <<>> /\ u.q[1].pc = 1 /\ u.st = t.st /\ u.out = 0 /\ u.head = 1
        /\ Len(u.q) \in Nat /\ Len(u.q) > 0
    <3>1. CASE n < p[1] - U
      <4>1. U + n < p[1]
        BY <1>4, <2>1, <3>1
      <4>2. PICK g : g = Fragment(t, n)
        OBVIOUS
      <4>3. /\ Mid(g, i, w) /\ g.q # <<>> /\ g.q[1].pc = 1 /\ g.st = t.st /\ g.out = t.out
            /\ g.head = 1 /\ Len(g.q) > 0
        <5>1. LET z == Fragment(t, n)
              IN  /\ Mid(z, i, w) /\ z.q # <<>> /\ z.q[1].pc = 1 /\ z.st = t.st /\ z.out = t.out
                  /\ z.head = 1 /\ Len(z.q) > 0
          BY <1>1, <1>2, <1>5, <2>1, <4>1, FragmentHead
        <5> QED
          BY <4>2, <5>1
      <4>4. u = g
        BY <1>8, <3>1, <4>2
      <4>5. Len(g.q) \in Nat
        BY <4>3, ShapeFacts DEF Mid
      <4> QED
        BY <4>3, <4>4, <4>5
    <3>2. CASE ~(n < p[1] - U)
      <4>1. u = t
        BY <1>8, <3>2
      <4> QED
        BY <1>2, <4>1
    <3> QED
      BY <3>1, <3>2
  <2> HIDE DEF u
  <2>3. CASE ok
    <3>1. u.head + 1 - 1 <= Len(u.q) /\ \A k \in u.head .. u.head + 1 - 1 : u.q[k].pc = 1
      BY <2>2
    <3>2. PICK v : v = event_new_data_sent(u, 1)
      OBVIOUS
    <3>3. Mid(v, i, w) /\ v.st = u.st /\ v.q = u.q /\ v.out > 0
      <4>1. 1 \in Nat /\ 1 >= 1
        OBVIOUS
      <4>2. LET z == event_new_data_sent(u, 1)
            IN  Mid(z, i, w) /\ z.st = u.st /\ z.q = u.q /\ z.out > 0
        BY <2>2, <3>1, <4>1, NewDataSent
      <4> QED
        BY <3>2, <4>2
    <3>4. SegOk(i, Wire(u.q[u.head]))
      <4>1. u.head \in 1 .. Len(u.q)
        BY <2>2
      <4> QED
        BY <2>2, <4>1, WireOk DEF Mid
    <3>5. tcp_nip_write_wakeup(t, ok) = Result(v, {Wire(u.q[u.head])})
      BY <1>6, <1>11, <2>3, <3>2
    <3>6. ~(v.out = 0)
      BY <3>3
    <3> QED
      BY <2>2, <3>3, <3>4, <3>5, <3>6 DEF Result
  <2>4. CASE ~ok
    <3>1. tcp_nip_write_wakeup(t, ok) = Result(u, {})
      BY <1>6, <1>11, <2>4
    <3>2. HasHead(u)
      BY <2>2 DEF HasHead
    <3> QED
      BY <2>2, <3>1, <3>2 DEF Result
  <2> QED
    BY <2>3, <2>4
<1> QED
  BY <1>10, <1>11

\* The probe timer sends what the window takes or a probe, and a timer runs again, or gives up.
LEMMA ProbeTimer ==
  ASSUME NEW t, NEW i \in SeqNo, NEW w \in Place, Mid(t, i, w), t.q # <<>>, t.q[1].pc = 1,
         t.out = 0, NEW ok \in BOOLEAN
  PROVE  LET r == tcp_nip_probe_timer(t, ok)
         IN  /\ \A m \in r.out : SegOk(i, m)
             /\ Gone(r.t) \/ (Full(r.t, i, w) /\ r.t.st = t.st)
<1>1. HasHead(t) /\ IsTp(t)
  BY ShapeFacts DEF Mid, Shape, HasHead
<1> DEFINE r == tcp_nip_write_wakeup(t, ok)
           v == r.t
           x == [v EXCEPT !.probes = 0]
           y == [v EXCEPT !.probes = v.probes + 1, !.timer = "PROBE0"]
<1>2. tcp_nip_probe_timer(t, ok)
        = IF t.probes >= MaxProbes THEN Result(Done(t), {})
          ELSE IF v.out > 0 \/ ~HasHead(v) THEN Result(x, r.out) ELSE Result(y, r.out)
  BY <1>1 DEF tcp_nip_probe_timer
<1>3. /\ Mid(v, i, w) /\ v.st = t.st /\ v.q # <<>> /\ v.q[1].pc = 1
      /\ v.out = 0 => HasHead(v)
      /\ \A m \in r.out : SegOk(i, m)
  BY WriteWakeup
<1> HIDE DEF r
<1>4. IsTp(v) /\ v.wnd \in SeqNo /\ v.ssthresh \in Nat \ {0} /\ v.out \in Nat
  BY <1>3, ShapeFacts DEF Mid, Shape
<1>5. Same(v, x) /\ x.timer = v.timer /\ Same(v, y) /\ y.timer = "PROBE0"
  <2> HIDE DEF v
  <2> QED
    BY <1>4 DEF Same, IsTp, TpFields
<1> HIDE DEF v, x, y
<1>6. x.st = t.st /\ x.q = v.q /\ x.out = v.out /\ y.st = t.st /\ y.q = v.q /\ y.out = v.out
  BY <1>3, <1>5 DEF Same
<1>7. CASE t.probes >= MaxProbes
  <2>1. PICK g : g = Done(t)
    OBVIOUS
  <2>2. tcp_nip_probe_timer(t, ok) = Result(g, {})
    BY <1>2, <1>7, <2>1
  <2>3. Gone(g)
    BY <1>1, <2>1, DoneIsGone
  <2> QED
    BY <2>2, <2>3 DEF Result
<1>8. CASE ~(t.probes >= MaxProbes) /\ v.out > 0
  <2>1. Mid(x, i, w)
    BY <1>3, <1>5, SameMid
  <2>2. Full(x, i, w)
    BY <1>3, <1>6, <1>8, <2>1 DEF Full, Mid, Timed
  <2>3. tcp_nip_probe_timer(t, ok) = Result(x, r.out)
    BY <1>2, <1>8
  <2> QED
    BY <1>3, <1>6, <2>2, <2>3 DEF Result
<1>9. CASE ~(t.probes >= MaxProbes) /\ ~(v.out > 0)
  <2>1. v.out = 0 /\ HasHead(v)
    BY <1>3, <1>4, <1>9
  <2>2. Shape(y) /\ InStream(y, i, w)
    BY <1>3, <1>5, SameKeeps DEF Mid
  <2>3. Full(y, i, w)
    BY <1>3, <1>5, <1>6, <2>1, <2>2 DEF Full, Mid, Timed
  <2>4. tcp_nip_probe_timer(t, ok) = Result(y, r.out)
    BY <1>2, <1>9, <2>1
  <2> QED
    BY <1>3, <1>6, <2>3, <2>4 DEF Result
<1> QED
  BY <1>7, <1>8, <1>9


-----------------------------------------------------------------------------
(* New data and the FIN.                                                   *)

\* Whatever is put behind the queue: skbs whose places go on from the end of the stream.
LEMMA Extend ==
  ASSUME NEW t, NEW i \in SeqNo, NEW w \in Place, Mid(t, i, w), t.st = "ESTABLISHED",
         NEW new \in Seq(SkbT), NEW N \in Nat, Len(new) = N, N > 0,
         NEW G \in [0 .. N -> Place], G[0] = w,
         \A j, k \in 0 .. N : j < k => G[j] < G[k],
         \A k \in 1 .. N : new[k].seq = At(i, G[k - 1]) /\ new[k].end = At(i, G[k]),
         NEW u, IsTp(u), u.q = t.q \o new, u.wseq = At(i, G[N]), u.head = t.head, u.una = t.una,
         u.nxt = t.nxt, u.wnd = t.wnd, u.out = t.out, u.timer = t.timer, u.ssthresh = t.ssthresh
  PROVE  Mid(u, i, G[N])
<1>1. PICK U \in Place, X \in Place, p \in [0 .. Len(t.q) -> Place] : Placed(t, i, U, X, w, p)
  BY DEF Mid, InStream
<1>2. Shape(t) /\ Timed(t) /\ t.q \in Seq(SkbT) /\ t.una \in SeqNo
  BY DEF Mid, Shape
<1>3. PICK L \in Nat : L = Len(t.q)
  BY <1>2
<1>4. t.head \in Nat /\ t.head >= 1 /\ t.head <= L + 1 /\ t.out = t.head - 1 /\ t.out \in Nat
  BY <1>2, <1>3, ShapeFacts DEF Shape
<1>5. u.q \in Seq(SkbT) /\ Len(u.q) = L + N
  <2>1. t.q \o new \in Seq(SkbT) /\ Len(t.q \o new) = Len(t.q) + Len(new)
    BY <1>2, ConcatProperties
  <2> QED
    BY <1>3, <2>1
<1>6. /\ \A k \in 1 .. L : u.q[k] = t.q[k]
      /\ \A k \in L + 1 .. L + N : u.q[k] = new[k - L]
  BY <1>2, <1>3
<1>7. u.q # <<>>
  BY <1>5
<1>8. Shape(u)
  <2>1. ASSUME NEW k \in 1 .. Len(u.q), k < u.head PROVE u.q[k].pc = 1
    <3>1. k \in 1 .. L /\ k < t.head
      BY <1>3, <1>4, <1>5, <2>1
    <3> QED
      BY <1>2, <1>3, <1>6, <3>1 DEF Shape
  <2>2. u.head \in 1 .. Len(u.q) + 1 /\ u.out = u.head - 1
    BY <1>4, <1>5
  <2> QED
    BY <1>2, <1>5, <2>1, <2>2 DEF Shape
<1>9. Timed(u)
  BY <1>2, <1>7 DEF Timed
<1>10. PICK P : P = [k \in 0 .. L + N |-> IF k <= L THEN p[k] ELSE G[k - L]]
  OBVIOUS
<1>11. /\ \A k \in 0 .. L : P[k] = p[k] /\ p[k] \in Place
       /\ \A k \in 0 .. N : L + k \in 0 .. L + N /\ G[k] \in Place
  <2>1. ASSUME NEW k \in 0 .. L PROVE P[k] = p[k] /\ p[k] \in Place
    <3>1. k \in 0 .. L + N /\ k <= L /\ k \in 0 .. Len(t.q)
      BY <1>3
    <3> QED
      BY <1>10, <3>1
  <2> QED
    BY <2>1
<1>12. \A k \in 0 .. N : P[L + k] = G[k]
  <2> SUFFICES ASSUME NEW k \in 0 .. N PROVE P[L + k] = G[k]
    OBVIOUS
  <2>1. CASE k = 0
    BY <1>1, <1>3, <1>10, <1>11, <2>1 DEF Placed
  <2>2. CASE k > 0
    <3>1. ~(L + k <= L) /\ (L + k) - L = k /\ L + k \in 0 .. L + N
      BY <2>2
    <3> QED
      BY <1>10, <3>1
  <2> QED
    BY <2>1, <2>2
<1>13. ASSUME NEW k \in L .. L + N
       PROVE  k - L \in 0 .. N /\ P[k] = G[k - L] /\ G[k - L] \in Place
  <2>1. k - L \in 0 .. N /\ L + (k - L) = k
    OBVIOUS
  <2> QED
    BY <1>12, <2>1
<1>14. P \in [0 .. L + N -> Place]
  <2>1. ASSUME NEW k \in 0 .. L + N PROVE P[k] \in Place
    <3>1. k \in 0 .. L \/ k \in L .. L + N
      OBVIOUS
    <3> QED
      BY <1>11, <1>13, <3>1
  <2> QED
    BY <1>10, <2>1
<1>15. Placed(u, i, U, X, G[N], P)
  <2>1. ASSUME NEW k \in 1 .. Len(u.q)
        PROVE  u.q[k].seq = At(i, P[k - 1]) /\ u.q[k].end = At(i, P[k])
    <3>1. CASE k <= L
      <4>1. k \in 1 .. L /\ k - 1 \in 0 .. L /\ k \in 0 .. L
        BY <3>1
      <4>2. u.q[k] = t.q[k] /\ P[k] = p[k] /\ P[k - 1] = p[k - 1]
        BY <1>6, <1>11, <4>1
      <4> QED
        BY <1>1, <1>3, <4>1, <4>2 DEF Placed
    <3>2. CASE k > L
      <4>1. k \in L + 1 .. L + N /\ k \in L .. L + N /\ k - 1 \in L .. L + N
            /\ k - L \in 1 .. N /\ (k - 1) - L = (k - L) - 1
        BY <1>5, <3>2
      <4>2. u.q[k] = new[k - L] /\ P[k] = G[k - L] /\ P[k - 1] = G[(k - L) - 1]
        BY <1>6, <1>13, <4>1
      <4> QED
        BY <4>1, <4>2
    <3> QED
      BY <3>1, <3>2
  <2>2. ASSUME NEW j \in 0 .. Len(u.q), NEW k \in 0 .. Len(u.q), j < k
        PROVE  P[j] < P[k]
    <3>1. j \in 0 .. L + N /\ k \in 0 .. L + N
      BY <1>5
    <3>2. CASE k <= L
      <4>1. j \in 0 .. L /\ k \in 0 .. L
        BY <2>2, <3>1, <3>2
      <4> QED
        BY <1>1, <1>3, <1>11, <2>2, <4>1 DEF Placed
    <3>3. CASE j >= L
      <4>1. j \in L .. L + N /\ k \in L .. L + N /\ j - L < k - L
        BY <2>2, <3>1, <3>3
      <4>2. P[j] = G[j - L] /\ P[k] = G[k - L] /\ j - L \in 0 .. N /\ k - L \in 0 .. N
        BY <1>13, <4>1
      <4> QED
        BY <4>1, <4>2
    <3>4. CASE j < L /\ k > L
      <4>1. j \in 0 .. L /\ L \in 0 .. L /\ k \in L .. L + N /\ 0 < k - L
        BY <3>1, <3>4
      <4>2. P[j] = p[j] /\ p[j] < p[L] /\ p[L] = w
        BY <1>1, <1>3, <1>11, <3>4, <4>1 DEF Placed
      <4>3. P[k] = G[k - L] /\ k - L \in 0 .. N
        BY <1>13, <4>1
      <4>4. w < G[k - L]
        <5>1. 0 \in 0 .. N
          OBVIOUS
        <5> QED
          BY <4>1, <4>3, <5>1
      <4>5. p[j] \in Int /\ w \in Int /\ G[k - L] \in Int
        BY <1>11, <4>1, <4>3, Constants DEF Place
      <4> QED
        BY <4>2, <4>3, <4>4, <4>5
    <3> QED
      BY <3>1, <3>2, <3>3, <3>4
  <2>3. P[Len(u.q)] = G[N]
    <3>1. N \in 0 .. N
      OBVIOUS
    <3> QED
      BY <1>5, <1>12, <3>1
  <2>4. X = P[u.head - 1]
    <3>1. t.head - 1 \in 0 .. L
      BY <1>4
    <3>2. X = p[t.head - 1]
      BY <1>1 DEF Placed
    <3> QED
      BY <1>11, <3>1, <3>2
  <2>5. P[0] <= U /\ U <= X
    <3>1. 0 \in 0 .. L
      OBVIOUS
    <3> QED
      BY <1>1, <1>11, <3>1 DEF Placed
  <2>6. U < P[1]
    <3>1. CASE L > 0
      <4>1. 1 \in 0 .. L
        BY <3>1
      <4> QED
        BY <1>1, <1>3, <1>11, <3>1, <4>1 DEF Placed
    <3>2. CASE L = 0
      <4>1. t.head - 1 = 0 /\ 0 \in 0 .. L /\ 1 \in L .. L + N /\ 1 - L = 1 /\ 0 \in 0 .. N /\ 1 \in 0 .. N
        BY <1>4, <3>2
      <4>2. X = w /\ U <= X
        BY <1>1, <1>3, <3>2, <4>1 DEF Placed
      <4>3. P[1] = G[1] /\ w < G[1] /\ G[1] \in Place
        BY <1>13, <4>1
      <4> QED
        BY <4>2, <4>3, Constants DEF Place
    <3> QED
      BY <3>1, <3>2
  <2>7. P \in [0 .. Len(u.q) -> Place]
    BY <1>5, <1>14
  <2>8. u.una = At(i, U) /\ u.nxt = At(i, X)
    BY <1>1 DEF Placed
  <2> QED
    BY <2>1, <2>2, <2>3, <2>4, <2>5, <2>6, <2>7, <2>8 DEF Placed
<1>16. InStream(u, i, G[N])
  BY <1>5, <1>14, <1>15 DEF InStream
<1> QED
  BY <1>8, <1>9, <1>16 DEF Mid


\* skb_nip_entail: n more units on a new skb.
LEMMA EntailKeeps ==
  ASSUME NEW t, NEW i \in SeqNo, NEW w \in Place, Mid(t, i, w), t.st = "ESTABLISHED",
         NEW n \in Nat, n > 0, w + n <= Bytes
  PROVE  w + n \in Place /\ Mid(Entail(t, n), i, w + n) /\ Entail(t, n).st = "ESTABLISHED"
<1>1. t.wseq = At(i, w) /\ IsTp(t) /\ t.q \in Seq(SkbT)
  BY DEF Mid, Shape, InStream, Placed
<1>2. w \in Nat /\ w + n \in Place /\ w + n \in -1 .. Bytes + 2 /\ n \in Int
  BY Constants DEF Place
<1>3. Add(t.wseq, n) = At(i, w + n)
  BY <1>1, <1>2, AtAdd
<1>4. At(i, w) \in SeqNo /\ At(i, w + n) \in SeqNo
  BY <1>2, AtDiff
<1>5. PICK b : b = Skb(At(i, w), At(i, w + n), 0)
  OBVIOUS
<1>6. b \in SkbT /\ b.seq = At(i, w) /\ b.end = At(i, w + n)
  BY <1>4, <1>5 DEF Skb, SkbT
<1>7. PICK new : new = <<b>>
  OBVIOUS
<1>8. new \in Seq(SkbT) /\ Len(new) = 1 /\ new[1] = b
  BY <1>6, <1>7
<1>9. PICK G : G = [j \in 0 .. 1 |-> IF j = 0 THEN w ELSE w + n]
  OBVIOUS
<1>10. G \in [0 .. 1 -> Place] /\ G[0] = w /\ G[1] = w + n
  BY <1>2, <1>9
<1>11. \A j, k \in 0 .. 1 : j < k => G[j] < G[k]
  BY <1>2, <1>10
<1>12. \A k \in 1 .. 1 : new[k].seq = At(i, G[k - 1]) /\ new[k].end = At(i, G[k])
  BY <1>6, <1>8, <1>10
<1>13. PICK u : u = Entail(t, n)
  OBVIOUS
<1>14. PICK c : c = t.q \o new
  OBVIOUS
<1>15. c = Append(t.q, b)
  BY <1>1, <1>6, <1>7, <1>14
<1>16. PICK d : d = At(i, w + n)
  OBVIOUS
<1>17. u = [t EXCEPT !.q = c, !.wseq = d]
  BY <1>1, <1>3, <1>5, <1>13, <1>15, <1>16 DEF Entail
<1>18. /\ IsTp(u) /\ u.q = c /\ u.wseq = d /\ u.head = t.head /\ u.una = t.una /\ u.nxt = t.nxt
       /\ u.wnd = t.wnd /\ u.out = t.out /\ u.timer = t.timer /\ u.ssthresh = t.ssthresh
       /\ u.st = t.st
  BY <1>1, <1>17 DEF IsTp, TpFields
<1>19. Mid(u, i, G[1])
  <2>1. u.q = t.q \o new /\ u.wseq = At(i, G[1]) /\ IsTp(u)
    BY <1>10, <1>14, <1>16, <1>18
  <2>2. 1 \in Nat /\ 1 > 0
    OBVIOUS
  <2> QED
    BY <1>8, <1>10, <1>11, <1>12, <1>18, <2>1, <2>2, Extend
<1> QED
  BY <1>2, <1>10, <1>13, <1>18, <1>19


\* A FIN on the last skb; if that has been sent already the FIN is beyond snd_nxt.
LEMMA FinOnTail ==
  ASSUME NEW t, NEW i \in SeqNo, NEW w \in Place, Mid(t, i, w), t.st = "ESTABLISHED", w <= Bytes,
         NEW L \in Nat, L = Len(t.q), L > 0,
         NEW u, IsTp(u), u.q \in Seq(SkbT), Len(u.q) = L, u.st # "ESTABLISHED",
         \A k \in 1 .. L : u.q[k].seq = t.q[k].seq /\ u.q[k].pc = t.q[k].pc,
         \A k \in 1 .. L - 1 : u.q[k].end = t.q[k].end,
         u.q[L].end = At(i, w + 1), u.wseq = At(i, w + 1), u.head = t.head, u.una = t.una,
         u.nxt = t.nxt, u.wnd = t.wnd, u.out = t.out, u.timer = t.timer, u.ssthresh = t.ssthresh
  PROVE  Mid(u, i, w + 1)
<1>1. PICK U \in Place, X \in Place, p \in [0 .. Len(t.q) -> Place] : Placed(t, i, U, X, w, p)
  BY DEF Mid, InStream
<1>2. Shape(t) /\ Timed(t) /\ t.una \in SeqNo
  BY DEF Mid, Shape
<1>3. t.head \in Nat /\ t.head >= 1 /\ t.head <= L + 1 /\ t.out = t.head - 1
  BY <1>2, ShapeFacts DEF Shape
<1>4. w \in Int /\ w + 1 \in Place /\ w + 1 \in Int
  BY Constants DEF Place
<1>5. u.q # <<>>
  OBVIOUS
<1>6. Shape(u)
  <2>1. ASSUME NEW k \in 1 .. Len(u.q), k < u.head PROVE u.q[k].pc = 1
    BY <1>2, <2>1 DEF Shape
  <2>2. u.head \in 1 .. Len(u.q) + 1
    BY <1>3
  <2> QED
    BY <1>2, <2>1, <2>2 DEF Shape
<1>7. Timed(u)
  BY <1>2, <1>5 DEF Timed
<1>8. PICK P : P = [k \in 0 .. L |-> IF k = L THEN w + 1 ELSE p[k]]
  OBVIOUS
<1>9. /\ P \in [0 .. L -> Place] /\ P[L] = w + 1
      /\ \A k \in 0 .. L - 1 : P[k] = p[k]
  <2>1. \A k \in 0 .. L : p[k] \in Place
    OBVIOUS
  <2> QED
    BY <1>4, <1>8, <2>1
<1>10. \A k \in 0 .. L : p[k] \in Int
  BY Constants DEF Place
<1>11. Placed(u, i, U, X, w + 1, P)
  <2>1. ASSUME NEW k \in 1 .. Len(u.q)
        PROVE  u.q[k].seq = At(i, P[k - 1]) /\ u.q[k].end = At(i, P[k])
    <3>1. k - 1 \in 0 .. L - 1 /\ k \in 1 .. Len(t.q)
      OBVIOUS
    <3>2. u.q[k].seq = At(i, P[k - 1])
      BY <1>1, <1>9, <3>1 DEF Placed
    <3>3. CASE k = L
      BY <1>9, <3>2, <3>3
    <3>4. CASE k # L
      <4>1. k \in 1 .. L - 1 /\ k \in 0 .. L - 1
        BY <3>1, <3>4
      <4>2. t.q[k].end = At(i, p[k])
        BY <1>1, <3>1 DEF Placed
      <4> QED
        BY <1>9, <3>2, <4>1, <4>2
    <3> QED
      BY <3>3, <3>4
  <2>2. ASSUME NEW j \in 0 .. Len(u.q), NEW k \in 0 .. Len(u.q), j < k
        PROVE  P[j] < P[k]
    <3>1. j \in 0 .. L - 1 /\ j \in 0 .. Len(t.q) /\ k \in 0 .. Len(t.q) /\ P[j] = p[j] /\ p[j] < p[k]
      <4>1. j \in 0 .. L - 1 /\ j \in 0 .. Len(t.q) /\ k \in 0 .. Len(t.q)
        BY <2>2
      <4> QED
        BY <1>1, <1>9, <2>2, <4>1 DEF Placed
    <3>2. CASE k = L
      <4>1. p[k] = w
        BY <1>1, <3>2 DEF Placed
      <4> QED
        BY <1>4, <1>9, <1>10, <3>1, <3>2, <4>1
    <3>3. CASE k # L
      <4>1. k \in 0 .. L - 1
        BY <3>1, <3>3
      <4> QED
        BY <1>9, <3>1, <4>1
    <3> QED
      BY <3>2, <3>3
  <2>3. P[0] <= U /\ U <= X
    <3>1. 0 \in 0 .. L - 1
      OBVIOUS
    <3> QED
      BY <1>1, <1>9, <3>1 DEF Placed
  <2>4. U < P[1]
    <3>1. U < p[1] /\ U \in Int
      BY <1>1, Constants DEF Placed, Place
    <3>2. CASE L = 1
      <4>1. p[1] = w
        BY <1>1, <3>2 DEF Placed
      <4> QED
        BY <1>4, <1>9, <3>1, <3>2, <4>1
    <3>3. CASE L # 1
      <4>1. 1 \in 0 .. L - 1
        <5>1. \A x \in Nat : x > 0 /\ x # 1 => 1 \in 0 .. x - 1
          OBVIOUS
        <5> QED
          BY <3>3, <5>1
      <4> QED
        BY <1>9, <3>1, <4>1
    <3> QED
      BY <3>2, <3>3
  <2>5. \/ X = P[u.head - 1]
        \/ u.st # "ESTABLISHED" /\ u.head = Len(u.q) + 1 /\ Len(u.q) > 0 /\ X = (w + 1) - 1
    <3>1. X = p[t.head - 1]
      BY <1>1 DEF Placed
    <3>2. CASE t.head <= L
      <4>1. t.head - 1 \in 0 .. L - 1
        BY <1>3, <3>2
      <4> QED
        BY <1>9, <3>1, <4>1
    <3>3. CASE t.head = L + 1
      <4>1. X = w
        BY <1>1, <3>1, <3>3 DEF Placed
      <4> QED
        BY <1>4, <3>3, <4>1
    <3> QED
      BY <1>3, <3>2, <3>3
  <2>6. u.una = At(i, U) /\ u.nxt = At(i, X)
    BY <1>1 DEF Placed
  <2> QED
    BY <1>9, <2>1, <2>2, <2>3, <2>4, <2>5, <2>6 DEF Placed
<1>12. InStream(u, i, w + 1)
  BY <1>9, <1>11 DEF InStream
<1> QED
  BY <1>6, <1>7, <1>12 DEF Mid

\* tcp_nip_send_fin in each of its ways.
LEMMA FinQueued ==
  ASSUME NEW t, NEW i \in SeqNo, NEW w \in Place, Mid(t, i, w), t.st = "ESTABLISHED", w <= Bytes,
         NEW alloc \in BOOLEAN
  PROVE  LET u == QueueFin([t EXCEPT !.st = "FIN_WAIT1"], alloc)
         IN  /\ u.st = "FIN_WAIT1"
             /\ \E y \in {w, w + 1} : y \in Place /\ Mid(u, i, y)
             /\ ~alloc /\ t.q = <<>> => u.q = <<>>
<1>1. IsTp(t) /\ t.q \in Seq(SkbT) /\ t.wnd \in SeqNo /\ t.ssthresh \in Nat \ {0}
  BY DEF Mid, Shape
<1>2. PICK L \in Nat : L = Len(t.q)
  BY <1>1
<1>3. PICK f : f = [t EXCEPT !.st = "FIN_WAIT1"]
  OBVIOUS
<1>4. /\ IsTp(f) /\ f.q = t.q /\ f.wseq = t.wseq /\ f.head = t.head /\ f.una = t.una
      /\ f.nxt = t.nxt /\ f.wnd = t.wnd /\ f.out = t.out /\ f.timer = t.timer
      /\ f.ssthresh = t.ssthresh /\ f.st = "FIN_WAIT1"
  BY <1>1, <1>3 DEF IsTp, TpFields
<1>5. w \in Nat /\ w + 1 \in Place /\ w + 1 \in -1 .. Bytes + 2
  BY Constants DEF Place
<1>6. t.wseq = At(i, w) /\ At(i, w) \in SeqNo /\ At(i, w + 1) \in SeqNo /\ Add(t.wseq, 1) = At(i, w + 1)
  <2>1. t.wseq = At(i, w)
    BY DEF Mid, InStream, Placed
  <2>2. Add(At(i, w), 1) = At(i, w + 1)
    BY <1>5, AtAdd
  <2> QED
    BY <1>5, <2>1, <2>2, AtDiff
<1>7. PICK u : u = QueueFin(f, alloc)
  OBVIOUS
<1>8. CASE L > 0 /\ (HasHead(f) \/ ~alloc)
  <2>1. L \in 1 .. Len(t.q)
    BY <1>2, <1>8
  <2>2. t.q[L].end = At(i, w)
    <3>1. PICK U \in Place, X \in Place, p \in [0 .. Len(t.q) -> Place] : Placed(t, i, U, X, w, p)
      BY DEF Mid, InStream
    <3> QED
      BY <1>2, <2>1, <3>1 DEF Placed
  <2>3. PICK b : b = [t.q[L] EXCEPT !.end = At(i, w + 1)]
    OBVIOUS
  <2>4. t.q[L] \in SkbT
    BY <1>1, <2>1
  <2>5. b \in SkbT /\ b.seq = t.q[L].seq /\ b.pc = t.q[L].pc /\ b.end = At(i, w + 1)
    BY <1>6, <2>3, <2>4 DEF SkbT
  <2>6. PICK Q : Q = [t.q EXCEPT ![L] = b]
    OBVIOUS
  <2>7. /\ Q \in Seq(SkbT) /\ Len(Q) = L /\ Q[L] = b
        /\ \A k \in 1 .. L : k # L => Q[k] = t.q[k]
    BY <1>1, <1>2, <2>1, <2>5, <2>6
  <2>8. u = [f EXCEPT !.q = Q, !.wseq = At(i, w + 1)]
    <3>1. Len(f.q) > 0 /\ (HasHead(f) \/ ~alloc) /\ Len(f.q) = L
      BY <1>2, <1>4, <1>8
    <3>2. u = [f EXCEPT !.q[L].end = Add(f.q[L].end, 1), !.wseq = Add(f.wseq, 1)]
      BY <1>7, <3>1 DEF QueueFin
    <3>3. Add(f.q[L].end, 1) = At(i, w + 1) /\ Add(f.wseq, 1) = At(i, w + 1)
      BY <1>4, <1>6, <2>2
    <3>4. u = [f EXCEPT !.q[L].end = At(i, w + 1), !.wseq = At(i, w + 1)]
      BY <3>2, <3>3
    <3> QED
      BY <1>4, <2>3, <2>6, <3>4
  <2>9. /\ IsTp(u) /\ u.q = Q /\ u.wseq = At(i, w + 1) /\ u.head = t.head /\ u.una = t.una
        /\ u.nxt = t.nxt /\ u.wnd = t.wnd /\ u.out = t.out /\ u.timer = t.timer
        /\ u.ssthresh = t.ssthresh /\ u.st = "FIN_WAIT1"
    BY <1>4, <2>8 DEF IsTp, TpFields
  <2>10. Mid(u, i, w + 1)
    <3>1. /\ \A k \in 1 .. L : u.q[k].seq = t.q[k].seq /\ u.q[k].pc = t.q[k].pc
          /\ \A k \in 1 .. L - 1 : u.q[k].end = t.q[k].end
          /\ u.q[L].end = At(i, w + 1) /\ u.q \in Seq(SkbT) /\ Len(u.q) = L /\ u.st # "ESTABLISHED"
      BY <2>5, <2>7, <2>9
    <3> QED
      BY <1>2, <1>8, <2>9, <3>1, FinOnTail
  <2>11. ~(t.q = <<>>)
    BY <1>2, <1>8
  <2> QED
    BY <1>3, <1>5, <1>7, <2>9, <2>10, <2>11
<1>9. CASE ~(L > 0 /\ (HasHead(f) \/ ~alloc)) /\ alloc
  <2>1. PICK b : b = Skb(At(i, w), At(i, w + 1), 1)
    OBVIOUS
  <2>2. b \in SkbT /\ b.seq = At(i, w) /\ b.end = At(i, w + 1)
    BY <1>6, <2>1 DEF Skb, SkbT
  <2>3. u = [f EXCEPT !.q = Append(f.q, b), !.wseq = At(i, w + 1)]
    <3>1. ~(Len(f.q) > 0 /\ (HasHead(f) \/ ~alloc)) /\ alloc
      BY <1>2, <1>4, <1>9
    <3>2. u = [f EXCEPT !.q = Append(f.q, Skb(f.wseq, Add(f.wseq, 1), 1)), !.wseq = Add(f.wseq, 1)]
      BY <1>7, <3>1 DEF QueueFin
    <3> QED
      BY <1>4, <1>6, <2>1, <3>2
  <2>4. Append(t.q, b) = t.q \o <<b>>
    BY <1>1, <2>2
  <2>5. PICK new : new = <<b>>
    OBVIOUS
  <2>6. new \in Seq(SkbT) /\ Len(new) = 1 /\ new[1] = b
    BY <2>2, <2>5
  <2>7. /\ IsTp(u) /\ u.q = t.q \o new /\ u.wseq = At(i, w + 1) /\ u.head = t.head /\ u.una = t.una
        /\ u.nxt = t.nxt /\ u.wnd = t.wnd /\ u.out = t.out /\ u.timer = t.timer
        /\ u.ssthresh = t.ssthresh /\ u.st = "FIN_WAIT1"
    <3>1. PICK Q : Q = Append(f.q, b)
      OBVIOUS
    <3>2. u = [f EXCEPT !.q = Q, !.wseq = At(i, w + 1)]
      BY <2>3, <3>1
    <3>3. Q = t.q \o new
      BY <1>4, <2>4, <2>5, <3>1
    <3> QED
      BY <1>4, <3>2, <3>3 DEF IsTp, TpFields
  <2>8. PICK G : G = [k \in 0 .. 1 |-> w + k]
    OBVIOUS
  <2>9. /\ G[0] = w /\ G[1] = w + 1 /\ G \in [0 .. 1 -> Place]
        /\ \A j, k \in 0 .. 1 : j < k => G[j] < G[k]
    BY <1>5, <2>8
  <2>10. \A k \in 1 .. 1 : new[k].seq = At(i, G[k - 1]) /\ new[k].end = At(i, G[k])
    <3>1. new[1].seq = At(i, G[1 - 1]) /\ new[1].end = At(i, G[1])
      BY <2>2, <2>6, <2>9
    <3> QED
      BY <3>1
  <2>11. Mid(u, i, G[1])
    <3>1. 1 \in Nat /\ 1 > 0
      OBVIOUS
    <3>2. u.wseq = At(i, G[1])
      BY <2>7, <2>9
    <3> QED
      BY <2>6, <2>7, <2>9, <2>10, <3>1, <3>2, Extend
  <2>12. Mid(u, i, w + 1)
    BY <2>9, <2>11
  <2> QED
    BY <1>3, <1>5, <1>7, <1>9, <2>7, <2>12
<1>10. CASE ~(L > 0 /\ (HasHead(f) \/ ~alloc)) /\ ~alloc
  <2>1. u = f
    BY <1>2, <1>4, <1>7, <1>10 DEF QueueFin
  <2>2. L = 0 /\ t.q = <<>>
    BY <1>1, <1>2, <1>10
  <2>3. PICK U \in Place, X \in Place, p \in [0 .. Len(t.q) -> Place] : Placed(t, i, U, X, w, p)
    BY DEF Mid, InStream
  <2>4. Placed(f, i, U, X, w, p) /\ p \in [0 .. Len(f.q) -> Place]
    BY <1>4, <2>3 DEF Placed
  <2>5. Mid(f, i, w)
    BY <1>4, <2>4 DEF Mid, Shape, Timed, InStream
  <2> QED
    BY <1>3, <1>4, <1>7, <2>1, <2>2, <2>5
<1> QED
  BY <1>2, <1>8, <1>9, <1>10


-----------------------------------------------------------------------------
(* The peer and the wire.                                                  *)

\* The network only carries what has been sent, whatever it loses.
LEMMA SentIsWithin ==
  ASSUME NEW S, NEW new, NEW max, NEW T \in Sent(S, new, max)
  PROVE  \A x \in T : x \in S \/ x \in new
  BY DEF Sent

\* The units of a segment are units of the stream or its FIN.
LEMMA UnitsOfSegment ==
  ASSUME NEW i \in SeqNo, NEW m, SegOk(i, m), NEW j \in 0 .. Diff(m.end, m.seq) - 1
  PROVE  \E r \in 0 .. Bytes : Add(m.seq, j) = At(i, r)
<1>1. CASE m.seq = m.end /\ m.seq \in SeqNo
  <2>1. \A x \in SeqNo : Diff(x, x) = 0
    BY Constants DEF Diff, SeqNo
  <2>2. Diff(m.end, m.seq) = 0
    BY <1>1, <2>1
  <2>3. j \in 0 .. 0 - 1
    BY <2>2
  <2> QED
    BY <2>3
<1>2. ASSUME NEW a \in Place, NEW b \in Place, a < b, m.seq = At(i, a), m.end = At(i, b)
      PROVE  \E r \in 0 .. Bytes : Add(m.seq, j) = At(i, r)
  <2>1. a \in Int /\ b \in Int /\ 0 <= a /\ b <= Bytes + 1
    BY Constants DEF Place
  <2>2. Diff(m.end, m.seq) = b - a
    <3>1. b >= a
      BY <1>2, <2>1
    <3> QED
      BY <1>2, <3>1, AtDiff
  <2>3. j \in 0 .. (b - a) - 1
    BY <2>2
  <2>4. a + j \in 0 .. Bytes /\ a + j \in -1 .. Bytes + 2 /\ j \in Int
    BY <2>1, <2>3, Constants
  <2>5. Add(At(i, a), j) = At(i, a + j)
    BY <2>4, AtAdd
  <2> QED
    BY <1>2, <2>4, <2>5
<1> QED
  BY <1>1, <1>2 DEF SegOk

\* The peer does not get past the end of the stream.
LEMMA InSequence ==
  ASSUME NEW i \in SeqNo, NEW r \in Place, NEW S,
         \A x \in S : \E c \in 0 .. Bytes : x = At(i, c)
  PROVE  \E d \in Place : Add(At(i, r), Least({k \in 0 .. M : Add(At(i, r), k) \notin S})) = At(i, d)
<1> DEFINE K == {k \in 0 .. M : Add(At(i, r), k) \notin S}
           n == Least(K)
<1>1. r \in Int /\ 0 <= r /\ r <= Bytes + 1
  BY Constants DEF Place
<1>2. PICK e \in Nat : e = Bytes + 1 - r
  BY <1>1, Constants
<1>3. r + e = Bytes + 1 /\ r + e \in -1 .. Bytes + 2 /\ e \in 0 .. M /\ Bytes + 1 \in Place
  BY <1>1, <1>2, Constants DEF Place
<1>4. Add(At(i, r), e) = At(i, Bytes + 1)
  BY <1>3, AtAdd
<1>5. At(i, Bytes + 1) \notin S
  <2>1. ASSUME NEW c \in 0 .. Bytes PROVE At(i, Bytes + 1) # At(i, c)
    <3>1. c \in Place /\ c # Bytes + 1
      BY Constants DEF Place
    <3> QED
      BY <1>3, <3>1, AtDiff
  <2> QED
    BY <2>1
<1>6. e \in K /\ K \in SUBSET Nat /\ K # {}
  BY <1>3, <1>4, <1>5, Constants
<1>7. n \in K /\ n <= e
  <2> HIDE DEF K
  <2> QED
    BY <1>6, LeastIsLeast
<1>8. n \in Nat
  BY <1>7, Constants
<1> HIDE DEF n, K
<1>9. r + n \in Place /\ r + n \in -1 .. Bytes + 2 /\ n \in Int
  BY <1>1, <1>2, <1>7, <1>8, Constants DEF Place
<1>10. Add(At(i, r), n) = At(i, r + n)
  BY <1>9, AtAdd
<1> QED
  BY <1>9, <1>10 DEF n, K

\* What the peer answers is within the stream.
LEMMA Answered ==
  ASSUME NEW i \in SeqNo, PeerOk(i), NEW p, NEW num, Answer(p, num), peer' = p,
         p = [nxt |-> p.nxt, have |-> p.have, edge |-> p.edge],
         \E r \in Place : p.nxt = At(i, r), p.edge \in SeqNo,
         \A x \in p.have : \E r \in 0 .. Bytes : x = At(i, r)
  PROVE  PeerOk(i)'
<1>1. PICK d : d = [ack |-> p.nxt, wnd |-> Diff(p.edge, p.nxt), num |-> num]
  OBVIOUS
<1>2. acks' \in Sent(acks, {d}, MaxAcks)
  BY <1>1 DEF Answer
<1>3. \A a \in acks' : a \in acks \/ a = d
  BY <1>2, SentIsWithin
<1>4. Diff(p.edge, p.nxt) \in SeqNo
  <2>1. p.nxt \in SeqNo
    BY AtDiff
  <2>2. p.nxt \in Int /\ p.edge \in Int
    BY <2>1, Constants DEF SeqNo
  <2> QED
    BY <2>2, AddRange
<1>5. d.ack = p.nxt /\ d.wnd \in SeqNo
  BY <1>1, <1>4
<1>6. \A a \in acks' : (\E r \in Place : a.ack = At(i, r)) /\ a.wnd \in SeqNo
  BY <1>3, <1>5 DEF PeerOk
<1> QED
  BY <1>6 DEF PeerOk

\* The peer takes a segment and answers.
LEMMA PeerReceivesKeeps ==
  ASSUME NEW i \in SeqNo, PeerOk(i), NEW m, SegOk(i, m), PeerReceives(m)
  PROVE  PeerOk(i)'
<1> DEFINE have == peer.have \cup {Add(m.seq, j) : j \in 0 .. Diff(m.end, m.seq) - 1}
           ok   == {x \in have : Diff(x, peer.nxt) < Diff(peer.edge, peer.nxt)}
           n    == Least({k \in 0 .. M : Add(peer.nxt, k) \notin ok})
           gap  == Diff(m.seq, peer.nxt)
           p    == [peer EXCEPT !.nxt = Add(peer.nxt, n), !.have = {x \in ok : Diff(x, peer.nxt) >= n}]
           num  == IF gap < M \div 2 THEN gap \div MSS ELSE 0
<1>1. peer' = p /\ Answer(p, num)
  BY DEF PeerReceives
<1>2. \A x \in have : \E r \in 0 .. Bytes : x = At(i, r)
  BY UnitsOfSegment DEF PeerOk
<1>3. \A x \in ok : \E r \in 0 .. Bytes : x = At(i, r)
  BY <1>2
<1> HIDE DEF num, have
<1>4. PICK r \in Place : peer.nxt = At(i, r)
  BY DEF PeerOk
<1>5. \E d \in Place : Add(peer.nxt, n) = At(i, d)
  <2> HIDE DEF ok
  <2> QED
    BY <1>3, <1>4, InSequence
<1>6. {x \in ok : Diff(x, peer.nxt) >= n} \in SUBSET ok
  OBVIOUS
<1>7. PICK h : h = {x \in ok : Diff(x, peer.nxt) >= n}
  OBVIOUS
<1>8. \A x \in h : \E c \in 0 .. Bytes : x = At(i, c)
  BY <1>3, <1>6, <1>7
<1> HIDE DEF ok, n
<1>9. PICK d : d = Add(peer.nxt, n)
  OBVIOUS
<1>10. PICK z : z = p
  OBVIOUS
<1>11. z = [peer EXCEPT !.nxt = d, !.have = h]
  BY <1>7, <1>9, <1>10
<1>12. peer = [nxt |-> peer.nxt, have |-> peer.have, edge |-> peer.edge] /\ peer.edge \in SeqNo
  BY DEF PeerOk
<1>13. z = [nxt |-> z.nxt, have |-> z.have, edge |-> z.edge] /\ z.nxt = d /\ z.have = h /\ z.edge = peer.edge
  BY <1>11, <1>12
<1>14. peer' = z /\ Answer(z, num)
  BY <1>1, <1>10
<1> HIDE DEF p
<1>15. \E c \in Place : z.nxt = At(i, c)
  BY <1>5, <1>9, <1>13
<1>16. z.edge \in SeqNo /\ \A x \in z.have : \E c \in 0 .. Bytes : x = At(i, c)
  BY <1>8, <1>12, <1>13
<1>17. z = [nxt |-> z.nxt, have |-> z.have, edge |-> z.edge]
  BY <1>13
<1> QED
  BY <1>14, <1>15, <1>16, <1>17, Answered

\* The peer's application reads and the window opens.
LEMMA PeerReadsKeeps ==
  ASSUME NEW i \in SeqNo, PeerOk(i), PeerReads
  PROVE  PeerOk(i)'
<1>1. PICK z : z = [peer EXCEPT !.edge = Add(peer.nxt, PeerBuf)]
  OBVIOUS
<1>2. peer' = z /\ Answer(z, 0)
  BY <1>1 DEF PeerReads
<1>3. /\ peer = [nxt |-> peer.nxt, have |-> peer.have, edge |-> peer.edge]
      /\ \E r \in Place : peer.nxt = At(i, r)
      /\ \A x \in peer.have : \E r \in 0 .. Bytes : x = At(i, r)
  BY DEF PeerOk
<1>4. Add(peer.nxt, PeerBuf) \in SeqNo
  <2>1. peer.nxt \in SeqNo
    BY <1>3, AtDiff
  <2>2. peer.nxt \in Int /\ PeerBuf \in Int
    BY <2>1, Constants, SendAssumption DEF SeqNo, SendAssumption
  <2> QED
    BY <2>2, AddRange
<1>5. PICK e \in SeqNo : e = Add(peer.nxt, PeerBuf)
  BY <1>4
<1>6. z = [nxt |-> z.nxt, have |-> z.have, edge |-> z.edge] /\ z.nxt = peer.nxt /\ z.have = peer.have
      /\ z.edge = e
  BY <1>1, <1>3, <1>5
<1>7. z = [nxt |-> z.nxt, have |-> z.have, edge |-> z.edge]
  BY <1>6
<1>8. (\E r \in Place : z.nxt = At(i, r)) /\ z.edge \in SeqNo /\ \A x \in z.have : \E r \in 0 .. Bytes : x = At(i, r)
  BY <1>3, <1>6
<1> QED
  BY <1>2, <1>7, <1>8, Answered


-----------------------------------------------------------------------------
(* The steps.                                                              *)

\* A handler's result on the socket and the wire.
LEMMA Applied ==
  ASSUME NEW i, \A m \in segs : SegOk(i, m), NEW r, Apply(r), \A m \in r.out : SegOk(i, m)
  PROVE  tp' = r.t /\ \A m \in segs' : SegOk(i, m)
<1>1. tp' = r.t /\ segs' \in Sent(segs, r.out, MaxSegs)
  BY DEF Apply
<1>2. \A m \in segs' : m \in segs \/ m \in r.out
  BY <1>1, SentIsWithin
<1> QED
  BY <1>1, <1>2

\* A pause changes the threshold only, not the queue.
LEMMA IdleKeeps ==
  ASSUME NEW t, NEW i, NEW w, Mid(t, i, w), NEW idle
  PROVE  Mid(Idle(t, idle), i, w) /\ Idle(t, idle).st = t.st
<1>1. IsTp(t) /\ t.wnd \in SeqNo /\ t.ssthresh \in Nat \ {0} /\ Low \in Nat \ {0}
  BY Constants DEF Mid, Shape
<1>2. Same(t, Idle(t, idle)) /\ Idle(t, idle).timer = t.timer
  BY <1>1 DEF Same, IsTp, TpFields, Idle
<1> QED
  BY <1>2, SameMid DEF Same

\* The steps of tcp_nip_sendmsg that leave the socket alone.
LEMMA SendmsgWaits ==
  ASSUME NEW i \in SeqNo, SendInvAt(i), (\E n \in Sizes : tcp_nip_sendmsg(n)) \/ MemoryFreed
  PROVE  SendInvAt(i)'
<1>1. tp.st = "ESTABLISHED" /\ ~Queuing /\ UNCHANGED <<tp, left, segs, acks, peer>>
  BY DEF tcp_nip_sendmsg, MemoryFreed, Queuing, Owned, NoMsg
<1>2. MsgOk'
  <2>1. ASSUME NEW n \in Sizes, tcp_nip_sendmsg(n) PROVE MsgOk'
    <3>1. n \in Nat /\ n <= left /\ left \in Nat /\ n \in 0 .. left
      BY <2>1, SendAssumption, Constants DEF SendAssumption, tcp_nip_sendmsg, SendInvAt
    <3>2. msg' = [todo |-> n, copied |-> FALSE, wait |-> FALSE]
      BY <2>1 DEF tcp_nip_sendmsg, NoMsg
    <3> QED
      BY <1>1, <3>1, <3>2 DEF MsgOk
  <2>2. CASE MemoryFreed
    <3>1. msg' = [msg EXCEPT !.wait = FALSE] /\ MsgOk
      BY <2>2 DEF MemoryFreed, SendInvAt
    <3>2. msg' = [todo |-> msg.todo, copied |-> msg.copied, wait |-> FALSE]
      BY <3>1 DEF MsgOk
    <3> QED
      BY <1>1, <3>1, <3>2 DEF MsgOk
  <2> QED
    BY <2>1, <2>2
<1>3. SocketOk(tp, i, left, FALSE)
  BY <1>1 DEF SendInvAt, SocketOk
<1>4. SocketOk(tp, i, left, Queuing')
  BY <1>3 DEF SocketOk
<1>5. SocketOk(tp, i, left, Queuing)'
  BY <1>1, <1>4
<1> QED
  BY <1>1, <1>2, <1>5 DEF SendInvAt, PeerOk

\* What tcp_nip_sendmsg has queued is pushed at the latest when it lets the socket go.
LEMMA PushedKeeps ==
  ASSUME NEW i \in SeqNo, SendInvAt(i), NEW idle, NEW k \in Nat, PushCopied(idle, k),
         Queuing \/ msg.wait \/ ~msg.copied
  PROVE  /\ \A m \in segs' : SegOk(i, m)
         /\ SocketOk(tp', i, left, FALSE)
         /\ tp'.st = tp.st
<1>1. CASE ~msg.copied
  <2>1. UNCHANGED <<tp, segs>> /\ ~Queuing
    BY <1>1 DEF PushCopied, Queuing
  <2> QED
    BY <2>1 DEF SendInvAt, SocketOk
<1>2. CASE msg.copied
  <2>1. PICK t : t = Idle(tp, idle)
    OBVIOUS
  <2>2. PICK r : r = push_pending_frames(t, k)
    OBVIOUS
  <2>3. Apply(r)
    BY <1>2, <2>1, <2>2 DEF PushCopied
  <2>4. CASE tp.st = "CLOSE"
    <3>1. Gone(tp)
      BY <2>4 DEF SendInvAt, SocketOk
    <3>2. Gone(t)
      BY <2>1, <3>1 DEF Gone, IsTp, TpFields, Idle
    <3>3. r = Result(t, {})
      BY <2>2, <3>2 DEF push_pending_frames, Gone
    <3>4. r.t = t /\ r.out = {}
      BY <3>3 DEF Result
    <3>5. tp' = t /\ \A m \in segs' : SegOk(i, m)
      BY <2>3, <3>4, Applied DEF SendInvAt
    <3> QED
      BY <2>4, <3>2, <3>5 DEF SocketOk, Gone
  <2>5. CASE tp.st # "CLOSE"
    <3>1. PICK w \in Place : /\ Mid(tp, i, w)
                             /\ w + left <= Bytes + (IF tp.st = "ESTABLISHED" THEN 0 ELSE 1)
      BY <2>5 DEF SendInvAt, SocketOk
    <3>2. Mid(t, i, w) /\ t.st = tp.st
      BY <2>1, <3>1, IdleKeeps
    <3>3. Full(r.t, i, w) /\ r.t.st = tp.st /\ \A m \in r.out : SegOk(i, m)
      <4>1. LET z == push_pending_frames(t, k)
            IN  Full(z.t, i, w) /\ z.t.st = t.st /\ \A m \in z.out : SegOk(i, m)
        BY <2>5, <3>2, Push
      <4> QED
        BY <2>2, <3>2, <4>1
    <3>4. tp' = r.t /\ \A m \in segs' : SegOk(i, m)
      BY <2>3, <3>3, Applied DEF SendInvAt
    <3> QED
      BY <2>5, <3>1, <3>3, <3>4 DEF SocketOk, Full
  <2> QED
    BY <2>4, <2>5
<1> QED
  BY <1>1, <1>2

\* tcp_nip_sendmsg waits for memory, or ends without having queued everything.
LEMMA WaitKeeps ==
  ASSUME NEW i \in SeqNo, SendInvAt(i), NEW idle, NEW k \in Nat,
         WaitForMemory(idle, k) \/ WaitFails(idle, k)
  PROVE  SendInvAt(i)'
<1>1. MsgOk /\ left \in Nat
  BY Constants DEF SendInvAt
<1>2. PushCopied(idle, k) /\ UNCHANGED <<left, acks, peer>>
  BY DEF WaitForMemory, WaitFails
<1>3. Queuing \/ msg.wait \/ ~msg.copied
  BY DEF WaitForMemory, WaitFails, Queuing
<1>4. (\A m \in segs' : SegOk(i, m)) /\ SocketOk(tp', i, left, FALSE) /\ tp'.st = tp.st
  BY <1>2, <1>3, PushedKeeps
<1>5. MsgOk' /\ ~Queuing'
  <2>1. CASE WaitForMemory(idle, k)
    <3>1. msg' = [todo |-> msg.todo, copied |-> msg.copied, wait |-> TRUE]
      BY <1>1, <2>1 DEF MsgOk, WaitForMemory
    <3> QED
      BY <1>1, <1>2, <3>1 DEF MsgOk, Owned, Queuing
  <2>2. CASE WaitFails(idle, k)
    <3>1. msg' = [todo |-> 0, copied |-> FALSE, wait |-> FALSE]
      BY <2>2 DEF WaitFails, NoMsg
    <3>2. msg'.todo \in 0 .. left /\ ~(msg'.todo > 0)
      BY <1>1, <3>1
    <3> QED
      BY <1>2, <3>1, <3>2 DEF MsgOk, Owned, Queuing
  <2> QED
    BY <2>1, <2>2
<1>6. SocketOk(tp, i, left, Queuing)'
  BY <1>2, <1>4, <1>5 DEF SocketOk
<1> QED
  BY <1>2, <1>4, <1>5, <1>6 DEF SendInvAt, PeerOk

\* One skb more, and the push after the last one, whether or not all of it is transmitted.
LEMMA QueueSkbKeeps ==
  ASSUME NEW i \in SeqNo, SendInvAt(i), NEW idle, NEW k \in Nat, QueueSkb(idle, k)
  PROVE  SendInvAt(i)'
<1>1. /\ MsgOk /\ left \in Nat /\ left \in 0 .. Bytes /\ msg.todo \in Nat /\ msg.todo > 0
      /\ msg.todo <= left /\ tp.st = "ESTABLISHED"
  BY Constants DEF SendInvAt, MsgOk, QueueSkb, Owned
<1>2. PICK n : n = Smaller(MSS, msg.todo)
  OBVIOUS
<1>3. n \in Nat /\ n > 0 /\ n <= msg.todo
  BY <1>1, <1>2, Constants DEF Smaller
<1>4. PICK t : t = Entail(tp, n)
  OBVIOUS
<1>5. /\ left' = left - n /\ UNCHANGED <<acks, peer>>
      /\ IF n = msg.todo
           THEN Apply(push_pending_frames(Idle(t, idle), k)) /\ msg' = NoMsg
           ELSE /\ tp' = t /\ msg' = [msg EXCEPT !.todo = msg.todo - n, !.copied = TRUE]
                /\ UNCHANGED segs
  BY <1>2, <1>4 DEF QueueSkb
<1>6. PICK w \in Place : Mid(tp, i, w) /\ w + left <= Bytes
  BY <1>1, Constants DEF SendInvAt, SocketOk
<1>7. w \in Nat /\ w + n <= Bytes /\ (w + n) + left' <= Bytes /\ left' \in 0 .. Bytes
  BY <1>1, <1>3, <1>5, <1>6, Constants DEF Place
<1>8. w + n \in Place /\ Mid(t, i, w + n) /\ t.st = "ESTABLISHED"
  BY <1>1, <1>3, <1>4, <1>6, <1>7, EntailKeeps
<1>9. PeerOk(i)'
  BY <1>5 DEF PeerOk, SendInvAt
<1>10. CASE n = msg.todo
  <2>1. PICK v : v = Idle(t, idle)
    OBVIOUS
  <2>2. Mid(v, i, w + n) /\ v.st = "ESTABLISHED"
    BY <1>8, <2>1, IdleKeeps
  <2>3. PICK r : r = push_pending_frames(v, k)
    OBVIOUS
  <2>4. Full(r.t, i, w + n) /\ r.t.st = "ESTABLISHED" /\ \A m \in r.out : SegOk(i, m)
    <3>1. LET z == push_pending_frames(v, k)
          IN  Full(z.t, i, w + n) /\ z.t.st = v.st /\ \A m \in z.out : SegOk(i, m)
      BY <1>8, <2>2, Push
    <3> QED
      BY <2>2, <2>3, <3>1
  <2>5. tp' = r.t /\ \A m \in segs' : SegOk(i, m)
    BY <1>5, <1>10, <2>1, <2>3, <2>4, Applied DEF SendInvAt
  <2>6. SocketOk(tp', i, left', Queuing')
    <3>1. (w + n) + left' <= Bytes + 0
      BY <1>7, Constants
    <3> QED
      BY <1>8, <2>4, <2>5, <3>1 DEF SocketOk, Full
  <2>7. MsgOk'
    <3>1. msg' = [todo |-> 0, copied |-> FALSE, wait |-> FALSE]
      BY <1>5, <1>10 DEF NoMsg
    <3>2. msg'.todo \in 0 .. left'
      BY <1>7, <3>1
    <3> QED
      BY <2>4, <2>5, <3>1, <3>2 DEF MsgOk
  <2> QED
    BY <1>7, <1>9, <2>5, <2>6, <2>7 DEF SendInvAt
<1>11. CASE n # msg.todo
  <2>1. tp' = t /\ UNCHANGED segs
    BY <1>5, <1>11
  <2>2. msg' = [todo |-> msg.todo - n, copied |-> TRUE, wait |-> msg.wait] /\ ~msg.wait
    BY <1>1, <1>5, <1>11 DEF MsgOk, QueueSkb, Owned
  <2>3. MsgOk' /\ Queuing'
    <3>1. msg'.todo \in 0 .. left' /\ msg'.todo > 0
      BY <1>1, <1>3, <1>5, <1>11, <2>2
    <3>2. msg'.copied = TRUE /\ msg'.wait = FALSE /\ tp'.st = "ESTABLISHED"
      BY <1>1, <1>8, <2>1, <2>2 DEF MsgOk
    <3>3. msg' = [todo |-> msg'.todo, copied |-> msg'.copied, wait |-> msg'.wait]
      BY <2>2
    <3>4. Queuing'
      BY <3>1, <3>2 DEF Queuing, Owned
    <3> QED
      BY <3>1, <3>2, <3>3, <3>4 DEF MsgOk
  <2>4. SocketOk(tp', i, left', Queuing')
    <3>1. (w + n) + left' <= Bytes + 0
      BY <1>7, Constants
    <3> QED
      BY <1>8, <2>1, <2>3, <3>1 DEF SocketOk
  <2> QED
    BY <1>7, <1>9, <2>1, <2>3, <2>4 DEF SendInvAt
<1> QED
  BY <1>10, <1>11


\* tcp_nip_send_fin, also when memory runs out.
LEMMA SendFinKeeps ==
  ASSUME NEW i \in SeqNo, SendInvAt(i), NEW alloc \in BOOLEAN, NEW idle, NEW k \in Nat,
         tcp_nip_send_fin(alloc, idle, k)
  PROVE  SendInvAt(i)'
<1>1. tp.st = "ESTABLISHED" /\ UNCHANGED <<msg, left, acks, peer>> /\ ~Owned /\ ~Queuing
  BY DEF tcp_nip_send_fin, Queuing
<1>2. left \in Nat /\ left \in 0 .. Bytes
  BY Constants DEF SendInvAt
<1>3. PICK w \in Place : Full(tp, i, w) /\ w + left <= Bytes
  BY <1>1, <1>2, Constants DEF SendInvAt, SocketOk
<1>4. w \in Nat /\ w <= Bytes
  BY <1>2, <1>3, Constants DEF Place
<1>5. PICK u : u = QueueFin([tp EXCEPT !.st = "FIN_WAIT1"], alloc)
  OBVIOUS
<1>6. /\ u.st = "FIN_WAIT1"
      /\ \E y \in {w, w + 1} : y \in Place /\ Mid(u, i, y)
      /\ ~alloc /\ tp.q = <<>> => u.q = <<>>
  <2>1. LET z == QueueFin([tp EXCEPT !.st = "FIN_WAIT1"], alloc)
        IN  /\ z.st = "FIN_WAIT1"
            /\ \E y \in {w, w + 1} : y \in Place /\ Mid(z, i, y)
            /\ ~alloc /\ tp.q = <<>> => z.q = <<>>
    BY <1>1, <1>3, <1>4, FinQueued DEF Full
  <2> QED
    BY <1>5, <2>1
<1>7. PICK y \in Place : Mid(u, i, y) /\ y + left <= Bytes + 1
  <2>1. PICK y \in {w, w + 1} : y \in Place /\ Mid(u, i, y)
    BY <1>6
  <2>2. y + left <= Bytes + 1
    BY <1>2, <1>3, <1>4, <2>1, Constants
  <2> QED
    BY <2>1, <2>2
<1>8. PICK r : r = IF ~alloc /\ tp.q = <<>> THEN Result(u, {}) ELSE push_pending_frames(Idle(u, idle), k)
  OBVIOUS
<1>9. Apply(r)
  BY <1>5, <1>8 DEF tcp_nip_send_fin
<1>10. Full(r.t, i, y) /\ r.t.st = "FIN_WAIT1" /\ \A m \in r.out : SegOk(i, m)
  <2>1. CASE ~alloc /\ tp.q = <<>>
    <3>1. Full(u, i, y)
      BY <1>6, <1>7, <2>1 DEF Full
    <3> QED
      BY <1>6, <1>8, <2>1, <3>1 DEF Result
  <2>2. CASE ~(~alloc /\ tp.q = <<>>)
    <3>1. PICK v : v = Idle(u, idle)
      OBVIOUS
    <3>2. Mid(v, i, y) /\ v.st = "FIN_WAIT1"
      BY <1>6, <1>7, <3>1, IdleKeeps
    <3>3. LET z == push_pending_frames(v, k)
          IN  Full(z.t, i, y) /\ z.t.st = v.st /\ \A m \in z.out : SegOk(i, m)
      BY <3>2, Push
    <3> QED
      BY <1>8, <2>2, <3>1, <3>2, <3>3
  <2> QED
    BY <2>1, <2>2
<1>11. tp' = r.t /\ \A m \in segs' : SegOk(i, m)
  BY <1>9, <1>10, Applied DEF SendInvAt
<1>12. SocketOk(tp', i, left', Queuing')
  BY <1>1, <1>7, <1>10, <1>11 DEF SocketOk, Full
<1>13. PeerOk(i)'
  BY <1>1 DEF PeerOk, SendInvAt
<1>14. MsgOk'
  BY <1>1 DEF MsgOk, Owned, SendInvAt
<1> QED
  BY <1>1, <1>2, <1>11, <1>12, <1>13, <1>14 DEF SendInvAt

\* An acknowledgement, late, repeated or new.
LEMMA RcvAckKeeps ==
  ASSUME NEW i \in SeqNo, SendInvAt(i), NEW a \in acks, NEW ss \in {Low, High}, NEW k \in Nat,
         RcvAck(a, ss, k)
  PROVE  SendInvAt(i)'
<1>1. tp.st \in {"ESTABLISHED", "FIN_WAIT1"} /\ UNCHANGED <<msg, left, acks, peer>>
  BY DEF RcvAck
<1>2. PICK w \in Place : /\ Mid(tp, i, w)
                         /\ w + left <= Bytes + (IF tp.st = "ESTABLISHED" THEN 0 ELSE 1)
  BY <1>1 DEF SendInvAt, SocketOk
<1>3. PICK A \in Place : a.ack = At(i, A) /\ a.wnd \in SeqNo
  BY DEF SendInvAt, PeerOk
<1>0. PICK ok \in BOOLEAN : ok = NoneFails(k)
  BY DEF NoneFails
<1>4. PICK r : r = tcp_nip_ack(tp, a, ss, ok)
  OBVIOUS
<1>5. Mid(r.t, i, w) /\ r.t.st = tp.st /\ \A m \in r.out : SegOk(i, m)
  <2>1. ss \in Nat \ {0} /\ Mid(tp, i, w)
    BY <1>2, Constants
  <2>2. LET z == tcp_nip_ack(tp, a, ss, ok)
        IN  Mid(z.t, i, w) /\ z.t.st = tp.st /\ \A m \in z.out : SegOk(i, m)
    BY <1>3, <2>1, TcpAck
  <2> QED
    BY <1>4, <2>2
<1>6. PICK t : t = IF tp.st = "FIN_WAIT1" /\ r.t.una = tp.wseq THEN [r.t EXCEPT !.st = "FIN_WAIT2"] ELSE r.t
  OBVIOUS
<1>7. Mid(t, i, w) /\ t.st # "CLOSE" /\ (t.st = "ESTABLISHED" <=> tp.st = "ESTABLISHED")
  <2>1. CASE tp.st = "FIN_WAIT1" /\ r.t.una = tp.wseq
    <3>1. PICK v : v = r.t
      OBVIOUS
    <3>2. t = [v EXCEPT !.st = "FIN_WAIT2"]
      BY <1>6, <2>1, <3>1
    <3>3. Mid(v, i, w) /\ v.st = "FIN_WAIT1" /\ IsTp(v)
      BY <1>5, <2>1, <3>1 DEF Mid, Shape
    <3>4. /\ IsTp(t) /\ t.q = v.q /\ t.wseq = v.wseq /\ t.head = v.head /\ t.una = v.una
          /\ t.nxt = v.nxt /\ t.wnd = v.wnd /\ t.out = v.out /\ t.timer = v.timer
          /\ t.ssthresh = v.ssthresh /\ t.st = "FIN_WAIT2"
      BY <3>2, <3>3 DEF IsTp, TpFields
    <3>5. PICK U \in Place, X \in Place, p \in [0 .. Len(v.q) -> Place] : Placed(v, i, U, X, w, p)
      BY <3>3 DEF Mid, InStream
    <3>6. Placed(t, i, U, X, w, p) /\ p \in [0 .. Len(t.q) -> Place]
      BY <3>3, <3>4, <3>5 DEF Placed
    <3>7. Shape(t) /\ Timed(t)
      BY <3>3, <3>4 DEF Mid, Shape, Timed
    <3> QED
      BY <2>1, <3>4, <3>6, <3>7 DEF Mid, InStream
  <2>2. CASE ~(tp.st = "FIN_WAIT1" /\ r.t.una = tp.wseq)
    BY <1>1, <1>5, <1>6, <2>2
  <2> QED
    BY <2>1, <2>2
<1>8. PICK p : p = IF HasHead(t) THEN push_pending_frames(t, k) ELSE Result(t, {})
  OBVIOUS
<1>9. Full(p.t, i, w) /\ p.t.st = t.st /\ \A m \in p.out : SegOk(i, m)
  <2>1. CASE HasHead(t)
    <3>1. LET z == push_pending_frames(t, k)
          IN  Full(z.t, i, w) /\ z.t.st = t.st /\ \A m \in z.out : SegOk(i, m)
      BY <1>7, Push
    <3> QED
      BY <1>8, <2>1, <3>1
  <2>2. CASE ~HasHead(t)
    <3>1. Full(t, i, w)
      BY <1>7, <2>2, AllSent
    <3> QED
      BY <1>8, <2>2, <3>1 DEF Result
  <2> QED
    BY <2>1, <2>2
<1>10. PICK R : R = Result(p.t, r.out \cup p.out)
  OBVIOUS
<1>11. Apply(R)
  BY <1>0, <1>4, <1>6, <1>8, <1>10 DEF RcvAck
<1>12. R.t = p.t /\ \A m \in R.out : SegOk(i, m)
  BY <1>5, <1>9, <1>10 DEF Result
<1>13. tp' = p.t /\ \A m \in segs' : SegOk(i, m)
  BY <1>11, <1>12, Applied DEF SendInvAt
<1>14. SocketOk(tp', i, left', Queuing') /\ MsgOk'
  <2>1. tp'.st # "CLOSE" /\ (tp'.st = "ESTABLISHED" <=> tp.st = "ESTABLISHED")
    BY <1>7, <1>9, <1>13
  <2>2. MsgOk'
    BY <1>1, <2>1 DEF MsgOk, Owned, SendInvAt
  <2> QED
    BY <1>1, <1>2, <1>9, <1>13, <2>1, <2>2 DEF SocketOk, Full
<1>15. PeerOk(i)'
  BY <1>1 DEF PeerOk, SendInvAt
<1> QED
  BY <1>1, <1>13, <1>14, <1>15 DEF SendInvAt

\* tcp_nip_write_timer, for the retransmission and for the probe.
LEMMA WriteTimerKeeps ==
  ASSUME NEW i \in SeqNo, SendInvAt(i), NEW ok \in BOOLEAN, tcp_nip_write_timer(ok)
  PROVE  SendInvAt(i)'
<1>1. tp.timer # "none" /\ ~Owned /\ ~Queuing /\ UNCHANGED <<msg, left, acks, peer>>
  BY DEF tcp_nip_write_timer, Queuing
<1>2. tp.st # "CLOSE"
  BY <1>1 DEF SendInvAt, SocketOk, Gone
<1>3. PICK w \in Place : /\ Full(tp, i, w)
                         /\ w + left <= Bytes + (IF tp.st = "ESTABLISHED" THEN 0 ELSE 1)
  BY <1>1, <1>2 DEF SendInvAt, SocketOk
<1>4. Shape(tp) /\ InStream(tp, i, w) /\ Timed(tp) /\ IsTp(tp) /\ tp.out \in Nat
  BY <1>3, ShapeFacts DEF Full, Mid, Shape
<1>5. PICK t : t = [tp EXCEPT !.timer = "none"]
  OBVIOUS
<1>6. Same(tp, t) /\ t.timer = "none"
  BY <1>4, <1>5 DEF Same, IsTp, TpFields, Shape
<1>7. Shape(t) /\ InStream(t, i, w) /\ t.out = tp.out /\ t.q = tp.q /\ t.st = tp.st
  BY <1>4, <1>6, SameKeeps DEF Same
<1>8. PICK r : r = IF tp.timer = "RETRANS" THEN tcp_nip_retransmit_timer(t, ok) ELSE tcp_nip_probe_timer(t, ok)
  OBVIOUS
<1>9. Apply(r)
  BY <1>5, <1>8 DEF tcp_nip_write_timer
<1>10. (\A m \in r.out : SegOk(i, m)) /\ (Gone(r.t) \/ (Full(r.t, i, w) /\ r.t.st = tp.st))
  <2>1. CASE tp.timer = "RETRANS"
    <3>1. t.out > 0
      BY <1>4, <1>7, <2>1 DEF Timed
    <3>2. LET z == tcp_nip_retransmit_timer(t, ok)
          IN  /\ \A m \in z.out : SegOk(i, m)
              /\ Gone(z.t) \/ (Full(z.t, i, w) /\ z.t.st = t.st)
      BY <1>7, <3>1, RetransmitTimer
    <3>3. r = tcp_nip_retransmit_timer(t, ok)
      BY <1>8, <2>1
    <3> QED
      BY <1>7, <3>2, <3>3
  <2>2. CASE tp.timer # "RETRANS"
    <3>1. t.out = 0 /\ t.q # <<>> /\ t.q[1].pc = 1
      BY <1>1, <1>3, <1>4, <1>7, <2>2 DEF Timed, Full
    <3>2. Mid(t, i, w)
      BY <1>6, <1>7, <3>1 DEF Mid, Timed
    <3>3. LET z == tcp_nip_probe_timer(t, ok)
          IN  /\ \A m \in z.out : SegOk(i, m)
              /\ Gone(z.t) \/ (Full(z.t, i, w) /\ z.t.st = t.st)
      BY <3>1, <3>2, ProbeTimer
    <3>4. r = tcp_nip_probe_timer(t, ok)
      BY <1>8, <2>2
    <3> QED
      BY <1>7, <3>3, <3>4
  <2> QED
    BY <2>1, <2>2
<1>11. tp' = r.t /\ \A m \in segs' : SegOk(i, m)
  BY <1>9, <1>10, Applied DEF SendInvAt
<1>12. SocketOk(tp', i, left', Queuing')
  <2>1. CASE Gone(r.t)
    BY <1>11, <2>1 DEF SocketOk, Gone
  <2>2. CASE Full(r.t, i, w) /\ r.t.st = tp.st
    BY <1>1, <1>2, <1>3, <1>11, <2>2 DEF SocketOk, Full
  <2> QED
    BY <1>10, <2>1, <2>2
<1>13. PeerOk(i)'
  BY <1>1 DEF PeerOk, SendInvAt
<1>14. MsgOk'
  BY <1>1 DEF MsgOk, Owned, SendInvAt
<1> QED
  BY <1>1, <1>11, <1>12, <1>13, <1>14 DEF SendInvAt


\* An established connection with nothing written.
LEMMA SendInvInit == Init => SendInv
<1> SUFFICES ASSUME Init PROVE SendInv
  OBVIOUS
<1>1. PICK i \in Isn, wnd \in InitWnd :
        /\ tp = [q |-> <<>>, head |-> 1, una |-> i, nxt |-> i, wseq |-> i, wnd |-> wnd,
                 out |-> 0, timer |-> "none", rtx |-> 0, probes |-> 0, sacked |-> 0,
                 selEnd |-> 0, rseq |-> 0, ssthresh |-> High, st |-> "ESTABLISHED"]
        /\ msg = NoMsg /\ left = Bytes /\ segs = {} /\ acks = {}
        /\ peer = [nxt |-> i, have |-> {}, edge |-> Add(i, wnd)]
  BY DEF Init
<1>2. i \in SeqNo /\ wnd \in SeqNo /\ wnd \in Int /\ i \in Int
  BY Constants, SendAssumption DEF SeqNo, SendAssumption
<1>3. 0 \in Place /\ High \in Nat \ {0} /\ Bytes \in 0 .. Bytes /\ 0 + Bytes <= Bytes + 0
  BY Constants DEF Place
<1>4. At(i, 0) = i
  BY <1>2, Constants, ModNear DEF At, Add, SeqNo
<1>5. PICK p : p = [k \in 0 .. 0 |-> 0]
  OBVIOUS
<1>6. p \in [0 .. 0 -> Place] /\ p[0] = 0
  BY <1>3, <1>5
<1>7. /\ tp.q = <<>> /\ tp.head = 1 /\ tp.una = i /\ tp.nxt = i /\ tp.wseq = i /\ tp.wnd = wnd
      /\ tp.out = 0 /\ tp.timer = "none" /\ tp.ssthresh = High /\ tp.st = "ESTABLISHED"
  BY <1>1
<1>8. IsTp(tp)
  BY <1>1 DEF IsTp, TpFields
<1>9. Len(tp.q) = 0 /\ tp.q \in Seq(SkbT)
  BY <1>7
<1>10. Placed(tp, i, 0, 0, 0, p)
  BY <1>3, <1>4, <1>6, <1>7, <1>9 DEF Placed
<1>11. Shape(tp) /\ Timed(tp)
  BY <1>2, <1>3, <1>7, <1>8, <1>9 DEF Shape, Timed
<1>12. Full(tp, i, 0)
  BY <1>3, <1>6, <1>7, <1>9, <1>10, <1>11 DEF Full, Mid, InStream
<1>13. SocketOk(tp, i, left, Queuing) /\ MsgOk
  <2>1. msg = [todo |-> 0, copied |-> FALSE, wait |-> FALSE] /\ 0 \in 0 .. left
    BY <1>1, Constants DEF NoMsg
  <2> QED
    BY <1>1, <1>3, <1>7, <1>12, <2>1 DEF SocketOk, MsgOk, Owned, Full
<1>14. PeerOk(i)
  <2>1. Add(i, wnd) \in SeqNo
    BY <1>2, AddRange
  <2> QED
    BY <1>1, <1>3, <1>4, <2>1 DEF PeerOk
<1>15. SendInvAt(i)
  BY <1>1, <1>3, <1>13, <1>14 DEF SendInvAt
<1> QED
  BY <1>2, <1>15 DEF SendInv

\* Every step keeps the invariant.
LEMMA SendInvNext == SendInv /\ [Next]_vars => SendInv'
<1> SUFFICES ASSUME SendInv, [Next]_vars PROVE SendInv'
  OBVIOUS
<1>1. PICK i \in SeqNo : SendInvAt(i)
  BY DEF SendInv
<1>2. CASE UNCHANGED vars
  BY <1>1, <1>2 DEF SendInv, SendInvAt, PeerOk, MsgOk, Owned, Queuing, vars
<1>0. \A k \in Successes : k \in Nat
  BY DEF Successes
<1>3. ASSUME (\E n \in Sizes : tcp_nip_sendmsg(n)) \/ MemoryFreed
      PROVE  SendInvAt(i)'
  BY <1>1, <1>3, SendmsgWaits
<1>4. ASSUME NEW k \in Successes, NEW idle \in BOOLEAN,
             QueueSkb(idle, k) \/ WaitForMemory(idle, k) \/ WaitFails(idle, k)
      PROVE  SendInvAt(i)'
  BY <1>0, <1>1, <1>4, QueueSkbKeeps, WaitKeeps
<1>5. ASSUME NEW k \in Successes, NEW alloc \in BOOLEAN, NEW idle \in BOOLEAN,
             tcp_nip_send_fin(alloc, idle, k)
      PROVE  SendInvAt(i)'
  BY <1>0, <1>1, <1>5, SendFinKeeps
<1>6. ASSUME NEW k \in Successes, NEW a \in acks, NEW ss \in {Low, High}, RcvAck(a, ss, k)
      PROVE  SendInvAt(i)'
  BY <1>0, <1>1, <1>6, RcvAckKeeps
<1>11. ASSUME NEW k \in Successes, tcp_nip_write_timer(NoneFails(k))
      PROVE  SendInvAt(i)'
  <2>1. NoneFails(k) \in BOOLEAN
    BY DEF NoneFails
  <2> QED
    BY <1>1, <1>11, <2>1, WriteTimerKeeps
<1>7. ASSUME NEW m \in segs, PeerReceives(m)
      PROVE  SendInvAt(i)'
  <2>1. PeerOk(i)'
    BY <1>1, <1>7, PeerReceivesKeeps DEF SendInvAt
  <2>2. segs' = segs \ {m} /\ UNCHANGED <<tp, msg, left>>
    BY <1>7 DEF PeerReceives
  <2> QED
    BY <1>1, <2>1, <2>2 DEF SendInvAt, MsgOk, Owned, Queuing
<1>8. CASE PeerReads
  <2>1. PeerOk(i)'
    BY <1>1, <1>8, PeerReadsKeeps DEF SendInvAt
  <2>2. UNCHANGED <<tp, msg, left, segs>>
    BY <1>8 DEF PeerReads
  <2> QED
    BY <1>1, <2>1, <2>2 DEF SendInvAt, SendInv, MsgOk, Owned, Queuing
<1>9. ASSUME NEW a \in acks, Lose(a)
      PROVE  SendInvAt(i)'
  BY <1>1, <1>9 DEF SendInvAt, PeerOk, MsgOk, Owned, Queuing, Lose
<1> QED
  BY <1>1, <1>2, <1>3, <1>4, <1>5, <1>6, <1>7, <1>8, <1>9, <1>11
     DEF Next, Sendmsg, WriteTimer, SendInv

\* SendInv holds in every reachable state.
LEMMA SendInvariant == Spec => []SendInv
  BY SendInvInit, SendInvNext, PTL DEF Spec

-----------------------------------------------------------------------------
(* What follows.                                                           *)

\* The places of the queue give the property of the sequence numbers.
LEMMA CoversStream ==
  ASSUME NEW i \in SeqNo, NEW w \in Place, Mid(tp, i, w)
  PROVE  QueueCoversStream
<1>1. PICK U \in Place, X \in Place, p \in [0 .. Len(tp.q) -> Place] : Placed(tp, i, U, X, w, p)
  BY DEF Mid, InStream
<1>2. PICK n \in Nat : n = Len(tp.q)
  BY ShapeFacts DEF Mid
<1>3. tp.head \in Nat /\ tp.head >= 1 /\ tp.head <= n + 1
  BY <1>2, ShapeFacts DEF Mid
<1>4. /\ \A k \in 1 .. n : tp.q[k].seq = At(i, p[k - 1]) /\ tp.q[k].end = At(i, p[k])
      /\ tp.una = At(i, U) /\ tp.nxt = At(i, X) /\ tp.wseq = At(i, w)
      /\ p[n] = w /\ p[0] <= U /\ U <= X /\ (n > 0 => U < p[1])
      /\ \/ X = p[tp.head - 1]
         \/ tp.head = n + 1 /\ n > 0 /\ X = w - 1
  BY <1>1, <1>2 DEF Placed
<1>5. \A k \in 0 .. n : p[k] \in Place /\ p[k] \in Int
  BY <1>2, Constants DEF Place
<1>6. U \in Int /\ X \in Int /\ w \in Int
  BY Constants DEF Place
<1>7. ASSUME NEW k \in 1 .. n - 1 PROVE tp.q[k].end = tp.q[k + 1].seq
  <2>1. k \in 1 .. n /\ k + 1 \in 1 .. n /\ (k + 1) - 1 = k
    OBVIOUS
  <2> QED
    BY <1>4, <2>1
<1>8. ASSUME n > 0
      PROVE  tp.q[n].end = tp.wseq /\ ~After(tp.q[1].seq, tp.una) /\ After(tp.q[1].end, tp.una)
  <2>1. n \in 1 .. n /\ 1 \in 1 .. n /\ 1 - 1 = 0 /\ 0 \in 0 .. n /\ 1 \in 0 .. n
    BY <1>8
  <2>2. tp.q[n].end = At(i, w) /\ tp.q[1].seq = At(i, p[0]) /\ tp.q[1].end = At(i, p[1])
    BY <1>4, <2>1
  <2>3. p[0] \in Place /\ p[1] \in Place /\ ~(p[0] > U) /\ p[1] > U
    BY <1>4, <1>5, <1>6, <1>8, <2>1
  <2>4. ~After(At(i, p[0]), At(i, U)) /\ After(At(i, p[1]), At(i, U))
    BY <2>3, AtDiff
  <2> QED
    BY <1>4, <2>2, <2>4
<1>9. ASSUME n = 0 PROVE tp.una = tp.wseq
  <2>1. tp.head - 1 = 0 /\ 0 \in 0 .. n
    BY <1>3, <1>9
  <2>2. X = w /\ p[0] = w
    BY <1>4, <1>9, <2>1
  <2>3. U = w
    BY <1>4, <1>6, <2>2
  <2> QED
    BY <1>4, <2>3
<1>10. ~Before(tp.nxt, tp.una)
  <2>1. ~(U > X)
    BY <1>4, <1>6
  <2> QED
    BY <1>4, <2>1, AtDiff DEF Before
<1>12. tp.nxt = IF HasHead(tp) THEN tp.q[tp.head].seq
                ELSE IF n > 0 /\ ~HasHead(tp) /\ tp.wseq = Add(tp.nxt, 1) THEN Add(tp.wseq, -1)
                ELSE tp.wseq
  <2>1. CASE HasHead(tp)
    <3>1. tp.head \in 1 .. n /\ tp.head # n + 1
      BY <1>2, <1>3, <2>1 DEF HasHead
    <3> QED
      BY <1>4, <2>1, <3>1
  <2>2. CASE ~HasHead(tp)
    <3>1. tp.head = n + 1 /\ tp.head - 1 = n
      BY <1>2, <1>3, <2>2 DEF HasHead
    <3>2. CASE X = p[tp.head - 1]
      <4>1. X = w
        BY <1>4, <3>1, <3>2
      <4>2. \A x \in SeqNo : Add(x, 1) # x
        <5>1. SUFFICES ASSUME NEW x \in SeqNo PROVE Add(x, 1) # x
          OBVIOUS
        <5>2. x \in Int /\ 0 <= x /\ x < M /\ M > 1 /\ M \in Nat
          BY Constants DEF SeqNo
        <5>3. CASE x + 1 < M
          <6>1. x + 1 \in 0 .. M - 1
            BY <5>2, <5>3
          <6>2. (x + 1) % M = x + 1
            BY <5>2, <6>1, ModNear
          <6> QED
            BY <5>2, <6>2 DEF Add
        <5>4. CASE x + 1 = M
          <6>1. x + 1 = 0 + M /\ 0 \in 0 .. M - 1 /\ x + 1 \in Int
            BY <5>2, <5>4
          <6>2. (x + 1) % M = 0
            BY <5>2, <6>1, ModIs
          <6> QED
            BY <5>2, <5>4, <6>2 DEF Add
        <5> QED
          BY <5>2, <5>3, <5>4
      <4>3. tp.wseq = tp.nxt /\ tp.nxt \in SeqNo
        BY <1>4, <4>1, AtDiff
      <4>4. tp.wseq # Add(tp.nxt, 1)
        BY <4>2, <4>3
      <4> QED
        BY <2>2, <4>3, <4>4
    <3>3. CASE n > 0 /\ X = w - 1
      <4>1. X + 1 = w /\ w + (-1) = X /\ w \in -1 .. Bytes + 2 /\ X \in -1 .. Bytes + 2
        BY <1>6, <3>3, Constants DEF Place
      <4>2. Add(At(i, X), 1) = At(i, X + 1)
        BY <4>1, AtAdd
      <4>3. Add(At(i, w), -1) = At(i, w + (-1))
        BY <4>1, AtAdd
      <4>4. tp.wseq = Add(tp.nxt, 1) /\ tp.nxt = Add(tp.wseq, -1)
        BY <1>4, <4>1, <4>2, <4>3
      <4> QED
        BY <2>2, <3>3, <4>4
    <3> QED
      BY <1>4, <3>2, <3>3
  <2> QED
    BY <2>1, <2>2
<1> QED
  BY <1>2, <1>7, <1>8, <1>9, <1>10, <1>12 DEF QueueCoversStream

\* The write queue covers the stream from the first unacknowledged unit on, and the send head
\* is where snd_nxt is, for every modulus, segment size and window, and for every order of
\* writes, acknowledgements, timeouts, probes and failures.
THEOREM StreamIsCovered == Spec => []QueueCoversStream
<1>1. SendInv => QueueCoversStream
  <2> SUFFICES ASSUME SendInv PROVE QueueCoversStream
    OBVIOUS
  <2>1. PICK i \in SeqNo : SocketOk(tp, i, left, Queuing)
    BY DEF SendInv, SendInvAt
  <2>2. CASE tp.st = "CLOSE"
    BY <2>2 DEF QueueCoversStream
  <2>3. CASE tp.st # "CLOSE"
    <3>1. PICK w \in Place : Mid(tp, i, w)
      BY <2>1, <2>3 DEF SocketOk
    <3> QED
      BY <3>1, CoversStream
  <2> QED
    BY <2>2, <2>3
<1> QED
  BY <1>1, SendInvariant, PTL

\* packets_out is the number of skbs sent and not acknowledged, although skbs are cut,
\* fragmented and sent again.
THEOREM PacketsOutCounted == Spec => []PacketsOutExact
<1>1. SendInv => PacketsOutExact
  <2> SUFFICES ASSUME SendInv PROVE PacketsOutExact
    OBVIOUS
  <2>1. PICK i \in SeqNo : SocketOk(tp, i, left, Queuing)
    BY DEF SendInv, SendInvAt
  <2>2. CASE tp.st = "CLOSE"
    BY <2>1, <2>2 DEF SocketOk, Gone, PacketsOutExact
  <2>3. CASE tp.st # "CLOSE"
    BY <2>1, <2>3 DEF SocketOk, Mid, Shape, PacketsOutExact
  <2> QED
    BY <2>2, <2>3
<1> QED
  BY <1>1, SendInvariant, PTL

\* While something is in the write queue the right timer runs: no handler, failure or closed
\* window or wait for memory leaves the queue without one.
THEOREM QueueIsTimed == Spec => []TimerCoversQueue
<1>1. SendInv => TimerCoversQueue
  <2> SUFFICES ASSUME SendInv, tp.q # <<>>
               PROVE  IF tp.out > 0 THEN tp.timer = "RETRANS" ELSE tp.timer = "PROBE0" \/ Queuing
    BY DEF TimerCoversQueue
  <2>1. PICK i \in SeqNo : SocketOk(tp, i, left, Queuing)
    BY DEF SendInv, SendInvAt
  <2>2. tp.st # "CLOSE"
    BY <2>1 DEF SocketOk, Gone
  <2>3. PICK w \in Place : Mid(tp, i, w) /\ (Queuing \/ Full(tp, i, w))
    BY <2>1, <2>2 DEF SocketOk
  <2>4. tp.out \in Nat
    BY <2>3, ShapeFacts DEF Mid
  <2> QED
    BY <2>3, <2>4 DEF Full, Mid, Timed
<1> QED
  BY <1>1, SendInvariant, PTL
=============================================================================
