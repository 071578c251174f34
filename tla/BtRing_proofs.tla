---------------------------- MODULE BtRing_proofs ----------------------------
(***************************************************************************)
(* Theorems about BtRing, for rings of every size.                         *)
(***************************************************************************)
EXTENDS BtRing, SequenceTheorems, TLAPS

USE RingAssumption DEF RingAssumption

\* The remainders that occur when an index of the ring is moved.
LEMMA Wrap ==
  ASSUME NEW x \in Int
  PROVE  /\ x \in 0 .. Size - 1 => x % Size = x
         /\ x \in Size .. 2 * Size - 1 => x % Size = x - Size
         /\ x \in -Size .. -1 => x % Size = x + Size
  OBVIOUS

-----------------------------------------------------------------------------
(* The inductive invariant.                                                *)

\* One thread reads: read_open_limit gives the one file, and no thread shares it.
OneReader == \A r, s \in Reader : r = s

\* Slot i holds a packet.
Held(i) == IF tail <= head THEN tail <= i /\ i < head ELSE tail <= i \/ i < head

\* The stack still owns skb: it has not been published in the ring.
Owned == skb # None /\ (xpc = "produce" => "head" \in stores)

\* bt_ring_produce is given a packet when there is room, and writes the slot before
\* it moves the head.
ProduceInv ==
  /\ xpc = "produce" => skb # None
  /\ stores # {} => xpc = "produce" /\ "head" \in stores /\ (head + 1) % Size # tail
  /\ "head" \in stores /\ "data" \notin stores => data[head] = skb

\* Between the test for an empty ring and bt_ring_consume the oldest packet stays the same.
ReadInv ==
  \A r \in Reader :
    /\ rpc[r] \in {"ready", "got", "consume"} => head # tail
    /\ rpc[r] \in {"got", "consume"} => rskb[r] = data[tail]
    /\ rpc[r] = "consume" => rtail[r] = tail

\* Every allocated packet has one owner: the stack, one slot, or the reader.
OwnerInv ==
  /\ \A i \in Index : Held(i) => data[i] \in alloc
  /\ \A i, j \in Index : Held(i) /\ Held(j) /\ i # j => data[i] # data[j]
  /\ Owned => skb \in alloc /\ \A i \in Index : Held(i) => data[i] # skb
  /\ \A r \in Reader : rpc[r] = "copy" =>
       /\ rskb[r] \in alloc
       /\ \A i \in Index : Held(i) => data[i] # rskb[r]
       /\ Owned => skb # rskb[r]

RingInv == TypeOK /\ ProduceInv /\ ReadInv /\ OwnerInv

\* The bounds of the indices are all that the arithmetic below needs of the types.
LEMMA Indices == RingInv => head \in Index /\ tail \in Index
  BY DEF RingInv, TypeOK

\* Where the head and the tail move to.
LEMMA NextIndex ==
  ASSUME NEW i \in Index
  PROVE  (i + 1) % Size = IF i = Size - 1 THEN 0 ELSE i + 1
  BY Wrap DEF Index

\* The initial ring is empty and nobody is at work.
LEMMA RingInit == Init => RingInv
<1> SUFFICES ASSUME Init PROVE RingInv
  OBVIOUS
<1>1. TypeOK
  <2>1. 0 \in Index /\ data \in [Index -> Packet \cup {None}]
    BY DEF Init, Index
  <2> QED
    BY <2>1 DEF Init, TypeOK
<1>2. \A i \in Index : ~Held(i)
  BY DEF Init, Held, Index
<1>3. ProduceInv /\ ReadInv /\ OwnerInv
  BY <1>2 DEF Init, ProduceInv, ReadInv, OwnerInv, Owned
<1> QED
  BY <1>1, <1>3 DEF RingInv

\* Every step of the transmitter and the reader preserves the ownership of packets.
LEMMA RingStep ==
  ASSUME StoresInOrder, OneReader, RingInv, [Next]_vars
  PROVE  RingInv'
<1> USE DEF RingInv, TypeOK, ProduceInv, ReadInv, OwnerInv, Held, Owned, Index,
            xmitVars, readVars
<1>1. ASSUME NEW p \in Packet, Queue(p)
      PROVE  RingInv'
  BY <1>1 DEF Queue
<1>2. CASE XmitFull
  BY <1>2 DEF XmitFull
<1>3. CASE XmitStop
  BY <1>3 DEF XmitStop
<1>4. CASE XmitRoom
  BY <1>4 DEF XmitRoom, bt_ring_is_full
<1>5. CASE StoreData
  BY <1>5 DEF StoreData
<1>6. CASE StoreHead
  <2>1. head' = IF head = Size - 1 THEN 0 ELSE head + 1
    BY <1>6, NextIndex DEF StoreHead
  <2>2. /\ head' # tail /\ data[head] = skb /\ xpc = "produce" /\ skb \in Packet
        /\ stores' = {} /\ ~Owned'
        /\ UNCHANGED <<tail, data, stopped, alloc, xpc, skb, readVars>>
    BY <1>6 DEF StoreHead
  <2>3. \A i \in Index : Held(i)' <=> Held(i) \/ i = head
    BY <2>1, <2>2
  <2>4. TypeOK' /\ ProduceInv' /\ ReadInv'
    BY <2>1, <2>2
  <2>5. OwnerInv'
    <3> HIDE DEF Held, Owned
    <3>1. Owned /\ head \in Index
      BY <1>6 DEF StoreHead, Owned
    <3> QED
      BY <2>2, <2>3, <3>1
  <2> QED
    BY <2>4, <2>5
<1>7. CASE XmitWake
  BY <1>7 DEF XmitWake
<1>8. ASSUME NEW r \in Reader, Read(r) \/ ReadInterrupted(r)
      PROVE  RingInv'
  <2> USE DEF At
  <2>0. \A s \in Reader : s = r
    BY DEF OneReader
  <2>1. CASE ReadSleep(r)
    BY <2>1 DEF ReadSleep
  <2>2. CASE ReadInterrupted(r)
    BY <2>2 DEF ReadInterrupted
  <2>3. CASE ReadTest(r)
    BY <2>3 DEF ReadTest, bt_ring_is_empty
  <2>4. CASE ReadCurrent(r)
    BY <2>4 DEF ReadCurrent
  <2>5. CASE ReadTooSmall(r)
    BY <2>5 DEF ReadTooSmall
  <2>6. CASE ReadLoad(r)
    BY <2>6 DEF ReadLoad
  <2>7. CASE ReadConsume(r)
    <3>1. tail' = IF tail = Size - 1 THEN 0 ELSE tail + 1
      BY <2>7, NextIndex DEF ReadConsume
    <3>2. /\ head # tail /\ rskb[r] = data[tail] /\ taken' = rskb[r]
          /\ rpc' = [rpc EXCEPT ![r] = "copy"] /\ data[tail] \in alloc
          /\ UNCHANGED <<head, data, stopped, alloc, xmitVars, rskb, rtail>>
      BY <2>7 DEF ReadConsume
    <3>3. \A i \in Index : Held(i)' => Held(i) /\ i # tail
      BY <3>1, <3>2
    <3>4. TypeOK'
      BY <3>1, <3>2, <2>7 DEF ReadConsume
    <3>5. ProduceInv'
      <4>1. (head + 1) % Size = IF head = Size - 1 THEN 0 ELSE head + 1
        BY NextIndex
      <4>2. (head + 1) % Size # tail'
        BY <3>1, <3>2, <4>1
      <4>3. UNCHANGED <<xpc, skb, stores, head, data>> /\ ProduceInv
        BY <3>2
      <4> QED
        <5> HIDE DEF RingInv, TypeOK, ReadInv, OwnerInv, Index
        <5> QED
          BY <4>2, <4>3
    <3>6. ReadInv'
      BY <2>0, <3>2
    <3>7. OwnerInv'
      <4> HIDE DEF Held, Owned
      <4>1. Held(tail) /\ tail \in Index
        BY <3>2 DEF Held
      <4>2. Owned' = Owned
        BY <3>2 DEF Owned
      <4> QED
        BY <2>0, <3>2, <3>3, <4>1, <4>2
    <3> QED
      BY <3>4, <3>5, <3>6, <3>7
  <2>8. CASE ReadFault(r)
    BY <2>8 DEF ReadFault
  <2>9. CASE ReadFree(r)
    BY <2>0, <2>9 DEF ReadFree
  <2>10. CASE ReadWake(r)
    BY <2>10 DEF ReadWake
  <2> QED
    BY <1>8, <2>1, <2>2, <2>3, <2>4, <2>5, <2>6, <2>7, <2>8, <2>9, <2>10 DEF Read
<1>9. CASE UNCHANGED vars
  BY <1>9 DEF vars
<1> QED
  BY <1>1, <1>2, <1>3, <1>4, <1>5, <1>6, <1>7, <1>8, <1>9 DEF Next, Xmit

-----------------------------------------------------------------------------
(* Refinement.                                                             *)

\* What Used and the slots of the packets are, without remainders.
Layout ==
  /\ Used = IF tail <= head THEN head - tail ELSE head - tail + Size
  /\ \A i \in 1 .. Used :
       /\ (tail + i - 1) % Size =
            IF tail + i - 1 < Size THEN tail + i - 1 ELSE tail + i - 1 - Size
       /\ (tail + i - 1) % Size \in Index
       /\ Held((tail + i - 1) % Size)

\* The contents of the ring are a sequence of packets.
ContentsOK ==
  Contents \in Seq(Packet) /\ Len(Contents) = Used /\ Used \in 0 .. Size - 1

\* The distance from tail to head, and the slots of the packets in between, whichever
\* of the two indices has wrapped around.
LEMMA RingLayout == RingInv => Layout /\ ContentsOK
<1> SUFFICES ASSUME RingInv PROVE Layout /\ ContentsOK
  OBVIOUS
<1>1. Used = IF tail <= head THEN head - tail ELSE head - tail + Size
  BY Wrap, Indices DEF Used, Index
<1>2. ASSUME NEW i \in 1 .. Used
      PROVE  (tail + i - 1) % Size =
               IF tail + i - 1 < Size THEN tail + i - 1 ELSE tail + i - 1 - Size
  BY <1>1, Wrap DEF RingInv, TypeOK, Index
<1>3. ASSUME NEW i \in 1 .. Used
      PROVE  (tail + i - 1) % Size \in Index /\ Held((tail + i - 1) % Size)
  BY <1>1, <1>2 DEF RingInv, TypeOK, Index, Held
<1>4. Used \in 0 .. Size - 1
  BY <1>1 DEF RingInv, TypeOK, Index
<1>5. \A i \in 1 .. Used : data[(tail + i - 1) % Size] \in Packet
  BY <1>3 DEF RingInv, TypeOK, OwnerInv
<1>6. Contents \in [1 .. Used -> Packet]
  BY <1>5 DEF Contents
<1>7. Contents \in Seq(Packet) /\ Len(Contents) = Used
  BY <1>4, <1>6, SeqDef
<1> QED
  BY <1>1, <1>2, <1>3, <1>4, <1>7 DEF Layout, ContentsOK

\* Moving the head appends the packet that bt_ring_produce was given.
LEMMA ProduceIsPut ==
  ASSUME StoresInOrder, RingInv, RingInv', StoreHead
  PROVE  Fifo!Put(skb)
<1>0. Layout /\ ContentsOK /\ Layout' /\ ContentsOK'
  <2>1. (RingInv => Layout /\ ContentsOK)'
    BY RingLayout, PTL
  <2> QED
    BY <2>1, RingLayout
<1>1. head' = IF head = Size - 1 THEN 0 ELSE head + 1
  BY NextIndex, Indices DEF StoreHead
<1>2. /\ head' # tail /\ data[head] = skb /\ skb \in Packet
      /\ UNCHANGED <<tail, data, taken>>
  BY DEF StoreHead, RingInv, TypeOK, ProduceInv, readVars
<1>3. Used' = Used + 1 /\ Used < Size - 1
  BY <1>0, <1>1, <1>2 DEF Layout, RingInv, TypeOK, Index
<1>4. (tail + Used) % Size = head
  BY <1>0, <1>2, Wrap, Indices DEF Layout, Index
<1>5. Contents' = Append(Contents, skb)
  <2>1. Contents' \in Seq(Packet) /\ Len(Contents') = Used + 1
    BY <1>0, <1>3 DEF ContentsOK
  <2>2. Contents \in Seq(Packet) /\ Len(Contents) = Used /\ Used \in Nat
    BY <1>0 DEF ContentsOK
  <2>3. \A i \in 1 .. Used : Contents'[i] = Contents[i]
    BY <1>2, <1>3, <2>2 DEF Contents
  <2>4. Contents'[Used + 1] = skb
    BY <1>2, <1>3, <1>4, <2>2 DEF Contents
  <2> QED
    BY <1>2, <2>1, <2>2, <2>3, <2>4
<1> QED
  BY <1>0, <1>2, <1>3, <1>5 DEF ContentsOK, Fifo!Put

\* Moving the tail takes the oldest packet, the one bt_ring_current returned.
LEMMA ConsumeIsGet ==
  ASSUME RingInv, RingInv', NEW r \in Reader, ReadConsume(r)
  PROVE  Fifo!Get
<1>0. Layout /\ ContentsOK /\ Layout' /\ ContentsOK'
  <2>1. (RingInv => Layout /\ ContentsOK)'
    BY RingLayout, PTL
  <2> QED
    BY <2>1, RingLayout
<1>1. tail' = IF tail = Size - 1 THEN 0 ELSE tail + 1
  BY NextIndex, Indices DEF ReadConsume, At, RingInv, ReadInv
<1>2. /\ head # tail /\ rskb[r] = data[tail] /\ taken' = rskb[r]
      /\ UNCHANGED <<head, data>>
  BY DEF ReadConsume, At, RingInv, ReadInv
<1>3. Used' = Used - 1 /\ Used > 0
  BY <1>0, <1>1, <1>2 DEF Layout, RingInv, TypeOK, Index
<1>4. /\ Contents \in Seq(Packet) /\ Len(Contents) = Used
      /\ Contents' \in Seq(Packet) /\ Len(Contents') = Used - 1
  BY <1>0, <1>3 DEF ContentsOK
<1>5. Contents[1] = rskb[r]
  <2>1. tail \in Int /\ tail % Size = tail
    BY Wrap, Indices DEF Index
  <2>2. 1 \in 1 .. Used /\ tail + 1 - 1 = tail
    BY <1>0, <1>3, <2>1 DEF ContentsOK
  <2> QED
    BY <1>2, <2>1, <2>2 DEF Contents
<1>6. \A i \in 1 .. Used - 1 : Contents'[i] = Contents[i + 1]
  <2> SUFFICES ASSUME NEW i \in 1 .. Used - 1
               PROVE  Contents'[i] = Contents[i + 1]
    OBVIOUS
  <2>1. i \in 1 .. Used' /\ i + 1 \in 1 .. Used
    BY <1>0, <1>3 DEF ContentsOK
  <2>2. (tail' + i - 1) % Size = (tail + (i + 1) - 1) % Size
    <3> DEFINE u == tail + (i + 1) - 1
               v == tail' + i - 1
    <3>1. u \in Int /\ v \in Int /\ u \in 0 .. 2 * Size - 1 /\ v \in 0 .. 2 * Size - 1
      BY <1>0, <1>1, <2>1 DEF ContentsOK, RingInv, TypeOK, Index
    <3>2. u = v \/ (u = v + Size /\ v \in 0 .. Size - 1)
      BY <1>0, <1>1, <2>1, <3>1 DEF ContentsOK, RingInv, TypeOK, Index
    <3> HIDE DEF u, v
    <3>3. u % Size = v % Size
      BY <3>1, <3>2, Wrap
    <3> QED
      BY <3>3 DEF u, v
  <2> QED
    BY <1>2, <2>1, <2>2 DEF Contents
<1>7. Contents' = Tail(Contents)
  BY <1>0, <1>3, <1>4, <1>6 DEF ContentsOK
<1>8. Contents # <<>>
  BY <1>3, <1>4
<1> QED
  BY <1>2, <1>4, <1>5, <1>7, <1>8 DEF Fifo!Get

\* Nothing else changes the contents of the ring.
LEMMA OtherIsStutter ==
  ASSUME RingInv, [Next]_vars, ~StoreHead, \A r \in Reader : ~ReadConsume(r)
  PROVE  UNCHANGED <<Contents, taken>>
<1>1. CASE StoreData
  <2>1. "head" \in stores
    BY <1>1 DEF StoreData, RingInv, ProduceInv
  <2>2. \A i \in 1 .. Used : (tail + i - 1) % Size # head
    BY RingLayout DEF Layout, RingInv, TypeOK, Index, Held
  <2>3. UNCHANGED <<head, tail, taken>> /\ data' = [data EXCEPT ![head] = skb]
    BY <1>1, <2>1 DEF StoreData, readVars
  <2>4. \A i \in 1 .. Used : data'[(tail + i - 1) % Size] = data[(tail + i - 1) % Size]
    BY <2>2, <2>3, RingLayout DEF Layout, RingInv, TypeOK
  <2> QED
    BY <2>3, <2>4 DEF Contents, Used
<1>2. CASE ~StoreData
  <2>1. UNCHANGED <<head, tail, data, taken>>
    BY <1>2 DEF Next, Xmit, Read, vars, readVars, xmitVars, Queue, XmitFull, XmitStop,
       XmitRoom, XmitWake, ReadSleep, ReadInterrupted, ReadTest, ReadCurrent,
       ReadTooSmall, ReadLoad, ReadFault, ReadFree, ReadWake
  <2> QED
    BY <2>1 DEF Contents, Used
<1> QED
  BY <1>1, <1>2

\* With stores in program order and one reading thread the ring, whatever its size,
\* implements the bounded FIFO queue: bt_ring_produce and bt_ring_consume then need no
\* lock between them.
THEOREM RingIsFifo == StoresInOrder /\ OneReader => (Spec => FifoSpec)
<1> SUFFICES ASSUME StoresInOrder, OneReader PROVE Spec => Fifo!Spec
  BY DEF FifoSpec
<1>1. Init => Fifo!Init
  <2> SUFFICES ASSUME Init PROVE Fifo!Init
    OBVIOUS
  <2>1. Used = 0
    BY Wrap DEF Init, Used
  <2>2. Contents = <<>>
    BY <2>1 DEF Contents
  <2> QED
    BY <2>2 DEF Init, Fifo!Init
<1>2. RingInv /\ RingInv' /\ [Next]_vars => [Fifo!Next]_<<Contents, taken>>
  <2> SUFFICES ASSUME RingInv, RingInv', [Next]_vars
               PROVE  Fifo!Next \/ UNCHANGED <<Contents, taken>>
    OBVIOUS
  <2>1. CASE StoreHead
    <3>1. skb \in Packet
      BY <2>1 DEF StoreHead, RingInv, TypeOK, ProduceInv
    <3> QED
      BY <2>1, <3>1, ProduceIsPut DEF Fifo!Next
  <2>2. CASE \E r \in Reader : ReadConsume(r)
    BY <2>2, ConsumeIsGet DEF Fifo!Next
  <2> QED
    BY <2>1, <2>2, OtherIsStutter
<1>3. RingInv /\ [Next]_vars => RingInv'
  BY RingStep
<1> QED
  BY RingInit, <1>1, <1>2, <1>3, PTL DEF Spec, Fifo!Spec

-----------------------------------------------------------------------------
\* The indices of bt_ring_produce and bt_ring_consume never leave the array and the slots
\* hold packets or nothing, in whatever order the stores become visible and however many
\* threads read.
THEOREM RingTypes == Spec => []TypeOK
<1>1. Init => TypeOK
  BY RingInit DEF RingInv
<1>2. TypeOK /\ [Next]_vars => TypeOK'
  <2> SUFFICES ASSUME TypeOK, [Next]_vars PROVE TypeOK'
    OBVIOUS
  <2> USE DEF TypeOK, xmitVars, readVars
  <2>1. \A i \in Index : (i + 1) % Size \in Index
    BY DEF Index
  <2>2. ASSUME NEW p \in Packet, Queue(p)
        PROVE  TypeOK'
    BY <2>2 DEF Queue
  <2>3. CASE Xmit
    <3>1. CASE XmitFull \/ XmitStop \/ XmitRoom \/ XmitWake
      BY <3>1 DEF XmitFull, XmitStop, XmitRoom, XmitWake
    <3>2. CASE StoreData
      BY <3>2 DEF StoreData
    <3>3. CASE StoreHead
      BY <2>1, <3>3 DEF StoreHead
    <3> QED
      BY <2>3, <3>1, <3>2, <3>3 DEF Xmit
  <2>4. ASSUME NEW r \in Reader, Read(r) \/ ReadInterrupted(r)
        PROVE  TypeOK'
    <3> USE DEF At
    <3>1. CASE ReadSleep(r) \/ ReadInterrupted(r) \/ ReadTest(r) \/ ReadWake(r)
      BY <3>1 DEF ReadSleep, ReadInterrupted, ReadTest, ReadWake
    <3>2. CASE ReadCurrent(r) \/ ReadTooSmall(r) \/ ReadLoad(r)
      BY <3>2 DEF ReadCurrent, ReadTooSmall, ReadLoad
    <3>3. CASE ReadConsume(r)
      BY <2>1, <3>3 DEF ReadConsume
    <3>4. CASE ReadFault(r) \/ ReadFree(r)
      BY <3>4 DEF ReadFault, ReadFree
    <3> QED
      BY <2>4, <3>1, <3>2, <3>3, <3>4 DEF Read
  <2>5. CASE UNCHANGED vars
    BY <2>5 DEF vars
  <2> QED
    BY <2>2, <2>3, <2>4, <2>5 DEF Next
<1> QED
  BY <1>1, <1>2, PTL DEF Spec
=============================================================================
