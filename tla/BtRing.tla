------------------------------- MODULE BtRing -------------------------------
(***************************************************************************)
(* The data path of the Bluetooth virtual net device (btdev.c) from the    *)
(* network stack to the process that reads the character device: the ring, *)
(* the stopping and waking of the transmit queue, and the wait queue of    *)
(* the reader.                                                             *)
(*                                                                         *)
(* bt_virnet_xmit runs under the transmit lock of the device, so there is  *)
(* one producer.  read_open_limit admits one file that reads, and any      *)
(* number of threads may share it: nothing in bt_io_file_read or           *)
(* bt_cmd_peek_packet excludes another.  Nothing orders the threads: each  *)
(* access to head, tail, a slot or the queue state is a step.              *)
(***************************************************************************)
EXTENDS Integers, Sequences

CONSTANTS
  Size,           \* BT_RING_BUFFER_SIZE
  Packet,         \* sk_buffs
  None,           \* no packet; the content of a slot never written
  Reader,         \* threads that read the one open file
  StoresInOrder,  \* a reader that sees the new head sees the new slot (as on x86)
  CopyFaults      \* copy_to_user may fail

ASSUME RingAssumption ==
  /\ Size \in Nat /\ Size >= 2
  /\ None \notin Packet
  /\ StoresInOrder \in BOOLEAN /\ CopyFaults \in BOOLEAN

VARIABLES
  head, tail, data,  \* struct bt_ring
  stopped,           \* netif_queue_stopped
  alloc,             \* packets that are allocated
  xpc,               \* where bt_virnet_xmit is
  skb,               \* the packet the stack has to transmit
  stores,            \* stores of bt_ring_produce that are not yet visible
  rpc,               \* where bt_io_file_read is, for each reader
  rskb,              \* the packet the reader has read from the ring
  rtail,             \* the tail that bt_ring_consume has loaded
  taken              \* the packet that was consumed last (history)

xmitVars == <<xpc, skb, stores>>
readVars == <<rpc, rskb, rtail, taken>>
vars == <<head, tail, data, stopped, alloc, xmitVars, readVars>>

Index == 0 .. Size - 1

TypeOK ==
  /\ head \in Index /\ tail \in Index
  /\ data \in [Index -> Packet \cup {None}]
  /\ stopped \in BOOLEAN
  /\ alloc \in SUBSET Packet
  /\ xpc \in {"idle", "full", "produce"}
  /\ skb \in Packet \cup {None}
  /\ stores \in SUBSET {"data", "head"}
  /\ rpc \in [Reader -> {"idle", "sleep", "ready", "got", "consume", "copy", "wake"}]
  /\ rskb \in [Reader -> Packet \cup {None}]
  /\ rtail \in [Reader -> Index]
  /\ taken \in Packet \cup {None}

Init ==
  /\ head = 0 /\ tail = 0
  /\ data = [i \in Index |-> None]
  /\ stopped = FALSE
  /\ alloc = {}
  /\ xpc = "idle" /\ skb = None /\ stores = {}
  /\ rpc = [r \in Reader |-> "idle"]
  /\ rskb = [r \in Reader |-> None]
  /\ rtail = [r \in Reader |-> 0]
  /\ taken = None

-----------------------------------------------------------------------------
bt_ring_is_empty == head = tail

\* Mutant: no wrap-around.
bt_ring_is_full_no_wrap == head + 1 = tail

bt_ring_is_full  == (head + 1) % Size = tail

(* The transmitting side.                                                  *)

\* The network stack has a packet for the device.
Queue(p) ==
  /\ skb = None
  /\ p \notin alloc
  /\ skb' = p
  /\ alloc' = alloc \cup {p}
  /\ UNCHANGED <<head, tail, data, stopped, xpc, stores, readVars>>

\* The stack calls bt_virnet_xmit unless the queue is stopped.
\* bt_virnet_produce_data finds the ring full.
XmitFull ==
  /\ xpc = "idle" /\ skb # None /\ ~stopped
  /\ bt_ring_is_full
  /\ xpc' = "full"
  /\ UNCHANGED <<head, tail, data, stopped, alloc, skb, stores, readVars>>

\* netif_stop_queue; NETDEV_TX_BUSY leaves the packet with the stack.
XmitStop ==
  /\ xpc = "full"
  /\ stopped' = TRUE
  /\ xpc' = "idle"
  /\ UNCHANGED <<head, tail, data, alloc, skb, stores, readVars>>

\* Mutant: no wrap-around.
StoreHeadNoWrap ==
  /\ "head" \in stores
  /\ "data" \notin stores
  /\ head' = head + 1
  /\ stores' = stores \ {"head"}
  /\ UNCHANGED <<tail, data, stopped, alloc, xpc, skb, readVars>>

\* Mutant: the reader is not woken.
XmitNoWake ==
  /\ xpc = "produce" /\ stores = {}
  /\ xpc' = "idle"
  /\ skb' = None
  /\ UNCHANGED <<head, tail, data, stopped, alloc, stores, readVars>>

\* The ring has room: bt_ring_produce begins.
XmitRoom ==
  /\ xpc = "idle" /\ skb # None /\ ~stopped
  /\ ~bt_ring_is_full
  /\ xpc' = "produce"
  /\ stores' = {"data", "head"}
  /\ UNCHANGED <<head, tail, data, stopped, alloc, skb, readVars>>

\* The store into ring->data becomes visible.
StoreData ==
  /\ "data" \in stores
  /\ data' = [data EXCEPT ![IF "head" \in stores THEN head ELSE (head - 1) % Size] = skb]
  /\ stores' = stores \ {"data"}
  /\ UNCHANGED <<head, tail, stopped, alloc, xpc, skb, readVars>>

\* The store into ring->head becomes visible.  No barrier orders it after the other, and
\* none in the reader orders the loads of head and slot.
StoreHead ==
  /\ "head" \in stores
  /\ StoresInOrder => "data" \notin stores
  /\ head' = (head + 1) % Size
  /\ stores' = stores \ {"head"}
  /\ UNCHANGED <<tail, data, stopped, alloc, xpc, skb, readVars>>

\* smp_wmb, then wake_up(&dev->rx_queue); NETDEV_TX_OK.
XmitWake ==
  /\ xpc = "produce" /\ stores = {}
  /\ xpc' = "idle"
  /\ skb' = None
  /\ rpc' = [r \in Reader |-> IF rpc[r] = "sleep" THEN "idle" ELSE rpc[r]]
  /\ UNCHANGED <<head, tail, data, stopped, alloc, stores, rskb, rtail, taken>>

-----------------------------------------------------------------------------
(* The reading side, bt_io_file_read, in thread r.                         *)

At(r, here, there) == rpc[r] = here /\ rpc' = [rpc EXCEPT ![r] = there]

\* wait_event_interruptible: it is on rx_queue before it tests the ring.
ReadSleep(r) ==
  /\ At(r, "idle", "sleep")
  /\ bt_ring_is_empty
  /\ UNCHANGED <<head, tail, data, stopped, alloc, xmitVars, rskb, rtail, taken>>

\* A signal: -ERESTARTSYS.
ReadInterrupted(r) ==
  /\ At(r, "sleep", "idle")
  /\ UNCHANGED <<head, tail, data, stopped, alloc, xmitVars, rskb, rtail, taken>>

\* The ring is not empty.
ReadTest(r) ==
  /\ At(r, "idle", "ready")
  /\ ~bt_ring_is_empty
  /\ UNCHANGED <<head, tail, data, stopped, alloc, xmitVars, rskb, rtail, taken>>

\* bt_ring_current.
ReadCurrent(r) ==
  /\ At(r, "ready", "got")
  /\ rskb' = [rskb EXCEPT ![r] = data[tail]]
  /\ UNCHANGED <<head, tail, data, stopped, alloc, xmitVars, rtail, taken>>

\* The buffer of the caller is too small: -EINVAL, the packet stays.  A reader that
\* only asked for the length of the packet (bt_cmd_peek_packet) ends in the same way.
ReadTooSmall(r) ==
  /\ At(r, "got", "idle")
  /\ rskb' = [rskb EXCEPT ![r] = None]
  /\ UNCHANGED <<head, tail, data, stopped, alloc, xmitVars, rtail, taken>>

\* bt_ring_consume loads the tail ...
ReadLoad(r) ==
  /\ At(r, "got", "consume")
  /\ rtail' = [rtail EXCEPT ![r] = tail]
  /\ UNCHANGED <<head, tail, data, stopped, alloc, xmitVars, rskb, taken>>

\* ... and stores the next one.
ReadConsume(r) ==
  /\ At(r, "consume", "copy")
  /\ tail' = (rtail[r] + 1) % Size
  /\ taken' = rskb[r]
  /\ UNCHANGED <<head, data, stopped, alloc, xmitVars, rskb, rtail>>

\* copy_to_user fails: -EIO without dev_kfree_skb and without waking the queue.
ReadFault(r) ==
  /\ CopyFaults
  /\ At(r, "copy", "idle")
  /\ rskb' = [rskb EXCEPT ![r] = None]
  /\ UNCHANGED <<head, tail, data, stopped, alloc, xmitVars, rtail, taken>>

\* copy_to_user, then dev_kfree_skb.
ReadFree(r) ==
  /\ At(r, "copy", "wake")
  /\ alloc' = alloc \ {rskb[r]}
  /\ rskb' = [rskb EXCEPT ![r] = None]
  /\ UNCHANGED <<head, tail, data, stopped, xmitVars, rtail, taken>>

\* netif_wake_queue when the queue is stopped.
ReadWake(r) ==
  /\ At(r, "wake", "idle")
  /\ stopped' = FALSE
  /\ UNCHANGED <<head, tail, data, alloc, xmitVars, rskb, rtail, taken>>

-----------------------------------------------------------------------------
Xmit == XmitFull \/ XmitStop \/ XmitRoom \/ StoreData \/ StoreHead \/ XmitWake

Read(r) == ReadSleep(r) \/ ReadTest(r) \/ ReadCurrent(r) \/ ReadTooSmall(r) \/ ReadLoad(r)
             \/ ReadConsume(r) \/ ReadFault(r) \/ ReadFree(r) \/ ReadWake(r)

Next ==
  \/ \E p \in Packet : Queue(p)
  \/ Xmit
  \/ \E r \in Reader : Read(r) \/ ReadInterrupted(r)

Spec == Init /\ [][Next]_vars

\* bt_virnet_xmit runs to its end, and processes keep reading, again and again with
\* a buffer that is large enough.  No signal is assumed to interrupt their sleep.
Fairness ==
  /\ WF_vars(Xmit)
  /\ \A r \in Reader : WF_vars(Read(r)) /\ SF_vars(ReadLoad(r))

FairSpec == Spec /\ Fairness

-----------------------------------------------------------------------------
(* Properties.                                                             *)

\* The number of packets between tail and head.
Used == (head - tail) % Size

\* The packets in the ring, oldest first.
Contents == [i \in 1 .. Used |-> data[(tail + i - 1) % Size]]

Fifo == INSTANCE BtFifo WITH Capacity <- Size - 1, q <- Contents

\* The ring is a bounded FIFO queue: whatever the interleaving of bt_ring_produce and
\* bt_ring_consume, no packet is lost, overwritten, duplicated or overtaken.  Claimed for
\* one reading thread, and stores that it sees in program order.
FifoSpec == Fifo!Spec

\* Every packet in the ring is read in the end: the reader never sleeps through the
\* wake_up of bt_virnet_produce_data.  Claimed for one reading thread.
RingDrains ==
  \A p \in Packet : (\E i \in 1 .. Used : Contents[i] = p) ~> taken = p
=============================================================================
