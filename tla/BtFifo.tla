------------------------------- MODULE BtFifo -------------------------------
(***************************************************************************)
(* What the transmit ring of the Bluetooth virtual net device promises: a  *)
(* bounded first-in first-out queue of packets.                            *)
(***************************************************************************)
EXTENDS Naturals, Sequences

CONSTANTS
  Packet,    \* packets
  Capacity,  \* how many the queue holds
  None       \* no packet

VARIABLES
  q,         \* the packets accepted and not yet taken, oldest first
  taken      \* the packet that was taken last

Init == q = <<>> /\ taken = None

Put(p) ==
  /\ Len(q) < Capacity
  /\ q' = Append(q, p)
  /\ UNCHANGED taken

Get ==
  /\ q # <<>>
  /\ taken' = Head(q)
  /\ q' = Tail(q)

Next == (\E p \in Packet : Put(p)) \/ Get

Spec == Init /\ [][Next]_<<q, taken>>
=============================================================================
