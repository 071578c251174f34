------------------------------ MODULE MCBtRing ------------------------------
(* BtRing for TLC: the ring holds two packets, so that every index wraps, and  *)
(* there are packets beyond the two in the ring and the one being read.        *)
EXTENDS BtRing

CONSTANTS p1, p2, p3, p4, r1

MCSize   == 3
MCPacket == {p1, p2, p3, p4}
MCReader == {r1}
=============================================================================
