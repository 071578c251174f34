---------------------------- MODULE MCNipTcpRecv ----------------------------
(***************************************************************************)
(* Instances of NipTcpRecv for TLC: what the peer sends.                   *)
(***************************************************************************)
EXTENDS NipTcpRecv

\* A segment [2,5) that is split for its retransmission because the MSS has become
\* smaller, into [2,4) and [4,5), and once more into [2,3) and [3,4), as
\* __tcp_nip_retransmit_skb does with the skbs of the write queue.  [1,3) overlaps them.
\* The length of tcp_nip_right_overlap wraps around in some of these orders.
Split == {<<0, 1>>, <<1, 2>>, <<1, 3>>, <<2, 5>>, <<2, 4>>, <<2, 3>>, <<3, 4>>, <<4, 5>>,
          <<5, 6>>}
=============================================================================
