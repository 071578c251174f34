------------------------------ MODULE MCNipHdr ------------------------------
(* NipHdr for TLC: addresses at the boundaries of each length, those that begin with *)
(* 220 with a bitlen that is no multiple of eight.                                   *)
EXTENDS NipHdr

First  == {0, 220, 221, 240, 241, 242, 243, 254, 255}
Second == {0, 19, 20, 221}
Third  == {0, 1}

Candidates ==
  {[bitlen |-> IF b[1] = 220 THEN 8 * n + 7 ELSE 8 * n,
    field8 |-> [i \in 1 .. 8 |-> IF i > n THEN 0
                                 ELSE IF i <= 3 THEN b[i] ELSE i]] :
     n \in {1, 2, 3, 5, 7, 8}, b \in First \X Second \X Third}

\* What the stack accepts when an address is configured or routed to.
MCAddrs == {a \in Candidates : nip_addr_valid(a)}
=============================================================================
