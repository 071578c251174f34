----------------------------- MODULE MCNipNdisc -----------------------------
(* NipNdisc for TLC: node A, at address a, sends to x, which moves from B. *)
EXTENDS NipNdisc

CONSTANTS A, B, C, a, x

StartAB == [y \in {a, x} |-> IF y = a THEN A ELSE B]
AToX    == {<<A, x>>}
=============================================================================
