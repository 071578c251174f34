--------------------------- MODULE MCNipAddrconf ---------------------------
(* NipAddrconf for TLC. *)
EXTENDS NipAddrconf
=============================================================================
