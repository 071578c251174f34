------------------------------ MODULE MCBtMng -------------------------------
(* BtMng for TLC. *)
EXTENDS BtMng, TLC

Interchangeable == Permutations(Vnet) \cup Permutations(File) \cup Permutations(Thread)
=============================================================================
