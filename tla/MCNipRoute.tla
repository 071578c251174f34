----------------------------- MODULE MCNipRoute -----------------------------
(* NipRoute for TLC. *)
EXTENDS NipRoute, TLC

CONSTANTS o1, o2, o3, o4

ObjSymmetry == Permutations({o1, o2, o3, o4} \cap Obj)
=============================================================================
