--------------------------- MODULE MCPktsizedRing ---------------------------
(* Model-checking instance of PktsizedRing. *)
EXTENDS PktsizedRing, TLC

MbufSymmetry == Permutations(Mbufs)
=============================================================================
