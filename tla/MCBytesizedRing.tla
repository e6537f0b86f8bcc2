--------------------------- MODULE MCBytesizedRing --------------------------
(* Model-checking instances of BytesizedRing. *)
EXTENDS BytesizedRing, TLC

MbufSymmetry == Permutations(Mbufs)
=============================================================================
