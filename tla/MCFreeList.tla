----------------------------- MODULE MCFreeList -----------------------------
(***************************************************************************)
(* The free list with a few blocks and threads.                            *)
(***************************************************************************)
EXTENDS FreeList, TLC

Symmetry == Permutations(Threads) \cup Permutations(Nodes)
=============================================================================
