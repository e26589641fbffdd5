---------------------------- MODULE MCFreeBlocks ----------------------------
(* Small instances of FreeBlocks. *)
EXTENDS FreeBlocks, TLC

CONSTANTS k1, k2, k3, k4, k5

Symm == Permutations(Proc) \cup Permutations(Block)
=============================================================================
