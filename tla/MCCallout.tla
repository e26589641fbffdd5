----------------------------- MODULE MCCallout -----------------------------
(* Small instances of Callout. *)
EXTENDS Callout, TLC

Symm == Permutations(Fun)
=============================================================================
