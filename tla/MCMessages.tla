----------------------------- MODULE MCMessages -----------------------------
(* Small instances of Messages. *)
EXTENDS Messages

Call(type, size) == [type |-> type, size |-> size]

(* Messages of one type with and without room for two, and one with no     *)
(* text; a reader asks for any message, or for the lowest type.            *)
ThreeMessages == {Call(1, 1), Call(1, 2), Call(2, 0)}
AnyOrLowest == {Call(0, 1), Call(-2, 2)}
Symm == Permutations(Proc)
=============================================================================
