--------------------------- MODULE MCRecordLocks ----------------------------
(* Small instances of RecordLocks. *)
EXTENDS RecordLocks

(* Ranges that meet in every way: single bytes, the middle, ends, all. *)
SomeRanges == {<<0, 1>>, <<1, 2>>, <<3, 4>>, <<1, 4>>, <<2, 5>>, <<0, 5>>}

(* All ranges. *)
AllRanges == {r \in (0 .. MAXEND) \X (0 .. MAXEND) : r[1] < r[2]}

Symm == Permutations(Proc) \cup Permutations(File)
=============================================================================
