---------------------------- MODULE MCSemaphores ----------------------------
(* Small instances of Semaphores. *)
EXTENDS Semaphores, TLC

DoOp(k, x) == [num |-> k, op |-> x, undo |-> FALSE, nowait |-> FALSE]
Undo(k, x) == [DoOp(k, x) EXCEPT !.undo = TRUE]
NoWait(k, x) == [Undo(k, x) EXCEPT !.nowait = TRUE]

(* Take both semaphores or none; give one or both; wait for zero, then     *)
(* take; no semaphore twice in a list.                                     *)
MixedLists ==
    { <<Undo(0, -1), Undo(1, -1)>>,
      <<Undo(1, 1)>>,
      <<DoOp(0, 1), NoWait(1, -1)>>,
      <<DoOp(0, 0), Undo(1, 1)>> }

(* Take one, and be the last: the same semaphore twice. *)
TakeLast == { <<DoOp(0, -1), DoOp(0, 0)>>, <<DoOp(0, -1)>> }

Symm == Permutations(Proc)
=============================================================================
