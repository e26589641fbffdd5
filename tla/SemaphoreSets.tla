---------------------------- MODULE SemaphoreSets ----------------------------
(***************************************************************************)
(* What sets of semaphores promise (os/sem.c): a list of operations is     *)
(* done as a whole or not at all; what a process has asked to be undone is *)
(* undone when it exits, unless a value would leave its range.             *)
(***************************************************************************)
EXTENDS Integers, Sequences

CONSTANTS Proc, Slot, Num, Lists, SEMVMX

VARIABLES
    value,      (* of each semaphore of each set                            *)
    adjust      (* for each process and semaphore: what exit is to add      *)

Value == 0 .. SEMVMX

(* The sums of the first numbers of g.                                     *)
Sums(g) == LET sum[i \in 0 .. Len(g)] == IF i = 0 THEN 0 ELSE sum[i - 1] + g[i]
           IN  sum

(* What the first operations of the list add to semaphore k, and what      *)
(* those of them add that are to be undone.                                *)
Adds(op, k) == IF op.num = k THEN op.op ELSE 0
Owes(op, k) == IF op.undo THEN Adds(op, k) ELSE 0
Added(list, k) == Sums([i \in 1 .. Len(list) |-> Adds(list[i], k)])
Owed(list, k) == Sums([i \in 1 .. Len(list) |-> Owes(list[i], k)])

(* Operation i of the list can be done on value v. *)
Allowed(op, v) == \/ op.op = 0 /\ v = 0
                  \/ op.op # 0 /\ v + op.op \in Value

Perform(p, s, list) ==
    /\ \A i \in DOMAIN list :
          Allowed(list[i], value[s][list[i].num] + Added(list, list[i].num)[i - 1])
    /\ value' = [value EXCEPT ![s] = [k \in Num |-> @[k] + Added(list, k)[Len(list)]]]
    /\ adjust' = [q \in Proc |-> [t \in Slot |-> [k \in Num |->
          adjust[q][t][k] - (IF q = p /\ t = s THEN Owed(list, k)[Len(list)] ELSE 0)]]]

(* The semaphores in K get new values, and nothing of them is undone.      *)
Assign(s, K, new) ==
    /\ value' = [value EXCEPT ![s] = [k \in Num |-> IF k \in K THEN new[k] ELSE @[k]]]
    /\ adjust' = [q \in Proc |-> [t \in Slot |-> [k \in Num |->
          IF t = s /\ k \in K THEN 0 ELSE adjust[q][t][k]]]]

Exit(p) ==
    /\ value' = [s \in Slot |-> [k \in Num |->
          IF value[s][k] + adjust[p][s][k] \in Value
          THEN value[s][k] + adjust[p][s][k] ELSE value[s][k]]]
    /\ adjust' = [q \in Proc |-> [s \in Slot |-> [k \in Num |->
          IF q = p THEN 0 ELSE adjust[q][s][k]]]]

Init == /\ value = [s \in Slot |-> [k \in Num |-> 0]]
        /\ adjust = [p \in Proc |-> [s \in Slot |-> [k \in Num |-> 0]]]

Next == \/ \E p \in Proc, s \in Slot, list \in Lists : Perform(p, s, list)
        \/ \E s \in Slot, K \in SUBSET Num, new \in [Num -> Value] : Assign(s, K, new)
        \/ \E p \in Proc : Exit(p)

Spec == Init /\ [][Next]_<<value, adjust>>
=============================================================================
