-------------------------------- MODULE Fifo --------------------------------
(***************************************************************************)
(* What a pipe or a FIFO promises (os/pipe.c, os/rdwri.c): readers get the *)
(* bytes in the order they were written, none lost or made up; a write of  *)
(* at most Room bytes goes in as a whole, and one that stops early has put *)
(* in what comes first; the end is told to a reader only when nothing is   *)
(* left and nobody can write any more, and a writer is turned away only    *)
(* when nobody can read.                                                   *)
(***************************************************************************)
EXTENDS Integers, Sequences, SequencesExt

CONSTANTS
    Procs,      (* processes                                                *)
    Texts,      (* what is written                                          *)
    Room        (* bytes a pipe has room for                                *)

VARIABLES
    queue,              (* bytes written and not yet read                   *)
    readers, writers,   (* how many files are open to read, and to write    *)
    left,               (* what a process in a write has still to write     *)
    told                (* a process whose last call found no other end     *)

qvars == <<queue, readers, writers, left, told>>

Init ==
    /\ queue = <<>> /\ readers = 0 /\ writers = 0
    /\ left = [p \in Procs |-> <<>>]
    /\ told = [p \in Procs |-> "nothing"]

Says(p, what) == told' = [told EXCEPT ![p] = what]
Keeps(p, rest) == left' = [left EXCEPT ![p] = rest]

(* With the last file the bytes go. *)
Files(p) ==
    /\ readers' \in Nat /\ writers' \in Nat
    /\ queue' = IF readers' = 0 /\ writers' = 0 THEN <<>> ELSE queue
    /\ Says(p, "nothing") /\ UNCHANGED left

CloseFile ==
    /\ readers' \in 0 .. readers /\ writers' \in 0 .. writers
    /\ queue' = IF readers' = 0 /\ writers' = 0 THEN <<>> ELSE queue
    /\ UNCHANGED <<left, told>>

ToWrite(p) == IF left[p] = <<>> THEN Texts ELSE {left[p]}

(* All of it, or of a text longer than Room what there is room for. *)
Put(p) == \E s \in ToWrite(p) :
    LET n == IF Len(s) > Room THEN Room - Len(queue) ELSE Len(s)
    IN  /\ readers > 0 /\ n > 0 /\ Len(queue) + n <= Room
        /\ queue' = queue \o SubSeq(s, 1, n)
        /\ Keeps(p, SubSeq(s, n + 1, Len(s))) \/ Keeps(p, <<>>)
        /\ Says(p, "nothing") /\ UNCHANGED <<readers, writers>>

(* There is no room on the disk: some of it, and an error. *)
PutLess(p) == \E s \in ToWrite(p) : \E n \in 0 .. Len(s) - 1 :
    /\ readers > 0 /\ Len(queue) + n <= Room
    /\ queue' = queue \o SubSeq(s, 1, n)
    /\ Keeps(p, <<>>)
    /\ Says(p, "nothing") /\ UNCHANGED <<readers, writers>>

Waits(p) == \E s \in ToWrite(p) :
    /\ readers > 0 /\ Len(queue) + Len(s) > Room
    /\ Len(s) <= Room \/ Len(queue) = Room
    /\ Keeps(p, s)
    /\ Says(p, "nothing") /\ UNCHANGED <<queue, readers, writers>>

GiveUp(p) ==
    /\ Keeps(p, <<>>) /\ Says(p, "nothing")
    /\ UNCHANGED <<queue, readers, writers>>

Get(p) == \E n \in 1 .. Len(queue) :
    /\ queue' = SubSeq(queue, n + 1, Len(queue))
    /\ Says(p, "nothing") /\ UNCHANGED <<readers, writers, left>>

AtEnd(p) ==
    /\ queue = <<>> /\ writers = 0
    /\ Says(p, "end") /\ UNCHANGED <<queue, readers, writers, left>>

TurnedAway(p) ==
    /\ readers = 0
    /\ Says(p, "pipe") /\ Keeps(p, <<>>) /\ UNCHANGED <<queue, readers, writers>>

Next ==
    \/ CloseFile
    \/ \E p \in Procs :
        \/ Files(p) \/ Put(p) \/ PutLess(p) \/ Waits(p) \/ GiveUp(p)
        \/ Get(p) \/ AtEnd(p) \/ TurnedAway(p)

Spec == Init /\ [][Next]_qvars
=============================================================================
