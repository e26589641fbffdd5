----------------------------- MODULE FreeBlocks -----------------------------
(***************************************************************************)
(* The free blocks of one file system (os/alloc.c: alloc, free).  The      *)
(* super block holds up to NICFREE numbers; the first of them is 0 or the  *)
(* number of a free block that holds the next ones.  Both calls sleep for  *)
(* buffers and transfers, and s_flock keeps others away from s_free while  *)
(* they move a whole array.                                                *)
(***************************************************************************)
EXTENDS Integers, FiniteSets

CONSTANTS
    Proc,       (* processes                                                *)
    Block,      (* the numbers from s_isize to s_fsize - 1                  *)
    NICFREE,    (* the length of s_free                                     *)
    ReadErrors, (* whether bread() may fail                                 *)
    NoLink      (* the content of a block that is no array of numbers       *)

Zero == 0
Number == Block \cup {Zero}
Index == 0 .. NICFREE - 1
Array == [nfree : 0 .. NICFREE, free : [Index -> Number]]

(* Calls of alloc() and free(), and where they are: about to look at       *)
(* s_flock (again), or in bread(), getblk() or bwrite().                   *)
Call == [op : {"alloc", "free"}, at : {"flock", "bread", "getblk", "bwrite"}, bno : Number]
NoCall == <<>>

ASSUME FreeAssumption ==
    /\ Zero \notin Block /\ IsFiniteSet(Block)
    /\ NICFREE \in Nat /\ NICFREE >= 2
    /\ ReadErrors \in BOOLEAN
    /\ NoLink \notin Array

VARIABLES
    s_nfree, s_free,    (* the numbers in the super block                   *)
    s_flock, s_tfree,   (* their lock; how many blocks are free             *)
    content,            (* of each block: an array that free() has put      *)
                        (* there, or NoLink                                 *)
    used,               (* blocks of files                                  *)
    call, asleep,       (* the calls of processes; who sleeps for s_flock   *)
    failed              (* whether a read of an array has failed            *)

superVars == <<s_nfree, s_free, s_flock, s_tfree>>
vars == <<superVars, content, used, call, asleep, failed>>

(* A full file system. *)
Init ==
    /\ s_nfree = 0 /\ s_free = [i \in Index |-> Zero]
    /\ s_flock = 0 /\ s_tfree = 0
    /\ content = [b \in Block |-> NoLink]
    /\ used = Block
    /\ call = [p \in Proc |-> NoCall]
    /\ asleep = {}
    /\ failed = FALSE
-----------------------------------------------------------------------------
Is(p, op, at) == call[p] # NoCall /\ call[p].op = op /\ call[p].at = at

Goto(p, op, at, b) == call' = [call EXCEPT ![p] = [op |-> op, at |-> at, bno |-> b]]
Return(p) == call' = [call EXCEPT ![p] = NoCall]

(* s_flock = 0 and wakeup(&fp->s_flock) *)
Unlock == s_flock' = 0 /\ asleep' = {}

(* The loop before s_flock.  alloc() begins here; free() has taken its     *)
(* block from a file.                                                      *)
Looks(p, op) == Is(p, op, "flock") /\ p \notin asleep

BeginAlloc(p) ==
    /\ call[p] = NoCall
    /\ Goto(p, "alloc", "flock", Zero)
    /\ UNCHANGED <<superVars, content, used, asleep, failed>>

BeginFree(p) == \E b \in used :
    /\ call[p] = NoCall
    /\ used' = used \ {b}
    /\ Goto(p, "free", "flock", b)
    /\ UNCHANGED <<superVars, content, asleep, failed>>

Waits(p) ==
    /\ Looks(p, "alloc") \/ Looks(p, "free")
    /\ s_flock # 0
    /\ asleep' = asleep \cup {p}
    /\ UNCHANGED <<superVars, content, used, call, failed>>
-----------------------------------------------------------------------------
(* alloc() *)
Last == s_free[s_nfree - 1]
HasLast == s_nfree > 0 /\ Last # Zero

(* The last number is none: the file system is full. *)
AllocNospace(p) ==
    /\ Looks(p, "alloc") /\ s_flock = 0
    /\ ~HasLast
    /\ s_nfree' = 0 /\ s_tfree' = 0
    /\ Return(p)
    /\ UNCHANGED <<s_free, s_flock, content, used, asleep, failed>>

AllocTakes(p) ==
    /\ Looks(p, "alloc") /\ s_flock = 0
    /\ s_nfree > 1 /\ HasLast
    /\ s_nfree' = s_nfree - 1
    /\ Goto(p, "alloc", "getblk", Last)
    /\ UNCHANGED <<s_free, s_flock, s_tfree, content, used, asleep, failed>>

(* Mutant of the following: s_flock is not taken. *)
AllocTakesLinkUnlocked(p) ==
    /\ Looks(p, "alloc") /\ s_flock = 0
    /\ s_nfree = 1 /\ HasLast
    /\ s_nfree' = 0 /\ s_flock' = s_flock
    /\ Goto(p, "alloc", "bread", Last)
    /\ UNCHANGED <<s_free, s_tfree, content, used, asleep, failed>>

(* It was the last number, and its block holds the next ones. *)
AllocTakesLink(p) ==
    /\ Looks(p, "alloc") /\ s_flock = 0
    /\ s_nfree = 1 /\ HasLast
    /\ s_nfree' = 0 /\ s_flock' = s_flock + 1
    /\ Goto(p, "alloc", "bread", Last)
    /\ UNCHANGED <<s_free, s_tfree, content, used, asleep, failed>>

(* Mutant of the following: the numbers are not copied. *)
AllocReadStale(p) ==
    /\ Is(p, "alloc", "bread")
    /\ s_nfree' = content[call[p].bno].nfree
    /\ Unlock
    /\ Goto(p, "alloc", "getblk", call[p].bno)
    /\ UNCHANGED <<s_free, s_tfree, content, used, failed>>

AllocRead(p) ==
    /\ Is(p, "alloc", "bread")
    /\ s_nfree' = content[call[p].bno].nfree
    /\ s_free' = content[call[p].bno].free
    /\ Unlock
    /\ Goto(p, "alloc", "getblk", call[p].bno)
    /\ UNCHANGED <<s_tfree, content, used, failed>>

(* Mutant of the following: nobody is woken up. *)
AllocReadFailsQuietly(p) ==
    /\ ReadErrors
    /\ Is(p, "alloc", "bread")
    /\ s_nfree' = 0 /\ s_tfree' = 0
    /\ s_flock' = 0 /\ UNCHANGED asleep
    /\ Return(p)
    /\ failed' = TRUE
    /\ UNCHANGED <<s_free, content, used>>

(* "Bad free count": the block and all that follow are lost.               *)
AllocReadFails(p) ==
    /\ ReadErrors
    /\ Is(p, "alloc", "bread")
    /\ s_nfree' = 0 /\ s_tfree' = 0
    /\ Unlock
    /\ Return(p)
    /\ failed' = TRUE
    /\ UNCHANGED <<s_free, content, used>>

(* getblk() has a buffer for the block; clrbuf().                          *)
AllocDone(p) ==
    /\ Is(p, "alloc", "getblk")
    /\ content' = [content EXCEPT ![call[p].bno] = NoLink]
    /\ used' = used \cup {call[p].bno}
    /\ s_tfree' = IF s_tfree = 0 THEN 0 ELSE s_tfree - 1
    /\ Return(p)
    /\ UNCHANGED <<s_nfree, s_free, s_flock, asleep, failed>>
-----------------------------------------------------------------------------
(* free() *)

(* A full file system gets a last number 0. *)
Count == IF s_nfree = 0 THEN 1 ELSE s_nfree
Numbers == IF s_nfree = 0 THEN [s_free EXCEPT ![0] = Zero] ELSE s_free

FreePuts(p) ==
    /\ Looks(p, "free") /\ s_flock = 0
    /\ Count < NICFREE
    /\ s_free' = [Numbers EXCEPT ![Count] = call[p].bno]
    /\ s_nfree' = Count + 1
    /\ s_tfree' = s_tfree + 1
    /\ Return(p)
    /\ UNCHANGED <<s_flock, content, used, asleep, failed>>

FreeFull(p) ==
    /\ Looks(p, "free") /\ s_flock = 0
    /\ Count >= NICFREE
    /\ s_flock' = s_flock + 1
    /\ Goto(p, "free", "getblk", call[p].bno)
    /\ UNCHANGED <<s_nfree, s_free, s_tfree, content, used, asleep, failed>>

(* getblk() has a buffer: it gets the array and is written.                *)
FreeLink(p) ==
    /\ Is(p, "free", "getblk")
    /\ content' = [content EXCEPT ![call[p].bno] = [nfree |-> s_nfree, free |-> s_free]]
    /\ s_nfree' = 0
    /\ Goto(p, "free", "bwrite", call[p].bno)
    /\ UNCHANGED <<s_free, s_flock, s_tfree, used, asleep, failed>>

FreeDone(p) ==
    /\ Is(p, "free", "bwrite")
    /\ s_free' = [s_free EXCEPT ![s_nfree] = call[p].bno]
    /\ s_nfree' = s_nfree + 1
    /\ s_tfree' = s_tfree + 1
    /\ Unlock
    /\ Return(p)
    /\ UNCHANGED <<content, used, failed>>

Next == \E p \in Proc :
    \/ BeginAlloc(p) \/ BeginFree(p) \/ Waits(p)
    \/ AllocNospace(p) \/ AllocTakes(p) \/ AllocTakesLink(p)
    \/ AllocRead(p) \/ AllocReadFails(p) \/ AllocDone(p)
    \/ FreePuts(p) \/ FreeFull(p) \/ FreeLink(p) \/ FreeDone(p)

Spec == Init /\ [][Next]_vars
-----------------------------------------------------------------------------
(* Blocks that a process is about to hand out, or to give back.            *)
InHand(p) == call[p] # NoCall /\ call[p].bno # Zero
Held(p) == call[p].bno

(* The arrays in use: that of the super block and those in blocks, other   *)
(* than a block that was taken already.  A place is an array and an index. *)
Links == {b \in Block : /\ content[b] # NoLink
                        /\ ~ \E p \in Proc : Is(p, "alloc", "getblk") /\ call[p].bno = b}
Places == ({Zero} \X (0 .. s_nfree - 1)) \cup {x \in Links \X Index : x[2] < content[x[1]].nfree}
At(x) == IF x[1] = Zero THEN s_free[x[2]] ELSE content[x[1]].free[x[2]]

(* Blocks that alloc() can find: from the super block, or from the array   *)
(* that a process is reading, and on from array to array.                  *)
Heads == {s_free[i] : i \in 0 .. s_nfree - 1}
         \cup {call[p].bno : p \in {q \in Proc : Is(q, "alloc", "bread") \/ Is(q, "free", "bwrite")}}
Follow(S) == S \cup UNION {{content[b].free[i] : i \in 0 .. content[b].nfree - 1} : b \in S \cap Links}
Found == LET step[n \in 0 .. Cardinality(Block)] ==
                 IF n = 0 THEN Heads ELSE Follow(step[n - 1])
         IN  step[Cardinality(Block)] \ {Zero}
-----------------------------------------------------------------------------
(* Every variable keeps to its type: s_flock is never counted twice.       *)
TypeOK ==
    /\ s_nfree \in 0 .. NICFREE /\ s_free \in [Index -> Number]
    /\ s_flock \in {0, 1} /\ s_tfree \in Nat
    /\ content \in [Block -> Array \cup {NoLink}]
    /\ used \subseteq Block
    /\ call \in [Proc -> Call \cup {NoCall}]
    /\ asleep \subseteq Proc
    /\ failed \in BOOLEAN

(* The variables keep to their types, and alloc() hands out no block       *)
(* twice: a block is in a file, in the hands of one process, or at one     *)
(* place of the free list.                                                 *)
UsedOnce ==
    /\ TypeOK
    /\ \A p \in Proc : InHand(p) => Held(p) \notin used
    /\ \A p, q \in Proc : p # q /\ InHand(p) /\ InHand(q) => Held(p) # Held(q)
    /\ \A x \in Places : At(x) # Zero =>
          /\ At(x) \notin used
          /\ \A p \in Proc : InHand(p) => At(x) # Held(p)
          /\ \A y \in Places : y # x => At(y) # At(x)

(* alloc() and free() lose no block, unless an array could not be read.    *)
NoneLost ==
    failed \/ Block = used \cup {call[p].bno : p \in {q \in Proc : InHand(q)}} \cup Found

(* Who sleeps for s_flock has a process to wait for, which is busy with    *)
(* the array (alloc, free).                                                *)
SleepersWait ==
    asleep # {} => /\ s_flock = 1
                   /\ \E p \in Proc : \/ Is(p, "alloc", "bread")
                                      \/ Is(p, "free", "getblk") \/ Is(p, "free", "bwrite")

(* "no space" (alloc) is said only when no block can be found, though      *)
(* others may be in the middle of moving an array.                         *)
NospaceWhenEmpty == [][(\E p \in Proc : AllocNospace(p)) => Found = {}]_vars
=============================================================================
