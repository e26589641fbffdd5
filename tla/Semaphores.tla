----------------------------- MODULE Semaphores -----------------------------
(***************************************************************************)
(* The semaphore facility (os/sem.c).  semop() does the operations of a    *)
(* list one after the other, and undoes them when it meets one that has to *)
(* wait or fails.  A process keeps the processor until it sleeps, and no   *)
(* interrupt touches semaphores, so a call up to its end or its sleep is   *)
(* one step.  Unlike other sleeps of these models, that of semop() is      *)
(* ended by signals, too.                                                  *)
(***************************************************************************)
EXTENDS Integers, FiniteSets, Sequences

CONSTANTS
    Proc,       (* processes                                                *)
    SEMMNI,     (* semaphore identifiers                                    *)
    NSEMS,      (* semaphores of a set                                      *)
    SEMVMX,     (* largest value                                            *)
    SEMAEM,     (* largest adjustment on exit                               *)
    SEMUME,     (* undo entries of a process                                *)
    SEMMNU,     (* undo structures                                          *)
    Lists,      (* the lists of operations that processes call semop with   *)
    Settings,   (* the values that they give to SETVAL and SETALL           *)
    MaxSeq      (* bound: how often a set is removed                        *)

Slot == 0 .. SEMMNI - 1
Num == 0 .. NSEMS - 1
Op == [num : Num, op : Int, undo : BOOLEAN, nowait : BOOLEAN]

(* A semaphore identifier: its place in sema[] and the sequence number.    *)
Id == Slot \X (0 .. MaxSeq)

(* The address of semncnt or of semzcnt: where processes sleep until the   *)
(* value has grown, or is zero.                                            *)
Chan == {"grow", "zero"} \X Slot \X Num
Awake == <<>>
NoCall == <<>>

ASSUME SemAssumption ==
    /\ SEMMNI \in Nat \ {0} /\ NSEMS \in Nat \ {0} /\ SEMVMX \in Nat \ {0}
    /\ SEMAEM \in Nat /\ SEMUME \in Nat /\ SEMMNU \in Nat /\ MaxSeq \in Nat
    /\ Settings \subseteq 0 .. SEMVMX
    /\ Lists \subseteq Seq(Op)

VARIABLES
    alloc, seq,         (* sema[]: IPC_ALLOC and sem_perm.seq               *)
    semval, semcnt,     (* sem[]: the values; semncnt and semzcnt           *)
    sem_undo, un_ent,   (* who has an undo structure, and its entries       *)
    nfree,              (* length of semfup, the free undo structures       *)
    call, wchan, sig    (* processes in semop(): the call, the channel they *)
                        (* sleep at, and whether a signal has come          *)

setVars == <<alloc, seq>>
undoVars == <<sem_undo, un_ent, nfree>>
procVars == <<call, wchan, sig>>
vars == <<setVars, semval, semcnt, undoVars, procVars>>

Init ==
    /\ alloc = [s \in Slot |-> FALSE]
    /\ seq = [s \in Slot |-> 0]
    /\ semval = [s \in Slot |-> [k \in Num |-> 0]]
    /\ semcnt = [c \in Chan |-> 0]
    /\ sem_undo = [p \in Proc |-> FALSE]
    /\ un_ent = [p \in Proc |-> <<>>]
    /\ nfree = SEMMNU
    /\ call = [p \in Proc |-> NoCall]
    /\ wchan = [p \in Proc |-> Awake]
    /\ sig = [p \in Proc |-> FALSE]
-----------------------------------------------------------------------------
(* semconv() *)
Valid(id) == alloc[id[1]] /\ seq[id[1]] = id[2]

IdOf(s) == <<s, seq[s]>>

Abs(x) == IF x < 0 THEN -x ELSE x

(* Those who sleep at the channels in C are woken up if they are counted.  *)
Wakeup(C) == [q \in Proc |-> IF wchan[q] \in C /\ semcnt[wchan[q]] > 0
                            THEN Awake ELSE wchan[q]]

Announce(C) == /\ semcnt' = [c \in Chan |-> IF c \in C THEN 0 ELSE semcnt[c]]
               /\ wchan' = Wakeup(C)

(* semaoe(): the entry for `key' of the undo structure changes by -x. The  *)
(* working record u of a semop() has the values of its set and the undo    *)
(* structure of its process.                                               *)
Entry(u, key) == IF key \in DOMAIN u.ent THEN u.ent[key] ELSE 0

WithEntry(ent, key, x) ==
    IF x = 0 THEN [e \in DOMAIN ent \ {key} |-> ent[e]]
    ELSE [e \in DOMAIN ent \cup {key} |-> IF e = key THEN x ELSE ent[e]]

Semaoe(u, x, key) ==
    LET got == [u EXCEPT !.has = TRUE, !.free = IF u.has THEN @ ELSE @ - 1]
        new == Entry(u, key) - x
        full == key \notin DOMAIN u.ent /\ Cardinality(DOMAIN u.ent) >= SEMUME
    IN  IF Abs(x) > SEMAEM \/ (~u.has /\ u.free = 0) THEN [u EXCEPT !.status = "failed"]
        ELSE IF full \/ Abs(new) > SEMAEM THEN [got EXCEPT !.status = "failed"]
        ELSE [got EXCEPT !.ent = WithEntry(@, key, new)]

Undoable(u, op, id) == IF op.undo /\ op.op # 0 THEN Semaoe(u, op.op, <<id, op.num>>) ELSE u

(* The operation on value v is done; it may have to enter an undo. *)
Do(u, op, v, id) ==
    LET a == Undoable(u, op, id)
    IN  IF a.status = "failed" THEN a
        ELSE [a EXCEPT !.val[op.num] = v + op.op, !.done = @ + 1,
                       !.raised = @ \cup (IF op.op > 0 THEN {op.num} ELSE {}),
                       !.zeroed = @ \cup (IF op.op < 0 /\ v + op.op = 0 THEN {op.num} ELSE {})]

Wait(u, op, status) == [u EXCEPT !.status = IF op.nowait THEN "failed" ELSE status]

(* One operation of semop(): it is done, has to wait, or fails. *)
Operate(u, op, id) ==
    LET v == u.val[op.num]
    IN  CASE op.op > 0 /\ v + op.op > SEMVMX -> [u EXCEPT !.status = "failed"]
          [] op.op < 0 /\ v + op.op < 0      -> Wait(u, op, "grow")
          [] op.op = 0 /\ v # 0              -> Wait(u, op, "zero")
          [] OTHER                           -> Do(u, op, v, id)

(* The list up to its end or to the first operation that cannot be done:   *)
(* how things are after each operation.                                    *)
Advance(u, op, id) == IF u.status = "done" THEN Operate(u, op, id) ELSE u

Start(p, s) == [val |-> semval[s], has |-> sem_undo[p], ent |-> un_ent[p], free |-> nfree,
                status |-> "done", done |-> 0, raised |-> {}, zeroed |-> {}]

Runs(u, list, id) ==
    LET after[i \in 0 .. Len(list)] ==
            IF i = 0 THEN u ELSE Advance(after[i - 1], list[i], id)
    IN  after

Run(p, c) == Runs(Start(p, c.id[1]), c.list, c.id)[Len(c.list)]

(* Mutant of the following: the undo entries stay. *)
UndoValue(u, op, id) == [u EXCEPT !.val[op.num] = @ - op.op]

UndoOne(u, op, id) ==
    LET a == IF op.undo /\ op.op # 0 THEN Semaoe(u, -op.op, <<id, op.num>>) ELSE u
    IN  [a EXCEPT !.val[op.num] = @ - op.op]

(* semundo(): of n operations that were done the last one is undone first. *)
Undoes(u, list, n, id) ==
    LET after[i \in 0 .. n] ==
            IF i = 0 THEN u ELSE UndoOne(after[i - 1], list[n + 1 - i], id)
    IN  after

Semundo(u, c) == Undoes(u, c.list, u.done, c.id)[u.done]

(* The channels where a run of the list wakes processes up. *)
Channels(u, s) == {<<"grow", s, k>> : k \in u.raised} \cup {<<"zero", s, k>> : k \in u.zeroed}

Keep(p, u, s) == /\ semval' = [semval EXCEPT ![s] = u.val]
                 /\ sem_undo' = [sem_undo EXCEPT ![p] = u.has]
                 /\ un_ent' = [un_ent EXCEPT ![p] = u.ent]
                 /\ nfree' = u.free
-----------------------------------------------------------------------------
(* A call of semop() that begins, or that looks again after its sleep.     *)
Attempts(p) ==
    CASE call[p] = NoCall ->
            {[id |-> IdOf(s), list |-> l] : s \in {t \in Slot : alloc[t]}, l \in Lists}
      [] call[p] # NoCall /\ wchan[p] = Awake /\ ~sig[p] /\ Valid(call[p].id) ->
            {[id |-> call[p].id, list |-> call[p].list]}
      [] OTHER -> {}

Leave(p) == /\ call' = [call EXCEPT ![p] = NoCall]
            /\ sig' = [sig EXCEPT ![p] = FALSE]

SemopDone(p) == \E c \in Attempts(p) :
    LET u == Run(p, c)
    IN  /\ u.status = "done"
        /\ Keep(p, u, c.id[1])
        /\ Announce(Channels(u, c.id[1]))
        /\ Leave(p)
        /\ UNCHANGED setVars

(* ERANGE, ENOSPC, EINVAL, or EAGAIN for IPC_NOWAIT *)
SemopFails(p) == \E c \in Attempts(p) :
    LET u == Run(p, c)
    IN  /\ u.status = "failed"
        /\ Keep(p, Semundo(u, c), c.id[1])
        /\ Announce(Channels(u, c.id[1]))
        /\ Leave(p)
        /\ UNCHANGED setVars

SemopWaits(p) == \E c \in Attempts(p) :
    LET u == Run(p, c)
        s == c.id[1]
        chan == <<u.status, s, c.list[u.done + 1].num>>
    IN  /\ u.status \in {"grow", "zero"}
        /\ Keep(p, Semundo(u, c), s)
        /\ semcnt' = [d \in Chan |-> (IF d \in Channels(u, s) THEN 0 ELSE semcnt[d])
                                     + (IF d = chan THEN 1 ELSE 0)]
        /\ wchan' = [Wakeup(Channels(u, s)) EXCEPT ![p] = chan]
        /\ call' = [call EXCEPT ![p] = [id |-> c.id, list |-> c.list, chan |-> chan]]
        /\ UNCHANGED <<setVars, sig>>

(* EIDRM *)
SemopRemoved(p) ==
    /\ call[p] # NoCall /\ wchan[p] = Awake /\ ~sig[p]
    /\ ~Valid(call[p].id)
    /\ Leave(p)
    /\ UNCHANGED <<setVars, semval, semcnt, undoVars, wchan>>

(* A signal makes the process runnable. *)
Signal(p) ==
    /\ call[p] # NoCall /\ ~sig[p]
    /\ sig' = [sig EXCEPT ![p] = TRUE]
    /\ wchan' = [wchan EXCEPT ![p] = Awake]
    /\ UNCHANGED <<setVars, semval, semcnt, undoVars, call>>

(* Mutant of the following: the last one counted wakes nobody up. *)
SemopForgets(p) ==
    /\ call[p] # NoCall /\ wchan[p] = Awake /\ sig[p]
    /\ semcnt' = [semcnt EXCEPT ![call[p].chan] = IF @ <= 1 THEN 0 ELSE @ - 1]
    /\ Leave(p)
    /\ UNCHANGED <<setVars, semval, undoVars, wchan>>

(* EINTR: the count goes down, also when a wakeup has already cleared it.  *)
SemopInterrupted(p) ==
    /\ call[p] # NoCall /\ wchan[p] = Awake /\ sig[p]
    /\ LET c == call[p].chan
       IN  IF semcnt[c] <= 1
           THEN Announce({c})
           ELSE semcnt' = [semcnt EXCEPT ![c] = @ - 1] /\ UNCHANGED wchan
    /\ Leave(p)
    /\ UNCHANGED <<setVars, semval, undoVars>>
-----------------------------------------------------------------------------
(* The other calls, of processes that are not in semop(). *)

(* Mutant of the following. *)
SemunrmNothing(id, K) == UNCHANGED un_ent

(* semunrm(): nobody undoes anything of the semaphores in K of set id.     *)
Semunrm(id, K) ==
    un_ent' = [q \in Proc |->
        [e \in {d \in DOMAIN un_ent[q] : d[1] # id \/ d[2] \notin K} |-> un_ent[q][e]]]

(* semget() of a new set; malloc() of its semaphores may fail. *)
Semget(p) == \E s \in Slot :
    /\ call[p] = NoCall
    /\ ~alloc[s] /\ \A t \in Slot : t < s => alloc[t]
    /\ alloc' = [alloc EXCEPT ![s] = TRUE]
    /\ UNCHANGED <<seq, semval, semcnt, undoVars, procVars>>

(* SETVAL and SETALL *)
Assign(s, K, new) ==
    /\ semval' = [semval EXCEPT ![s] = [k \in Num |-> IF k \in K THEN new[k] ELSE @[k]]]
    /\ Announce({<<IF new[k] > 0 THEN "grow" ELSE "zero", s, k>> : k \in K})
    /\ Semunrm(IdOf(s), K)
    /\ UNCHANGED <<setVars, sem_undo, nfree, call, sig>>

SetVal(p) == \E s \in Slot, k \in Num, v \in Settings :
    /\ call[p] = NoCall /\ alloc[s]
    /\ Assign(s, {k}, [j \in Num |-> v])

SetAll(p) == \E s \in Slot, new \in [Num -> Settings] :
    /\ call[p] = NoCall /\ alloc[s]
    /\ Assign(s, Num, new)

(* IPC_RMID *)
Rmid(p) == \E s \in Slot :
    /\ call[p] = NoCall /\ alloc[s] /\ seq[s] < MaxSeq
    /\ semval' = [semval EXCEPT ![s] = [k \in Num |-> 0]]
    /\ Announce({c \in Chan : c[2] = s})
    /\ Semunrm(IdOf(s), Num)
    /\ alloc' = [alloc EXCEPT ![s] = FALSE]
    /\ seq' = [seq EXCEPT ![s] = @ + 1]
    /\ UNCHANGED <<sem_undo, nfree, call, sig>>

(* semexit(): the entries of p that are valid and keep the value in range. *)
Applied(p) == {e \in DOMAIN un_ent[p] :
                  Valid(e[1]) /\ semval[e[1][1]][e[2]] + un_ent[p][e] \in 0 .. SEMVMX}

(* Mutant of the following: only those who wait for zero. *)
ExitChannelsZero(p) ==
    {<<"zero", e[1][1], e[2]>> : e \in {d \in Applied(p) : semval[d[1][1]][d[2]] + un_ent[p][d] = 0}}

ExitChannels(p) ==
    {<<"zero", e[1][1], e[2]>> : e \in {d \in Applied(p) : semval[d[1][1]][d[2]] + un_ent[p][d] = 0}}
    \cup {<<"grow", e[1][1], e[2]>> : e \in {d \in Applied(p) : un_ent[p][d] > 0}}

(* The process exits; its place is taken by a new one. *)
Exit(p) ==
    /\ call[p] = NoCall /\ sem_undo[p]
    /\ semval' = [s \in Slot |-> [k \in Num |->
          LET e == <<IdOf(s), k>>
          IN  IF e \in Applied(p) THEN semval[s][k] + un_ent[p][e] ELSE semval[s][k]]]
    /\ Announce(ExitChannels(p))
    /\ sem_undo' = [sem_undo EXCEPT ![p] = FALSE]
    /\ un_ent' = [un_ent EXCEPT ![p] = <<>>]
    /\ nfree' = nfree + 1
    /\ UNCHANGED <<setVars, call, sig>>

Next == \E p \in Proc :
    \/ SemopDone(p) \/ SemopFails(p) \/ SemopWaits(p) \/ SemopRemoved(p)
    \/ Signal(p) \/ SemopInterrupted(p)
    \/ Semget(p) \/ SetVal(p) \/ SetAll(p) \/ Rmid(p) \/ Exit(p)

Spec == Init /\ [][Next]_vars
-----------------------------------------------------------------------------
(* Every variable keeps to its type: values never leave 0 .. semvmx        *)
(* (semop, semctl, semexit).                                               *)
TypeOK ==
    /\ alloc \in [Slot -> BOOLEAN] /\ seq \in [Slot -> 0 .. MaxSeq]
    /\ semval \in [Slot -> [Num -> 0 .. SEMVMX]]
    /\ semcnt \in [Chan -> Nat]
    /\ sem_undo \in [Proc -> BOOLEAN]
    /\ \A p \in Proc : un_ent[p] \in [DOMAIN un_ent[p] -> -SEMAEM .. SEMAEM]
    /\ nfree \in 0 .. SEMMNU
    /\ \A p \in Proc : /\ wchan[p] \in Chan \cup {Awake}
                       /\ call[p] = NoCall => wchan[p] = Awake /\ ~sig[p]
                       /\ call[p] # NoCall => call[p].id \in Id /\ call[p].list \in Lists
    /\ sig \in [Proc -> BOOLEAN]

(* Nobody sleeps where no wakeup will come: the count of a channel with    *)
(* sleepers is not zero, however many were interrupted, and nobody sleeps  *)
(* for a set that was removed.                                             *)
NoLostWakeup ==
    \A p \in Proc : wchan[p] # Awake => semcnt[wchan[p]] > 0 /\ Valid(call[p].id)

(* "Loop waiting for the operations to be satisified atomically" (semop):  *)
(* nobody sleeps whose whole list could be done now.                       *)
SleepersBlocked ==
    \A p \in Proc : wchan[p] # Awake => Run(p, call[p]).status # "done"

(* The values keep to 0 .. semvmx and the other variables to their types;  *)
(* undo structures are with one process or free; entries are not zero, not *)
(* more than semume, and of sets that exist, so that exit() undoes nothing *)
(* of a set that was removed or made anew.                                 *)
UndoAccounted ==
    /\ TypeOK
    /\ nfree + Cardinality({p \in Proc : sem_undo[p]}) = SEMMNU
    /\ \A p \in Proc :
          /\ un_ent[p] # <<>> => sem_undo[p]
          /\ Cardinality(DOMAIN un_ent[p]) <= SEMUME
          /\ \A e \in DOMAIN un_ent[p] : Valid(e[1]) /\ un_ent[p][e] # 0

(* semop(), semctl() and exit() do what SemaphoreSets promises, and no     *)
(* part of a list that waits or fails remains, in values or undo entries.  *)
Promise == INSTANCE SemaphoreSets WITH
    value <- semval,
    adjust <- [p \in Proc |-> [s \in Slot |-> [k \in Num |->
                  LET e == <<IdOf(s), k>>
                  IN  IF e \in DOMAIN un_ent[p] THEN un_ent[p][e] ELSE 0]]]

ImplementsSets == Promise!Spec
=============================================================================
