---------------------------- MODULE RecordLocks -----------------------------
(***************************************************************************)
(* Record locks (os/flock.c, called by fcntl() in os/sys3.c and by         *)
(* closef() in os/fio.c).  The locks of a file are a chain of records in   *)
(* the order of their starts.  A request that is blocked leaves a record   *)
(* in sleeplcks and sleeps at the address of the lock that blocks it; it   *)
(* starts again when that lock is removed or cut.  Between two sleeps a    *)
(* process keeps the processor, so a request up to its return or its sleep *)
(* is one step.                                                            *)
(***************************************************************************)
EXTENDS Integers, FiniteSets, SequencesExt, TLC

CONSTANTS
    Proc,       (* processes                                                *)
    File,       (* files, each with one inode                               *)
    MAXEND,     (* the end of a lock to the end of the file                 *)
    Ranges,     (* the ranges <<start, end>> of requests                    *)
    Types,      (* the types of locks asked for: "read", "write"            *)
    Recs,       (* flckinfo.recs: the records                               *)
    Fils,       (* flckinfo.fils: the file headers                          *)
    NoSleep     (* a process that is not in sleeplcks                       *)

Request == {[type |-> t, start |-> r[1], end |-> r[2]] : t \in Types \cup {"unlock"}, r \in Ranges}

ASSUME LockAssumption ==
    /\ IsFiniteSet(Proc) /\ IsFiniteSet(File)
    /\ NoSleep \notin [file : File, ld : Request, blkpid : Proc]
    /\ MAXEND \in Nat \ {0} /\ Recs \in Nat /\ Fils \in Nat
    /\ Types \subseteq {"read", "write"}
    /\ \A r \in Ranges : r[1] \in 0 .. MAXEND /\ r[2] \in 0 .. MAXEND /\ r[1] < r[2]

VARIABLES
    flck,       (* fl_flck: the chain of each file; `waits' of a lock are   *)
                (* the processes asleep at its address, which wakeflg       *)
                (* announces                                                *)
    fids,       (* the files that have a header                             *)
    refcnt,     (* fl_refcnt                                                *)
    sleeplcks   (* the record of each sleeping request, with blkpid         *)

vars == <<flck, fids, refcnt, sleeplcks>>

Sleepers == {p \in Proc : sleeplcks[p] # NoSleep}
InUse == Cardinality(UNION {{f} \X DOMAIN flck[f] : f \in File}) + Cardinality(Sleepers)
Free == Recs - InUse

Init ==
    /\ flck = [f \in File |-> <<>>]
    /\ fids = {}
    /\ refcnt = [f \in File |-> 0]
    /\ sleeplcks = [p \in Proc |-> NoSleep]
-----------------------------------------------------------------------------
NewLock(p, ld) == [type |-> ld.type, start |-> ld.start, end |-> ld.end,
                   pid |-> p, waits |-> {}]

Conflict(l, p, ld) ==
    /\ l.pid # p
    /\ ld.start < l.end /\ ld.end > l.start
    /\ "write" \in {l.type, ld.type}

Touches(l, ld) == ld.start <= l.end /\ ld.end >= l.start

FirstOf(S, default) == IF S = {} THEN default ELSE Min(S)

(* Where the first loop of blocked() ends: at a lock that does not start   *)
(* before the new one, or at one of the process's own that it touches.     *)
SearchEnd(c, p, ld) ==
    FirstOf({i \in DOMAIN c : \/ c[i].start >= ld.start
                              \/ c[i].pid = p /\ Touches(c[i], ld)}, Len(c) + 1)

(* Mutant of the following: the search ends with the first loop. *)
BlockedFirstLoop(c, p, ld) ==
    FirstOf({i \in 1 .. SearchEnd(c, p, ld) - 1 : Conflict(c[i], p, ld)}, 0)

(* blocked(): the lock that blocks ld, 0 if there is none. *)
Blocked(c, p, ld) ==
    FirstOf({i \in DOMAIN c :
                /\ Conflict(c[i], p, ld)
                /\ \A j \in SearchEnd(c, p, ld) .. i - 1 : c[j].start <= ld.end}, 0)

(* Its result insrt: the lock from which to look for the place of the new  *)
(* one, 0 if that is the head of the chain.                                *)
Insrt(c, p, ld) ==
    LET i == SearchEnd(c, p, ld)
    IN  IF i \in DOMAIN c /\ c[i].start < ld.start THEN i ELSE i - 1

(* After which lock a record goes: the last one, from `from' on, of those  *)
(* that start before `start'.                                              *)
Place(c, from, start) ==
    LET k == FirstOf({i \in from .. Len(c) : c[i].start >= start}, Len(c) + 1)
    IN  IF k = from THEN from ELSE k - 1

Insert(c, i, l) == InsertAt(c, i + 1, l)
-----------------------------------------------------------------------------
(* flckadj() walks along the chain.  The record of its variables: c is the *)
(* chain, i the lock at hand (flp), ins the lock before the place of the   *)
(* new one (insrtp, 0 for NULL), ld the range, n the records that are      *)
(* left; status is "walk" in the loop, "insert" after it, "done" and       *)
(* "failed" when the call returns.                                         *)
Advance(st) == [st EXCEPT !.i = @ + 1]
LeaveLoop(st) == [st EXCEPT !.status = "insert"]
StepBack(st) == [st EXCEPT !.ins = st.i - 1]
StepOff(st) == IF st.ins = st.i THEN StepBack(st) ELSE st

(* delflck() of the lock at hand: whoever sleeps there is woken. *)
Drop(st) == [st EXCEPT !.c = RemoveAt(@, st.i), !.n = @ + 1]

(* Mutant of the following: the sleepers are not woken. *)
CutSilently(st) == [st EXCEPT !.c[st.i].end = st.ld.start, !.ins = st.i]

(* The lock at hand ends where the range starts. *)
Cut(st) == [st EXCEPT !.c[st.i].end = st.ld.start, !.c[st.i].waits = {}, !.ins = st.i]

(* Mutant of the following: what remains behind the range is forgotten. *)
SeverNothing(st, p) == [st EXCEPT !.status = "insert"]

(* A record for what remains of it behind the range. *)
Sever(st, p) ==
    LET l == st.c[st.i]
        piece == NewLock(p, [type |-> l.type, start |-> st.ld.end, end |-> l.end])
    IN  IF st.n = 0 THEN [st EXCEPT !.status = "failed"]
        ELSE [st EXCEPT !.c = Insert(@, Place(@, st.i, st.ld.start), piece), !.n = @ - 1,
                        !.status = "insert"]

(* The switch of the loop, by regflck()'s type of the range relative to    *)
(* the lock at hand.                                                       *)
Walk(st, p) ==
    LET l == st.c[st.i]
        ld == st.ld
        same == l.type = ld.type
        severed == Sever(st, p)
    IN  IF st.status # "walk" \/ st.i > Len(st.c) THEN st
        ELSE IF l.pid # p THEN IF l.start > ld.end THEN LeaveLoop(st) ELSE Advance(st)
        ELSE IF ld.end < l.start THEN LeaveLoop(st)
        ELSE IF ld.end = l.start
             THEN LeaveLoop(IF same THEN [Drop(StepOff(st)) EXCEPT !.ld.end = l.end] ELSE st)
        ELSE IF ld.start > l.end THEN Advance([st EXCEPT !.ins = st.i])
        ELSE IF same /\ ld.start >= l.start /\ ld.end <= l.end THEN [st EXCEPT !.status = "done"]
        ELSE IF ld.start = l.start /\ ld.end >= l.end THEN Drop(StepBack(st))
        ELSE IF ld.start < l.start /\ ld.end >= l.end
             THEN IF same /\ ld.end = l.end THEN LeaveLoop(Drop(StepOff(st)))
                  ELSE Drop(StepOff(st))
        ELSE IF ld.start < l.start
             THEN IF same THEN LeaveLoop([Drop(StepOff(st)) EXCEPT !.ld.end = l.end])
                  ELSE IF severed.status = "failed" THEN severed
                  ELSE Drop(StepOff(severed))
        ELSE IF ld.end < l.end
             THEN IF severed.status = "failed" THEN severed
                  ELSE IF ld.start > l.start THEN Cut(severed)
                  ELSE Drop(StepBack(severed))
        ELSE IF same /\ ld.end > l.end THEN Drop([StepBack(st) EXCEPT !.ld.start = l.start])
        ELSE Advance(Cut(st))

(* What follows the loop: the new lock gets its place. *)
Finish(st, p) ==
    IF st.status \in {"done", "failed"} THEN st
    ELSE IF st.ld.type = "unlock" THEN [st EXCEPT !.status = "done"]
    ELSE IF st.n = 0 THEN [st EXCEPT !.status = "failed"]
    ELSE [st EXCEPT !.status = "done", !.n = @ - 1,
              !.c = Insert(@, IF st.ins = 0 THEN 0 ELSE Place(@, st.ins, st.ld.start),
                           NewLock(p, st.ld))]

(* flckadj() with n free records. *)
Flckadj(c, p, insrt, ld, n) ==
    LET start == [c |-> c, i |-> IF insrt = 0 THEN 1 ELSE insrt, ins |-> insrt,
                  ld |-> ld, n |-> n, status |-> "walk"]
        loop[k \in 0 .. Len(c)] == IF k = 0 THEN start ELSE Walk(loop[k - 1], p)
    IN  Finish(loop[Len(c)], p)

(* setflck() of a request that nothing blocks. *)
Adjust(c, p, ld, n) ==
    IF ld.type = "unlock" THEN Flckadj(c, p, IF c = <<>> THEN 0 ELSE 1, ld, n)
    ELSE Flckadj(c, p, Insrt(c, p, ld), ld, n)
-----------------------------------------------------------------------------
(* Whom the recorded request of p waits for, p itself if there is none. *)
BlockedOn(p) == IF p \in Sleepers THEN sleeplcks[p].blkpid ELSE p

(* Mutant of the following: it looks one process ahead. *)
DeadflckNear(p, l) == p \in {l.pid, BlockedOn(l.pid)}

(* deadflck(): from the owner of the lock on, along the recorded requests, *)
(* to the process that asks.                                               *)
Deadflck(p, l) ==
    LET hop[n \in 0 .. Cardinality(Proc)] == IF n = 0 THEN l.pid ELSE BlockedOn(hop[n - 1])
    IN  \E n \in DOMAIN hop : hop[n] = p

(* Mutant of the following: the header goes with the last user. *)
FreefidEarly(f, users, c) ==
    /\ refcnt' = [refcnt EXCEPT ![f] = users]
    /\ fids' = IF users = 0 THEN fids \ {f} ELSE fids \cup {f}

(* freefid(): `users' processes stay within setflck(), c is the chain. *)
Freefid(f, users, c) ==
    /\ refcnt' = [refcnt EXCEPT ![f] = users]
    /\ fids' = IF users = 0 /\ c = <<>> THEN fids \ {f} ELSE fids \cup {f}

(* A pass of the loop in setflck() for a process that is counted among the *)
(* `others' plus one users of the header, with n free records.             *)
Return(p, f, others, c) ==
    /\ flck' = [flck EXCEPT ![f] = c]
    /\ sleeplcks' = [sleeplcks EXCEPT ![p] = NoSleep]
    /\ Freefid(f, others, c)

Granted(p, f, ld, others, n) ==
    /\ ld.type = "unlock" \/ Blocked(flck[f], p, ld) = 0
    /\ Return(p, f, others, Adjust(flck[f], p, ld, n).c)

(* EACCES, EDEADLK or ENOLCK. *)
Refused(p, f, ld, slpflg, others, n) ==
    LET b == Blocked(flck[f], p, ld)
    IN  /\ ld.type # "unlock" /\ b # 0
        /\ ~slpflg \/ Deadflck(p, flck[f][b]) \/ n = 0
        /\ Return(p, f, others, flck[f])

Sleeps(p, f, ld, others, n) ==
    LET b == Blocked(flck[f], p, ld)
    IN  /\ ld.type # "unlock" /\ b # 0
        /\ ~Deadflck(p, flck[f][b]) /\ n > 0
        /\ flck' = [flck EXCEPT ![f][b].waits = @ \cup {p}]
        /\ sleeplcks' = [sleeplcks EXCEPT ![p] = [file |-> f, ld |-> ld, blkpid |-> flck[f][b].pid]]
        /\ refcnt' = [refcnt EXCEPT ![f] = others + 1]
        /\ fids' = fids \cup {f}

Asleep(p) == \E f \in File : \E i \in DOMAIN flck[f] : p \in flck[f][i].waits

(* fcntl() with F_SETLK and F_SETLKW: findfid() or allocfid() first. *)
Setflck(p, f, ld, slpflg) ==
    /\ p \notin Sleepers
    /\ f \in fids \/ (ld.type # "unlock" /\ Cardinality(fids) < Fils)
    /\ \/ Granted(p, f, ld, refcnt[f], Free)
       \/ Refused(p, f, ld, slpflg, refcnt[f], Free)
       \/ slpflg /\ Sleeps(p, f, ld, refcnt[f], Free)

(* A sleeper was woken: it gives its record back and starts again. *)
Retry(p) ==
    /\ p \in Sleepers /\ ~Asleep(p)
    /\ LET f == sleeplcks[p].file
           ld == sleeplcks[p].ld
       IN  \/ Granted(p, f, ld, refcnt[f] - 1, Free + 1)
           \/ Refused(p, f, ld, TRUE, refcnt[f] - 1, Free + 1)
           \/ Sleeps(p, f, ld, refcnt[f] - 1, Free + 1)

(* A signal ends the sleep, EINTR. *)
Interrupted(p) ==
    /\ p \in Sleepers
    /\ LET f == sleeplcks[p].file
           c == [i \in DOMAIN flck[f] |-> [flck[f][i] EXCEPT !.waits = @ \ {p}]]
       IN  Return(p, f, refcnt[f] - 1, c)

(* cleanlocks(), at each close of the file by the process. *)
Cleaned(c, p) ==
    LET rest[k \in 0 .. Len(c)] == IF k = 0 THEN <<>>
                                   ELSE IF c[k].pid = p THEN rest[k - 1]
                                   ELSE Append(rest[k - 1], c[k])
    IN  rest[Len(c)]

Cleanlocks(p, f) ==
    /\ p \notin Sleepers /\ f \in fids
    /\ Return(p, f, refcnt[f], Cleaned(flck[f], p))

Next == \E p \in Proc :
    \/ \E f \in File : \/ \E ld \in Request, slpflg \in BOOLEAN : Setflck(p, f, ld, slpflg)
                       \/ Cleanlocks(p, f)
    \/ Retry(p)
    \/ Interrupted(p)

Spec == Init /\ [][Next]_vars
-----------------------------------------------------------------------------
Lock == [type : Types, start : 0 .. MAXEND, end : 0 .. MAXEND, pid : Proc, waits : SUBSET Proc]

TypeOK ==
    /\ \A f \in File : \A i \in DOMAIN flck[f] :
          flck[f][i] \in Lock /\ flck[f][i].start < flck[f][i].end
    /\ fids \subseteq File /\ Cardinality(fids) <= Fils
    /\ refcnt \in [File -> Nat]
    /\ \A p \in Sleepers : sleeplcks[p] \in [file : File, ld : Request, blkpid : Proc]
    /\ Free \in 0 .. Recs

(* A process sleeps only at a lock that blocks its request: whoever        *)
(* removes, cuts or changes a lock wakes those who may go on.              *)
SleepersBlocked ==
    \A f \in File : \A i \in DOMAIN flck[f] : \A p \in flck[f][i].waits :
        /\ p \in Sleepers /\ sleeplcks[p].file = f
        /\ Conflict(flck[f][i], p, sleeplcks[p].ld)

(* Nobody waits in a circle: of any processes that sleep one sleeps at the *)
(* lock of a process that is not among them.  deadflck() looks along pids  *)
(* that were noted when the others went to sleep.                          *)
WaitsFor(p, q) == \E f \in File : \E i \in DOMAIN flck[f] :
                      p \in flck[f][i].waits /\ flck[f][i].pid = q
NoDeadlock == \A S \in (SUBSET Sleepers) \ {{}} : \E p \in S : \A q \in S : ~WaitsFor(p, q)

(* The chains are well formed, and a file has a header as long as it has   *)
(* locks or a process is within setflck() for it, and fl_refcnt counts     *)
(* those: no header is lost, none goes while a sleeper comes back to it.   *)
HeadersExact ==
    /\ TypeOK
    /\ \A f \in File :
           /\ refcnt[f] = Cardinality({p \in Sleepers : sleeplcks[p].file = f})
           /\ f \in fids <=> (flck[f] # <<>> \/ refcnt[f] > 0)

(* Two processes never have locks on a byte one of which is for writing.   *)
NoConflict ==
    \A f \in File : \A i, j \in DOMAIN flck[f] :
        ~Conflict(flck[f][i], flck[f][j].pid, flck[f][j])

(* The bytes of each process in a chain, by type. *)
Held(c) == UNION {{<<b, c[i].pid, c[i].type>> : b \in c[i].start .. c[i].end - 1} : i \in DOMAIN c}

(* What a request makes of them. *)
Changed(held, p, ld) ==
    LET bytes == ld.start .. ld.end - 1
    IN  {h \in held : ~(h[1] \in bytes /\ h[2] = p)}
            \cup (IF ld.type = "unlock" THEN {} ELSE bytes \X {p} \X {ld.type})

(* In whatever way flckadj() cuts, joins and severs the locks of the       *)
(* process: a request with enough records has its bytes and no others      *)
(* changed; one that runs out of records leaves the process at most        *)
(* without some of the bytes that it asked for.                            *)
ChangesExact ==
    \A p \in Proc \ Sleepers, f \in File, ld \in Request :
        ld.type = "unlock" \/ Blocked(flck[f], p, ld) = 0 =>
            LET r == Adjust(flck[f], p, ld, Free)
                old == Held(flck[f])
            IN  IF r.status = "done" THEN Held(r.c) = Changed(old, p, ld)
                ELSE /\ Held(r.c) \subseteq old
                     /\ Changed(old, p, [ld EXCEPT !.type = "unlock"]) \subseteq Held(r.c)

(* The locks are a table of bytes: LockTable. *)
HeldTable == UNION {{<<f, h[1], h[2], h[3]>> : h \in Held(flck[f])} : f \in File}
Table == INSTANCE LockTable WITH held <- HeldTable
ImplementsTable == Table!TableSpec
=============================================================================
