-------------------------------- MODULE Pipes --------------------------------
(***************************************************************************)
(* One pipe or FIFO (os/pipe.c, and its part of os/rdwri.c and os/sys2.c). *)
(* read(), write() and the last close lock the inode, so that each is one  *)
(* step up to its end or its sleep, which gives up the lock; open() does   *)
(* not lock it, but sleeps only where it waits for the other side.         *)
(*                                                                         *)
(* The bytes are in the buffers of the inode's blocks.  Stale stands for a *)
(* byte the code has no claim to: of a block that was not read in before a *)
(* write, or whose buffer lost B_DELWRI and may be used for something else.*)
(***************************************************************************)
EXTENDS Integers, FiniteSets, SequencesExt, TLC

CONSTANTS
    Proc,       (* processes                                                *)
    File,       (* entries of the file table                                *)
    PIPSIZ,     (* bytes a pipe has room for                                *)
    BSIZE,      (* bytes of a block                                         *)
    Modes,      (* modes of open(): FREAD, FWRITE, FNDELAY                  *)
    Texts,      (* what is written                                          *)
    Counts,     (* how many bytes are asked for                             *)
    Failing,    (* what may fail: iomove(), for a bad address of the user's *)
                (* buffer, and bread()                                      *)
    Bytes, Stale

Block == 0 .. PIPSIZ \div BSIZE - 1
Spot == 0 .. PIPSIZ - 1
NoFile == {}
Ended == {"done", "end", "pipe"}

ASSUME PipeAssumption ==
    /\ IsFiniteSet(File) /\ NoFile \notin File
    /\ BSIZE \in Nat \ {0} /\ PIPSIZ \in Nat \ {0} /\ PIPSIZ % BSIZE = 0
    /\ Modes \subseteq SUBSET {"FREAD", "FWRITE", "FNDELAY"}
    /\ \A m \in Modes : m \cap {"FREAD", "FWRITE"} # {}
    /\ Texts \subseteq Seq(Bytes) \ {<<>>} /\ Counts \subseteq Nat \ {0}
    /\ Failing \subseteq {"iomove", "bread"}
    /\ Stale \notin Bytes

VARIABLES
    f_flag,             (* mode of a file, NoFile if it is free             *)
    i_frcnt, i_fwcnt,   (* readers and writers                              *)
    i_fflag,            (* who sleeps: IFIR, IFIW                           *)
    i_size, i_frptr, i_fwptr,
    i_faddr,            (* blocks that are allocated                        *)
    data,               (* contents of the blocks                           *)
    call, wchan         (* what a process is in, and where it sleeps        *)

counts == <<i_frcnt, i_fwcnt>>
bytes == <<i_size, i_frptr, i_fwptr, i_faddr, data>>
vars == <<f_flag, counts, i_fflag, bytes, call, wchan>>

Awake == "awake"
Call(op, f, left, n) == [op |-> op, f |-> f, left |-> left, n |-> n]
Over(how) == Call(how, NoFile, <<>>, 0)

Nothing == [s \in Spot |-> Stale]

Init ==
    /\ f_flag = [f \in File |-> NoFile]
    /\ i_frcnt = 0 /\ i_fwcnt = 0 /\ i_fflag = {}
    /\ i_size = 0 /\ i_frptr = 0 /\ i_fwptr = 0
    /\ i_faddr = {} /\ data = Nothing
    /\ call = [p \in Proc |-> Over("done")]
    /\ wchan = [p \in Proc |-> Awake]
-----------------------------------------------------------------------------
Least(a, b) == IF a < b THEN a ELSE b
If(condition, x) == IF condition THEN {x} ELSE {}
One(condition) == IF condition THEN 1 ELSE 0

Woken(w, C) == [q \in Proc |-> IF w[q] \in C THEN Awake ELSE w[q]]
Wakeup(C) == Woken(wchan, C)

Idle(p) == call[p].op \in Ended
Ready(p, op) == call[p].op = op /\ wchan[p] = Awake

(* Files that are open, and on which nobody waits in open() any more. *)
Opened == {f \in File : f_flag[f] # NoFile /\
                        \A p \in Proc : call[p].op = "open" => call[p].f # f}

(* Process p leaves its call with result how, or sleeps in c at chan. *)
Ends(p, how) == call' = [call EXCEPT ![p] = Over(how)]
Sleeps(p, c, chan, C) ==
    /\ call' = [call EXCEPT ![p] = c]
    /\ wchan' = [Wakeup(C) EXCEPT ![p] = chan]
-----------------------------------------------------------------------------
(* openp(): the channel to sleep at, once the counts are rd and wr.        *)
WaitsFor(m, rd, wr) ==
    IF "FREAD" \in m /\ wr = 0 /\ "FNDELAY" \notin m /\ i_size = 0 THEN "fwcnt"
    ELSE IF "FWRITE" \in m /\ rd = 0 THEN "frcnt" ELSE Awake

Waiting(p, f, at, C) ==
    IF at = Awake THEN Ends(p, "done") /\ wchan' = Wakeup(C)
    ELSE Sleeps(p, Call("open", f, <<>>, 0), at, C)

(* open().  With FNDELAY a writer without a reader gets ENXIO. *)
Open(p, f) == \E m \in Modes :
    LET rd == i_frcnt + One("FREAD" \in m)
        wr == i_fwcnt + One("FWRITE" \in m)
    IN  /\ Idle(p) /\ f_flag[f] = NoFile
        /\ ~({"FWRITE", "FNDELAY"} \subseteq m /\ rd = 0)
        /\ f_flag' = [f_flag EXCEPT ![f] = m]
        /\ i_frcnt' = rd /\ i_fwcnt' = wr
        /\ Waiting(p, f, WaitsFor(m, rd, wr),
                   If(rd > 0 /\ i_frcnt = 0, "frcnt") \cup If(wr > 0 /\ i_fwcnt = 0, "fwcnt"))
        /\ UNCHANGED <<i_fflag, bytes>>

(* openp() goes on after a sleep. *)
OpenAgain(p) ==
    LET f == call[p].f
    IN  /\ Ready(p, "open")
        /\ Waiting(p, f, WaitsFor(f_flag[f], i_frcnt, i_fwcnt), {})
        /\ UNCHANGED <<f_flag, counts, i_fflag, bytes>>

(* pipe() *)
Pipe(p) == \E f, g \in File :
    /\ Idle(p) /\ f # g /\ \A h \in File : f_flag[h] = NoFile
    /\ f_flag' = [f_flag EXCEPT ![f] = {"FREAD"}, ![g] = {"FWRITE"}]
    /\ i_frcnt' = 1 /\ i_fwcnt' = 1 /\ i_fflag' = {}
    /\ Ends(p, "done")
    /\ UNCHANGED <<bytes, wchan>>

(* The last close: closef(), closep(), while processes sleep at w.         *)
(* Mutant of the following: readers that wait for bytes are left alone.    *)
ClosepQuietly(f, w) ==
    LET rd == i_frcnt - One("FREAD" \in f_flag[f])
        wr == i_fwcnt - One("FWRITE" \in f_flag[f])
        writersToo == "FREAD" \in f_flag[f] /\ rd = 0 /\ "IFIW" \in i_fflag
    IN  /\ f_flag' = [f_flag EXCEPT ![f] = NoFile]
        /\ i_frcnt' = rd /\ i_fwcnt' = wr
        /\ i_fflag' = i_fflag \ If(writersToo, "IFIW")
        /\ wchan' = Woken(w, If(writersToo, "fwcnt"))
        /\ IF rd = 0 /\ wr = 0
           THEN i_size' = 0 /\ i_frptr' = 0 /\ i_fwptr' = 0 /\ i_faddr' = {} /\ data' = Nothing
           ELSE UNCHANGED bytes

(* The last close: closef(), closep(), while processes sleep at w. *)
Closep(f, w) ==
    LET rd == i_frcnt - One("FREAD" \in f_flag[f])
        wr == i_fwcnt - One("FWRITE" \in f_flag[f])
        writersToo == "FREAD" \in f_flag[f] /\ rd = 0 /\ "IFIW" \in i_fflag
        readersToo == "FWRITE" \in f_flag[f] /\ wr = 0 /\ "IFIR" \in i_fflag
    IN  /\ f_flag' = [f_flag EXCEPT ![f] = NoFile]
        /\ i_frcnt' = rd /\ i_fwcnt' = wr
        /\ i_fflag' = i_fflag \ (If(writersToo, "IFIW") \cup If(readersToo, "IFIR"))
        /\ wchan' = Woken(w, If(writersToo, "fwcnt") \cup If(readersToo, "frcnt"))
        /\ IF rd = 0 /\ wr = 0
           THEN i_size' = 0 /\ i_frptr' = 0 /\ i_fwptr' = 0 /\ i_faddr' = {} /\ data' = Nothing
           ELSE UNCHANGED bytes

(* A file in use by a call is held by a process and not at its last close. *)
Close(f) ==
    /\ f_flag[f] # NoFile /\ \A p \in Proc : call[p].f # f
    /\ Closep(f, wchan)
    /\ UNCHANGED call
-----------------------------------------------------------------------------
(* read(): a call that begins, or that looks again after its sleep. *)
Reads(p) ==
    IF Idle(p) THEN {Call("read", f, <<>>, n) :
                        f \in {g \in Opened : "FREAD" \in f_flag[g]}, n \in Counts}
    ELSE IF Ready(p, "read") THEN {call[p]} ELSE {}

(* Blocks whose last byte is read when nothing behind it is in them.       *)
(* Mutant of the following: however much is behind it.                     *)
DroppedAlways(k) ==
    {b \in Block : \E j \in 1 .. k : (i_frptr + j) % PIPSIZ = ((b + 1) * BSIZE) % PIPSIZ}

Dropped(k) ==
    {b \in Block : \E j \in 1 .. k : /\ (i_frptr + j) % PIPSIZ = ((b + 1) * BSIZE) % PIPSIZ
                                     /\ i_size - j < PIPSIZ - BSIZE}

(* Where the next read begins, when k bytes are counted and j were moved. *)
NextRead(k, j) == IF k = i_size THEN 0 ELSE (i_frptr + j) % PIPSIZ

(* The loop of readi() and what follows it; bmap() has found the blocks. *)
Take(k, j) ==
    /\ \A i \in 0 .. k - 1 : ((i_frptr + i) % PIPSIZ) \div BSIZE \in i_faddr
    /\ i_size' = i_size - k
    /\ i_frptr' = NextRead(k, j)
    /\ i_fwptr' = IF k = i_size THEN 0 ELSE i_fwptr
    /\ data' = [s \in Spot |-> IF s \div BSIZE \in Dropped(k) THEN Stale ELSE data[s]]
    /\ i_fflag' = i_fflag \ {"IFIW"}
    /\ wchan' = Wakeup(If("IFIW" \in i_fflag, "fwcnt"))
    /\ UNCHANGED <<f_flag, counts, i_faddr>>

Read(p) == \E c \in Reads(p) :
    LET k == Least(c.n, i_size)
    IN  /\ i_size > 0
        /\ Take(k, k)
        /\ Ends(p, "done")

(* Bytes of one pass through the loops, of k that are left, from a place on.*)
Piece(from, k) == Least(BSIZE - (from % BSIZE), k)

(* The loop ends before all is read: the block is not there or its transfer*)
(* ended short (b_resid), or bread() or iomove() fails (EIO, EFAULT).  Then*)
(* its bytes are counted all the same; u_offset goes on with iomove().     *)
ReadStops(p) == \E c \in Reads(p), j \in Spot, why \in {"resid"} \cup Failing :
    LET k == Least(c.n, i_size)
        n == IF why = "resid" THEN 0 ELSE Piece(i_frptr + j, k - j)
    IN  /\ j < k /\ (j = 0 \/ (i_frptr + j) % BSIZE = 0)
        /\ Take(j + n, IF why = "bread" THEN j + n ELSE j)
        /\ Ends(p, "done")

(* Nobody writes any more, or the reader does not wait. *)
ReadNone(p) == \E c \in Reads(p) :
    /\ i_size = 0
    /\ \/ i_fwcnt = 0 /\ Ends(p, "end")
       \/ i_fwcnt # 0 /\ "FNDELAY" \in f_flag[c.f] /\ Ends(p, "done")
    /\ UNCHANGED <<f_flag, counts, i_fflag, bytes, wchan>>

ReadWaits(p) == \E c \in Reads(p) :
    /\ i_size = 0 /\ i_fwcnt # 0 /\ "FNDELAY" \notin f_flag[c.f]
    /\ i_fflag' = i_fflag \cup {"IFIR"}
    /\ Sleeps(p, c, "frcnt", {})
    /\ UNCHANGED <<f_flag, counts, bytes>>
-----------------------------------------------------------------------------
(* write() *)
Writes(p) ==
    IF Idle(p) THEN {Call("write", f, s, 0) :
                        f \in {g \in Opened : "FWRITE" \in f_flag[g]}, s \in Texts}
    ELSE IF Ready(p, "write") THEN {call[p]} ELSE {}

Fits(s) == Len(s) + i_size <= PIPSIZ
InPart(s) == ~Fits(s) /\ Len(s) > PIPSIZ /\ i_size < PIPSIZ

At(j) == (i_fwptr + j) % PIPSIZ

(* Blocks that are taken without being read when k bytes are written.      *)
Fresh(k) ==
    {b \in Block : \E j \in 0 .. k - 1 :
        At(j) = b * BSIZE /\ (k - j >= BSIZE \/ i_size + j < PIPSIZ - BSIZE)}

(* writei() from the first bmap() on: the first k bytes of s go in, and n  *)
(* more are counted that do not.                                           *)
Put(s, k, n) ==
    LET written == {At(j) : j \in 0 .. k - 1}
        counted == {At(j) : j \in 0 .. k + n - 1}
    IN  /\ data' = [x \in Spot |->
                       IF x \in written THEN s[((x - i_fwptr) % PIPSIZ) + 1]
                       ELSE IF x \in counted \/ x \div BSIZE \in Fresh(k + n) THEN Stale
                       ELSE data[x]]
        /\ i_faddr' = i_faddr \cup {x \div BSIZE : x \in counted}
        /\ i_size' = i_size + k + n
        /\ UNCHANGED <<i_frptr, f_flag, counts>>

WakeReaders == If("IFIR" \in i_fflag, "frcnt")

Write(p) == \E c \in Writes(p) :
    /\ i_frcnt # 0 /\ Fits(c.left)
    /\ Put(c.left, Len(c.left), 0) /\ i_fwptr' = At(Len(c.left))
    /\ i_fflag' = i_fflag \ {"IFIR"} /\ wchan' = Wakeup(WakeReaders)
    /\ Ends(p, "done")

(* As much as there is room for, and the rest when there is room again. *)
WritePart(p) == \E c \in Writes(p) :
    LET k == PIPSIZ - i_size
    IN  /\ i_frcnt # 0 /\ InPart(c.left)
        /\ Put(c.left, k, 0) /\ i_fwptr' = At(k)
        /\ IF "FNDELAY" \in f_flag[c.f]
           THEN /\ Ends(p, "done") /\ wchan' = Wakeup(WakeReaders)
                /\ i_fflag' = i_fflag \ {"IFIR"}
           ELSE /\ Sleeps(p, [c EXCEPT !.left = SubSeq(@, k + 1, Len(@))], "fwcnt", WakeReaders)
                /\ i_fflag' = (i_fflag \ {"IFIR"}) \cup {"IFIW"}

(* The loop ends after j bytes: bmap() finds no block (ENOSPC), or iomove()*)
(* or bread() fails, and the buffer is given up (brelse).  What should have*)
(* gone into it is counted all the same; u_offset goes on with iomove().   *)
WriteStops(p) == \E c \in Writes(p), j \in Spot, why \in {"bmap"} \cup Failing :
    LET k == Least(Len(c.left), PIPSIZ - i_size)
        n == IF why = "bmap" THEN 0 ELSE Piece(At(j), k - j)
        starts == At(j) % BSIZE = 0
    IN  /\ i_frcnt # 0 /\ (Fits(c.left) \/ InPart(c.left))
        /\ j < k
        /\ CASE why = "bmap" -> starts /\ At(j) \div BSIZE \notin i_faddr
             [] why = "iomove" -> j = 0 \/ starts
             [] why = "bread" -> (j = 0 \/ starts) /\ At(j) \div BSIZE \notin Fresh(j + n)
        /\ Put(c.left, j, n)
        /\ i_fwptr' = At(IF why = "bread" THEN j + n ELSE j)
        /\ i_fflag' = i_fflag \ {"IFIR"} /\ wchan' = Wakeup(WakeReaders)
        /\ Ends(p, "done")

WriteWaits(p) == \E c \in Writes(p) :
    /\ i_frcnt # 0 /\ ~Fits(c.left) /\ ~InPart(c.left)
    /\ IF "FNDELAY" \in f_flag[c.f]
       THEN Ends(p, "done") /\ UNCHANGED <<i_fflag, wchan>>
       ELSE Sleeps(p, c, "fwcnt", {}) /\ i_fflag' = i_fflag \cup {"IFIW"}
    /\ UNCHANGED <<f_flag, counts, bytes>>

(* EPIPE *)
WriteNobody(p) == \E c \in Writes(p) :
    /\ i_frcnt = 0
    /\ Ends(p, "pipe")
    /\ UNCHANGED <<f_flag, counts, i_fflag, bytes, wchan>>
-----------------------------------------------------------------------------
(* Mutant of the following: an open() that fails gives only the file back. *)
InterruptedFileOnly(p) ==
    /\ ~Idle(p)
    /\ Ends(p, "done")
    /\ wchan' = [wchan EXCEPT ![p] = Awake]
    /\ f_flag' = IF call[p].op = "open" THEN [f_flag EXCEPT ![call[p].f] = NoFile] ELSE f_flag
    /\ UNCHANGED <<counts, i_fflag, bytes>>

(* A signal ends a sleep, or comes before the process runs after it: EINTR,*)
(* and a file that was not yet open is closed.                             *)
Interrupted(p) ==
    LET w == [wchan EXCEPT ![p] = Awake]
    IN  /\ ~Idle(p)
        /\ Ends(p, "done")
        /\ IF call[p].op = "open" THEN Closep(call[p].f, w)
           ELSE wchan' = w /\ UNCHANGED <<f_flag, counts, i_fflag, bytes>>

Next ==
    \/ \E f \in File : Close(f)
    \/ \E p \in Proc :
        \/ \E f \in File : Open(p, f)
        \/ OpenAgain(p) \/ Pipe(p) \/ Interrupted(p)
        \/ Read(p) \/ ReadStops(p) \/ ReadNone(p) \/ ReadWaits(p)
        \/ Write(p) \/ WritePart(p) \/ WriteStops(p) \/ WriteWaits(p) \/ WriteNobody(p)

Spec == Init /\ [][Next]_vars
-----------------------------------------------------------------------------
(* Every variable keeps to its type, and the pointers to the size: the     *)
(* next byte goes behind the last one (readi, writei), unless an iomove()  *)
(* has failed.                                                             *)
TypeOK ==
    /\ f_flag \in [File -> Modes \cup {NoFile, {"FREAD"}, {"FWRITE"}}]
    /\ i_frcnt \in Nat /\ i_fwcnt \in Nat /\ i_fflag \subseteq {"IFIR", "IFIW"}
    /\ i_size \in 0 .. PIPSIZ /\ i_frptr \in Spot /\ i_fwptr \in Spot
    /\ "iomove" \in Failing \/ i_fwptr = (i_frptr + i_size) % PIPSIZ
    /\ i_faddr \subseteq Block /\ data \in [Spot -> Bytes \cup {Stale}]
    /\ \A p \in Proc :
        /\ call[p].op \in Ended \cup {"open", "read", "write"}
        /\ wchan[p] \in {Awake, "frcnt", "fwcnt"}
        /\ Idle(p) => call[p] = Over(call[p].op) /\ wchan[p] = Awake
        /\ ~Idle(p) => call[p].f \in File /\ f_flag[call[p].f] # NoFile

(* The counts are those of the files that are open to read and to write,   *)
(* however open() ended (openp, closep, the half-opens of copen): otherwise*)
(* readers wait for writers that are gone, or bytes stay behind.           *)
Having(flag) == Cardinality({f \in File : flag \in f_flag[f]})

CountsExact ==
    /\ i_frcnt = Having("FREAD") /\ i_fwcnt = Having("FWRITE")
    /\ i_frcnt = 0 /\ i_fwcnt = 0 => i_size = 0 /\ i_faddr = {}

(* Nobody sleeps without a reason, though openers, readers and writers     *)
(* share two channels (openp, readi, writei): an opener sleeps while there *)
(* is no other side, a reader while nothing is there and somebody may      *)
(* write, a writer while its bytes do not fit and somebody may read; and   *)
(* the flag that has readers or writers woken up is set.                   *)
SleepersBlocked ==
    \A p \in Proc : wchan[p] # Awake =>
        CASE call[p].op = "open" ->
                /\ wchan[p] = WaitsFor(f_flag[call[p].f], i_frcnt, i_fwcnt)
                /\ wchan[p] = "fwcnt" => i_size = 0
          [] call[p].op = "read" ->
                wchan[p] = "frcnt" /\ i_size = 0 /\ i_fwcnt > 0 /\ "IFIR" \in i_fflag
          [] call[p].op = "write" ->
                /\ wchan[p] = "fwcnt" /\ i_frcnt > 0 /\ "IFIW" \in i_fflag
                /\ ~Fits(call[p].left) /\ ~InPart(call[p].left)

(* What Fifo promises of the bytes: those between the pointers are the     *)
(* ones written, in spite of B_DELWRI and of blocks that are not read in;  *)
(* and TypeOK.  True of the code only while no iomove() and no bread()     *)
(* fails (Failing = {}): with them bytes come in that nobody wrote.        *)
Queue == [i \in 1 .. i_size |-> data[(i_frptr + i - 1) % PIPSIZ]]

F == INSTANCE Fifo WITH
        Procs <- Proc, Room <- PIPSIZ,
        queue <- Queue, readers <- Having("FREAD"), writers <- Having("FWRITE"),
        left <- [p \in Proc |-> call[p].left],
        told <- [p \in Proc |-> IF call[p].op \in {"end", "pipe"} THEN call[p].op ELSE "nothing"]

ImplementsFifo == F!Spec /\ []TypeOK
=============================================================================
