----------------------------- MODULE BufferCache -----------------------------
(***************************************************************************)
(* The block buffer cache, att.rel.2/uts/iAPX286/io/bio.c, with the        *)
(* callers' patterns of os/rdwri.c and os/subr.c.                          *)
(*                                                                         *)
(* The kernel runs on one processor and is not preempted: a process in the *)
(* kernel keeps the processor (`cpu') until it sleeps or returns to user   *)
(* mode.  Only the disk interrupt, which runs iodone(), comes between two  *)
(* of its instructions, and spl6() shuts it out.  An action of a process   *)
(* is a stretch of code that the interrupt cannot cut, or that it cannot   *)
(* be told from cutting.  Device and block number are one value, a member  *)
(* of Block; the hash chains are the buffers that carry that value.        *)
(***************************************************************************)
EXTENDS Integers, FiniteSets, SequencesExt

CONSTANTS
    Proc,            (* processes                                           *)
    Buf,             (* buffer headers (v.v_buf of them)                    *)
    Block,           (* <device, block number> pairs                        *)
    DevOf,           (* the device of a block                               *)
    Value,           (* contents of a block                                 *)
    Calls,           (* the calls of the cache that processes make          *)
    AsyncReserve,    (* bawrite() goes asynchronous above it (4 in bio.c)   *)
    Failing,         (* the transfers a device may fail: "READ", "WRITE"    *)
    ErrorsInWindow,  (* may a failed transfer interrupt getblk() between    *)
                     (* its test of B_STALE and its spl6()?                 *)
    NoProc, NoBuf, NoBlock

Flag == {"READ", "DONE", "ERROR", "BUSY", "WANTED", "AGE", "ASYNC", "DELWRI",
         "STALE"}

(* What a process sleeps on: a buffer, the free list, the write count. *)
FreeChan == "bfreelist"
AsyncChan == "basyncnt"
Awake == "awake"

Op == {"read", "breada", "modify", "write", "pair", "eblk",
       "update", "bdflush", "shutdown", "umount"}

(* A call: the block it is about, a second block (the read-ahead block of  *)
(* breada, the block bmap allocates while it holds the indirect block) and *)
(* how a changed buffer is given back.                                     *)
Call == [op: Op, blk: Block, second: Block \cup {NoBlock},
         how: {"bwrite", "bawrite", "bdwrite"}]

ASSUME ConstantAssumption ==
    /\ NoProc \notin Proc
    /\ NoBuf \notin Buf
    /\ NoBlock \notin Block
    /\ Buf \cap {FreeChan, AsyncChan, Awake} = {}
    /\ IsFiniteSet(Buf)
    /\ Value # {}
    /\ Calls # {} /\ Calls \subseteq Call
    /\ AsyncReserve \in Nat
    /\ Failing \subseteq {"READ", "WRITE"}
    /\ ErrorsInWindow \in BOOLEAN
    /\ \A c \in Calls : c.op \in {"breada", "pair"} => c.second # c.blk
    /\ \A c \in Calls : c.op = "pair" => c.second \in Block

VARIABLES
    flags,      (* b_flags of each buffer                                   *)
    blkno,      (* b_dev and b_blkno of each buffer                         *)
    data,       (* the contents behind b_un.b_addr                          *)
    freelist,   (* bfreelist: the av_forw chain; its length is b_bcount     *)
    flwanted,   (* B_WANTED of bfreelist                                    *)
    basyncnt,   (* asynchronous writes outstanding                          *)
    basywait,   (* somebody sleeps in bdwait()                              *)
    ioq,        (* the buffers the device queues hold                       *)
    disk,       (* what the devices hold                                    *)
    cpu,        (* the process inside the kernel, or NoProc                 *)
    wchan,      (* p_wchan                                                  *)
    pc, call, want, role, cur, bp, ret,   (* where each process is          *)
    error       (* u.u_error                                                *)

bufVars == <<flags, blkno, data, freelist, flwanted>>
ioVars == <<basyncnt, basywait, ioq, disk>>
procVars == <<cpu, wchan, pc, call, want, role, cur, bp, ret, error>>
vars == <<bufVars, ioVars, procVars>>

Label == {"user", "search", "found", "got", "ahead", "join", "rwait", "hold",
          "modify", "parent", "wwait", "count", "flush", "age", "bdwait",
          "inval"}
-----------------------------------------------------------------------------
(* Helpers. *)

InFree(b) == Contains(freelist, b)

(* notavail(): the buffer leaves the free list. *)
Notavail(b) == \E i \in DOMAIN freelist :
                   freelist[i] = b /\ freelist' = RemoveAt(freelist, i)

(* The buffers incore() and getblk() recognise as block k. *)
Matches(k) == {b \in Buf : k # NoBlock /\ blkno[b] = k /\ "STALE" \notin flags[b]}

Incore(k) == Matches(k) # {}

(* wakeup() on every channel of C, over a table of wait channels. *)
Wakeup(w, C) == [p \in Proc |-> IF w[p] \in C THEN Awake ELSE w[p]]

(* Mutant of AfterError: the buffer of a failed transfer stays findable. *)
AfterErrorFindable(f) == IF "ERROR" \in f THEN (f \cup {"AGE"}) \ {"ERROR", "DELWRI"}
                                          ELSE f

(* brelse(): a buffer whose transfer failed is not to be found again. *)
AfterError(f) == IF "ERROR" \in f
                 THEN (f \cup {"STALE", "AGE"}) \ {"ERROR", "DELWRI"}
                 ELSE f

(* Mutant of ReleaseChans: who waits for any buffer is forgotten. *)
ReleaseChansNoFree(b, f) == IF "WANTED" \in f THEN {b} ELSE {}

(* Whom brelse() wakes up: who waits for the buffer, who waits for any. *)
ReleaseChans(b, f) == (IF "WANTED" \in f THEN {b} ELSE {})
                      \cup (IF flwanted THEN {FreeChan} ELSE {})

(* brelse() of buffer b with flags f, in a kernel whose wait channels are w. *)
Brelse(b, f, w) ==
    /\ flags' = [flags EXCEPT ![b] =
                   AfterError(f) \ {"WANTED", "BUSY", "ASYNC", "AGE"}]
    /\ freelist' = IF "AGE" \in AfterError(f) THEN Cons(b, freelist)
                                              ELSE Append(freelist, b)
    /\ flwanted' = FALSE
    /\ wchan' = Wakeup(w, ReleaseChans(b, f))

(* Mutant of WriteFlags: B_DELWRI is not cleared. *)
WriteFlagsKeepDelwri(f) == f \ {"READ", "DONE", "ERROR"}

(* The flags bwrite() hands to the strategy routine. *)
WriteFlags(f) == f \ {"READ", "DONE", "ERROR", "DELWRI"}

(* A process may run when it is awake and nobody else is in the kernel. *)
Runs(p) == cpu \in {NoProc, p} /\ wchan[p] = Awake

(* The process goes on at label l, keeping the processor in the kernel. *)
Goto(p, l) ==
    /\ pc' = [pc EXCEPT ![p] = l]
    /\ cpu' = IF l = "user" THEN NoProc ELSE p

(* sleep(): the process gives the processor up; it resumes at label l. *)
Sleep(p, chan, l) ==
    /\ wchan' = [wchan EXCEPT ![p] = chan]
    /\ pc' = [pc EXCEPT ![p] = l]
    /\ cpu' = NoProc
-----------------------------------------------------------------------------
Init ==
    /\ flags = [b \in Buf |-> {}]
    /\ blkno = [b \in Buf |-> NoBlock]
    /\ data = [b \in Buf |-> CHOOSE v \in Value : TRUE]
    /\ freelist \in [1 .. Cardinality(Buf) -> Buf]
    /\ \A b \in Buf : InFree(b)
    /\ IsInjective(freelist)
    /\ flwanted = FALSE
    /\ basyncnt = 0 /\ basywait = FALSE
    /\ ioq = {}
    /\ disk \in [Block -> Value]
    /\ cpu = NoProc
    /\ wchan = [p \in Proc |-> Awake]
    /\ pc = [p \in Proc |-> "user"]
    /\ call = [p \in Proc |-> CHOOSE c \in Calls : TRUE]
    /\ want = [p \in Proc |-> NoBlock]
    /\ role = [p \in Proc |-> "main"]
    /\ cur = [p \in Proc |-> NoBuf]
    /\ bp = [p \in Proc |-> NoBuf]
    /\ ret = [p \in Proc |-> "user"]
    /\ error = [p \in Proc |-> FALSE]
-----------------------------------------------------------------------------
(* Entering the kernel. *)

(* A device is closed for the last time (closef, sumount) when no process  *)
(* is in a call on one of its blocks.                                      *)
Quiet(p, d) == \A q \in Proc \ {p} :
                   pc[q] # "user" => /\ DevOf[call[q].blk] # d
                                     /\ call[q].second # NoBlock
                                           => DevOf[call[q].second] # d

Enter(p, c, l) ==
    /\ pc[p] = "user" /\ Runs(p)
    /\ call' = [call EXCEPT ![p] = c]
    /\ error' = [error EXCEPT ![p] = FALSE]
    /\ role' = [role EXCEPT ![p] = "main"]
    /\ Goto(p, l)
    /\ UNCHANGED <<bufVars, ioVars, wchan, cur, bp, ret>>

(* bread, getblk, geteblk, and breada when the block is not in core. *)
CallGetblk(p) == \E c \in Calls :
    /\ \/ c.op \in {"read", "modify", "write", "pair", "eblk"}
       \/ c.op = "breada" /\ ~Incore(c.blk)
    /\ Enter(p, c, "search")
    /\ want' = [want EXCEPT ![p] = IF c.op = "eblk" THEN NoBlock ELSE c.blk]

CallBreadaIncore(p) == \E c \in Calls :
    /\ c.op = "breada" /\ Incore(c.blk)
    /\ Enter(p, c, "ahead")
    /\ UNCHANGED want

(* update(), bdflush() of xsched, the shutdown of uadmin(), a last close. *)
CallFlush(p) == \E c \in Calls :
    /\ c.op \in {"update", "bdflush", "shutdown", "umount"}
    /\ c.op = "umount" => Quiet(p, DevOf[c.blk])
    /\ Enter(p, c, IF c.op = "bdflush" THEN "age" ELSE "flush")
    /\ UNCHANGED want
-----------------------------------------------------------------------------
(* getblk() for block want[p]; geteblk() when that is NoBlock. *)

(* The hash chain holds the block: its B_STALE is tested, spl6() is next. *)
GetblkFind(p) ==
    /\ pc[p] = "search" /\ Runs(p)
    /\ \E b \in Matches(want[p]) : cur' = [cur EXCEPT ![p] = b]
    /\ Goto(p, "found")
    /\ UNCHANGED <<bufVars, ioVars, wchan, call, want, role, bp, ret, error>>

GetblkBusy(p) ==
    /\ pc[p] = "found" /\ Runs(p)
    /\ "BUSY" \in flags[cur[p]]
    /\ flags' = [flags EXCEPT ![cur[p]] = @ \cup {"WANTED"}]
    /\ cur' = [cur EXCEPT ![p] = NoBuf]
    /\ Sleep(p, cur[p], "search")
    /\ UNCHANGED <<blkno, data, freelist, flwanted, ioVars,
                   call, want, role, bp, ret, error>>

GetblkTake(p) ==
    /\ pc[p] = "found" /\ Runs(p)
    /\ "BUSY" \notin flags[cur[p]]
    /\ Notavail(cur[p])
    /\ flags' = [flags EXCEPT ![cur[p]] = @ \cup {"BUSY"}]
    /\ Goto(p, "got")
    /\ UNCHANGED <<blkno, data, flwanted, ioVars,
                   wchan, call, want, role, cur, bp, ret, error>>

GetblkNoFree(p) ==
    /\ pc[p] = "search" /\ Runs(p)
    /\ Matches(want[p]) = {} /\ freelist = <<>>
    /\ flwanted' = TRUE
    /\ Sleep(p, FreeChan, "search")
    /\ UNCHANGED <<flags, blkno, data, freelist, ioVars,
                   call, want, role, cur, bp, ret, error>>

(* The asynchronous half of bwrite(): buffer b goes to the device; the     *)
(* interrupt may come before basyncnt++, which is the step at "count".     *)
StartAsync(p, b, f, l) ==
    /\ flags' = [flags EXCEPT ![b] = WriteFlags(f) \cup {"BUSY", "ASYNC"}]
    /\ ioq' = ioq \cup {b}
    /\ ret' = [ret EXCEPT ![p] = l]
    /\ cur' = [cur EXCEPT ![p] = NoBuf]
    /\ Goto(p, "count")

(* The oldest free buffer holds a delayed write: write it, start again. *)
GetblkFlush(p) ==
    /\ pc[p] = "search" /\ Runs(p)
    /\ Matches(want[p]) = {} /\ freelist # <<>>
    /\ "DELWRI" \in flags[Head(freelist)]
    /\ freelist' = Tail(freelist)
    /\ StartAsync(p, Head(freelist), flags[Head(freelist)], "search")
    /\ UNCHANGED <<blkno, data, flwanted, basyncnt, basywait, disk,
                   wchan, call, want, role, bp, error>>

(* The oldest free buffer is given to the block. *)
Reassign(p) ==
    /\ pc[p] = "search" /\ Runs(p) /\ freelist # <<>>
    /\ flags' = [flags EXCEPT ![Head(freelist)] =
                   {"BUSY"} \cup (IF want[p] = NoBlock THEN {"AGE"} ELSE {})]
    /\ blkno' = [blkno EXCEPT ![Head(freelist)] = want[p]]
    /\ cur' = [cur EXCEPT ![p] = Head(freelist)]
    /\ freelist' = Tail(freelist)
    /\ Goto(p, "got")
    /\ UNCHANGED <<data, flwanted, ioVars,
                   wchan, call, want, role, bp, ret, error>>

(* Mutant of GetblkAssign: the chain is not searched again after a sleep. *)
GetblkAssignNoSearch(p) == Reassign(p) /\ "DELWRI" \notin flags[Head(freelist)]

(* It may be, if the block has no buffer and no delayed write is in this one. *)
GetblkAssign(p) == /\ Reassign(p)
                   /\ Matches(want[p]) = {}
                   /\ "DELWRI" \notin flags[Head(freelist)]
-----------------------------------------------------------------------------
(* bread() and breada(), with the buffer getblk() returned in cur[p]. *)

(* bread() or breada() of a block in core; getblk() without a read. *)
GotMain(p) ==
    /\ pc[p] = "got" /\ Runs(p) /\ role[p] = "main"
    /\ "DONE" \in flags[cur[p]] \/ call[p].op \in {"write", "eblk"}
    /\ bp' = [bp EXCEPT ![p] = cur[p]]
    /\ cur' = [cur EXCEPT ![p] = NoBuf]
    /\ Goto(p, IF call[p].op = "breada" THEN "ahead" ELSE "hold")
    /\ UNCHANGED <<bufVars, ioVars, wchan, call, want, role, ret, error>>

(* The block has to be read. *)
GotMiss(p) ==
    /\ pc[p] = "got" /\ Runs(p) /\ role[p] = "main"
    /\ "DONE" \notin flags[cur[p]] /\ call[p].op \notin {"write", "eblk"}
    /\ flags' = [flags EXCEPT ![cur[p]] = @ \cup {"READ"}]
    /\ ioq' = ioq \cup {cur[p]}
    /\ bp' = [bp EXCEPT ![p] = cur[p]]
    /\ cur' = [cur EXCEPT ![p] = NoBuf]
    /\ Goto(p, IF call[p].op = "breada" THEN "ahead" ELSE "rwait")
    /\ UNCHANGED <<blkno, data, freelist, flwanted, basyncnt, basywait, disk,
                   wchan, call, want, role, ret, error>>

(* breada(): is the read-ahead block worth a buffer? *)
ReadAhead(p) ==
    /\ pc[p] = "ahead" /\ Runs(p)
    /\ IF call[p].second # NoBlock /\ Len(freelist) > 1 /\ ~Incore(call[p].second)
       THEN /\ want' = [want EXCEPT ![p] = call[p].second]
            /\ role' = [role EXCEPT ![p] = "second"]
            /\ Goto(p, "search")
       ELSE /\ Goto(p, "join")
            /\ UNCHANGED <<want, role>>
    /\ UNCHANGED <<bufVars, ioVars, wchan, call, cur, bp, ret, error>>

(* The read-ahead block came in while getblk() slept: brelse(rabp). *)
AheadHit(p) ==
    /\ pc[p] = "got" /\ Runs(p) /\ role[p] = "second" /\ call[p].op = "breada"
    /\ "DONE" \in flags[cur[p]]
    /\ Brelse(cur[p], flags[cur[p]], wchan)
    /\ cur' = [cur EXCEPT ![p] = NoBuf]
    /\ Goto(p, "join")
    /\ UNCHANGED <<blkno, data, ioVars, call, want, role, bp, ret, error>>

AheadFlags == {"READ", "ASYNC"}

(* Its read is started; iodone() will release the buffer. *)
AheadMiss(p) ==
    /\ pc[p] = "got" /\ Runs(p) /\ role[p] = "second" /\ call[p].op = "breada"
    /\ "DONE" \notin flags[cur[p]]
    /\ flags' = [flags EXCEPT ![cur[p]] = @ \cup AheadFlags]
    /\ ioq' = ioq \cup {cur[p]}
    /\ cur' = [cur EXCEPT ![p] = NoBuf]
    /\ Goto(p, "join")
    /\ UNCHANGED <<blkno, data, freelist, flwanted, basyncnt, basywait, disk,
                   wchan, call, want, role, bp, ret, error>>

(* breada() ends in iowait(bp), or in bread() if the block was in core. *)
Join(p) ==
    /\ pc[p] = "join" /\ Runs(p)
    /\ role' = [role EXCEPT ![p] = "main"]
    /\ IF bp[p] = NoBuf
       THEN /\ call' = [call EXCEPT ![p].op = "read"]
            /\ want' = [want EXCEPT ![p] = call[p].blk]
            /\ Goto(p, "search")
       ELSE /\ Goto(p, "rwait")
            /\ UNCHANGED <<call, want>>
    /\ UNCHANGED <<bufVars, ioVars, wchan, cur, bp, ret, error>>

(* Mutant of Iowait: without geterror(). *)
IowaitNoError(p, x, l) ==
    /\ IF "DONE" \in flags[x] THEN Goto(p, l) /\ UNCHANGED wchan
                              ELSE Sleep(p, x, pc[p])
    /\ UNCHANGED error

(* iowait() on a buffer x, going on at label l with geterror(). *)
Iowait(p, x, l) ==
    IF "DONE" \in flags[x]
    THEN /\ error' = [error EXCEPT ![p] = @ \/ "ERROR" \in flags[x]]
         /\ Goto(p, l)
         /\ UNCHANGED wchan
    ELSE /\ Sleep(p, x, pc[p])
         /\ UNCHANGED error

ReadWait(p) ==
    /\ pc[p] = "rwait" /\ Runs(p)
    /\ Iowait(p, bp[p], "hold")
    /\ UNCHANGED <<bufVars, ioVars, call, want, role, cur, bp, ret>>
-----------------------------------------------------------------------------
(* The caller has the buffer bp[p]. *)

(* brelse(): a reader is done, or u.u_error stops a writer (EIO of the     *)
(* read, EFAULT of iomove, ENOSPC of the block to be allocated).  Nothing  *)
(* was moved then: copyin() looks at the whole of the user's range first.  *)
GiveBack(p) ==
    /\ pc[p] = "hold" /\ Runs(p)
    /\ Brelse(bp[p], flags[bp[p]], wchan)
    /\ bp' = [bp EXCEPT ![p] = NoBuf]
    /\ Goto(p, "user")
    /\ UNCHANGED <<blkno, data, ioVars, call, want, role, cur, ret, error>>

(* writei(): the buffer is about to be changed. *)
BeginModify(p) ==
    /\ pc[p] = "hold" /\ Runs(p)
    /\ call[p].op \in {"modify", "write"} /\ ~error[p]
    /\ cur' = [cur EXCEPT ![p] = bp[p]]
    /\ bp' = [bp EXCEPT ![p] = NoBuf]
    /\ ret' = [ret EXCEPT ![p] = "user"]
    /\ Goto(p, "modify")
    /\ UNCHANGED <<bufVars, ioVars, wchan, call, want, role, error>>

(* bmap(): getblk() for the block alloc() found, holding the indirect one. *)
PairSecond(p) ==
    /\ pc[p] = "hold" /\ Runs(p)
    /\ call[p].op = "pair" /\ ~error[p]
    /\ want' = [want EXCEPT ![p] = call[p].second]
    /\ role' = [role EXCEPT ![p] = "second"]
    /\ Goto(p, "search")
    /\ UNCHANGED <<bufVars, ioVars, wchan, call, cur, bp, ret, error>>

PairGot(p) ==
    /\ pc[p] = "got" /\ Runs(p) /\ role[p] = "second" /\ call[p].op = "pair"
    /\ ret' = [ret EXCEPT ![p] = "parent"]
    /\ Goto(p, "modify")
    /\ UNCHANGED <<bufVars, ioVars, wchan, call, want, role, cur, bp, error>>

(* The new block is given back; its number goes into the indirect block. *)
PairParent(p) ==
    /\ pc[p] = "parent" /\ Runs(p)
    /\ cur' = [cur EXCEPT ![p] = bp[p]]
    /\ bp' = [bp EXCEPT ![p] = NoBuf]
    /\ ret' = [ret EXCEPT ![p] = "user"]
    /\ Goto(p, "modify")
    /\ UNCHANGED <<bufVars, ioVars, wchan, call, want, role, error>>
-----------------------------------------------------------------------------
(* The buffer cur[p] gets a new content and is given back; on to ret[p]. *)

Change(p) == \E v \in Value : data' = [data EXCEPT ![cur[p]] = v]

Modify(p) == pc[p] = "modify" /\ Runs(p) /\ Change(p)

ModifyDelayed(p) ==                                            \* bdwrite()
    /\ Modify(p) /\ call[p].how = "bdwrite"
    /\ Brelse(cur[p], flags[cur[p]] \cup {"DELWRI", "DONE"}, wchan)
    /\ cur' = [cur EXCEPT ![p] = NoBuf]
    /\ Goto(p, ret[p])
    /\ UNCHANGED <<blkno, ioVars, call, want, role, bp, ret, error>>

(* bawrite() of a block device, which sets B_AGE before. *)
ModifyAsync(p) ==
    /\ Modify(p) /\ call[p].how = "bawrite" /\ Len(freelist) > AsyncReserve
    /\ StartAsync(p, cur[p], flags[cur[p]] \cup {"AGE"}, ret[p])
    /\ UNCHANGED <<blkno, freelist, flwanted, basyncnt, basywait, disk,
                   wchan, call, want, role, bp, error>>

(* bwrite(), also under a bawrite() that finds too few free buffers. *)
ModifySync(p) ==
    /\ Modify(p)
    /\ \/ call[p].how = "bwrite"
       \/ call[p].how = "bawrite" /\ Len(freelist) <= AsyncReserve
    /\ flags' = [flags EXCEPT ![cur[p]] =
                   WriteFlags(@) \cup (IF call[p].how = "bawrite" THEN {"AGE"} ELSE {})]
    /\ ioq' = ioq \cup {cur[p]}
    /\ Goto(p, "wwait")
    /\ UNCHANGED <<blkno, freelist, flwanted, basyncnt, basywait, disk,
                   wchan, call, want, role, cur, bp, ret, error>>

(* bwrite(): iowait() ... *)
WriteWait(p) ==
    /\ pc[p] = "wwait" /\ Runs(p) /\ "DONE" \notin flags[cur[p]]
    /\ Sleep(p, cur[p], "wwait")
    /\ UNCHANGED <<bufVars, ioVars, call, want, role, cur, bp, ret, error>>

(* ... geterror() and brelse(). *)
WriteDone(p) ==
    /\ pc[p] = "wwait" /\ Runs(p) /\ "DONE" \in flags[cur[p]]
    /\ error' = [error EXCEPT ![p] = @ \/ "ERROR" \in flags[cur[p]]]
    /\ Brelse(cur[p], flags[cur[p]], wchan)
    /\ cur' = [cur EXCEPT ![p] = NoBuf]
    /\ Goto(p, ret[p])
    /\ UNCHANGED <<blkno, data, ioVars, call, want, role, bp, ret>>

(* bwrite() with B_ASYNC: basyncnt++.  The geterror() that follows reads   *)
(* flags in which brelse() or bwrite() has cleared B_ERROR.                *)
Count(p) ==
    /\ pc[p] = "count" /\ Runs(p)
    /\ basyncnt' = basyncnt + 1
    /\ Goto(p, ret[p])
    /\ UNCHANGED <<bufVars, basywait, ioq, disk,
                   wchan, call, want, role, cur, bp, ret, error>>
-----------------------------------------------------------------------------
(* bflush(), bdflush(), bdwait(), binval(). *)

FlushDev(p, b) == call[p].op = "umount" => DevOf[blkno[b]] = DevOf[call[p].blk]

(* The place in the free list of the first buffer bflush() has to write. *)
FlushAt(p, i) ==
    /\ i \in DOMAIN freelist
    /\ "DELWRI" \in flags[freelist[i]] /\ FlushDev(p, freelist[i])
    /\ \A j \in 1 .. i - 1 :
           ~ ("DELWRI" \in flags[freelist[j]] /\ FlushDev(p, freelist[j]))

FlushWrite(p) ==
    /\ pc[p] = "flush" /\ Runs(p)
    /\ \E i \in DOMAIN freelist :
          /\ FlushAt(p, i)
          /\ freelist' = RemoveAt(freelist, i)
          /\ StartAsync(p, freelist[i], flags[freelist[i]], "flush")
    /\ UNCHANGED <<blkno, data, flwanted, basyncnt, basywait, disk,
                   wchan, call, want, role, bp, error>>

FlushEnd(p) ==
    /\ pc[p] = "flush" /\ Runs(p)
    /\ ~ \E i \in DOMAIN freelist : FlushAt(p, i)
    /\ Goto(p, CASE call[p].op = "update" -> "user"
                 [] call[p].op = "shutdown" -> "bdwait"
                 [] call[p].op = "umount" -> "inval")
    /\ UNCHANGED <<bufVars, ioVars, wchan, call, want, role, cur, bp, ret, error>>

(* bdflush(): of the delayed writes, those that are v_autoup seconds old. *)
AgeWrite(p) ==
    /\ pc[p] = "age" /\ Runs(p)
    /\ \E i \in DOMAIN freelist :
          /\ "DELWRI" \in flags[freelist[i]]
          /\ freelist' = RemoveAt(freelist, i)
          /\ StartAsync(p, freelist[i], flags[freelist[i]], "age")
    /\ UNCHANGED <<blkno, data, flwanted, basyncnt, basywait, disk,
                   wchan, call, want, role, bp, error>>

AgeEnd(p) ==
    /\ pc[p] = "age" /\ Runs(p)
    /\ Goto(p, "user")
    /\ UNCHANGED <<bufVars, ioVars, wchan, call, want, role, cur, bp, ret, error>>

(* bdwait() of uadmin(): until no asynchronous write is outstanding. *)
BdwaitSleep(p) ==
    /\ pc[p] = "bdwait" /\ Runs(p) /\ basyncnt # 0
    /\ basywait' = TRUE
    /\ Sleep(p, AsyncChan, "bdwait")
    /\ UNCHANGED <<bufVars, basyncnt, ioq, disk,
                   call, want, role, cur, bp, ret, error>>

BdwaitEnd(p) ==
    /\ pc[p] = "bdwait" /\ Runs(p) /\ basyncnt = 0
    /\ Goto(p, "user")
    /\ UNCHANGED <<bufVars, ioVars, wchan, call, want, role, cur, bp, ret, error>>

(* Mutant of Forget: the flags are overwritten. *)
ForgetOverwrites(f) == {"STALE", "AGE"}

Forget(f) == f \cup {"STALE", "AGE"}

(* The driver's close routine does nothing; binval() forgets the device. *)
Binval(p) ==
    /\ pc[p] = "inval" /\ Runs(p)
    /\ flags' = [b \in Buf |->
                   IF blkno[b] # NoBlock /\ DevOf[blkno[b]] = DevOf[call[p].blk]
                   THEN Forget(flags[b]) ELSE flags[b]]
    /\ Goto(p, "user")
    /\ UNCHANGED <<blkno, data, freelist, flwanted, ioVars,
                   wchan, call, want, role, cur, bp, ret, error>>
-----------------------------------------------------------------------------
(* The interrupt at the end of a transfer: iodone(). *)

Direction(b) == IF "READ" \in flags[b] THEN "READ" ELSE "WRITE"

(* Mutant of AsyncDone: a read-ahead is taken off the count of writes. *)
AsyncDoneCountsReads(b, f) ==
    /\ basyncnt' = basyncnt - 1
    /\ UNCHANGED basywait
    /\ Brelse(b, f, wchan)

(* Mutant of AsyncDone: nobody wakes up who sleeps in bdwait(). *)
AsyncDoneNoWakeup(b, f) ==
    /\ basyncnt' = IF "READ" \in f THEN basyncnt ELSE basyncnt - 1
    /\ UNCHANGED basywait
    /\ Brelse(b, f, wchan)

(* iodone() of a transfer nobody waits for. *)
AsyncDone(b, f) ==
    /\ basyncnt' = IF "READ" \in f THEN basyncnt ELSE basyncnt - 1
    /\ IF basyncnt' = 0 /\ basywait
       THEN /\ basywait' = FALSE
            /\ Brelse(b, f, Wakeup(wchan, {AsyncChan}))
       ELSE /\ UNCHANGED basywait
            /\ Brelse(b, f, wchan)

(* The flags b has and the channels woken up are those after iodone(). *)
Iodone(b, f) ==
    /\ ioq' = ioq \ {b}
    /\ IF "ASYNC" \in f
       THEN AsyncDone(b, f)
       ELSE /\ flags' = [flags EXCEPT ![b] = f \ {"WANTED"}]
            /\ wchan' = Wakeup(wchan, {b})
            /\ UNCHANGED <<freelist, flwanted, basyncnt, basywait>>
    /\ UNCHANGED <<blkno, cpu, pc, call, want, role, cur, bp, ret, error>>

IoSucceeds(b) ==
    /\ b \in ioq
    /\ IF Direction(b) = "READ"
       THEN data' = [data EXCEPT ![b] = disk[blkno[b]]] /\ UNCHANGED disk
       ELSE disk' = [disk EXCEPT ![blkno[b]] = data[b]] /\ UNCHANGED data
    /\ Iodone(b, flags[b] \cup {"DONE"})

(* A failed read leaves anything in the buffer. *)
IoFails(b) ==
    /\ b \in ioq
    /\ Direction(b) \in Failing
    /\ ErrorsInWindow \/ \A p \in Proc : pc[p] # "found"
    /\ IF Direction(b) = "READ"
       THEN \E v \in Value : data' = [data EXCEPT ![b] = v]
       ELSE UNCHANGED data
    /\ UNCHANGED disk
    /\ Iodone(b, flags[b] \cup {"DONE", "ERROR"})
-----------------------------------------------------------------------------
Getblk(p) == \/ GetblkFind(p) \/ GetblkBusy(p) \/ GetblkTake(p)
             \/ GetblkNoFree(p) \/ GetblkFlush(p) \/ GetblkAssign(p)

Read(p) == \/ GotMain(p) \/ GotMiss(p) \/ ReadAhead(p) \/ AheadHit(p)
           \/ AheadMiss(p) \/ Join(p) \/ ReadWait(p) \/ GiveBack(p)

Update(p) == \/ BeginModify(p) \/ PairSecond(p) \/ PairGot(p) \/ PairParent(p)
             \/ ModifyDelayed(p) \/ ModifyAsync(p) \/ ModifySync(p)
             \/ WriteWait(p) \/ WriteDone(p) \/ Count(p)

Flush(p) == \/ FlushWrite(p) \/ FlushEnd(p) \/ AgeWrite(p) \/ AgeEnd(p)
            \/ BdwaitSleep(p) \/ BdwaitEnd(p) \/ Binval(p)

(* What a process does once it is in the kernel. *)
Kernel(p) == Getblk(p) \/ Read(p) \/ Update(p) \/ Flush(p)

EnterKernel(p) == CallGetblk(p) \/ CallBreadaIncore(p) \/ CallFlush(p)

Interrupt(b) == IoSucceeds(b) \/ IoFails(b)

Next == \/ \E p \in Proc : EnterKernel(p) \/ Kernel(p)
        \/ \E b \in Buf : Interrupt(b)

Spec == Init /\ [][Next]_vars

(* The dispatcher ages priorities, so a runnable process is not passed     *)
(* over for ever; a device finishes every transfer in its queue.           *)
Fairness == /\ \A p \in Proc : SF_vars(Kernel(p))
            /\ \A b \in Buf : WF_vars(Interrupt(b))

FairSpec == Spec /\ Fairness
-----------------------------------------------------------------------------
(* Properties. *)

(* Every variable keeps to its type: the state io/bio.c declares. *)
TypeOK ==
    /\ flags \in [Buf -> SUBSET Flag]
    /\ blkno \in [Buf -> Block \cup {NoBlock}]
    /\ data \in [Buf -> Value]
    /\ freelist \in Seq(Buf)
    /\ flwanted \in BOOLEAN
    /\ basyncnt \in Int /\ basywait \in BOOLEAN
    /\ ioq \in SUBSET Buf
    /\ disk \in [Block -> Value]
    /\ cpu \in Proc \cup {NoProc}
    /\ wchan \in [Proc -> Buf \cup {FreeChan, AsyncChan, Awake}]
    /\ pc \in [Proc -> Label]
    /\ call \in [Proc -> Call]
    /\ want \in [Proc -> Block \cup {NoBlock}]
    /\ role \in [Proc -> {"main", "second"}]
    /\ cur \in [Proc -> Buf \cup {NoBuf}]
    /\ bp \in [Proc -> Buf \cup {NoBuf}]
    /\ ret \in [Proc -> {"user", "parent", "search", "flush", "age"}]
    /\ error \in [Proc -> BOOLEAN]

(* sys/buf.h: a buffer is on the available list if and only if it is not   *)
(* marked BUSY; and notavail() and brelse() never link it there twice.     *)
FreeIffNotBusy ==
    /\ \A b \in Buf : InFree(b) <=> "BUSY" \notin flags[b]
    /\ IsInjective(freelist)

(* getblk() searches again after every sleep and every write it starts, so *)
(* a block never has two buffers in which it can be found.                 *)
OneBufferPerBlock ==
    \A b, c \in Buf :
        /\ blkno[b] = blkno[c] /\ blkno[b] # NoBlock
        /\ "STALE" \notin flags[b] \cup flags[c]
        => b = c

(* The buffer p may touch: what getblk() gave it, until it gives it back.  *)
Owns(p, b) == \/ bp[p] = b
              \/ cur[p] = b /\ pc[p] # "found"

(* A buffer outside the free list belongs to one process, or to a transfer *)
(* that nobody waits for and that iodone() will release: none is shared    *)
(* and none is lost.                                                       *)
OneOwner ==
    \A b \in Buf :
        /\ \A p, q \in Proc : Owns(p, b) /\ Owns(q, b) => p = q
        /\ (\E p \in Proc : Owns(p, b)) => "BUSY" \in flags[b]
        /\ "BUSY" \in flags[b] =>
              \/ \E p \in Proc : Owns(p, b)
              \/ b \in ioq /\ "ASYNC" \in flags[b]
        /\ b \in ioq /\ "ASYNC" \in flags[b] => \A p \in Proc : ~Owns(p, b)

(* Inside getblk(), for the first or for the second buffer of the call. *)
InGetblk(p) == \/ pc[p] \in {"search", "found", "got"}
               \/ pc[p] = "count" /\ ret[p] = "search"

(* Which buffers a process has follows from where it is: cur[p] from the   *)
(* return of getblk() or while it is written, bp[p] while a caller of      *)
(* bread() holds it.                                                       *)
Placed ==
    \A p \in Proc :
        /\ cur[p] \in Buf <=> pc[p] \in {"found", "got", "modify", "wwait"}
        /\ pc[p] \in {"hold", "rwait", "parent"} => bp[p] \in Buf
        /\ pc[p] \in {"user", "flush", "age", "bdwait", "inval"} => bp[p] = NoBuf
        /\ InGetblk(p) /\ role[p] = "main" => bp[p] = NoBuf
        /\ InGetblk(p) /\ role[p] = "second" /\ call[p].op # "breada" => bp[p] \in Buf
        /\ pc[p] = "ahead" => call[p].op = "breada"
        /\ pc[p] = "flush" => call[p].op \in {"update", "shutdown", "umount"}
        /\ pc[p] = "count" /\ ret[p] = "flush" => call[p].op \in {"update", "shutdown", "umount"}
        /\ pc[p] \in {"modify", "wwait"} => ret[p] \in {"user", "parent"}
        /\ pc[p] \in {"modify", "wwait", "count"} /\ ret[p] = "parent" => bp[p] \in Buf
        /\ /\ pc[p] \in {"modify", "wwait", "count"}
           /\ ret[p] \in {"user", "flush", "age"}
           => bp[p] = NoBuf

(* A buffer in a device queue is busy and not done, and its owner, if it   *)
(* has one, is on the way to iowait() for it.                              *)
Transfers ==
    /\ \A b \in ioq : "BUSY" \in flags[b] /\ "DONE" \notin flags[b]
    /\ \A b \in Buf : "ASYNC" \in flags[b] => b \in ioq
    /\ \A p \in Proc :
          /\ bp[p] \in ioq => \/ pc[p] \in {"ahead", "join", "rwait"}
                              \/ InGetblk(p) /\ role[p] = "second" /\ call[p].op = "breada"
          /\ cur[p] \in ioq => pc[p] \in {"found", "wwait"}
          /\ cur[p] # NoBuf /\ pc[p] # "found" => cur[p] # bp[p]

(* Nobody sleeps in getblk(), iowait() or bdwait() on an event that has    *)
(* happened or that nobody will announce to him.                           *)
NoLostWakeup ==
    \A p \in Proc :
        /\ wchan[p] \in Buf =>
              /\ "BUSY" \in flags[wchan[p]]
              /\ \/ "WANTED" \in flags[wchan[p]]
                 \/ wchan[p] \in ioq /\ "ASYNC" \notin flags[wchan[p]]
        /\ wchan[p] = FreeChan => flwanted /\ freelist = <<>>
        /\ wchan[p] = AsyncChan =>
              basywait /\ \E b \in ioq : {"ASYNC", "READ"} \cap flags[b] = {"ASYNC"}

CacheInv == /\ TypeOK
            /\ FreeIffNotBusy
            /\ OneBufferPerBlock
            /\ OneOwner
            /\ Placed
            /\ Transfers

(* What a process has asked for is a block of a device, but in geteblk();  *)
(* and from its test of B_STALE to its spl6() it keeps the processor.      *)
AddressedProc(p) ==
    /\ call[p].op = "pair" => call[p].second \in Block
    /\ pc[p] = "found" => cpu = p
    /\ InGetblk(p) /\ call[p].op # "eblk" => want[p] \in Block
    /\ InGetblk(p) /\ role[p] = "second" => call[p].op \in {"breada", "pair"}
    /\ \/ pc[p] \in {"ahead", "join", "rwait", "modify", "parent", "wwait"}
       \/ pc[p] = "count" /\ ret[p] = "parent"
       => call[p].op # "eblk"
    /\ bp[p] # NoBuf /\ call[p].op # "eblk" => blkno[bp[p]] \in Block
    /\ cur[p] # NoBuf /\ call[p].op # "eblk" => blkno[cur[p]] \in Block

(* A device is only ever given blocks it has: the anonymous buffers of     *)
(* geteblk() (b_dev is NODEV) reach no strategy routine and no delayed     *)
(* write.                                                                  *)
Addressed ==
    /\ \A b \in ioq : blkno[b] \in Block
    /\ \A b \in Buf : "DELWRI" \in flags[b] => blkno[b] \in Block
    /\ \A p \in Proc : AddressedProc(p)

(* The inductive invariant of the cache. *)
IndInv == CacheInv /\ Addressed

AsyncWrites == {b \in ioq : "ASYNC" \in flags[b] /\ "READ" \notin flags[b]}

(* The count of bdwait() is right although iodone() may take a write off   *)
(* before bwrite() has added it.                                           *)
AsyncCount ==
    basyncnt = Cardinality(AsyncWrites) - Cardinality({p \in Proc : pc[p] = "count"})

(* A delayed write stays in reach of bflush() and getblk(): it waits on a  *)
(* buffer that is free or owned, never on one a device is reading into.    *)
DirtyIsSafe ==
    \A b \in Buf : "DELWRI" \in flags[b] =>
        /\ b \notin ioq
        /\ blkno[b] # NoBlock
        /\ {"DONE", "ERROR"} \cap flags[b] = {"DONE"}

(* The buffer that holds the current content of its block. *)
Current(b) == /\ {"STALE", "ERROR"} \cap flags[b] = {}
              /\ \/ "DONE" \in flags[b]
                 \/ b \in ioq /\ "READ" \notin flags[b]

(* The content of each block: what the cache, or else the device, holds. *)
Content == [k \in Block |->
              IF \E b \in Buf : blkno[b] = k /\ Current(b)
              THEN data[CHOOSE b \in Buf : blkno[b] = k /\ Current(b)]
              ELSE disk[k]]

(* The blocks that a process is about to change. *)
Held == {blkno[cur[p]] : p \in {q \in Proc : pc[q] = "modify"}}

Store == INSTANCE BlockStore WITH
            content <- Content, durable <- disk, held <- Held,
            MayLose <- "WRITE" \in Failing

(* The cache implements the block store: whatever the order of transfers,  *)
(* reassignments and releases, a block changes only by a write of a caller *)
(* who has it, and by the loss of one that the device refused.             *)
ImplementsStore == Store!StoreSpec

(* A bread() that reports no error returns the content of the block. *)
ReadsCurrent ==
    \A p \in Proc :
        /\ pc[p] = "hold" /\ ~error[p] /\ call[p].op \in {"read", "breada", "modify", "pair"}
        => data[bp[p]] = Content[call[p].blk]

(* "make sure all write-behind blocks on dev are flushed out (from umount  *)
(* and update)" (bflush): when binval() forgets the device, none of its    *)
(* blocks is still to be written.                                          *)
FlushedOut ==
    \A p \in Proc : pc[p] = "inval" =>
        ~ \E b \in Buf : /\ \/ "DELWRI" \in flags[b]
                            \/ b \in ioq /\ "READ" \notin flags[b]
                         /\ DevOf[blkno[b]] = DevOf[call[p].blk]

(* Whoever sleeps in the cache is woken up again. *)
NoSleepForEver == \A p \in Proc : wchan[p] # Awake ~> wchan[p] = Awake

-----------------------------------------------------------------------------
(* Inductive invariants of the wakeups and of the contents. *)

(* Who may go on: a process that has not slept keeps the processor, and a  *)
(* sleeper does not have it.                                               *)
CpuHeld ==
    \A p \in Proc :
        /\ pc[p] \notin {"user", "search", "rwait", "wwait", "bdwait"} => cpu = p
        /\ wchan[p] # Awake => cpu # p

(* Where a process sleeps tells what it waits for.                         *)
SleepsFor(p) ==
    /\ wchan[p] \in Buf =>
          \/ /\ pc[p] = "search"
             /\ {"BUSY", "WANTED"} \subseteq flags[wchan[p]]
          \/ pc[p] = "rwait" /\ wchan[p] = bp[p] /\ bp[p] \in ioq
          \/ pc[p] = "wwait" /\ wchan[p] = cur[p] /\ cur[p] \in ioq
    /\ wchan[p] = FreeChan => pc[p] = "search" /\ flwanted /\ freelist = <<>>
    /\ wchan[p] = AsyncChan => pc[p] = "bdwait" /\ basywait /\ basyncnt > 0

Sleepers == \A p \in Proc : SleepsFor(p)

(* A transfer that somebody is going to wait for is under way or done.     *)
StartedFor(p) ==
    /\ /\ bp[p] # NoBuf
       /\ \/ pc[p] \in {"ahead", "join", "rwait"}
          \/ InGetblk(p) /\ role[p] = "second" /\ call[p].op = "breada"
       => bp[p] \in ioq \/ "DONE" \in flags[bp[p]]
    /\ pc[p] = "wwait" => cur[p] \in ioq \/ "DONE" \in flags[cur[p]]

Started == \A p \in Proc : StartedFor(p)

(* The inductive invariant of the wakeups.                                 *)
WakeInv == CpuHeld /\ Started /\ Sleepers /\ AsyncCount

(* bmap() holds the indirect block while it has the new block.             *)
HasParent(p) == \/ pc[p] = "parent"
                \/ pc[p] \in {"modify", "wwait", "count"} /\ ret[p] = "parent"
                \/ InGetblk(p) /\ role[p] = "second" /\ call[p].op = "pair"

(* The buffer a process has, or has found, is the one of the block it      *)
(* asked for, and a failed transfer is known to the one who waited for it. *)
Serves(p) ==
    /\ InGetblk(p) /\ role[p] = "main" /\ call[p].op # "eblk" => want[p] = call[p].blk
    /\ pc[p] \in {"found", "got"} => blkno[cur[p]] = want[p]
    /\ bp[p] # NoBuf /\ call[p].op # "eblk" => blkno[bp[p]] = call[p].blk
    /\ bp[p] # NoBuf => "STALE" \notin flags[bp[p]]
    /\ cur[p] # NoBuf => "STALE" \notin flags[cur[p]]
    /\ pc[p] \in {"got", "modify"} => "ERROR" \notin flags[cur[p]]
    /\ pc[p] = "hold" /\ ~error[p] => "ERROR" \notin flags[bp[p]]
    /\ pc[p] = "hold" /\ call[p].op \notin {"write", "eblk"} => "DONE" \in flags[bp[p]]
    /\ HasParent(p) => "ERROR" \notin flags[bp[p]]

(* A buffer that is in transfer or holds a delayed write can be found, and *)
(* one that is not to be written holds what the device holds.              *)
Copies(b) ==
    /\ "ERROR" \in flags[b] => {"BUSY", "DONE"} \subseteq flags[b]
    /\ b \in ioq \/ "DELWRI" \in flags[b] => {"STALE", "ERROR"} \cap flags[b] = {}
    /\ /\ blkno[b] # NoBlock /\ "DONE" \in flags[b]
       /\ {"STALE", "ERROR", "DELWRI"} \cap flags[b] = {}
       => data[b] = disk[blkno[b]]

(* The inductive invariant of the contents.                                *)
StoreInv == /\ \A p \in Proc : Serves(p)
            /\ \A b \in Buf : Copies(b)
=============================================================================
