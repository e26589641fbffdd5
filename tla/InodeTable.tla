----------------------------- MODULE InodeTable -----------------------------
(***************************************************************************)
(* The table of in-core inodes (os/iget.c), the cache of free inode        *)
(* numbers in the super block (os/alloc.c) and the calls that use them to  *)
(* open, create, link and remove the files of one directory (os/nami.c,    *)
(* os/sys2.c, os/sys4.c, os/fio.c).                                        *)
(*                                                                         *)
(* A process in the kernel keeps the processor (`cpu') until it sleeps: on *)
(* a locked inode, on s_ilock, or in bread(), bwrite() or a device, where  *)
(* it stays awake here (Pause) and goes on when it is scheduled again.     *)
(* The registers of a process name the inodes it has: dp, ip, res and cur  *)
(* those it has locked, ref one that it only counts, file and wfile its    *)
(* open files (wfile the writing end of a pipe).                           *)
(***************************************************************************)
EXTENDS Integers, FiniteSets, SequencesExt

CONSTANTS
    Proc,           (* processes                                            *)
    NSlot,          (* v.v_inode: length of the inode table                 *)
    Name,           (* names in the directory                               *)
    NIno,           (* inodes of the file system                            *)
    INOPB,          (* inodes per block                                     *)
    NICINOD,        (* free inode numbers the super block holds             *)
    MAXLINK,        (* most links of a file                                 *)
    Calls,          (* the system calls that processes make                 *)
    Files,          (* the inode each name has at first, or NoIno           *)
    Special,        (* the inodes that are character special files          *)
    BadBlocks,      (* for each of the functions that read blocks of inodes *)
                    (* those that the device may fail to read, each given   *)
                    (* by its first inode; for wdir() that of the directory,*)
                    (* whose block may then fail                            *)
    NoName, NoProc

ROOTINO == 2
NoIno == 0
NoSlot == 0
Slot == 1 .. NSlot
RootSlot == 1

(* The inodes of files: number 1 is not used, ROOTINO is the directory. *)
Ino == ROOTINO + 1 .. NIno

(* What a process sleeps on: a slot of the table or s_ilock. *)
ILockChan == 0
Awake == -1

Flag == {"ILOCK", "IWANT", "IUPD", "ISYN"}
Mode == {"free", "reg", "chr", "dir", "fifo"}
Op == {"open", "creat", "unlink", "link", "pipe", "close", "sync"}
Call == [op: Op, name: Name, new: Name \cup {NoName}]

ASSUME ConstantAssumption ==
    /\ IsFiniteSet(Proc) /\ IsFiniteSet(Name)
    /\ NSlot \in Nat \ {0} /\ NIno \in Nat /\ NIno > ROOTINO
    /\ INOPB \in Nat \ {0} /\ NICINOD \in Nat \ {0} /\ MAXLINK \in Nat \ {0}
    /\ NoName \notin Name /\ NoProc \notin Proc
    /\ Calls # {} /\ Calls \subseteq Call
    /\ \A c \in Calls : c.op = "link" => c.new \in Name
    /\ Files \in [Name -> Ino \cup {NoIno}]
    /\ Special \subseteq Ino
    /\ BadBlocks \in [{"iread", "iupdat", "ialloc", "wdir"} -> SUBSET (1 .. NIno)]

VARIABLES
    i_number, i_flag, i_count, i_mode, i_nlink,   (* the inode table        *)
    ifreelist,                   (* slots with i_count 0, the next one first *)
    di_mode, di_nlink,           (* the inodes on the device                *)
    d_ino,                       (* the directory                           *)
    s_inode, s_ninode, s_ilock,  (* super block: the free inode numbers     *)
    uinode,                      (* update() is under way                   *)
    cpu, wchan, pc, reg          (* the processes                           *)

slotVars == <<i_number, i_flag, i_count, i_mode, i_nlink, ifreelist>>
diskVars == <<di_mode, di_nlink, d_ino>>
sbVars == <<s_inode, s_ninode, s_ilock>>
fsVars == <<slotVars, diskVars, sbVars, uinode>>
vars == <<fsVars, cpu, wchan, pc, reg>>

Label == {"user", "iget", "iread", "iput", "dealloc", "idle", "release",
          "iupdat", "isync", "dir", "search", "file", "opened", "linked",
          "exists", "wdir", "created", "relock", "victim", "clear", "cleared",
          "parent", "close", "dopen", "dclosed", "ialloc", "scan", "scanned",
          "new", "made", "again", "sync", "syncput"}

Reg == [call: Call, name: Name, second: BOOLEAN, error: BOOLEAN,
        dp: Slot \cup {NoSlot}, ip: Slot \cup {NoSlot}, res: Slot \cup {NoSlot},
        cur: Slot \cup {NoSlot}, ref: Slot \cup {NoSlot},
        file: Slot \cup {NoSlot}, wfile: Slot \cup {NoSlot},
        ino: Ino \cup {NoIno, ROOTINO}, scan: Nat,
        iget: Label, iput: Label, iupdat: Label]
-----------------------------------------------------------------------------
(* Helpers. *)

Runs(p) == cpu \in {p, NoProc} /\ wchan[p] = Awake

Goto(p, l) == /\ pc' = [pc EXCEPT ![p] = l]
              /\ cpu' = IF l = "user" THEN NoProc ELSE p

(* The registers of a process outside the kernel: it has open files only.  *)
Idle(f, w) ==
        [call |-> CHOOSE c \in Calls : TRUE, name |-> CHOOSE n \in Name : TRUE,
         second |-> FALSE, error |-> FALSE,
         dp |-> NoSlot, ip |-> NoSlot, res |-> NoSlot, cur |-> NoSlot,
         ref |-> NoSlot, file |-> f, wfile |-> w, ino |-> NoIno, scan |-> 0,
         iget |-> "user", iput |-> "user", iupdat |-> "user"]

(* The process goes on at l with registers r, or leaves the kernel. *)
Return(p, r, l) ==
    /\ Goto(p, l)
    /\ reg' = [reg EXCEPT ![p] = IF l = "user"
                                THEN Idle(r.file, r.wfile)
                                ELSE r]

(* bread(), bwrite() and the devices may sleep; nobody else wakes p up. *)
Pause(p, l) == /\ pc' = [pc EXCEPT ![p] = l]
               /\ cpu' = NoProc

Sleep(p, chan, l) == /\ wchan' = [wchan EXCEPT ![p] = chan]
                     /\ Pause(p, l)

Wakeup(chan) == [p \in Proc |-> IF wchan[p] = chan THEN Awake ELSE wchan[p]]

(* The slots that the hash chain of inode i holds. *)
Hashed(i) == {s \in Slot : i_number[s] = i}

(* FsINOS(x): where a search of the i-list from inode x starts. *)
INOS(x) == x - (x % INOPB) + 1

(* The bread() that function f does of the block of inode i may fail, in   *)
(* wdir() the writei() of an entry into the directory that has inode i.    *)
MayFail(f, i) == i - ((i - 1) % INOPB) \in BadBlocks[f]

(* prele(): whoever waits for the lock is woken up. *)
Prele(s, f) ==
    /\ i_flag' = [i_flag EXCEPT ![s] = f \ {"ILOCK", "IWANT"}]
    /\ wchan' = IF "IWANT" \in f THEN Wakeup(s) ELSE wchan

(* The loop of plock() and of iget(): wait for slot s and try again at l. *)
AwaitLock(p, s, l) ==
    /\ "ILOCK" \in i_flag[s]
    /\ i_flag' = [i_flag EXCEPT ![s] = @ \cup {"IWANT"}]
    /\ Sleep(p, s, l)

(* namei() looks its name up in the directory, which is locked first. *)
CallNamei(p, r) ==
    /\ reg' = [reg EXCEPT ![p] = [r EXCEPT !.ino = ROOTINO, !.iget = "dir"]]
    /\ Goto(p, "iget")

(* Call of iput() for slot s, which registers r no longer name. *)
CallIput(p, r, s, l) ==
    /\ reg' = [reg EXCEPT ![p] = [r EXCEPT !.cur = s, !.iput = l]]
    /\ Goto(p, "iput")

(* Call of iupdat(); its first act is a bread(). *)
CallIupdat(p, r, l) ==
    /\ reg' = [reg EXCEPT ![p] = [r EXCEPT !.iupdat = l]]
    /\ Pause(p, "iupdat")
-----------------------------------------------------------------------------
Init ==
    /\ i_number = [s \in Slot |-> IF s = RootSlot THEN ROOTINO ELSE NoIno]
    /\ i_flag = [s \in Slot |-> {}]
    /\ i_count = [s \in Slot |-> IF s = RootSlot THEN 1 ELSE 0]
    /\ i_mode = [s \in Slot |-> IF s = RootSlot THEN "dir" ELSE "free"]
    /\ i_nlink = [s \in Slot |-> IF s = RootSlot THEN 2 ELSE 0]
    /\ ifreelist = [k \in 1 .. NSlot - 1 |-> NSlot + 1 - k]
    /\ d_ino = Files
    /\ di_nlink = [i \in Ino |-> Cardinality({n \in Name : Files[n] = i})]
    /\ di_mode = [i \in Ino |-> IF di_nlink[i] = 0 THEN "free"
                                ELSE IF i \in Special THEN "chr" ELSE "reg"]
    /\ s_inode = [k \in 0 .. NICINOD - 1 |-> NoIno]
    /\ s_ninode = 0 /\ s_ilock = FALSE
    /\ uinode = FALSE
    /\ cpu = NoProc
    /\ wchan = [p \in Proc |-> Awake]
    /\ pc = [p \in Proc |-> "user"]
    /\ reg = [p \in Proc |-> Idle(NoSlot, NoSlot)]
-----------------------------------------------------------------------------
(* iget(): the inode reg[p].ino, locked, in reg[p].res; NoSlot if none.    *)

Iget(p) == pc[p] = "iget" /\ Runs(p)

IgetReturn(p, s) ==
    Return(p, [reg[p] EXCEPT !.res = s, !.ino = NoIno, !.iget = "user"], reg[p].iget)

IgetLocked(p) ==
    /\ Iget(p)
    /\ \E s \in Hashed(reg[p].ino) : AwaitLock(p, s, "iget")
    /\ UNCHANGED <<i_number, i_count, i_mode, i_nlink, ifreelist, diskVars,
                   sbVars, uinode, reg>>

IgetFound(p) ==
    /\ Iget(p)
    /\ \E s \in Hashed(reg[p].ino) :
          /\ "ILOCK" \notin i_flag[s]
          /\ IF i_count[s] = 0
             THEN \E k \in DOMAIN ifreelist :
                      ifreelist[k] = s /\ ifreelist' = RemoveAt(ifreelist, k)
             ELSE UNCHANGED ifreelist
          /\ i_count' = [i_count EXCEPT ![s] = @ + 1]
          /\ i_flag' = [i_flag EXCEPT ![s] = @ \cup {"ILOCK"}]
          /\ IgetReturn(p, s)
    /\ UNCHANGED <<i_number, i_mode, i_nlink, diskVars, sbVars, uinode, wchan>>

(* "inode table overflow" *)
IgetOverflow(p) ==
    /\ Iget(p)
    /\ Hashed(reg[p].ino) = {} /\ ifreelist = <<>>
    /\ Return(p, [reg[p] EXCEPT !.error = TRUE, !.ino = NoIno, !.iget = "user"],
              reg[p].iget)
    /\ UNCHANGED <<fsVars, wchan>>

(* Mutant of the following: without the search. *)
IgetAssignUnsearched(p) ==
    /\ Iget(p)
    /\ ifreelist # <<>>
    /\ LET s == Head(ifreelist)
       IN  /\ ifreelist' = Tail(ifreelist)
           /\ i_number' = [i_number EXCEPT ![s] = reg[p].ino]
           /\ i_flag' = [i_flag EXCEPT ![s] = {"ILOCK"}]
           /\ i_count' = [i_count EXCEPT ![s] = 1]
           /\ reg' = [reg EXCEPT ![p].res = s]
    /\ Pause(p, "iread")
    /\ UNCHANGED <<i_mode, i_nlink, diskVars, sbVars, uinode, wchan>>

(* The slot at the head of the free list gets a new identity. *)
IgetAssign(p) ==
    /\ Iget(p)
    /\ Hashed(reg[p].ino) = {} /\ ifreelist # <<>>
    /\ LET s == Head(ifreelist)
       IN  /\ ifreelist' = Tail(ifreelist)
           /\ i_number' = [i_number EXCEPT ![s] = reg[p].ino]
           /\ i_flag' = [i_flag EXCEPT ![s] = {"ILOCK"}]
           /\ i_count' = [i_count EXCEPT ![s] = 1]
           /\ reg' = [reg EXCEPT ![p].res = s]
    /\ Pause(p, "iread")
    /\ UNCHANGED <<i_mode, i_nlink, diskVars, sbVars, uinode, wchan>>

Iread(p) ==
    /\ pc[p] = "iread" /\ Runs(p)
    /\ ~reg[p].error
    /\ i_mode' = [i_mode EXCEPT ![reg[p].res] = di_mode[reg[p].ino]]
    /\ i_nlink' = [i_nlink EXCEPT ![reg[p].res] = di_nlink[reg[p].ino]]
    /\ IgetReturn(p, reg[p].res)
    /\ UNCHANGED <<i_number, i_flag, i_count, ifreelist, diskVars, sbVars,
                   uinode, wchan>>

(* The block cannot be read, or an earlier call has set u_error: iread()   *)
(* gives the slot back as it is.                                           *)
IreadError(p) ==
    /\ pc[p] = "iread" /\ Runs(p)
    /\ reg[p].error \/ MayFail("iread", reg[p].ino)
    /\ CallIput(p, [reg[p] EXCEPT !.res = NoSlot, !.error = TRUE, !.ino = NoIno,
                                  !.iget = "user"],
                reg[p].res, reg[p].iget)
    /\ UNCHANGED <<fsVars, wchan>>
-----------------------------------------------------------------------------
(* iupdat() of the inode that iput() is at, or else of reg[p].ip.          *)

Target(p) == IF reg[p].cur # NoSlot THEN reg[p].cur ELSE reg[p].ip

(* The directory's own link count and mode never change. *)
CopyOut(s) ==
    IF i_number[s] = ROOTINO THEN UNCHANGED <<di_mode, di_nlink>>
    ELSE /\ di_mode' = [di_mode EXCEPT ![i_number[s]] = i_mode[s]]
         /\ di_nlink' = [di_nlink EXCEPT ![i_number[s]] = i_nlink[s]]

Updated(s) == i_flag' = [i_flag EXCEPT ![s] = @ \ {"IUPD", "ISYN"}]

IupdatReturn(p) == Return(p, [reg[p] EXCEPT !.iupdat = "user"], reg[p].iupdat)

Iupdat(p) ==
    /\ pc[p] = "iupdat" /\ Runs(p)
    /\ CopyOut(Target(p))
    /\ IF "ISYN" \in i_flag[Target(p)]
       THEN Pause(p, "isync") /\ UNCHANGED <<i_flag, reg>>
       ELSE IupdatReturn(p) /\ Updated(Target(p))
    /\ UNCHANGED <<i_number, i_count, i_mode, i_nlink, ifreelist, d_ino,
                   sbVars, uinode, wchan>>

(* A failed bread() leaves the inode marked. *)
IupdatError(p) ==
    /\ pc[p] = "iupdat" /\ Runs(p)
    /\ MayFail("iupdat", i_number[Target(p)])
    /\ Return(p, [reg[p] EXCEPT !.error = TRUE, !.iupdat = "user"], reg[p].iupdat)
    /\ UNCHANGED <<fsVars, wchan>>

IupdatWritten(p) ==
    /\ pc[p] = "isync" /\ Runs(p)
    /\ Updated(Target(p))
    /\ IupdatReturn(p)
    /\ UNCHANGED <<i_number, i_count, i_mode, i_nlink, ifreelist, diskVars,
                   sbVars, uinode, wchan>>
-----------------------------------------------------------------------------
(* iput() of reg[p].cur. *)

IputReturn(p) == Return(p, [reg[p] EXCEPT !.cur = NoSlot, !.iput = "user"], reg[p].iput)

(* One of several references: it goes, and the lock with it. *)
IputMore(p) ==
    /\ pc[p] = "iput" /\ Runs(p)
    /\ LET s == reg[p].cur
       IN  /\ i_count[s] # 1
           /\ i_count' = [i_count EXCEPT ![s] = @ - 1]
           /\ Prele(s, i_flag[s])
    /\ IputReturn(p)
    /\ UNCHANGED <<i_number, i_mode, i_nlink, ifreelist, diskVars, sbVars, uinode>>

(* The last reference of a file with links. *)
IputLast(p) ==
    /\ pc[p] = "iput" /\ Runs(p)
    /\ i_count[reg[p].cur] = 1 /\ i_nlink[reg[p].cur] > 0
    /\ i_flag' = [i_flag EXCEPT ![reg[p].cur] = @ \cup {"ILOCK"}]
    /\ Goto(p, "idle")
    /\ UNCHANGED <<i_number, i_count, i_mode, i_nlink, ifreelist, diskVars,
                   sbVars, uinode, wchan, reg>>

(* Mutant of the following: the last link but one. *)
IputRemovedEarly(p) ==
    /\ pc[p] = "iput" /\ Runs(p)
    /\ i_count[reg[p].cur] = 1 /\ i_nlink[reg[p].cur] <= 1
    /\ i_flag' = [i_flag EXCEPT ![reg[p].cur] = @ \cup {"ILOCK"}]
    /\ Goto(p, "dealloc")
    /\ UNCHANGED <<i_number, i_count, i_mode, i_nlink, ifreelist, diskVars,
                   sbVars, uinode, wchan, reg>>

(* itrunc() writes a regular file's inode, and only then frees its blocks. *)
IputRemoved(p) ==
    /\ pc[p] = "iput" /\ Runs(p)
    /\ LET s == reg[p].cur
       IN  /\ i_count[s] = 1 /\ i_nlink[s] <= 0
           /\ IF i_mode[s] = "reg"
              THEN /\ i_flag' = [i_flag EXCEPT ![s] = @ \cup {"ILOCK", "IUPD", "ISYN"}]
                   /\ CallIupdat(p, reg[p], "dealloc")
              ELSE /\ i_flag' = [i_flag EXCEPT ![s] = @ \cup {"ILOCK"}]
                   /\ Goto(p, "dealloc")
                   /\ UNCHANGED reg
    /\ UNCHANGED <<i_number, i_count, i_mode, i_nlink, ifreelist, diskVars,
                   sbVars, uinode, wchan>>

(* ifree() of inode i. *)
Ifree(i) ==
    IF s_ilock THEN UNCHANGED <<s_inode, s_ninode>>
    ELSE IF s_ninode >= NICINOD
    THEN /\ s_inode' = IF i < s_inode[0] THEN [s_inode EXCEPT ![0] = i] ELSE s_inode
         /\ UNCHANGED s_ninode
    ELSE /\ s_inode' = [s_inode EXCEPT ![s_ninode] = i]
         /\ s_ninode' = s_ninode + 1

IputDealloc(p) ==
    /\ pc[p] = "dealloc" /\ Runs(p)
    /\ LET s == reg[p].cur
       IN  /\ i_mode' = [i_mode EXCEPT ![s] = "free"]
           /\ i_flag' = [i_flag EXCEPT ![s] = @ \cup {"IUPD"}]
           /\ Ifree(i_number[s])
    /\ Goto(p, "idle")
    /\ UNCHANGED <<i_number, i_count, i_nlink, ifreelist, diskVars, s_ilock,
                   uinode, wchan, reg>>

IputUpdate(p) ==
    /\ pc[p] = "idle" /\ Runs(p)
    /\ "IUPD" \in i_flag[reg[p].cur]
    /\ CallIupdat(p, reg[p], "release")
    /\ UNCHANGED <<fsVars, wchan>>

(* Mutant of the following: the flags go before prele() looks at them. *)
IputReleaseCleared(p) ==
    /\ \/ pc[p] = "idle" /\ "IUPD" \notin i_flag[reg[p].cur]
       \/ pc[p] = "release"
    /\ Runs(p)
    /\ i_flag' = [i_flag EXCEPT ![reg[p].cur] = {}]
    /\ i_count' = [i_count EXCEPT ![reg[p].cur] = 0]
    /\ ifreelist' = Append(ifreelist, reg[p].cur)
    /\ IputReturn(p)
    /\ UNCHANGED <<i_number, i_mode, i_nlink, diskVars, sbVars, uinode, wchan>>

IputRelease(p) ==
    /\ \/ pc[p] = "idle" /\ "IUPD" \notin i_flag[reg[p].cur]
       \/ pc[p] = "release"
    /\ Runs(p)
    /\ LET s == reg[p].cur
       IN  /\ i_flag' = [i_flag EXCEPT ![s] = {}]
           /\ wchan' = IF "IWANT" \in i_flag[s] THEN Wakeup(s) ELSE wchan
           /\ i_count' = [i_count EXCEPT ![s] = 0]
           /\ ifreelist' = Append(ifreelist, s)
    /\ IputReturn(p)
    /\ UNCHANGED <<i_number, i_mode, i_nlink, diskVars, sbVars, uinode>>
-----------------------------------------------------------------------------
(* ialloc() *)

IallocWait(p) ==
    /\ pc[p] = "ialloc" /\ Runs(p)
    /\ s_ilock
    /\ Sleep(p, ILockChan, "ialloc")
    /\ UNCHANGED <<fsVars, reg>>

IallocPop(p) ==
    /\ pc[p] = "ialloc" /\ Runs(p)
    /\ ~s_ilock /\ s_ninode > 0
    /\ s_inode[s_ninode - 1] # NoIno
    /\ s_ninode' = s_ninode - 1
    /\ reg' = [reg EXCEPT ![p].ino = s_inode[s_ninode - 1], ![p].iget = "new"]
    /\ Goto(p, "iget")
    /\ UNCHANGED <<slotVars, diskVars, s_inode, s_ilock, uinode, wchan>>

(* No number is left: the i-list will be searched from s_inode[0] on. *)
IallocSearch(p) ==
    /\ pc[p] = "ialloc" /\ Runs(p)
    /\ ~s_ilock
    /\ s_ninode > 0 => s_inode[s_ninode - 1] = NoIno
    /\ s_ilock' = TRUE
    /\ s_ninode' = NICINOD
    /\ reg' = [reg EXCEPT ![p].scan = INOS(s_inode[0])]
    /\ IF INOS(s_inode[0]) <= NIno THEN Pause(p, "scan") ELSE Goto(p, "scanned")
    /\ UNCHANGED <<slotVars, diskVars, s_inode, uinode, wchan>>

(* The free inodes of a block of the i-list: free lists them all, in       *)
(* ascending order.                                                        *)
FreeIn(first) == {i \in Ino : i \in first .. first + INOPB - 1 /\ di_mode[i] = "free"}

Ascending(free, S) == /\ Range(free) = S
                      /\ \A j, k \in DOMAIN free : j < k => free[j] < free[k]

IallocNextBlock(p, left, error) ==
    LET next == reg[p].scan + INOPB
    IN  /\ reg' = [reg EXCEPT ![p].scan = next, ![p].error = error]
        /\ IF left > 0 /\ next <= NIno THEN Pause(p, "scan") ELSE Goto(p, "scanned")

(* The next block of the i-list: its free inodes fill the list downwards.  *)
IallocScan(p) ==
    /\ pc[p] = "scan" /\ Runs(p)
    /\ ~reg[p].error
    /\ \E free \in [1 .. Cardinality(FreeIn(reg[p].scan)) -> FreeIn(reg[p].scan)] :
       LET left == IF Len(free) > s_ninode THEN 0 ELSE s_ninode - Len(free)
       IN  /\ Ascending(free, FreeIn(reg[p].scan))
           /\ s_ninode' = left
           /\ s_inode' = [k \in DOMAIN s_inode |->
                            IF k \in left .. s_ninode - 1 THEN free[s_ninode - k]
                            ELSE s_inode[k]]
           /\ IallocNextBlock(p, left, FALSE)
    /\ UNCHANGED <<slotVars, diskVars, s_ilock, uinode, wchan>>

(* A block that cannot be read is passed over, and with u_error set those  *)
(* that follow it.                                                         *)
IallocScanError(p) ==
    /\ pc[p] = "scan" /\ Runs(p)
    /\ reg[p].error \/ MayFail("ialloc", reg[p].scan)
    /\ IallocNextBlock(p, s_ninode, TRUE)
    /\ UNCHANGED <<fsVars, wchan>>

(* A zero below the numbers found ends the list, and s_inode[0] = 0 makes  *)
(* the next search start from the first inode.                             *)
IallocFilled(p) ==
    /\ pc[p] = "scanned" /\ Runs(p)
    /\ s_ilock' = FALSE
    /\ wchan' = Wakeup(ILockChan)
    /\ s_inode' = IF s_ninode > 0
                  THEN [s_inode EXCEPT ![s_ninode - 1] = NoIno, ![0] = NoIno]
                  ELSE s_inode
    /\ s_ninode # NICINOD
    /\ s_ninode' = NICINOD
    /\ Goto(p, "ialloc")
    /\ UNCHANGED <<slotVars, diskVars, uinode, reg>>

(* ialloc() gives no inode: maknode() gives the directory back.            *)
IallocNull(p) ==
    IF reg[p].dp = NoSlot THEN Return(p, reg[p], "user")
    ELSE CallIput(p, [reg[p] EXCEPT !.dp = NoSlot], reg[p].dp, "user")

(* "Out of inodes" *)
IallocNone(p) ==
    /\ pc[p] = "scanned" /\ Runs(p)
    /\ s_ilock' = FALSE
    /\ wchan' = Wakeup(ILockChan)
    /\ s_ninode = NICINOD
    /\ s_inode' = [s_inode EXCEPT ![NICINOD - 1] = NoIno, ![0] = NoIno]
    /\ s_ninode' = 0
    /\ IallocNull(p)
    /\ UNCHANGED <<slotVars, diskVars, uinode>>

(* iget() failed. *)
IallocFails(p) ==
    /\ pc[p] = "new" /\ Runs(p)
    /\ reg[p].res = NoSlot
    /\ IallocNull(p)
    /\ UNCHANGED <<fsVars, wchan>>

(* "found inode: update now to avoid races" *)
IallocTake(p) ==
    /\ pc[p] = "new" /\ Runs(p)
    /\ LET s == reg[p].res
       IN  /\ s # NoSlot /\ i_mode[s] = "free"
           /\ i_mode' = [i_mode EXCEPT ![s] = IF reg[p].call.op = "pipe" THEN "fifo" ELSE "reg"]
           /\ i_nlink' = [i_nlink EXCEPT ![s] = IF reg[p].call.op = "pipe" THEN 0 ELSE 1]
           /\ i_flag' = [i_flag EXCEPT ![s] = @ \cup {"IUPD", "ISYN"}]
           /\ CallIupdat(p, [reg[p] EXCEPT !.ip = s, !.res = NoSlot], "made")
    /\ UNCHANGED <<i_number, i_count, ifreelist, diskVars, sbVars, uinode, wchan>>

(* "Inode was allocated after all.  Look some more." *)
IallocUsed(p) ==
    /\ pc[p] = "new" /\ Runs(p)
    /\ reg[p].res # NoSlot /\ i_mode[reg[p].res] # "free"
    /\ CallIupdat(p, [reg[p] EXCEPT !.cur = reg[p].res, !.res = NoSlot], "again")
    /\ UNCHANGED <<fsVars, wchan>>

IallocAgain(p) ==
    /\ pc[p] = "again" /\ Runs(p)
    /\ CallIput(p, reg[p], reg[p].cur, "ialloc")
    /\ UNCHANGED <<fsVars, wchan>>
-----------------------------------------------------------------------------
(* The system calls. *)

(* open, creat, unlink, link: each starts with a namei(). *)
EnterNamei(p) == \E c \in Calls :
    /\ pc[p] = "user" /\ Runs(p)
    /\ c.op \in {"open", "creat", "unlink", "link"}
    /\ c.op \in {"open", "creat"} => reg[p].file = NoSlot
    /\ CallNamei(p, [reg[p] EXCEPT !.call = c, !.name = c.name, !.second = FALSE,
                                   !.error = FALSE])
    /\ UNCHANGED <<fsVars, wchan>>

(* pipe(): ialloc() on the pipe device, with no directory.                 *)
EnterPipe(p) == \E c \in Calls :
    /\ pc[p] = "user" /\ Runs(p)
    /\ c.op = "pipe" /\ reg[p].file = NoSlot /\ reg[p].wfile = NoSlot
    /\ reg' = [reg EXCEPT ![p].call = c]
    /\ Goto(p, "ialloc")
    /\ UNCHANGED <<fsVars, wchan>>

(* update() writes the super blocks first. *)
EnterUpdate(p) == \E c \in Calls :
    /\ pc[p] = "user" /\ Runs(p)
    /\ c.op = "sync" /\ ~uinode
    /\ uinode' = TRUE
    /\ reg' = [reg EXCEPT ![p].call = c, ![p].scan = 1]
    /\ Pause(p, "sync")
    /\ UNCHANGED <<slotVars, diskVars, sbVars, wchan>>

EnterClose(p) == \E c \in Calls :
    /\ pc[p] = "user" /\ Runs(p)
    /\ c.op = "close"
    /\ \/ /\ reg[p].file # NoSlot
          /\ reg' = [reg EXCEPT ![p] = [reg[p] EXCEPT !.call = c]]
       \/ /\ reg[p].wfile # NoSlot
          /\ reg' = [reg EXCEPT ![p] = [reg[p] EXCEPT !.call = c, !.file = reg[p].wfile,
                                                      !.wfile = reg[p].file]]
    /\ Goto(p, "close")
    /\ UNCHANGED <<fsVars, wchan>>

(* namei() has its directory, and reads it. *)
NameiDir(p) ==
    /\ pc[p] = "dir" /\ Runs(p)
    /\ ~reg[p].error
    /\ reg' = [reg EXCEPT ![p].dp = reg[p].res, ![p].res = NoSlot]
    /\ Pause(p, "search")
    /\ UNCHANGED <<fsVars, wchan>>

(* Where a call goes on when a namei() or what follows it fails. *)
Failed(p) == IF reg[p].second THEN "relock" ELSE "user"

(* u_error was set before namei() was called. *)
NameiError(p) ==
    /\ pc[p] = "dir" /\ Runs(p)
    /\ reg[p].error
    /\ CallIput(p, [reg[p] EXCEPT !.res = NoSlot], reg[p].res, Failed(p))
    /\ UNCHANGED <<fsVars, wchan>>

Entry(p) == d_ino[reg[p].name]

(* The name may be created: namei() was called with flag 1. *)
Creating(p) == reg[p].call.op = "creat" \/ reg[p].second

(* No such name, no permission, or the directory cannot be read. *)
NameiFails(p) ==
    /\ pc[p] = "search" /\ Runs(p)
    /\ CallIput(p, [reg[p] EXCEPT !.dp = NoSlot, !.error = TRUE], reg[p].dp, Failed(p))
    /\ UNCHANGED <<fsVars, wchan>>

(* The directory is released before the inode is looked for. *)
NameiFound(p) ==
    /\ pc[p] = "search" /\ Runs(p)
    /\ Entry(p) # NoIno /\ reg[p].call.op # "unlink"
    /\ CallIput(p, [reg[p] EXCEPT !.dp = NoSlot, !.ino = Entry(p),
                                  !.iget = IF reg[p].second THEN "exists" ELSE "file"],
                reg[p].dp, "iget")
    /\ UNCHANGED <<fsVars, wchan>>

(* The directory stays locked while the entry is made or removed. *)
NameiVictim(p) ==
    /\ pc[p] = "search" /\ Runs(p)
    /\ Entry(p) # NoIno /\ reg[p].call.op = "unlink"
    /\ reg' = [reg EXCEPT ![p].ino = Entry(p), ![p].iget = "victim"]
    /\ Goto(p, "iget")
    /\ UNCHANGED <<fsVars, wchan>>

NameiNew(p) ==
    /\ pc[p] = "search" /\ Runs(p)
    /\ Entry(p) = NoIno /\ Creating(p)
    /\ Pause(p, IF reg[p].second THEN "wdir" ELSE "ialloc")
    /\ UNCHANGED <<fsVars, wchan, reg>>

(* iget() gave no inode for the name. *)
FileNone(p) ==
    /\ pc[p] = "file" /\ Runs(p)
    /\ reg[p].res = NoSlot
    /\ Return(p, reg[p], "user")
    /\ UNCHANGED <<fsVars, wchan>>

(* No permission, no file structure, or too many links. *)
FileRefused(p) ==
    /\ pc[p] = "file" /\ Runs(p)
    /\ reg[p].res # NoSlot
    /\ reg[p].call.op = "link" => i_nlink[reg[p].res] >= MAXLINK
    /\ CallIput(p, [reg[p] EXCEPT !.res = NoSlot], reg[p].res, "user")
    /\ UNCHANGED <<fsVars, wchan>>

(* copen() of an existing file; creat() truncates it. *)
FileOpen(p) ==
    /\ pc[p] = "file" /\ Runs(p)
    /\ reg[p].res # NoSlot /\ reg[p].call.op \in {"open", "creat"}
    /\ LET s == reg[p].res
           r == [reg[p] EXCEPT !.ip = s, !.res = NoSlot]
       IN  IF reg[p].call.op = "creat" /\ i_mode[s] = "reg"
           THEN /\ i_flag' = [i_flag EXCEPT ![s] = @ \cup {"IUPD", "ISYN"}]
                /\ CallIupdat(p, r, "opened")
           ELSE /\ reg' = [reg EXCEPT ![p] = r]
                /\ Goto(p, "opened")
                /\ UNCHANGED i_flag
    /\ UNCHANGED <<i_number, i_count, i_mode, i_nlink, ifreelist, diskVars,
                   sbVars, uinode, wchan>>

(* The lock goes; a device is opened without it. *)
Opened(p) ==
    /\ pc[p] = "opened" /\ Runs(p)
    /\ Prele(reg[p].ip, i_flag[reg[p].ip])
    /\ LET r == [reg[p] EXCEPT !.file = reg[p].ip, !.ip = NoSlot]
       IN  IF i_mode[reg[p].ip] = "chr"
           THEN reg' = [reg EXCEPT ![p] = r] /\ Pause(p, "dopen")
           ELSE Return(p, r, "user")
    /\ UNCHANGED <<i_number, i_count, i_mode, i_nlink, ifreelist, diskVars,
                   sbVars, uinode>>

DeviceOpened(p) ==
    /\ pc[p] = "dopen" /\ Runs(p)
    /\ Return(p, reg[p], "user")
    /\ UNCHANGED <<fsVars, wchan>>

(* copen() gives the inode back, which is not locked. *)
DeviceRefused(p) ==
    /\ pc[p] = "dopen" /\ Runs(p)
    /\ CallIput(p, [reg[p] EXCEPT !.file = NoSlot], reg[p].file, "user")
    /\ UNCHANGED <<fsVars, wchan>>

(* A signal ends the device's open: copen() closes the file again.         *)
DeviceInterrupted(p) ==
    /\ pc[p] = "dopen" /\ Runs(p)
    /\ Goto(p, "close")
    /\ UNCHANGED <<fsVars, wchan, reg>>

(* wdir(): the entry of the new name, unless u_error is set; the directory *)
(* is given back.                                                          *)
WdirThen(p) == IF reg[p].second THEN "relock" ELSE "created"

WdirInode(p) == IF reg[p].second THEN reg[p].ref ELSE reg[p].ip

Wdir(p) ==
    /\ pc[p] = "wdir" /\ Runs(p)
    /\ IF reg[p].error
       THEN UNCHANGED <<d_ino, i_flag>>
       ELSE /\ d_ino' = [d_ino EXCEPT ![reg[p].name] = i_number[WdirInode(p)]]
            /\ i_flag' = [i_flag EXCEPT ![reg[p].dp] = @ \cup {"IUPD"}]
    /\ CallIput(p, [reg[p] EXCEPT !.dp = NoSlot], reg[p].dp, WdirThen(p))
    /\ UNCHANGED <<i_number, i_count, i_mode, i_nlink, ifreelist, di_mode,
                   di_nlink, sbVars, uinode, wchan>>

(* writei() of the entry fails: its block cannot be read, or bmap() has    *)
(* none for it, and then the directory is not marked.                      *)
WdirFails(p) ==
    /\ pc[p] = "wdir" /\ Runs(p) /\ ~reg[p].error
    /\ MayFail("wdir", i_number[reg[p].dp])
    /\ \E f \in SUBSET {"IUPD"} : i_flag' = [i_flag EXCEPT ![reg[p].dp] = @ \cup f]
    /\ CallIput(p, [reg[p] EXCEPT !.dp = NoSlot, !.error = TRUE], reg[p].dp, WdirThen(p))
    /\ UNCHANGED <<i_number, i_count, i_mode, i_nlink, ifreelist, diskVars,
                   sbVars, uinode, wchan>>

(* The new inode is on the device; writei() of the entry comes next. *)
Made(p) ==
    /\ pc[p] = "made" /\ Runs(p)
    /\ reg[p].call.op = "creat"
    /\ Pause(p, "wdir")
    /\ UNCHANGED <<fsVars, wchan, reg>>

(* Mutant of the following: one reference for two file structures. *)
PipeMadeOnce(p) ==
    /\ pc[p] = "made" /\ Runs(p)
    /\ reg[p].call.op = "pipe"
    /\ Prele(reg[p].ip, i_flag[reg[p].ip])
    /\ Return(p, [reg[p] EXCEPT !.file = reg[p].ip, !.wfile = reg[p].ip, !.ip = NoSlot],
              "user")
    /\ UNCHANGED <<i_number, i_count, i_mode, i_nlink, ifreelist, diskVars, sbVars,
                   uinode>>

(* pipe() has two file structures for the inode. *)
PipeMade(p) ==
    /\ pc[p] = "made" /\ Runs(p)
    /\ reg[p].call.op = "pipe"
    /\ i_count' = [i_count EXCEPT ![reg[p].ip] = 2]
    /\ Prele(reg[p].ip, i_flag[reg[p].ip])
    /\ Return(p, [reg[p] EXCEPT !.file = reg[p].ip, !.wfile = reg[p].ip, !.ip = NoSlot],
              "user")
    /\ UNCHANGED <<i_number, i_mode, i_nlink, ifreelist, diskVars, sbVars, uinode>>

(* pipe() has not. *)
PipeRefused(p) ==
    /\ pc[p] = "made" /\ Runs(p)
    /\ reg[p].call.op = "pipe"
    /\ CallIput(p, [reg[p] EXCEPT !.ip = NoSlot], reg[p].ip, "user")
    /\ UNCHANGED <<fsVars, wchan>>

Created(p) ==
    /\ pc[p] = "created" /\ Runs(p)
    /\ ~reg[p].error
    /\ Goto(p, "opened")
    /\ UNCHANGED <<fsVars, wchan, reg>>

(* u_error is set, or falloc() fails: the new file stays. *)
CreatedRefused(p) ==
    /\ pc[p] = "created" /\ Runs(p)
    /\ CallIput(p, [reg[p] EXCEPT !.ip = NoSlot], reg[p].ip, "user")
    /\ UNCHANGED <<fsVars, wchan>>

(* link(): "Update inode first for robustness." *)
LinkCounted(p) ==
    /\ pc[p] = "file" /\ Runs(p)
    /\ LET s == reg[p].res
       IN  /\ s # NoSlot /\ reg[p].call.op = "link" /\ i_nlink[s] < MAXLINK
           /\ i_nlink' = [i_nlink EXCEPT ![s] = @ + 1]
           /\ i_flag' = [i_flag EXCEPT ![s] = @ \cup {"IUPD", "ISYN"}]
           /\ CallIupdat(p, [reg[p] EXCEPT !.ip = s, !.res = NoSlot], "linked")
    /\ UNCHANGED <<i_number, i_count, i_mode, ifreelist, diskVars, sbVars,
                   uinode, wchan>>

(* Mutant of the following: without the prele(). *)
LinkedLocked(p) ==
    /\ pc[p] = "linked" /\ Runs(p)
    /\ CallNamei(p, [reg[p] EXCEPT !.ref = reg[p].ip,
                                   !.name = reg[p].call.new, !.second = TRUE])
    /\ UNCHANGED <<fsVars, wchan>>

(* "Unlock to avoid possibly hanging the namei.  Sadly, this means races." *)
Linked(p) ==
    /\ pc[p] = "linked" /\ Runs(p)
    /\ Prele(reg[p].ip, i_flag[reg[p].ip])
    /\ CallNamei(p, [reg[p] EXCEPT !.ref = reg[p].ip, !.ip = NoSlot,
                                   !.name = reg[p].call.new, !.second = TRUE])
    /\ UNCHANGED <<i_number, i_count, i_mode, i_nlink, ifreelist, diskVars,
                   sbVars, uinode>>

LinkExists(p) ==
    /\ pc[p] = "exists" /\ Runs(p)
    /\ IF reg[p].res = NoSlot
       THEN Goto(p, "relock") /\ UNCHANGED reg
       ELSE CallIput(p, [reg[p] EXCEPT !.res = NoSlot, !.error = TRUE],
                     reg[p].res, "relock")
    /\ UNCHANGED <<fsVars, wchan>>

RelockWait(p) ==
    /\ pc[p] = "relock" /\ Runs(p)
    /\ AwaitLock(p, reg[p].ref, "relock")
    /\ UNCHANGED <<i_number, i_count, i_mode, i_nlink, ifreelist, diskVars,
                   sbVars, uinode, reg>>

Relock(p) ==
    /\ pc[p] = "relock" /\ Runs(p)
    /\ LET s == reg[p].ref
       IN  /\ "ILOCK" \notin i_flag[s]
           /\ i_flag' = [i_flag EXCEPT ![s] =
                 @ \cup {"ILOCK"} \cup (IF reg[p].error THEN {"IUPD"} ELSE {})]
           /\ i_nlink' = IF reg[p].error THEN [i_nlink EXCEPT ![s] = @ - 1] ELSE i_nlink
           /\ CallIput(p, [reg[p] EXCEPT !.ref = NoSlot], s, "user")
    /\ UNCHANGED <<i_number, i_count, i_mode, ifreelist, diskVars, sbVars,
                   uinode, wchan>>

(* unlink() has no inode for the entry. *)
UnlinkNone(p) ==
    /\ pc[p] = "victim" /\ Runs(p)
    /\ reg[p].res = NoSlot
    /\ Goto(p, "parent")
    /\ UNCHANGED <<fsVars, wchan, reg>>

Unlink(p) ==
    /\ pc[p] = "victim" /\ Runs(p)
    /\ reg[p].res # NoSlot
    /\ reg' = [reg EXCEPT ![p].ip = reg[p].res, ![p].res = NoSlot]
    /\ Pause(p, "clear")
    /\ UNCHANGED <<fsVars, wchan>>

(* writei() of the empty entry, and its bwrite(). *)
UnlinkClear(p) ==
    /\ pc[p] = "clear" /\ Runs(p)
    /\ d_ino' = [d_ino EXCEPT ![reg[p].name] = NoIno]
    /\ i_flag' = [i_flag EXCEPT ![reg[p].dp] = @ \cup {"IUPD"}]
    /\ Pause(p, "cleared")
    /\ UNCHANGED <<i_number, i_count, i_mode, i_nlink, ifreelist, di_mode,
                   di_nlink, sbVars, uinode, wchan, reg>>

(* The text is busy, or the entry could not be written. *)
UnlinkRefused(p) ==
    /\ pc[p] = "clear" /\ Runs(p)
    /\ CallIput(p, [reg[p] EXCEPT !.ip = NoSlot, !.error = TRUE], reg[p].ip, "parent")
    /\ UNCHANGED <<fsVars, wchan>>

(* Mutants of the following: the inode is not marked; the link stays. *)
UnlinkCountUnmarked(p) ==
    /\ pc[p] = "cleared" /\ Runs(p)
    /\ i_nlink' = [i_nlink EXCEPT ![reg[p].ip] = @ - 1]
    /\ CallIput(p, [reg[p] EXCEPT !.ip = NoSlot], reg[p].ip, "parent")
    /\ UNCHANGED <<i_number, i_flag, i_count, i_mode, ifreelist, diskVars, sbVars,
                   uinode, wchan>>

UnlinkUncounted(p) ==
    /\ pc[p] = "cleared" /\ Runs(p)
    /\ CallIput(p, [reg[p] EXCEPT !.ip = NoSlot], reg[p].ip, "parent")
    /\ UNCHANGED <<fsVars, wchan>>

UnlinkCount(p) ==
    /\ pc[p] = "cleared" /\ Runs(p)
    /\ i_nlink' = [i_nlink EXCEPT ![reg[p].ip] = @ - 1]
    /\ i_flag' = [i_flag EXCEPT ![reg[p].ip] = @ \cup {"IUPD"}]
    /\ CallIput(p, [reg[p] EXCEPT !.ip = NoSlot], reg[p].ip, "parent")
    /\ UNCHANGED <<i_number, i_count, i_mode, ifreelist, diskVars, sbVars,
                   uinode, wchan>>

UnlinkParent(p) ==
    /\ pc[p] = "parent" /\ Runs(p)
    /\ CallIput(p, [reg[p] EXCEPT !.dp = NoSlot], reg[p].dp, "user")
    /\ UNCHANGED <<fsVars, wchan>>

(* closef() of the last file structure: plock() first. *)
CloseWait(p) ==
    /\ pc[p] = "close" /\ Runs(p)
    /\ AwaitLock(p, reg[p].file, "close")
    /\ UNCHANGED <<i_number, i_count, i_mode, i_nlink, ifreelist, diskVars,
                   sbVars, uinode, reg>>

(* Another process has the device open. *)
OpenElsewhere(p) == \E q \in Proc \ {p} : reg[q].file = reg[p].file

Close(p) ==
    /\ pc[p] = "close" /\ Runs(p)
    /\ "ILOCK" \notin i_flag[reg[p].file]
    /\ i_mode[reg[p].file] # "chr" \/ OpenElsewhere(p)
    /\ i_flag' = [i_flag EXCEPT ![reg[p].file] = @ \cup {"ILOCK"}]
    /\ CallIput(p, [reg[p] EXCEPT !.file = NoSlot], reg[p].file, "user")
    /\ UNCHANGED <<i_number, i_count, i_mode, i_nlink, ifreelist, diskVars,
                   sbVars, uinode, wchan>>

(* The last close of a character device: plock(), prele(), then d_close(). *)
CloseDevice(p) ==
    /\ pc[p] = "close" /\ Runs(p)
    /\ "ILOCK" \notin i_flag[reg[p].file]
    /\ i_mode[reg[p].file] = "chr" /\ ~OpenElsewhere(p)
    /\ Prele(reg[p].file, i_flag[reg[p].file])
    /\ reg' = [reg EXCEPT ![p].ref = reg[p].file, ![p].file = NoSlot]
    /\ Pause(p, "dclosed")
    /\ UNCHANGED <<i_number, i_count, i_mode, i_nlink, ifreelist, diskVars,
                   sbVars, uinode>>

DeviceClosed(p) ==
    /\ pc[p] = "dclosed" /\ Runs(p)
    /\ CallIput(p, [reg[p] EXCEPT !.ref = NoSlot], reg[p].ref, "user")
    /\ UNCHANGED <<fsVars, wchan>>

(* Mutant of the following: locked inodes, too. *)
ModifiedLocked(s) == i_count[s] # 0 /\ "IUPD" \in i_flag[s]

(* update(): the modified inodes that nobody has locked, in their order.   *)
Modified(s) == "ILOCK" \notin i_flag[s] /\ i_count[s] # 0 /\ "IUPD" \in i_flag[s]

Unwritten(p) == {s \in Slot : s >= reg[p].scan /\ Modified(s)}

UpdateInode(p) ==
    /\ pc[p] = "sync" /\ Runs(p)
    /\ \E s \in Unwritten(p) :
           /\ \A t \in Unwritten(p) : s <= t
           /\ i_flag' = [i_flag EXCEPT ![s] = @ \cup {"ILOCK"}]
           /\ i_count' = [i_count EXCEPT ![s] = @ + 1]
           /\ CallIupdat(p, [reg[p] EXCEPT !.cur = s, !.scan = s + 1], "syncput")
    /\ UNCHANGED <<i_number, i_mode, i_nlink, ifreelist, diskVars, sbVars,
                   uinode, wchan>>

UpdatePut(p) ==
    /\ pc[p] = "syncput" /\ Runs(p)
    /\ CallIput(p, reg[p], reg[p].cur, "sync")
    /\ UNCHANGED <<fsVars, wchan>>

UpdateEnd(p) ==
    /\ pc[p] = "sync" /\ Runs(p)
    /\ Unwritten(p) = {}
    /\ uinode' = FALSE
    /\ Return(p, reg[p], "user")
    /\ UNCHANGED <<slotVars, diskVars, sbVars, wchan>>
-----------------------------------------------------------------------------
IgetStep(p) == \/ IgetLocked(p) \/ IgetFound(p) \/ IgetOverflow(p)
               \/ IgetAssign(p) \/ Iread(p) \/ IreadError(p)

IputStep(p) == \/ Iupdat(p) \/ IupdatError(p) \/ IupdatWritten(p)
               \/ IputMore(p) \/ IputLast(p) \/ IputRemoved(p)
               \/ IputDealloc(p) \/ IputUpdate(p) \/ IputRelease(p)

IallocStep(p) == \/ IallocWait(p) \/ IallocPop(p) \/ IallocSearch(p)
                 \/ IallocScan(p) \/ IallocScanError(p)
                 \/ IallocFilled(p) \/ IallocNone(p)
                 \/ IallocFails(p) \/ IallocTake(p) \/ IallocUsed(p)
                 \/ IallocAgain(p)

NameiStep(p) == \/ NameiDir(p) \/ NameiError(p) \/ NameiFails(p) \/ NameiFound(p)
                \/ NameiVictim(p) \/ NameiNew(p)

OpenStep(p) == \/ FileNone(p) \/ FileRefused(p) \/ FileOpen(p) \/ Opened(p)
               \/ DeviceOpened(p) \/ DeviceRefused(p) \/ DeviceInterrupted(p)
               \/ PipeMade(p) \/ PipeRefused(p) \/ Wdir(p) \/ WdirFails(p)
               \/ Made(p) \/ Created(p) \/ CreatedRefused(p)

LinkStep(p) == \/ LinkCounted(p) \/ Linked(p) \/ LinkExists(p)
               \/ RelockWait(p) \/ Relock(p)
               \/ UnlinkNone(p) \/ Unlink(p) \/ UnlinkRefused(p)
               \/ UnlinkClear(p) \/ UnlinkCount(p) \/ UnlinkParent(p)

CloseStep(p) == \/ CloseWait(p) \/ Close(p) \/ CloseDevice(p) \/ DeviceClosed(p)
                \/ UpdateInode(p) \/ UpdatePut(p) \/ UpdateEnd(p)

EnterStep(p) == EnterNamei(p) \/ EnterPipe(p) \/ EnterUpdate(p) \/ EnterClose(p)

Next == \E p \in Proc :
           \/ EnterStep(p) \/ IgetStep(p) \/ IputStep(p) \/ IallocStep(p)
           \/ NameiStep(p) \/ OpenStep(p) \/ LinkStep(p) \/ CloseStep(p)

Spec == Init /\ [][Next]_vars
-----------------------------------------------------------------------------
(* Properties. *)

(* Every variable keeps to its type: the tables of os/iget.c, os/alloc.c.  *)
TypeOK ==
    /\ i_number \in [Slot -> Ino \cup {NoIno, ROOTINO}]
    /\ i_flag \in [Slot -> SUBSET Flag]
    /\ i_count \in [Slot -> Nat]
    /\ i_mode \in [Slot -> Mode]
    /\ i_nlink \in [Slot -> Int]
    /\ ifreelist \in Seq(Slot)
    /\ di_mode \in [Ino -> Mode] /\ di_nlink \in [Ino -> Int]
    /\ d_ino \in [Name -> Ino \cup {NoIno}]
    /\ s_inode \in [0 .. NICINOD - 1 -> Ino \cup {NoIno}]
    /\ s_ninode \in 0 .. NICINOD
    /\ s_ilock \in BOOLEAN /\ uinode \in BOOLEAN
    /\ cpu \in Proc \cup {NoProc}
    /\ wchan \in [Proc -> Slot \cup {ILockChan, Awake}]
    /\ pc \in [Proc -> Label]
    /\ reg \in [Proc -> Reg]

(* The inodes p has locked: at iput() it is about to let go of cur, and    *)
(* the device closes and refuses without a lock.                           *)
Holds(p) == ({reg[p].dp, reg[p].ip, reg[p].res}
             \cup (IF pc[p] = "iput" THEN {} ELSE {reg[p].cur})) \ {NoSlot}

(* "honor the locking protocol ... a pointer to a locked inode structure   *)
(* is returned" (iget): what a process has locked stays locked and is      *)
(* nobody else's until it lets go, however many have waited for it.        *)
LockExclusive ==
    \A p \in Proc : \A s \in Holds(p) :
        /\ "ILOCK" \in i_flag[s]
        /\ \A q \in Proc \ {p} : s \notin Holds(q)

(* The references to slot s: what processes are at, and open files.        *)
References(s) ==
    Cardinality({u \in Proc \X {"dp", "ip", "res", "cur", "ref", "file", "wfile"} :
                    reg[u[1]][u[2]] = s})

(* i_count is the number of references, and the free list of slots holds   *)
(* those without any, once each.                                           *)
CountsReferences ==
    /\ \A s \in Slot :
          /\ i_count[s] = References(s) + (IF s = RootSlot THEN 1 ELSE 0)
          /\ i_count[s] = 0 <=> Contains(ifreelist, s)
    /\ IsInjective(ifreelist)

(* The variables keep to their types, and an inode is in core once: iget() *)
(* does not sleep between its search and the new identity of a slot.       *)
OneSlotPerInode ==
    /\ TypeOK
    /\ \A s, t \in Slot : i_number[s] = i_number[t] /\ i_number[s] # NoIno => s = t

(* Nobody waits for a lock that nobody has or nobody will announce.        *)
NoLostWakeup ==
    \A p \in Proc :
        /\ wchan[p] \in Slot => {"ILOCK", "IWANT"} \subseteq i_flag[wchan[p]]
        /\ wchan[p] = ILockChan => s_ilock

(* An inode that nobody has locked and that is not marked is the same in   *)
(* core and on the device: so a slot may be given to another inode, and a  *)
(* search of the i-list misjudges none but those at hand.                  *)
Coherent ==
    \A s \in Slot :
        /\ i_number[s] \in Ino
        /\ {"ILOCK", "IUPD"} \cap i_flag[s] = {}
        => /\ i_mode[s] = di_mode[i_number[s]]
           /\ i_nlink[s] = di_nlink[i_number[s]]

(* The mode and the links of inode i, in core or on the device. *)
ModeOf(i) == IF Hashed(i) = {} \/ \E p \in Proc : pc[p] = "iread" /\ reg[p].ino = i
             THEN di_mode[i] ELSE i_mode[CHOOSE s \in Slot : s \in Hashed(i)]
LinksOf(i) == IF Hashed(i) = {} \/ \E p \in Proc : pc[p] = "iread" /\ reg[p].ino = i
              THEN di_nlink[i] ELSE i_nlink[CHOOSE s \in Slot : s \in Hashed(i)]

NamesOf(i) == {n \in Name : d_ino[n] = i}

(* "On the last reference, write the inode out and if necessary, truncate  *)
(* and deallocate the file" (iput): a file is deallocated only when no     *)
(* entry of the directory leads to it.                                     *)
LinkedFilesSurvive ==
    \A i \in Ino : NamesOf(i) # {} =>
        /\ ModeOf(i) # "free"
        /\ LinksOf(i) >= Cardinality(NamesOf(i))

(* When no call is under way the link counts are exact, and a file without *)
(* a name or an opener is free.                                            *)
LinksExact ==
    (\A p \in Proc : pc[p] = "user") =>
        \A i \in Ino :
            /\ LinksOf(i) = Cardinality(NamesOf(i))
            /\ ModeOf(i) # "free" => NamesOf(i) # {} \/ \E s \in Hashed(i) : i_count[s] > 0

(* Process p sleeps on a lock that q has; IallocScan has s_ilock.          *)
WaitsFor(p, q) == \/ wchan[p] \in Holds(q)
                  \/ wchan[p] = ILockChan /\ pc[q] = "scan"

(* "Nor can it be locked again later because then there will be deadly     *)
(* embraces" (link): no processes wait for locks of each other, a lock on  *)
(* the directory and on its files, or s_ilock, included.                   *)
NoDeadlyEmbrace ==
    \A P \in (SUBSET Proc) \ {{}} : \E p \in P : \A q \in P : ~WaitsFor(p, q)
-----------------------------------------------------------------------------
(* The inductive invariant of the counts, the locks and the wakeups.       *)

(* Every pipe() has its inode to itself: what it needs when it sets        *)
(* i_count to 2 (os/pipe.c), but does not see to.                          *)
PipesAlone ==
    \A p \in Proc :
        pc[p] = "made" /\ reg[p].call.op = "pipe" => i_count[reg[p].ip] = 1

(* Where a process at l with registers r goes on after iupdat(), after     *)
(* iput(), and after iget(): what it is at when they have returned.        *)
AfterUpdate(l, r) == IF l \in {"iupdat", "isync"} THEN r.iupdat ELSE l
InPut(l, r) == AfterUpdate(l, r) \in {"iput", "dealloc", "idle", "release"}
AfterPut(l, r) == IF InPut(l, r) THEN r.iput ELSE AfterUpdate(l, r)
InGet(l, r) == AfterPut(l, r) \in {"iget", "iread"}
Home(l, r) == IF InGet(l, r) THEN r.iget ELSE AfterPut(l, r)

Allocating == {"ialloc", "scan", "scanned", "new", "made", "again"}

(* The labels that a call can return to. *)
Returns(l, r) ==
    /\ l \in {"iupdat", "isync"} =>
           r.iupdat \in {"dealloc", "release", "made", "again", "opened", "linked", "syncput"}
    /\ InPut(l, r) =>
           r.iput \in {"user", "iget", "created", "relock", "ialloc", "sync", "parent",
                       "file", "exists", "victim", "new"}
    /\ InGet(l, r) => r.iget \in {"dir", "file", "exists", "victim", "new"}

(* The registers of a system call that is at h. *)
Keeps(h, r) ==
    /\ RootSlot \notin {r.ip, r.ref, r.file, r.wfile}
    /\ r.dp \in {NoSlot, RootSlot}
    /\ r.dp # NoSlot <=> \/ h \in {"search", "wdir", "victim", "clear", "cleared", "parent"}
                         \/ h \in Allocating /\ r.call.op = "creat"
    /\ r.ip # NoSlot <=> \/ h \in {"made", "created", "opened", "linked", "clear", "cleared"}
                         \/ h = "wdir" /\ ~r.second
    /\ r.ref # NoSlot <=> \/ h \in {"exists", "relock", "dclosed"}
                          \/ h \in {"dir", "search", "wdir"} /\ r.second
    /\ r.second => /\ h \in {"dir", "search", "exists", "wdir", "relock", "user"}
                   /\ r.call.op = "link"
    /\ h \in {"exists", "relock"} => r.second
    /\ h = "linked" => r.call.op = "link"
    /\ h \in Allocating => r.call.op \in {"creat", "pipe"}
    /\ h \in {"opened", "created"} => r.call.op \in {"open", "creat"}
    /\ h = "wdir" /\ ~r.second => r.call.op = "creat"
    /\ h \in {"close", "dopen"} => r.file # NoSlot
    /\ r.call.op \in {"open", "creat"} /\ h \notin {"user", "close", "dopen", "dclosed"}
           => r.file = NoSlot
    /\ r.call.op = "pipe" /\ h # "user" => r.file = NoSlot /\ r.wfile = NoSlot

(* The registers of the functions it is in: l is where it really is.       *)
Handles(l, r) ==
    /\ r.cur # NoSlot <=> InPut(l, r) \/ AfterUpdate(l, r) \in {"again", "syncput"}
    /\ r.res # NoSlot => l \in {"iread", "dir", "file", "exists", "victim", "new"}
    /\ l = "iread" => r.res # NoSlot /\ r.iget # "dir"
    /\ l = "dir" <=> r.res = RootSlot
    /\ l = "user" => ~r.second
    /\ InGet(l, r) => r.ino \in IF r.iget = "dir" THEN {ROOTINO} ELSE Ino

Placed(l, r) == Returns(l, r) /\ Keeps(Home(l, r), r) /\ Handles(l, r)

(* The slots in use have the numbers of their inodes, and the first slot   *)
(* is the directory.                                                       *)
Named ==
    /\ i_number[RootSlot] = ROOTINO
    /\ \A s \in Slot : i_count[s] # 0 => i_number[s] # NoIno

(* Who gives up the last reference has locked the slot, so nobody gets     *)
(* another one.                                                            *)
LastOne ==
    \A p \in Proc :
        AfterUpdate(pc[p], reg[p]) \in {"dealloc", "idle", "release"} =>
            i_count[reg[p].cur] = 1 /\ "ILOCK" \in i_flag[reg[p].cur]

(* A slot that nobody uses has no flags. *)
FreeUnmarked == \A s \in Slot : i_count[s] = 0 => i_flag[s] = {}

(* Who sleeps is at one of four places, and waits for the slot it has to   *)
(* have there.                                                             *)
Asleep ==
    \A p \in Proc :
        /\ wchan[p] \in Slot =>
               \/ pc[p] = "iget" /\ i_number[wchan[p]] = reg[p].ino
               \/ pc[p] = "relock" /\ wchan[p] = reg[p].ref
               \/ pc[p] = "close" /\ wchan[p] = reg[p].file
        /\ wchan[p] = ILockChan => pc[p] = "ialloc"

IndInv ==
    /\ OneSlotPerInode /\ CountsReferences /\ NoLostWakeup
    /\ \A p \in Proc : Placed(pc[p], reg[p]) /\ reg[p].call \in Calls
    /\ Named /\ LastOne /\ FreeUnmarked /\ Asleep

(* No process has a device open: without one, every iput() is of a slot    *)
(* that its caller has locked.                                             *)
NoDevices ==
    /\ \A s \in Slot : i_mode[s] # "chr"
    /\ \A i \in Ino : di_mode[i] # "chr"
    /\ \A p \in Proc : pc[p] \notin {"dopen", "dclosed"}

(* How many of the registers dp, ip, res and cur name slot s. *)
One(b) == IF b THEN 1 ELSE 0
HeldIn(r, s) == One(r.dp = s) + One(r.ip = s) + One(r.res = s) + One(r.cur = s)

(* A slot in such a register is locked, and in no other one of anybody.    *)
LockInv ==
    \A p \in Proc : \A s \in Slot : HeldIn(reg[p], s) # 0 =>
        /\ HeldIn(reg[p], s) = 1 /\ "ILOCK" \in i_flag[s]
        /\ \A q \in Proc \ {p} : HeldIn(reg[q], s) = 0
=============================================================================
