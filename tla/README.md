# The System V/286 kernel in TLA+

This directory models parts of the AT&T System V Release 2 kernel for the Intel
80286 (Microport's port), `src/att.rel.2/uts/iAPX286`, and the packet protocol of
its uucp, in TLA+. TLC checks the models on small instances, and TLAPS proves the main
results for all instances. Paths below are relative to that directory unless they
start with `src/` or `cmd/`, which is `src/att.rel.2/cmd`.

## How the kernel runs

* **One processor, no preemption in the kernel.** A process that entered the
  kernel keeps the processor until it calls `sleep()` or returns to user mode.
  Every call that may sleep (`bread`, `bwrite`, `iget`, `plock`, ...) is a point
  where anything else may happen; between two such points, only interrupts run.
* **Sleep and wakeup carry no data** (`os/slp.c`). A sleeper names an address;
  `wakeup(address)` makes runnable *all* who sleep there. A wakeup for which nobody
  sleeps yet is lost. So every sleeper has to test its condition again, and every
  state change somebody may wait for has to be announced. "Wanted" bits
  (`B_WANTED`, `IWANT`, `basywait`) tell whether to announce.
* **Interrupts** change the state that drivers share with processes: buffer flags,
  the free list of buffers, `basyncnt`, clists, callouts. `spl6()` and its kin keep
  them out.

## Inventory

Each part: its state, its operations, its neighbours, what is hard, what makes it
correct.

| part | files | state | operations | hard behaviour | correct when |
|---|---|---|---|---|---|
| block buffer cache | `io/bio.c`, `sys/buf.h` | flags, block and content of each buffer, free list, hash chains, `basyncnt` | getblk, bread, breada, bwrite, bdwrite, bawrite, brelse, bflush, bdflush, bdwait, binval, iodone | interrupts, sleeps inside a search, failed and asynchronous transfers, delayed writes | one buffer per block, one owner per buffer, no write lost, readers get the current content, all sleeps end |
| in-core inodes | `os/iget.c`, `os/pipe.c` (plock, prele), `os/fio.c` | slots with lock, count, flags; hash chains, free list | iget, iread, iput, iupdat, itrunc, iflush, closef | sleeps while locked, reuse of slots, last close of devices | the lock excludes, the count is the number of references, a file with links or openers survives |
| free blocks and inodes | `os/alloc.c` | super block: `s_free`, `s_inode`, `s_flock`, `s_ilock` | alloc, free, ialloc, ifree, update | refill from the disk while others free | no block or inode is handed out twice, none is refused while one is free |
| block map, file I/O | `os/subr.c`, `os/rdwri.c` | inode addresses, indirect blocks | bmap, readi, writei | holds two buffers at once | a block belongs to one file |
| names and links | `os/nami.c`, `os/sys2.c`, `os/sys4.c` | directories | namei, link, unlink, creat, mknod | the parent is unlocked before the child is locked | link count = number of entries |
| mounts | `os/sys3.c` | mount table | smount, sumount | busy file systems, cached inodes | no inode of an unmounted device stays in core |
| pipes and FIFOs | `os/pipe.c`, `os/rdwri.c` | `i_frcnt`, `i_fwcnt`, `i_frptr`, `i_fwptr`, `i_size`, IFIR/IFIW | pipe, openp, closep, read, write | readers and writers wait for each other, atomic writes | bytes in order, nobody sleeps for ever |
| record locks | `os/flock.c`, `sys/flock.h` | a sorted list of ranges per file, free list | reclock, setflck, delflck, blocked, deadflck, cleanlocks | splits and merges with few free records, sleepers on locks that change | no two owners overlap, deadlock is refused, all records are accounted for |
| semaphores | `os/sem.c` | values, waiting counts, undo lists | semget, semctl, semop, semexit | all-or-nothing sets, interrupted sleeps, removal, undo | no partial operation, no lost wakeup, undo ledger exact |
| messages | `os/msg.c`, `os/ipc.c` | queues, byte counts, header pool, map | msgget, msgctl, msgsnd, msgrcv | removal and space while asleep | FIFO per type, counts right, space returned |
| shared memory | `os/shm.c` | segments, attach counts | shmget, shmat, shmdt, shmctl | removal while attached | freed once, at the last detach |
| resource maps | `os/malloc.c` | sorted extents | malloc, mfree | the table may be full | no unit given twice, none lost |
| scheduling, swapping | `os/slp.c`, `os/clock.c` | run queue, `runin`, `runout`, core map | sleep, wakeup, swtch, setrq, sched, newproc, expand | the swapper sleeps too | nobody on the run queue twice, no lost wakeup |
| callouts | `os/clock.c`, `sys/callo.h` | delta list | timeout, clock, delay | the interrupt walks the list | each fires once, in order |
| process life cycle | `os/sys1.c`, `os/main.c` | process table, parents | fork, exec, exit, wait | zombies, orphans | each child is reaped once |
| signals, tracing | `os/sig.c` | `p_sig`, `ipc` | psignal, issig, psig, ptrace | a signal between test and sleep | no signal lost, no tracer stuck |
| shared text | `os/text.c`, `os/lock.c` | counts, flags | xalloc, xfree, xswap, xccdec | loads while others attach | counts right, freed at zero |
| accounting, error log, messages | `os/acct.c`, `os/errlog.c`, `os/prf.c` | records | | none to speak of | |
| character lists, terminals | `io/clist.c`, `io/tty.c`, `io/tt0.c`, `io/sio.c`, `io/console.c`, `io/sxt.c` | cblocks, queues, tty state | getc, putc, getcb, ttread, ttwrite, canon, ttioctl | interrupts and an exhausted pool | no cblock lost or shared |
| fixed disk | `io/wn.c`, `io/wn.subs.c` | request queue, retries | strategy, start, interrupt | interrupt against queueing | each request ends once |
| other devices | `io/lp.c`, `io/mem.c`, `io/sys.c` | | | | |
| machine layer | `ml/*.s`, `os/machdep.c`, `os/trap.c`, `os/ldt.c`, ... | descriptor tables | | hardware state | |
| uucp's packet protocol | `cmd/uucp/pk0.c`, `pk1.c`, `gio.c` | `struct pack`: numbers, buffers, messages to send | pkopen, pkread, pkwrite, pkclose, pkgetpack, pkcntl, pkdata, pkaccept, pkoutput | lost and garbled frames, alarms that come too early, numbers modulo 8 | packets arrive in order and once; a buffer is given up when its packet was read |
| other commands | `src/att.rel.2/cmd`: cron, lp, init, fsck, ... | | | FIFOs, lock files | |
| the 2.3 kernel | `src/enhance/rel.2.3/ibm` | | | a later copy of `os` and `io`; its `bio.c` and `iget.c` differ little | |

`PROJECT.json` lists each with its status and the hazards at their lines.

## Plan

Order: what every other part rests on first. "Done" modules are described below.

| step | modules | composes / refines | state |
|---|---|---|---|
| 1 | `BufferCache`, with the calls of `os/rdwri.c`, `os/subr.c`, `os/fio.c` and the device's interrupt | refines `BlockStore` | done; proofs in `BufferCacheProofs` |
| 2 | `InodeTable`: in-core inodes, free inode numbers, one directory, the calls on it | uses bread/bwrite as pauses | done; proofs in `InodeTableProofs` |
| 3 | `Semaphores` | refines `SemaphoreSets` | done; proofs in `SemaphoresProofs` |
| 4 | `RecordLocks`: `os/flock.c`, ranges cut and joined, sleepers, `deadflck` | refines `LockTable`, a map from bytes to owners | done; proofs in `RecordLocksProofs` |
| 5 | `ResourceMap` and `Messages`: `os/malloc.c`, `os/msg.c` | messages use the map for their text; refines `MessageQueues` | done |
| 6 | `FreeBlocks`: `alloc`, `free`, `s_flock` | reads and writes of the cache as pauses | done; proofs in `FreeBlocksProofs` |
| 7 | `Pipes`: `openp`, `closep` and the FIFO branches of `readi`/`writei` | refines `Fifo` | done; proofs in `PipesProofs` |
| 8 | `Callout`: `timeout`, `timein` with nested clock ticks | | done; proofs in `CalloutProofs` |
| 9 | `PacketDriver`: the packet protocol of uucp | two ends and a line | done |
| 10 | clists, disk queue, shared text and swapping, process life cycle | | open |

Theorems: what is in the tables of proofs below. Next would be
`SleepersBlocked` of the messages, `InOrder` of the packets. The modules are
written for that: no recursive operators, constants with named assumptions,
invariants as conjunctions of named parts.

Each module has the mutants that show what its properties are good for next to the
definitions they change. One property of each module also has the types in it.

## The buffer cache: `BufferCache`, `BlockStore`

**State.** Of `struct buf`: `flags` (`b_flags`), `blkno` (`b_dev` and `b_blkno` as one
value), `data`. The chain of available buffers is the sequence `freelist`, its head
flag `B_WANTED` is `flwanted`, its `b_bcount` the length. The hash chains are not
state of their own: `incore()` and `getblk()` see the buffers that carry the block
and are not `B_STALE` (`Matches`). `basyncnt` and `basywait` are the variables of
`bdwait()`. `ioq` is what the device queues hold, `disk` what the devices do.
`cpu`, `wchan`, `pc` and the registers are the processes.

**Actions.** A process enters with a call (`CallGetblk`, `CallBreadaIncore`,
`CallFlush`): a read, a read with read-ahead, a whole or partial write in one of
three manners (`bwrite`, `bawrite`, `bdwrite`), `bmap()`'s pair of buffers,
`geteblk`, `update()`, the flusher `bdflush()`, shutdown with `bdwait()`, and a last
close with `bflush()` and `binval()`. Then

* `GetblkFind`, `GetblkBusy`, `GetblkTake`, `GetblkNoFree`, `GetblkFlush`,
  `GetblkAssign` are the exits of the loop in `getblk()` (`io/bio.c:269-330`). The step
  from `search` to `found` ends between the test of `B_STALE` (289) and `spl6()` (291):
  the one place where an interrupt can be told from one that came earlier;
* `GotMain` ... `GiveBack` are `bread()`, `breada()` and `brelse()`, `BeginModify` ...
  `Count` the writes, with `basyncnt++` after the strategy routine as in the code;
* `FlushWrite`, `AgeWrite`, `BdwaitSleep`, `Binval` and their ends are the flushes;
* `IoSucceeds` and `IoFails` are the disk interrupt, that is `iodone()`, with the
  `brelse()` it makes for asynchronous transfers.

**Abstract.** `BlockStore` has a current and a durable content of each block, and
the set `held` of the blocks that callers have taken to change. Content changes only by
the write of a caller that holds the block, or by a refused write, which loses it; the
durable content becomes the current one or stays. The refinement mapping is `Content`
(what a buffer of the block holds that is valid or is being written, or else the
device), `disk`, and `Held` (the blocks of processes at `pc = "modify"`). So two writers
never hold one block, and reads, reassignments, flushes and closes change nothing.

### Runs

| run | instance | question |
|---|---|---|
| `cache_errors` | 2 processes, 2 buffers, 2 blocks, 2 contents, reads and writes may fail, pairs and read-ahead | does the cache behave as a store, and what is left after a failed transfer |
| `cache_close` | 2 processes, 2 buffers, 3 blocks on 2 devices, nothing fails | last close, shutdown and flusher against writers: ownership, wakeups, counts |
| `cache_live` | 2 processes, 2 buffers, 3 blocks | does everyone who sleeps run again |

**Two things the code does otherwise.** `BufferCacheWindow.cfg` (3 buffers, reads may
fail between lines 289 and 291) violates `ReadsCurrent`:
`getblk()` tests `B_STALE` at priority 0 and raises
the priority afterwards. If in between the interrupt comes that ends a failed
read-ahead of this very buffer, `iodone()` -> `brelse()` marks it stale, clears
`B_ERROR` and leaves `B_DONE`; `getblk()` then takes it as found and `bread()`
returns what the failed read left. `ErrorsInWindow = FALSE` keeps that
interrupt out, and then `ReadsCurrent` holds (`cache_errors`).
`BufferCacheFlushed.cfg` violates `FlushedOut`: `bflush()` starts writes and does not
wait, and `binval()` follows at once in a last
close: the comment "make sure all write-behind blocks on dev ... are flushed out" is
not true at that moment. The data are not lost: the writes are under way.

**Bounds.** Two processes and two buffers are the least that makes every sleep of
`getblk()` happen (a buffer somebody has, no free buffer at all, a free buffer that
is dirty), with two blocks for two buffers or three blocks so that buffers are
reassigned; the third buffer of `BufferCacheWindow.cfg` lets the read-ahead end while
both callers hold one. `AsyncReserve` stands for the 4 free buffers above which `bawrite()`
and `breada()` are asynchronous; with two buffers it is 0. Contents are two values where the content
matters and one where it does not. `Quiet` lets a last close begin only when no other process
uses the device, as the counts of open files do. `NoSleepForEver` is checked
without symmetry.

**Fairness** (`FairSpec`). Strong fairness of what a process does in the kernel: `os/clock.c`
and `os/slp.c` age priorities and `swtch()` takes the best runnable process, so one that is
runnable again and again gets the processor. Weak fairness of interrupts: a device
ends each transfer. Nothing makes a process call the cache again.

### Proofs (`BufferCacheProofs`)

| theorem | statement |
|---|---|
| `CacheCorrect` | `Spec => []IndInv` |
| `TypeCorrect` | `Spec => []TypeOK` |
| `FreeListCorrect` | `Spec => []FreeIffNotBusy` |
| `NoDuplicates` | `Spec => []OneBufferPerBlock` |
| `Ownership` | `Spec => []OneOwner` |

They hold for any set of processes, any finite set of buffers, any blocks, devices,
contents and calls, any reserve, with failing transfers and with the window of
`getblk()` open, under `ConstantAssumption` only.

`OneOwner` is not inductive. That a buffer which is busy has an owner is kept by
`brelse()` only if the caller really has the buffer it gives back, and by `iodone()`
only if nobody but the transfer has it. So `IndInv` adds: `Placed` (which of the two
buffer registers is in use follows from where the process is), `Transfers` (what is in a
device queue is busy and not done, and its owner is on the way to `iowait()`;
asynchronous buffers are in a queue), and `Addressed` (what is given to a device, or
waits to be written, has an address: the anonymous buffers of `geteblk()` never get
there, and a process that has passed the test of `B_STALE` has not let go of the
processor). There is one lemma per action and half of the invariant (`...Inv` for
`CacheInv`, `...Addr` for `Addressed`), each from the conjuncts it needs; lemmas
on lists say what taking from and adding to the free list keeps.

`IndInv`, the whole of it, is also an invariant of the run `cache_close`.

**Wakeups, writes and the refinement**

| theorem | statement |
|---|---|
| `WakeCorrect` | `Spec => []WakeInv` |
| `NoWakeupLost` | `Spec => []NoLostWakeup` |
| `WritesCountedRight` | `Spec => []AsyncCount` |
| `DirtySafe` | `Spec => []DirtyIsSafe` |
| `ContentsCorrect` | `Spec => []StoreInv` |
| `ReadsAreCurrent` | `Spec => []ReadsCurrent` |
| `CacheImplementsStore` | `Spec => ImplementsStore` |

The first four hold for all constants. `WakeInv` says who has the processor, that a transfer
somebody is going to wait for is under way or done (a read-ahead may end before its caller
looks), and what each sleeper sleeps for. `AsyncCount` needs that a process between the
start of a write and `basyncnt++` has kept the processor.
`NoLostWakeup` then needs that `basyncnt > 0` means that there is an asynchronous write under
way, although `bwrite()` counts it after starting it.

The last three assume `NoLastClose` (nobody makes the call `umount`) and `WindowClosed` (no
failed transfer ends in the window of `getblk()`). `BufferCacheWindow.cfg` violates
`ReadsCurrent` without the second. Without the first, `binval()` makes
buffers stale whose write has been started and not ended, so that for a moment no buffer has the
content which the device does not have yet: that is no step of `BlockStore`, and `StoreInv` is
not invariant (with the calls write, read and umount of one block TLC needs 11 states to
show either; `ReadsCurrent` held there, but is not proved). The run `cache_errors` meets both, with reads
and writes that fail at every other place. `StoreInv` has two parts: `Serves` (what a
process has found, has or waits for is the block it asked for, `bmap()`'s pair included, and not
stale) and `Copies` (what is dirty or in transfer can be found; what is done and need not be
written is what the device has). The refinement proof looks at a step from the
buffer: it rests, sets flags, is assigned, starts a read, starts a write, gets a
new content, ends a transfer. For each of these one lemma says what becomes of `Content`.

TLC has checked `WakeInv` and `StoreInv` on the instances of the runs before they were proved.
`NoSleepForEver` is a liveness property and stays with TLC.

## The inode table: `InodeTable`

**State.** Of `struct inode`: `i_number` (one device), `i_flag`, `i_count`, `i_mode`,
`i_nlink`; `ifreelist`. On the device `di_mode`, `di_nlink` and one directory `d_ino`,
a function from names to inodes. Of the super block `s_inode`, `s_ninode`, `s_ilock`.
`update()`'s lock is `uinode`. The registers `dp`, `ip`, `res`, `cur`, `ref`, `file`,
`wfile` of a process are the inode pointers of the functions it is in and its open
files.

**Actions.** `iget` (`IgetLocked` ... `IreadError`), `iput` (`IputMore` ...
`IputRelease`) with `iupdat` in the middle, `ialloc` and `ifree` (`IallocWait` ...
`IallocAgain`, `Ifree`), `namei` in one directory, and the calls open, creat, link,
unlink, pipe, close and sync as the source strings these together. Where the code calls
`bread()`, `bwrite()` or a driver, the process gives the processor away (`Pause`) and
goes on later; where it sleeps on a lock, `AwaitLock` sets `IWANT`. `BadBlocks` says
which blocks of inodes may be unreadable, for each of `iread`, `iupdat`, `ialloc`, and in
which directories `wdir()` may fail to write an entry (`WdirFails`).

### Runs

| run | instance | question |
|---|---|---|
| `inode_files` | 3 processes, 3 slots, one name, inodes 3 and 4, 2 inodes a block, 1 cached number | open, creat, unlink, close and sync race for one name |
| `inode_devices` | 2 processes, 2 slots, a character device, bad blocks | links and closes of a device, pipes, errors, full table: are references counted, does nobody wait in a circle |

Two things the code does otherwise, each found by TLC with two processes.
`InodeLink.cfg` violates `LinkedFilesSurvive`: `namei()` gives back the directory before it asks for the inode it
found there. While `iget()` sleeps, `unlink()` removes the entry and the last `iput()`
deallocates the inode; `link()`, which does not look at the mode, makes a new entry
for the free inode. `open()` does look (`access()` and the modes), so `inode_files` holds.
`InodeUnlocked.cfg` violates `LockExclusive`: the last close of a character device gives the inode to `iput()`
unlocked, and `iput()` clears the lock somebody else has taken in the meantime.

Three more things were seen on the way and are kept out of the passing runs by their
calls. With three processes and `pipe()` (`InodePipe.cfg`, which violates `CountsReferences`), a
process that followed a removed file's entry too late can still have the inode that `ialloc()`
gives to the pipe, and `i_count = 2` (`os/pipe.c:52`) forgets it. When `iread()` fails, `iput()` sees the `i_nlink` of
the slot's last owner and may free a live inode. And numbers freed while
the i-list is searched are not noted (`s_ilock`), so `ialloc()` may report no inodes
although there are some.

**Bounds.** Three slots with the root in one of them, so that slots are reused; two inode
numbers besides the root, so that a number is freed and allocated again; `INOPB` 1 or 2
instead of 16, and `NICINOD` 1 or 2 instead of 100, so that the cached numbers run out
and the i-list is searched in every block; `MAXLINK` 2 or 3 instead of 1000, so that
the limit is met.

### Proofs (`InodeTableProofs`)

| theorem | statement |
|---|---|
| `IndCorrect` | `Spec /\ []PipesAlone => []IndInv` |
| `OneSlot` | `Spec /\ []PipesAlone => []OneSlotPerInode` |
| `CountsExact` | `Spec /\ []PipesAlone => []CountsReferences` |
| `NoWakeupLost` | `Spec /\ []PipesAlone => []NoLostWakeup` |
| `NoEmbrace` | `Spec /\ []PipesAlone => []NoDeadlyEmbrace` |
| `WithoutPipes` | the last four for `Spec` alone, if no call is `pipe` |
| `LocksExclude` | `Spec /\ []PipesAlone => []LockExclusive`, if there are no devices |
| `LocksWithoutPipes` | `Spec => []LockExclusive`, if there are no devices and no call is `pipe` |
| `InodesCoherent` | `Spec /\ []PipesAlone => []Coherent`, if there are no devices and no block of inodes fails |
| `LinkedSurvive` | `Spec /\ []PipesAlone => []LinkedFilesSurvive`, if besides no call is `link` |
| `LinksCount` | `Spec /\ []PipesAlone => []LinksExact`, if besides no call is `link` |
| `PlainFiles` | the last three for `Spec` alone, if no call is `pipe` either |

for any finite sets of processes and names, any number of slots and of inodes, any sizes of blocks
and of the list of free numbers, any calls and any blocks that cannot be read.

`PipesAlone` is the race of `pipe()` told above: when it sets `i_count` to 2, the slot has no
reference but its own. The code does not see to that, and `InodePipe.cfg` shows a count
that is wrong. With two processes (`inode_devices`) TLC finds that it always holds. "No
devices" (`Special = {}`) is what `InodeUnlocked.cfg` is about; `inode_files` has neither devices nor
pipes.

`CountsReferences` is not inductive. `iput()` clears a slot after sleeps, and that nobody has
got a reference meanwhile follows from its lock and from the test of `i_count` before the sleeps
(`LastOne`); that the lock keeps others out needs what `iget()` does with a locked slot,
and that the slot it sleeps on still has the number it asked for (`Asleep`). `Placed` says for each
place in the code which registers name a slot, what is to be returned to, and which calls
can be there: `iget`, `iput` and `iupdat` are called from a dozen places, and most of the
proof is that each returns with the references it came with. `References` is the
size of a set of pairs of a process and a register: lemmas say what one process that gains or
loses one does to it.

`Coherent` rests on `Coherence`: an inode in core that is not marked `IUPD` is the same on the
device, except while `iread()` fetches it. That survives the sleeps because of three places
that a process can be at (`StageAt`): who reads has a slot with the number it reads, who waits
for the write of a synchronous `iupdat()` has written what the slot still has, and who clears
the slot at the end of `iput()` has no mark left. Only a process that has an inode locked
changes it, so nobody else's place is disturbed (`LockInv`). A call with `u_error` set never
gets to `iread()`, which is why `iread()` does not fail on a disk without bad blocks (`Errs`).

`LinkedFilesSurvive` and `LinksExact` rest on `LinkInv`: the links of an inode are the entries
that lead to it, and one more from when `creat()` takes it until its entry is written, and from
when `unlink()` empties the entry until it counts the link down (`Pend`). A process in between
has the inode locked, so there is at most one. For an inode that is not in core the same is
said of the device, without a pending link. What `unlink()` found in the directory stays true
while it sleeps on the inode, since it keeps the directory locked (`Found`); an inode that
`iput()` is about to deallocate has no links, and one whose slot it gives up has links or is
free (`Leaves`). No `link()` is a condition because the property is false with it, as
`InodeLink.cfg` shows: `link()` may make an entry for an inode that is free. A disk
without bad blocks is one because a failed `iread()` hands `iput()` the links of the slot's last
owner. Coherence needs no such condition on `link()`.

`NoDeadlyEmbrace` follows without further state: whoever sleeps on a lock has at most the
directory locked and does not wait for the directory, and who searches the i-list (`s_ilock`)
sleeps on no lock. So in a circle everybody would wait for somebody who does not wait.

`LockInv` is `LockExclusive` in a form that can be kept: a slot that a register other than that of
an open file names is locked, and named by one register of one process. `NoDevices` keeps the
last close of devices out of the way.

TLC has checked `IndInv`, `PipesAlone` and `LockInv` on the instances of the runs, and the
properties themselves, which the theorems extend to any number of processes, slots, names and
inodes.

## Semaphores: `Semaphores`, `SemaphoreSets`

**State.** `alloc` and `seq` of `sema[]`; `semval`, and `semcnt` for `semncnt` and `semzcnt`,
which are at the same time the addresses processes sleep at; `un_ent`, the undo
entries of each process as a function from <identifier, number> to adjustment, `sem_undo`
and `nfree` for the undo structures and the free ones among them; `call`, `wchan` and `sig` of the
processes inside `semop()`.

**Actions.** `semop()` up to its return or its sleep is one step, since nothing can
come between: `Run` does `Operate` along the list (`Runs` is how things are after each
operation), `Semundo` takes back what was done, in reverse order. It ends in `SemopDone`, `SemopFails` or `SemopWaits`. Unlike the
sleeps above, this one is ended by signals, too (`Signal`, `SemopInterrupted`), and
by removal of the set (`SemopRemoved`). `Semget`, `SetVal`, `SetAll`, `Rmid` and `Exit` are
the other calls. All sets have `NSEMS` semaphores and a set keeps its place in `sem[]`.

**Abstract.** `SemaphoreSets` has values and adjustments only; a list is performed in one
step if each operation is allowed where the ones before it have left the values.

| run | instance | question |
|---|---|---|
| `sem_sets` | 3 processes, 1 set of 2, values to 2, adjustments to 1, 2 undo structures with 2 entries | all or nothing, undo, wakeups, with lists that name a semaphore once |

`SemaphoresZero.cfg` (2 processes, 1 semaphore, the list {-1, 0}) violates
`SleepersBlocked`: a list that lowers a semaphore and then waits for it to be zero looks for a
1, takes the 1 back when it finds a 2, and sleeps until somebody announces a 0. When
another process lowers the value to 1, its list could be done and nobody wakes it.
Lists that name a semaphore once have no such trouble (`sem_sets`).

The counts `semncnt` and `semzcnt` are not the numbers of sleepers once a sleeper was
interrupted after a wakeup had cleared them (`os/sem.c:567`): they can be too small. They
never become 0 with somebody asleep (`NoLostWakeup`), because whoever brings one to 0
wakes all the others; what `GETNCNT` reports may be wrong.

**Bounds.** The third process makes it possible that one sleeper is interrupted while
another one is counted. One undo structure and one entry less than could be used make
both tables overflow. `MaxSeq` bounds how often a set is removed.

### Proofs (`SemaphoresProofs`)

| theorem | statement |
|---|---|
| `TypeCorrect` | `Spec => []TypeOK` |
| `UndosAccounted` | `Spec => []UndoAccounted` |
| `WakeupsKept` | `Spec => []NoLostWakeup` |
| `NobodySleepsInVain` | `Spec => []SleepersBlocked`, if `ZeroFirst` |
| `SetsImplemented` | `Spec => ImplementsSets` |

for any processes, finite or not, any numbers of sets and of semaphores in them, any limits,
any lists of operations and any values that are set.

`ZeroFirst` says that no list waits for zero of a semaphore after an operation that changes it.
That is what `SemaphoresZero.cfg` is about, where the list {-1, 0} makes `SleepersBlocked` false; the
other four theorems need no such hypothesis. A list may name a semaphore several times
otherwise, as in {+1, -3}.

The lemmas follow a list. `RunIs` says how the working record is after each operation: what the
values have gained (`Added`, the sum of the first operations on a semaphore), that whatever
grew or became zero is among `raised` and `zeroed`, and that the operation where the list stops is
stuck. `DoneRun` is its converse: of a list that is done each operation was allowed where it was done.
`UndoesIs` is that `semundo()` takes off the same sum, whether `semaoe()` succeeds on the way
back or not. All of them are inductions over the number of operations done.

`Inv` adds to the types that undo structures are with a process or free (`Undos`), and that a
sleeper's channel is that of its call, is counted, and is of a set that exists (`Sleeper`).
`SleepersBlocked` is about the whole list and so is not kept by itself; what is kept is
`Blocked`, that one operation of the sleeper's list is stuck, if those before it are done. A value
that grows, or becomes zero, is always told at its channel (`Tells`), and nobody who is not
told can become unstuck: who waits for a value to grow sees it less or the same, and
who waits for zero, with nothing before that changes the semaphore, sees it not zero. `Step`
is this for one action, and there is one lemma for each action.

The refinement of `SemaphoreSets` rests on what happens to the undo entries. `DoneEnt` says that a
list that is done has entered the sum `Owed` of its operations to be undone. For a list that is not,
`RunTrace` says that the operation where it stopped left the entries of the last one that was done (but may
have taken an undo structure, which stays), `UndoOneEnt` that
`semaoe()` cannot fail on the way back: the process has a structure, the entry is there or has
left its room, and its old value was in range; `SemundoEnt` puts them together, stage by
stage. So a `semop()` that waits or fails changes neither values nor entries. `RmidSets` uses
`UndosAccounted`'s invariant: no entry has the sequence number that the next set will get.

## Record locks: `RecordLocks`, `LockTable`

**State.** `flck` has for each file the chain of its locks, sorted by where they
start, each with its type, range, owner and the processes that sleep at its address;
`fids` and `refcnt` are the file headers and `fl_refcnt`; `sleeplcks` the records of
sleepers, with `blkpid`. What is free is counted from these.

**Actions.** `Setflck` is a call up to its return or its sleep, `Retry` a sleeper that
was woken and begins again, `Interrupted` a signal, `Cleanlocks` a close.
`flckadj()`, a loop with four jumps over a chain it changes, is a walk: a function from a
record of its variables to the next one (`Cut`, `Sever`, `Drop`, `StepBack`, ...), folded
over the chain; it ends in `insflck()` or runs out of records in the middle.

**Abstract.** In `LockTable` bytes have owners and types. A process gets all bytes it asks for
if nobody else has one that conflicts, or gives some up.

| run | instance | question |
|---|---|---|
| `locks_write` | 3 processes, 1 file, 6 ranges in 5 bytes that meet in every way, 6 records, 1 header | are locks for writing, in whatever way they are cut and joined, a table of bytes; do sleepers have a reason, headers an owner; is there no circle |

Six records are too few (a lock on each byte and two sleepers would need seven), so
requests fail in the middle
(`ChangesExact` says what such a request may leave: the process without some of the bytes
it asked for). `ChangesExact` compares what `Adjust` would do with every chain that can
be reached for every request, not only those that were made.

**Locks for reading** are where the chain goes wrong. `LocksRead.cfg` violates
`NoConflict`: `flckadj()` looks for the place of the piece behind a severed lock with
the start of the request (343), so the chain is no longer sorted when locks of
readers start in between, and `blocked()`, which stops at the first lock that starts
behind the request, overlooks one: a write lock is granted on bytes that another process
has locked for reading. `lockf()` asks for write locks only, and with these everything
holds. With both types `ChangesExact` fails too: an unlock may leave a lock as it was.

Also seen: `EDEADLK` may be reported without a deadlock, since `blkpid` is
who had the lock before the sleep (`NoDeadlock` says that none is missed); `getflck()`
returns from a failed `convoff()` without `freefid()` (478), so a header stays.

### Proofs (`RecordLocksProofs`)

| theorem | statement |
|---|---|
| `LocksCorrect` | `Spec => []IndInv` |
| `NobodySleepsInVain` | `Spec => []SleepersBlocked` |
| `NoCircle` | `Spec => []NoDeadlock` |
| `HeadersCounted` | `Spec => []HeadersExact` |
| `ChainsInOrder` | if `WritesOnly`: `Spec => []Chains` |
| `NoCommonByte` | if `WritesOnly`: `Spec => []NoConflict` |
| `RequestsExact` | if `WritesOnly`: `Spec => []ChangesExact` |
| `ChainsAreATable` | if `WritesOnly`: `Spec => ImplementsTable` |

for finite sets of processes and files, any ranges, any numbers of records and headers. The first
four are for locks of both types: what `LocksRead.cfg` shows does not touch them. The others need
`WritesOnly` (`Types = {"write"}`, the run's instance and what `lockf()` asks for): without it
`NoConflict` fails, as `LocksRead.cfg` shows, and so do the others.

`Loop` is what a pass of `flckadj()` keeps, whatever it does to the chain: locks are not
empty, each record that leaves the chain is free and each that enters it was, and a lock is
either as it was before the call, sleepers and all, or new or cut, with nobody asleep at it (`From`).
There is a lemma for each thing a pass can do (`DropLoop`, `CutLoop`, `SeverLoop`, `JoinLoop`), and `WalkLoop`
puts them together; `LoopIs` carries any set of states that a pass keeps through the loop.

`IndInv` needs more than the properties: that `blkpid` of a sleeper is the owner of the lock it
sleeps at (`Waiting`). That is why `deadflck()` is right, although it follows what others noted
before they slept: as long as they sleep at all, the lock has not been given to somebody else
(`From` again); who was woken has an old `blkpid`, and with that `deadflck()` may see a deadlock
that is none, but never overlook one. `SleepsNoDeadlock` is the argument: a new circle must go
through the process that goes to sleep; then following `blkpid` from the owner of its lock
stays in the circle, and among more steps than there are processes two come to the same one, so
there would have been a circle without the new sleeper.

The records are counted as the cells of all chains and the sleepers (`CellsChange`). `HeadersExact`
has `TypeOK` and the header counts, where `Users` are those that `fl_refcnt` counts.

**The bytes.** That the chains are a table rests on `Chains`: the locks of a file follow each other
without a common byte. To show that a call keeps it, `LockWalk` and `UnlockWalk` say what one pass of
`flckadj()` makes of its variables (lemmas such as `SeverIs` and `CutIs` for each of its jumps), and
an invariant of the loop says what the passes so far have made of the bytes:

* `Locking`, for a request that nothing blocks: the locks of others keep off the range (`Foreign`),
  the locks passed do too (`Passed`), the new lock's place is known (`Found`, `Behind`), and the
  bytes of the chain and of the range as it has grown are those that were locked and those
  asked for (`Merged`).
* `Unlocking`, for an unlock or what a close does: the bytes of the range are free up to the lock
  at hand and otherwise as they were (`Before`, `Freed`, `Clear`).

A pass that does not end the loop brings it closer to the end of the chain (`Nearer`), so the walk
of `Adjust` ends before the number of passes it is given runs out (`Ends`). `blocked()` leaves the
walk at a place from which the new lock's place is still to be found (`StartLocking`). All of this needs
that no two locks overlap: with locks for reading, what is severed may land in the wrong place. `Grown` and `Shrunk` are the results, `GrownChanges` and `ShrunkChanges` say them
with `Held` and `Changed`. For the refinement, `NextTouches` shows that a step changes one chain at
most and what it changes there (`Touched`, `Effect`): nothing, bytes gained that nobody else had, or
bytes lost in one interval; `TouchedTable` reads that as `Lock` or `Unlock` of `LockTable`. A close
unlocks the whole file.

## Resource maps and messages: `ResourceMap`, `Messages`, `MessageQueues`

**Maps.** A map is a record of its extents, the array slots left and `mapwant`; `Malloc`
and `Mfree` are operators on it. `mfree()` on a full map loses the units and wakes nobody
(`Lost`). The run has more slots than there can be holes between messages, so its map is never
full. `MSGMAP` is a parameter of the kernel, though, and nothing keeps it that large: with
3 slots (`MessagesMap.cfg`) the segments of a message are lost for good and `Accounted` is
violated.

**State** of `Messages`: the identifiers (`alloc`, `seq`), and per queue `msgs`, `cbytes`,
`qbytes`, `rwait`, `wwait`; `nfree` headers and `msgmap`; `call`, `wchan` and `sig` of the
processes inside `msgsnd()` and `msgrcv()`.

**Actions.** A call up to its return or its sleep is a step. `Send`, `SndFull`,
`SndNoHeader`, `SndNoSpace` are the exits of `msgsnd()` in the order of its tests, with
`SendFaults` when the user's text cannot be read after header and space were taken;
`Receive`, `RcvNone` those of `msgrcv()`, `Fails` what ends without a change after a sleep
(the queue was removed, or the text does not fit); `Signal` and `Interrupted`; `Msgget`,
`Set`, `Rmid`. A call that fails at once changes nothing and is no step.

| run | instance | question |
|---|---|---|
| `messages` | 3 processes, 1 queue that is removed once, 2 headers, 3 segments, 5 map slots, 3 kinds of messages | order by type, accounts of bytes, headers, segments and slots, reasons to sleep |

Headers, segments and the queue's limit run out one before the other with different
messages; a message of two segments may fail though two single ones are free. Three
processes are two sleepers on one channel and one who wakes, interrupts or removes.

In the run `Set` only lowers `msg_qbytes`, as anybody may who owns the queue. The super-user may
raise it (`SuperUser`), and that wakes no sleeping writer (msg.c:136), who then sleeps
although there is room: `MessagesRaise.cfg` violates `SleepersBlocked`. A sender asleep for a header or for segments is not woken by
the removal of its queue, only by the next free header; it then fails.

## Free blocks: `FreeBlocks`

**State.** `s_nfree`, `s_free`, `s_flock`, `s_tfree` of the super block; `content`, the
arrays of further numbers that `free()` has put into free blocks; `used`, the blocks of
files; `call` and `asleep` for the processes.

**Actions.** `alloc()` is `BeginAlloc`, `Waits` on `s_flock`, then `AllocNospace`, or
`AllocTakes`, or `AllocTakesLink` and, after the read, `AllocRead` or `AllocReadFails`;
`AllocDone` is the return from `getblk()`. `free()` is `BeginFree`, `Waits`, then
`FreePuts`, or `FreeFull`, `FreeLink` and `FreeDone` around `getblk()` and `bwrite()`. The
buffer cache appears as these pauses.

| run | instance | question |
|---|---|---|
| `free_blocks` | 3 processes, 5 blocks, 2 numbers in an array, reads may fail | no block twice, none lost, "no space" is true, sleepers have somebody to wait for |

With two numbers instead of 50 five blocks make two arrays, the second found through the
first. A read that fails loses the rest of the list (`failed` in `NoneLost`): the code
has already counted `s_nfree` down and puts nothing back. `s_tfree`, which nobody
relies on, can be too small after "no space". Left out are the `delay()` there, and errors of
the write in `free()`, which the code does not look at.

| theorem of `FreeBlocksProofs` | statement |
|---|---|
| `TypeCorrect` | `Spec => []TypeOK` |
| `BlocksUsedOnce` | `Spec => []UsedOnce` |
| `SleepersHaveHolder` | `Spec => []SleepersWait` |
| `NoBlockLost` | `Spec => []NoneLost` |
| `NospaceTrue` | `Spec => NospaceWhenEmpty` |

for any processes, any finite set of blocks and any `NICFREE` from 2 on, with reads that
fail. `UsedOnce` alone is not inductive: `AllocRead` copies numbers into the super block, and
that they are not there already follows only from who holds `s_flock`. The
invariant is `TypeOK`, `Shape` (a call has a block where its code says so), `Lock` (the holder of
`s_flock` is one process in the middle of an array, and `s_nfree` is as it left it),
`Chain` (only the first number of an array leads to another array; blocks of files and
blocks being freed are none) and `Once` (`UsedOnce` with a place as two variables, for
the provers). That an array which was read is no longer one, because its block is
about to be handed out, is the step that needs `Chain`.

`NoneLost` and `NospaceWhenEmpty` are about what `alloc()` can find, which `Found` computes in
rounds. `FoundLeast` and `FoundClosed` say what comes out: the least set that has the first numbers
and with an array its numbers (`Closed`), but for 0. As many rounds as there are blocks
are enough, since each one finds a block or is the last (by induction on the rounds, with
the cardinality of what they found). The invariant on top of the one above is `Kept` (every closed set
has every block that is neither in a file nor in somebody's hands) unless a read has failed,
and `Solid`: no number of an array but the first is 0. An
action keeps `Kept` when each set that is closed after it was so before, but for the blocks it has
taken (`KeptStep`); that is one case for each action. `Solid` is what makes "no space" true: `alloc()` stops
at a 0, and there is nothing behind it.

## Pipes and FIFOs: `Pipes`, `Fifo`

**State.** One FIFO: `i_frcnt`, `i_fwcnt`, `i_fflag`, `i_size`, `i_frptr`, `i_fwptr`,
`i_faddr` (which blocks it has) and `data`, what a reader of each byte would get:
the letter written, or `Stale` when the block was taken without being read, its delayed
write was dropped, or the byte was counted and not written. `f_flag` is the file table, `call` and `wchan` the processes. Files may
be shared (dup, fork): any process uses an open file.

**Actions.** `Open`, `OpenAgain`, `Pipe`, `Close`; `Read`, `ReadStops` (the loop ends before
all is read), `ReadNone`, `ReadWaits`; `Write`, `WritePart` (more than the pipe holds),
`WriteStops` (the loop ends before all is written), `WriteWaits`, `WriteNobody`; `Interrupted`
ends a sleep, and closes the file of an `open()` ("half-opens" of `copen()`). The inode is locked
in a step and is free between two.

The loops end early when `bmap()` finds no block and when a transfer ended short (`b_resid`), and,
as the constant `Failing` says, when `iomove()` (EFAULT) or `bread()` (EIO) fails. Then `i_size` is
changed by the bytes of the block at hand although they were not moved, and where `iomove()`
fails, `u_offset` stays before them (rdwri.c:101, 334).

**Abstract.** `Fifo` is a bounded sequence of bytes: a write of at most `Room` bytes goes in as a whole,
readers take from the front, the end is told only when it is empty and without
writers, and a writer is turned away only without readers.

| run | instance | question |
|---|---|---|
| `pipes` | 3 processes, 3 files, 2 blocks of 2 bytes, texts of 3 and of 5 bytes, reads of 3 | bytes in order, counts of open files, reasons to sleep |

Texts of 3 in 4 bytes go round the end of the pipe and across blocks in every way, the
text of 5 is written in parts; two letters tell bytes apart. `Stale` would show in the queue
if one of the two shortcuts with the buffers (rdwri.c:104, 314) were off by a byte.

In the run `Failing` is empty. With failures the bytes do not come out as they went in:
`PipesFault.cfg` (2 processes, 2 files, `Failing` = {"iomove"}) violates `ImplementsFifo` with one
`write()` that fails and so leaves bytes nobody wrote in the FIFO. `CountsExact` and
`SleepersBlocked` hold all the same: they are proved for any `Failing`, and TLC finds them true on
that instance with both kinds of failures.

A reader that opens is woken by a writer; if the writer has closed again before it
runs, it sleeps on (pipe.c:80): it missed a writer that wrote nothing. Left out: writes of
blocks that fail later, `EFBIG`, read-ahead, the delivery of SIGPIPE.

| theorem of `PipesProofs` | statement |
|---|---|
| `CountsAlwaysExact` | `Spec => []CountsExact` |
| `SleepersAlwaysBlocked` | `Spec => []SleepersBlocked` |
| `FifoImplemented` | `Spec => ImplementsFifo`, the refinement of `Fifo` and `TypeOK`, where neither `iomove()` nor `bread()` fails (`NoFaults`) |

for any processes, finite set of files, modes, texts and sizes, as long as `PIPSIZ` is a
multiple of `BSIZE`, and but for the last one for any `Failing`. The invariant `IndInv` of the first two adds to them `Types` (what of
`TypeOK` is needed) and `Users` (a call's file is
open; nobody else uses a file while it is being opened). That a reader asleep has
a writer to wake it is kept by `Closep` because the count of writers is that of the files,
so the last one to go finds 0 and `IFIR` set: the two properties need each other.

The refinement rests on `ByteInv`: `IndInv`, `Places` (the types of the pointers, of the blocks
and their contents, and `i_fwptr` = place `i_size` from `i_frptr`) and `Lefts` (only a
write has something left, and a call that is over has nothing). `Places` says nothing of
`Stale`: that no byte of the queue is lost to it is a fact about single steps.
`FreshFree` shows it of `Put`: a block taken without being read begins `i_size + j` places
behind the first byte and holds the queue's bytes only if it reaches round to them; then at
least `PIPSIZ - BSIZE` bytes are in the pipe before it, so the code reads it in, unless all of
it is written. `DroppedFree` shows the same of the blocks that lose B_DELWRI in `Read`.
Both come down to numbers on a ring (`RingAfter`, `RingBefore`), and with them
`PutQueue` and `ReadQueue` give the sequence after each step; `OpenMap` to `WriteNobodyMap` say
which step of `Fifo` each action is. Without failures a loop that ends early is a read or a write
of as many bytes as were moved (`ReadStopsMap`, `WriteStopsMap`).

## Callouts: `Callout`

**State.** `callout`, the table with the difference to the entry before in `c_time`; `pc`, `cp`,
`p1`, `p2` and `time` (a value between its load and its store) of `clock()` and `timein()`;
`nested`, the ticks during one `clock()`; `due`, when each function may be called, which
the code does not know.

**Actions.** `clock()` keeps out all interrupts but its own, so `NestedTick` may come between any
two of `Scan`, `Dec`, `Test`, `Call`, `FunctionReturns`, `Called`, and between the loads and
stores of the loop that closes the gap: `CopyFunc`, `LoadTime`, `StoreTime`, `CopyArg`.
`Timeout` enters a function from outside, `FunctionTimeout` from a function that is called.

| run | instance | question |
|---|---|---|
| `callout` | 3 functions, 4 entries, times 1 and 2, up to 2 ticks in one `clock()` | is the table what was asked for, is nothing early, is everything called |

A nested tick that comes between load and store is lost (the store puts the old time back): functions may be
late, never early. **Fairness** (`FairSpec`): weak fairness of `Clock`, that is, the clock ticks
and functions return. The run has `CHECK_DEADLOCK FALSE` since `timeout()` panics with a full
table and the system stops.

| theorem of `CalloutProofs` | statement |
|---|---|
| `IndCorrect` | `Spec => []IndInv` |
| `NothingLostOrDoubled` | `Spec => []TableExact` |
| `NotBeforeItsTime` | `Spec => []NeverEarly` |

for any table of two entries or more, any functions and times. While `timein()` moves entries down
one field at a time, the array is no list: an entry may be there twice, or have its function
from one entry and its time from another. `IndInv` is about the list that the array stands for
(`FuncAt`, `TimeAt`, `ArgAt`: the fields that were moved are at their new place, the others
`Gap` higher, and a time that was loaded is in `time`): it has an end (`Ends`), what is asked for is in
it once (`Exact`), and the sum of its times up to an entry is never less than the ticks the entry still
has to wait (`InTime`). Between `Scan` and `Dec` one tick has passed that is not in the table
yet (`Pending`); a nested tick may find an earlier entry than the one about to be
decremented, or decrement the same one. The lemmas on `Sums` (what a change of
one time, an insertion and a removal in front do to the sums) are proved by induction on
the length. TLC has checked `IndInv` on the instance of the run.

`CalloutPanic.cfg` violates `PanicOnlyIfFull`: `timein()` moves entries down and clears only
the first one behind them, so an old `c_func` stays in a higher one, and
`timeout()`, which looks only at `callout[v.v_call-2]`, panics with entries free.

## The packet protocol: `PacketDriver`

**State.** For each side a `struct pack` (`pk`): `state`, `msg`, `rmsg`, the numbers `ps`, `pr`,
`rpr`, `nxtps`, `pscopy`, output buffers `os` and `ob`, the input buffers that were filled,
those accepted, and how many are in the pool; `pc` and `todo`, where it is in the calls it makes;
`line`, the frames on the way; `sent` and `got`. A packet has its ordinal number as its content. `pkaccept()`'s
permutation of slots is modelled by which packets stay: those that go on without a gap,
with a good sum and in the window (`Accept`).

**Actions.** `Pkopen`, `Pkwrite`, `Pkread`, `Pkclose` are the calls up to their return or their wait
for input; `GetsFrame`, `GetsNoise` (a bad header, a bad sum, too few bytes) and `TimesOut` are what
`pkgetpack()` gets; `Loses` is the line; `Fails` is `pkfail()`. What finds no room in
the line is lost, too (`Kept`).

| run | instance | question |
|---|---|---|
| `packets` | 4 numbers, window 2, 5 packets one way and 1 back, then the other way, 3 frames on the line, 2 alarms, 3 frames without data, 1 frame lost or garbled | is what is read what was written, in order and once; is no buffer given up too soon |

Five packets go round the four numbers. `MaxNoise` counts only what the line
does by itself; alarms that come too early duplicate frames without bound, and full
lines drop them, so many more frames than one are lost in a behaviour. With two the
properties hold as well (5.7 million states). Deadlock is checked: the step `Over` is for two
sides that have finished. Whether a conversation ends is not checked: with alarms at
the wrong times it may go on for ever.

What the code does to a conversation without breaking it: a packet that is cut short
takes its buffer with it (pk1.c:213), and after a window of these the receiver is
deaf, while each side keeps resetting the other's counter of frames without data;
`bp` is used before it is compared with NULL (205; modelled as if the word at 0 were 0,
the frame is dropped); a second INITC starts an exchange of INITB and INITC that only
CONNODATA ends; `!pk->p_state&LIVE` in `pkwrite()` (pk0.c:338) does not test what it seems to.

## Observed disagreements

Where the code does not do what a comment says or its callers expect. The configurations
violate the property named; the runs stay clear of them as the sections above say.

| configuration | module | violates | where |
|---|---|---|---|
| `BufferCacheWindow.cfg` | `MCBufferCache` | `ReadsCurrent` | `io/bio.c:289` |
| `BufferCacheFlushed.cfg` | `MCBufferCache` | `FlushedOut` | `io/bio.c:486` |
| `InodeLink.cfg` | `MCInodeTable` | `LinkedFilesSurvive` | `os/nami.c:227` |
| `InodeUnlocked.cfg` | `MCInodeTable` | `LockExclusive` | `os/fio.c:119` |
| `InodePipe.cfg` | `MCInodeTable` | `CountsReferences` | `os/pipe.c:52` |
| `SemaphoresZero.cfg` | `MCSemaphores` | `SleepersBlocked` | `os/sem.c:583` |
| `LocksRead.cfg` | `MCRecordLocks` | `NoConflict` | `os/flock.c:343` |
| `MessagesRaise.cfg` | `MCMessages` | `SleepersBlocked` | `os/msg.c:136` |
| `MessagesMap.cfg` | `MCMessages` | `Accounted` | `os/malloc.c:76` |
| `PipesFault.cfg` | `MCPipes` | `ImplementsFifo` | `os/rdwri.c:334` |
| `CalloutPanic.cfg` | `MCCallout` | `PanicOnlyIfFull` | `os/clock.c:219` |

## What is proved and what is not

The tables of theorems above are proved by `BufferCacheProofs`,
`InodeTableProofs`, `SemaphoresProofs`, `FreeBlocksProofs`, `PipesProofs`, `CalloutProofs` and
`RecordLocksProofs`, with lemmas on lists and on induction in `ListLemmas`. They rest on the assumptions on
the constants that the modules state (`ConstantAssumption`, `SemAssumption`, `FreeAssumption`,
`PipeAssumption`, `CalloutAssumption`, `LockAssumption`), which TLC evaluates in every run, and on the hypotheses in the tables:
`NoLastClose` and `WindowClosed` for the contents of the cache, `PipesAlone`, no devices, no bad blocks of inodes
(`WorkingDisk`) and no `link()` (`NoLinks`) for inodes,
`ZeroFirst` for those who sleep in `semop()`, `WritesOnly` for the bytes of record locks,
`NoFaults` for the bytes of pipes.
Each of these hypotheses stands for something the code really does, which a
configuration under "observed disagreements" shows; that of a failed `iread()` is told with
the inode table.

| | proved | model-checked only |
|---|---|---|
| buffer cache | all safety properties and the refinement of `BlockStore` | `NoSleepForEver` |
| inode table | `OneSlotPerInode`, `CountsReferences`, `NoLostWakeup`, `NoDeadlyEmbrace`, `LockExclusive`, `Coherent`, `LinkedFilesSurvive`, `LinksExact` | |
| free blocks | `UsedOnce`, `SleepersWait`, `NoneLost`, `NospaceWhenEmpty` | |
| pipes | `CountsExact`, `SleepersBlocked`, the refinement of `Fifo` | |
| callouts | `TableExact`, `NeverEarly` | `AllCalled` |
| semaphores | `UndoAccounted`, `NoLostWakeup`, `SleepersBlocked`, the refinement of `SemaphoreSets` | |
| record locks | `SleepersBlocked`, `NoDeadlock`, `HeadersExact`, `ChangesExact`, the refinement of `LockTable` | |
| messages, packets | | all |

Liveness (`NoSleepForEver`, `AllCalled`) is beyond the provers used here. Induction is not, where
the statement is about numbers: `ListLemmas!Induction` derives it from the least element of a
set, and the sums of the callouts, the counts of references, the rounds of `Found` and the lists of `semop()`
are done with it, and so are the passes of `flckadj()`.
What `Findmsg` finds has not been tried.

## What is not modelled

* Everything the inventory lists without a module; `PROJECT.json` gives the reason for each.
  Most of the repository is commands, libraries, drivers and the machine layer; the
  models are of the parts of the kernel where processes and interrupts meet.
* In the buffer cache `swap()` and `physio()` (buffer headers of their own), `b_resid`, the
  exhaustion of all buffers by processes that each hold one and want one more
  (`bmap()` under load: the instances stop short of it).
* In the inode table mounts, paths longer than one name, `mknod`, FIFO counts, blocks.
* In semaphores permissions, times, `sempid` and the map of semaphores.
* In record locks `F_GETLK`, and offsets before they are converted; the run has one file.
* In messages keys, permissions, times; in callouts `delay()` and all else `clock()` does.
* In `PacketDriver` packet sizes and partial packets (`B_SHORT`, `B_RESID`), data sent both ways
  at once, the conversation above it, and the kernel driver `pkdrvon()` asks for. How many
  frames `pkopen()` waits for (`PKMAXSTMSG`) is a free choice.
* Crashes: `itrunc()` and `ialloc()` order their writes for the sake of `fsck`, which a
  model of the order in which delayed blocks reach the disk would have to show.

## How to run

`tlc -workers 2 -config InodeFiles.cfg MCInodeTable.tla` and so on, with the runs of
`PROJECT.json`; each takes at most a few minutes. `tlapm BufferCacheProofs.tla`, and so
on with the other modules that hold proofs, takes from seconds to a few minutes
(`InodeTableProofs` about ten). Each mutant in a module is a form of the
definition after it with a mistake; `PROJECT.json` names the property that finds it.
The configurations under "observed disagreements" are meant to fail:
`tlc -config LocksRead.cfg MCRecordLocks.tla` shows how.
