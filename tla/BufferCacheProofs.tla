-------------------------- MODULE BufferCacheProofs --------------------------
(***************************************************************************)
(* Proofs about BufferCache: the invariants hold for any number of         *)
(* processes, buffers, blocks and contents, and the cache implements       *)
(* BlockStore.                                                             *)
(***************************************************************************)
EXTENDS BufferCache, ListLemmas, FiniteSetTheorems, SequenceTheorems, TLAPS
-----------------------------------------------------------------------------
(* Types. *)

Chan == Buf \cup {FreeChan, AsyncChan, Awake}

(* wakeup() keeps the wait channels typed.                                 *)
LEMMA WakeupType ==
    ASSUME NEW w \in [Proc -> Chan], NEW C
    PROVE  Wakeup(w, C) \in [Proc -> Chan]
BY DEF Wakeup, Chan

(* brelse() keeps the flags typed.                                         *)
LEMMA BrelseType ==
    ASSUME TypeOK, FreeIffNotBusy, NEW b \in Buf, NEW f \in SUBSET Flag,
           NEW w \in [Proc -> Chan], Brelse(b, f, w), "BUSY" \in flags[b],
           "STALE" \in flags[b] => "STALE" \in f
    PROVE  /\ flags' \in [Buf -> SUBSET Flag]
           /\ freelist' \in Seq(Buf)
           /\ flwanted' \in BOOLEAN
           /\ wchan' \in [Proc -> Chan]
           /\ FreeIffNotBusy'
           /\ \A c \in Buf : c # b => flags'[c] = flags[c]
           /\ "BUSY" \notin flags'[b] /\ "ASYNC" \notin flags'[b]
           /\ blkno' = blkno /\ OneBufferPerBlock => OneBufferPerBlock'
<1> DEFINE g == AfterError(f) \ {"WANTED", "BUSY", "ASYNC", "AGE"}
<1>1. g \in SUBSET Flag /\ {"BUSY", "ASYNC"} \cap g = {}
      /\ ("STALE" \in f => "STALE" \in g)
  BY DEF AfterError, Flag
<1>2. flags' = [flags EXCEPT ![b] = g]
  BY DEF Brelse, ReleaseChans
<1> HIDE DEF g
<1>3. /\ flags' \in [Buf -> SUBSET Flag] /\ flags'[b] = g
      /\ \A c \in Buf : c # b => flags'[c] = flags[c]
  BY <1>1, <1>2 DEF TypeOK
<1>4. wchan' \in [Proc -> Chan]
  BY WakeupType DEF Brelse, ReleaseChans
<1>5. ~Contains(freelist, b) /\ IsInjective(freelist) /\ freelist \in Seq(Buf)
  BY DEF FreeIffNotBusy, InFree, TypeOK
<1>6. /\ freelist' \in Seq(Buf) /\ IsInjective(freelist')
      /\ \A x : Contains(freelist', x) <=> Contains(freelist, x) \/ x = b
  <2>1. freelist' = Cons(b, freelist) \/ freelist' = Append(freelist, b)
    BY DEF Brelse, ReleaseChans
  <2>2. CASE freelist' = Cons(b, freelist)
    BY <1>5, <2>2, ConsList, Zenon
  <2>3. CASE freelist' = Append(freelist, b)
    BY <1>5, <2>3, AppendList, Zenon
  <2> QED BY <2>1, <2>2, <2>3
<1>7. FreeIffNotBusy'
  BY <1>1, <1>3, <1>6 DEF FreeIffNotBusy, InFree, IsInjective
<1>8. flwanted' \in BOOLEAN
  BY DEF Brelse, ReleaseChans
<1>9. ASSUME blkno' = blkno, OneBufferPerBlock PROVE OneBufferPerBlock'
  <2>1. \A c \in Buf : "STALE" \in flags[c] => "STALE" \in flags'[c]
    BY <1>1, <1>3
  <2> QED BY <1>9, <2>1 DEF OneBufferPerBlock
<1> QED BY <1>1, <1>3, <1>4, <1>6, <1>7, <1>8, <1>9

(* notavail() of a buffer on the free list. *)
LEMMA TakeList ==
    ASSUME TypeOK, FreeIffNotBusy, NEW b, NEW g \in SUBSET Flag, "BUSY" \in g,
           flags' = [flags EXCEPT ![b] = g],
           \/ \E i \in DOMAIN freelist :
                 b = freelist[i] /\ freelist' = RemoveAt(freelist, i)
           \/ freelist # <<>> /\ b = Head(freelist) /\ freelist' = Tail(freelist)
    PROVE  /\ b \in Buf /\ "BUSY" \notin flags[b]
           /\ flags' \in [Buf -> SUBSET Flag] /\ flags'[b] = g
           /\ \A c \in Buf : c # b => flags'[c] = flags[c]
           /\ freelist' \in Seq(Buf)
           /\ FreeIffNotBusy'
<1>1. freelist \in Seq(Buf) /\ IsInjective(freelist)
  BY DEF TypeOK, FreeIffNotBusy
<1>2. /\ b \in Buf /\ Contains(freelist, b)
      /\ freelist' \in Seq(Buf) /\ IsInjective(freelist')
      /\ \A x : Contains(freelist', x) <=> Contains(freelist, x) /\ x # b
  <2>1. ASSUME NEW i \in DOMAIN freelist, b = freelist[i], freelist' = RemoveAt(freelist, i)
        PROVE  /\ b \in Buf /\ Contains(freelist, b)
               /\ freelist' \in Seq(Buf) /\ IsInjective(freelist')
               /\ \A x : Contains(freelist', x) <=> Contains(freelist, x) /\ x # b
    BY <1>1, <2>1, RemoveAtList, Zenon
  <2>2. ASSUME freelist # <<>>, b = Head(freelist), freelist' = Tail(freelist)
        PROVE  /\ b \in Buf /\ Contains(freelist, b)
               /\ freelist' \in Seq(Buf) /\ IsInjective(freelist')
               /\ \A x : Contains(freelist', x) <=> Contains(freelist, x) /\ x # b
    BY <1>1, <2>2, TailList, Zenon
  <2> QED BY <2>1, <2>2
<1>3. "BUSY" \notin flags[b]
  BY <1>2 DEF FreeIffNotBusy, InFree
<1>4. /\ flags' \in [Buf -> SUBSET Flag] /\ flags'[b] = g
      /\ \A c \in Buf : c # b => flags'[c] = flags[c]
  BY <1>2 DEF TypeOK
<1>5. FreeIffNotBusy'
  BY <1>2, <1>4 DEF FreeIffNotBusy, InFree
<1> QED BY <1>2, <1>3, <1>4, <1>5
-----------------------------------------------------------------------------
(* Every step of a process preserves the invariant of the lists. *)

(* A call that starts with getblk() keeps the invariant.                   *)
LEMMA CallGetblkInv ==
    ASSUME CacheInv, NEW p \in Proc, CallGetblk(p)
    PROVE  CacheInv'
<1> USE ConstantAssumption DEF CacheInv
<1>1. TypeOK'
  BY DEF TypeOK, Placed, CallGetblk, Enter, Goto, Sleep, Label, Call, Op, bufVars, ioVars, Runs
<1>2. Placed'
  BY DEF TypeOK, Placed, InGetblk, CallGetblk, Enter, Goto, Sleep, Call, Op, bufVars, ioVars, Runs
<1>3. FreeIffNotBusy' /\ OneBufferPerBlock'
  BY DEF FreeIffNotBusy, OneBufferPerBlock, InFree, CallGetblk, Enter, bufVars
<1>4. OneOwner'
  BY DEF TypeOK, Placed, OneOwner, Owns, CallGetblk, Enter, Goto, Sleep, bufVars, ioVars
<1>5. Transfers'
  BY DEF TypeOK, Placed, Transfers, InGetblk, CallGetblk, Enter, Goto, Sleep, Call, Op, bufVars, ioVars
<1> QED BY <1>1, <1>2, <1>3, <1>4, <1>5

(* A breada() whose block is in core keeps the invariant.                  *)
LEMMA CallBreadaIncoreInv ==
    ASSUME CacheInv, NEW p \in Proc, CallBreadaIncore(p)
    PROVE  CacheInv'
<1> USE ConstantAssumption DEF CacheInv
<1>1. TypeOK'
  BY DEF TypeOK, Placed, CallBreadaIncore, Enter, Goto, Sleep, Label, Call, Op, bufVars, ioVars, Runs
<1>2. Placed'
  BY DEF TypeOK, Placed, InGetblk, CallBreadaIncore, Enter, Goto, Sleep, Call, Op, bufVars, ioVars, Runs
<1>3. FreeIffNotBusy' /\ OneBufferPerBlock'
  BY DEF FreeIffNotBusy, OneBufferPerBlock, InFree, CallBreadaIncore, Enter, bufVars
<1>4. OneOwner'
  BY DEF TypeOK, Placed, OneOwner, Owns, CallBreadaIncore, Enter, Goto, Sleep, bufVars, ioVars
<1>5. Transfers'
  BY DEF TypeOK, Placed, Transfers, InGetblk, CallBreadaIncore, Enter, Goto, Sleep, Call, Op, bufVars, ioVars
<1> QED BY <1>1, <1>2, <1>3, <1>4, <1>5

(* A call of bflush(), bdflush() or bdwait() keeps the invariant.          *)
LEMMA CallFlushInv ==
    ASSUME CacheInv, NEW p \in Proc, CallFlush(p)
    PROVE  CacheInv'
<1> USE ConstantAssumption DEF CacheInv
<1>1. TypeOK'
  BY DEF TypeOK, Placed, CallFlush, Enter, Goto, Sleep, Label, Call, Op, bufVars, ioVars, Runs
<1>2. Placed'
  BY DEF TypeOK, Placed, InGetblk, CallFlush, Enter, Goto, Sleep, Call, Op, bufVars, ioVars, Runs
<1>3. FreeIffNotBusy' /\ OneBufferPerBlock'
  BY DEF FreeIffNotBusy, OneBufferPerBlock, InFree, CallFlush, Enter, bufVars
<1>4. OneOwner'
  BY DEF TypeOK, Placed, OneOwner, Owns, CallFlush, Enter, Goto, Sleep, bufVars, ioVars
<1>5. Transfers'
  BY DEF TypeOK, Placed, Transfers, InGetblk, CallFlush, Enter, Goto, Sleep, Call, Op, bufVars, ioVars
<1> QED BY <1>1, <1>2, <1>3, <1>4, <1>5

(* The search of the hash chain keeps the invariant.                       *)
LEMMA GetblkFindInv ==
    ASSUME CacheInv, NEW p \in Proc, GetblkFind(p)
    PROVE  CacheInv'
<1> USE ConstantAssumption DEF CacheInv
<1>1. PICK b \in Buf : cur' = [cur EXCEPT ![p] = b]
  BY DEF GetblkFind, Matches
<1>2. /\ pc[p] = "search" /\ pc' = [pc EXCEPT ![p] = "found"] /\ cpu' = p
      /\ UNCHANGED <<bufVars, ioVars, wchan, call, want, role, bp, ret, error>>
  BY DEF GetblkFind, Goto
<1>3. TypeOK'
  BY <1>1, <1>2 DEF TypeOK, Label, bufVars, ioVars
<1>4. Placed'
  BY <1>1, <1>2 DEF TypeOK, Placed, InGetblk
<1>5. FreeIffNotBusy' /\ OneBufferPerBlock'
  BY <1>2 DEF FreeIffNotBusy, OneBufferPerBlock, InFree, bufVars
<1>6. OneOwner'
  <2>1. \A q \in Proc : \A c \in Buf : Owns(q, c)' <=> Owns(q, c)
    BY <1>1, <1>2 DEF TypeOK, Placed, Owns
  <2> QED BY <1>2, <2>1 DEF OneOwner, bufVars, ioVars
<1>7. Transfers'
  BY <1>1, <1>2 DEF TypeOK, Placed, Transfers, InGetblk, bufVars, ioVars
<1> QED BY <1>3, <1>4, <1>5, <1>6, <1>7

(* Sleeping for a busy buffer keeps the invariant.                         *)
LEMMA GetblkBusyInv ==
    ASSUME CacheInv, NEW p \in Proc, GetblkBusy(p)
    PROVE  CacheInv'
<1> USE ConstantAssumption DEF CacheInv
<1> DEFINE b == cur[p]
<1>1. b \in Buf /\ pc[p] = "found" /\ "BUSY" \in flags[b]
  BY DEF GetblkBusy, Placed
<1>2. /\ flags' = [flags EXCEPT ![b] = @ \cup {"WANTED"}]
      /\ cur' = [cur EXCEPT ![p] = NoBuf] /\ cpu' = NoProc
      /\ wchan' = [wchan EXCEPT ![p] = b] /\ pc' = [pc EXCEPT ![p] = "search"]
      /\ UNCHANGED <<blkno, data, freelist, flwanted, ioVars, call, want, role, bp, ret, error>>
  BY DEF GetblkBusy, Sleep
<1>3. /\ flags' \in [Buf -> SUBSET Flag]
      /\ \A c \in Buf : \A f \in Flag : f # "WANTED" => (f \in flags'[c] <=> f \in flags[c])
  BY <1>1, <1>2 DEF TypeOK, Flag
<1>4. TypeOK'
  BY <1>1, <1>2, <1>3 DEF TypeOK, Label, ioVars
<1>5. Placed'
  BY <1>1, <1>2 DEF TypeOK, Placed, InGetblk
<1>6. FreeIffNotBusy' /\ OneBufferPerBlock'
  BY <1>2, <1>3 DEF FreeIffNotBusy, OneBufferPerBlock, InFree, Flag
<1>7. OneOwner'
  <2>1. \A q \in Proc : \A c \in Buf : Owns(q, c)' <=> Owns(q, c)
    BY <1>1, <1>2 DEF Owns, TypeOK
  <2> QED BY <1>2, <1>3, <2>1 DEF OneOwner, Flag, ioVars
<1>8. Transfers'
  BY <1>1, <1>2, <1>3 DEF Transfers, InGetblk, TypeOK, Placed, Flag, ioVars
<1> QED BY <1>4, <1>5, <1>6, <1>7, <1>8

(* Taking a buffer that was found free keeps the invariant.                *)
LEMMA GetblkTakeInv ==
    ASSUME CacheInv, NEW p \in Proc, GetblkTake(p)
    PROVE  CacheInv'
<1> USE ConstantAssumption DEF CacheInv
<1> DEFINE b == cur[p]
           g == flags[b] \cup {"BUSY"}
<1>1. b \in Buf /\ g \in SUBSET Flag /\ "BUSY" \in g /\ pc[p] = "found"
  BY DEF GetblkTake, Notavail, TypeOK, Placed, Flag
<1>2. /\ flags' = [flags EXCEPT ![b] = g] /\ cpu' = p
      /\ pc' = [pc EXCEPT ![p] = "got"]
      /\ UNCHANGED <<blkno, data, flwanted, ioVars, wchan, call, want, role, cur, bp, ret, error>>
  BY DEF GetblkTake, Notavail, Goto
<1>3. /\ "BUSY" \notin flags[b]
      /\ flags' \in [Buf -> SUBSET Flag] /\ flags'[b] = g
      /\ \A c \in Buf : c # b => flags'[c] = flags[c]
      /\ freelist' \in Seq(Buf) /\ FreeIffNotBusy'
  BY <1>1, <1>2, TakeList DEF GetblkTake, Notavail
<1>4. TypeOK'
  BY <1>1, <1>2, <1>3 DEF TypeOK, Label, ioVars
<1>5. Placed'
  BY <1>1, <1>2 DEF TypeOK, Placed, InGetblk
<1>6. OneBufferPerBlock'
  BY <1>1, <1>2, <1>3 DEF OneBufferPerBlock
<1>7. /\ \A q \in Proc : ~Owns(q, b)
      /\ b \notin ioq
  BY <1>1, <1>3 DEF OneOwner, Transfers
<1>8. OneOwner'
  <2>1. \A q \in Proc : \A c \in Buf : Owns(q, c)' <=> Owns(q, c) \/ (q = p /\ c = b)
    BY <1>1, <1>2 DEF Owns, TypeOK
  <2> QED BY <1>1, <1>2, <1>3, <1>7, <2>1 DEF OneOwner, ioVars
<1>9. Transfers'
  BY <1>1, <1>2, <1>3, <1>7 DEF Transfers, InGetblk, Owns, TypeOK, Placed, ioVars
<1> QED BY <1>3, <1>4, <1>5, <1>6, <1>8, <1>9

(* Sleeping for any free buffer keeps the invariant.                       *)
LEMMA GetblkNoFreeInv ==
    ASSUME CacheInv, NEW p \in Proc, GetblkNoFree(p)
    PROVE  CacheInv'
<1> USE ConstantAssumption DEF CacheInv
<1>1. TypeOK'
  BY DEF TypeOK, Placed, GetblkNoFree, Enter, Goto, Sleep, Label, Call, Op, bufVars, ioVars, Runs
<1>2. Placed'
  BY DEF TypeOK, Placed, InGetblk, GetblkNoFree, Enter, Goto, Sleep, Call, Op, bufVars, ioVars, Runs
<1>3. FreeIffNotBusy' /\ OneBufferPerBlock'
  BY DEF FreeIffNotBusy, OneBufferPerBlock, InFree, GetblkNoFree, Enter, bufVars
<1>4. OneOwner'
  BY DEF TypeOK, Placed, OneOwner, Owns, GetblkNoFree, Enter, Goto, Sleep, bufVars, ioVars
<1>5. Transfers'
  BY DEF TypeOK, Placed, Transfers, InGetblk, GetblkNoFree, Enter, Goto, Sleep, Call, Op, bufVars, ioVars
<1> QED BY <1>1, <1>2, <1>3, <1>4, <1>5

(* Writing out a delayed buffer in getblk() keeps the invariant.           *)
LEMMA GetblkFlushInv ==
    ASSUME CacheInv, NEW p \in Proc, GetblkFlush(p)
    PROVE  CacheInv'
<1> USE ConstantAssumption DEF CacheInv
<1> DEFINE b == Head(freelist)
<1> DEFINE g == WriteFlags(flags[b]) \cup {"BUSY", "ASYNC"}
<1>1. /\ pc[p] = "search"
      /\ freelist # <<>> /\ freelist' = Tail(freelist)
      /\ UNCHANGED <<blkno, data, flwanted, basyncnt, basywait, disk, wchan, call, want, role, bp, error>>
  BY DEF GetblkFlush
<1>2. /\ flags' = [flags EXCEPT ![b] = g] /\ ioq' = ioq \cup {b}
      /\ ret' = [ret EXCEPT ![p] = "search"] /\ cur' = [cur EXCEPT ![p] = NoBuf]
      /\ pc' = [pc EXCEPT ![p] = "count"] /\ cpu' = p
  BY <1>1 DEF GetblkFlush, StartAsync, Goto
<1>3. b \in Buf
  BY <1>1, TailList DEF TypeOK
<1>4. /\ g \in SUBSET Flag /\ "BUSY" \in g /\ "ASYNC" \in g /\ "DONE" \notin g
      /\ "STALE" \in flags[b] => "STALE" \in g
  BY <1>3 DEF TypeOK, WriteFlags, Flag
<1> HIDE DEF g
<1>5. /\ b \in Buf /\ "BUSY" \notin flags[b]
      /\ flags' \in [Buf -> SUBSET Flag] /\ flags'[b] = g
      /\ \A c \in Buf : c # b => flags'[c] = flags[c]
      /\ freelist' \in Seq(Buf) /\ FreeIffNotBusy'
  BY <1>1, <1>2, <1>4, TakeList
<1> HIDE DEF b
<1>6. TypeOK'
  BY <1>1, <1>2, <1>5 DEF TypeOK, Label
<1>7. Placed'
  BY <1>1, <1>2, <1>5 DEF TypeOK, Placed, InGetblk
<1>8. OneBufferPerBlock'
  BY <1>1, <1>4, <1>5 DEF OneBufferPerBlock
<1>9. /\ \A q \in Proc : ~Owns(q, b)
      /\ b \notin ioq
  BY <1>5 DEF OneOwner, Transfers
<1>10. OneOwner'
  <2>1. \A q \in Proc : \A c \in Buf : Owns(q, c)' <=> Owns(q, c)
    BY <1>1, <1>2 DEF Owns, TypeOK, Placed
  <2> QED BY <1>2, <1>4, <1>5, <1>9, <2>1 DEF OneOwner
<1>11. Transfers'
  BY <1>1, <1>2, <1>4, <1>5, <1>9 DEF Transfers, InGetblk, Owns, TypeOK, Placed
<1> QED BY <1>5, <1>6, <1>7, <1>8, <1>10, <1>11

(* Reassigning a buffer in getblk() keeps the invariant.                   *)
LEMMA GetblkAssignInv ==
    ASSUME CacheInv, NEW p \in Proc, GetblkAssign(p)
    PROVE  CacheInv'
<1> USE ConstantAssumption DEF CacheInv
<1> DEFINE b == Head(freelist)
           g == {"BUSY"} \cup (IF want[p] = NoBlock THEN {"AGE"} ELSE {})
<1>1. /\ g \in SUBSET Flag /\ "BUSY" \in g /\ "ASYNC" \notin g
      /\ pc[p] = "search" /\ Matches(want[p]) = {}
  BY DEF GetblkAssign, Reassign, Flag
<1>2. /\ flags' = [flags EXCEPT ![b] = g] /\ cpu' = p
      /\ blkno' = [blkno EXCEPT ![b] = want[p]]
      /\ cur' = [cur EXCEPT ![p] = b]
      /\ pc' = [pc EXCEPT ![p] = "got"]
      /\ freelist # <<>> /\ freelist' = Tail(freelist)
      /\ UNCHANGED <<data, flwanted, ioVars, wchan, call, want, role, bp, ret, error>>
  BY DEF GetblkAssign, Reassign, Goto
<1>3. /\ b \in Buf /\ "BUSY" \notin flags[b]
      /\ flags' \in [Buf -> SUBSET Flag] /\ flags'[b] = g
      /\ \A c \in Buf : c # b => flags'[c] = flags[c]
      /\ freelist' \in Seq(Buf) /\ FreeIffNotBusy'
  BY <1>1, <1>2, TakeList
<1> HIDE DEF b, g
<1>4. TypeOK'
  BY <1>1, <1>2, <1>3 DEF TypeOK, Label, ioVars
<1>5. Placed'
  BY <1>1, <1>2, <1>3 DEF TypeOK, Placed, InGetblk
<1>6. OneBufferPerBlock'
  BY <1>1, <1>2, <1>3 DEF OneBufferPerBlock, Matches, TypeOK
<1>7. /\ \A q \in Proc : ~Owns(q, b)
      /\ b \notin ioq
  BY <1>1, <1>3 DEF OneOwner, Transfers
<1>8. OneOwner'
  <2>1. \A q \in Proc : \A c \in Buf : Owns(q, c)' <=> Owns(q, c) \/ (q = p /\ c = b)
    BY <1>1, <1>2, <1>3 DEF Owns, TypeOK, Placed
  <2> QED BY <1>1, <1>2, <1>3, <1>7, <2>1 DEF OneOwner, ioVars
<1>9. Transfers'
  BY <1>1, <1>2, <1>3, <1>7 DEF Transfers, InGetblk, Owns, TypeOK, Placed, ioVars
<1> QED BY <1>3, <1>4, <1>5, <1>6, <1>8, <1>9

(* A getblk() that found the content keeps the invariant.                  *)
LEMMA GotMainInv ==
    ASSUME CacheInv, NEW p \in Proc, GotMain(p)
    PROVE  CacheInv'
<1> USE ConstantAssumption DEF CacheInv
<1>1. TypeOK'
  BY DEF TypeOK, Placed, GotMain, Goto, Label, bufVars, ioVars
<1>2. Placed'
  BY DEF TypeOK, Placed, InGetblk, GotMain, Goto
<1>3. FreeIffNotBusy' /\ OneBufferPerBlock'
  BY DEF FreeIffNotBusy, OneBufferPerBlock, InFree, GotMain, bufVars
<1>4. OneOwner'
  <2>1. \A q \in Proc : \A c \in Buf : Owns(q, c)' <=> Owns(q, c)
    BY DEF TypeOK, Placed, InGetblk, Owns, GotMain, Goto
  <2> QED BY <2>1 DEF OneOwner, GotMain, bufVars, ioVars
<1>5. Transfers'
  BY DEF TypeOK, Placed, Transfers, InGetblk, GotMain, Goto, bufVars, ioVars
<1> QED BY <1>1, <1>2, <1>3, <1>4, <1>5

(* Starting the read of a block that was not in core keeps the invariant.  *)
LEMMA GotMissInv ==
    ASSUME CacheInv, NEW p \in Proc, GotMiss(p)
    PROVE  CacheInv'
<1> USE ConstantAssumption DEF CacheInv
<1> DEFINE b == cur[p]
<1>1. b \in Buf /\ pc[p] = "got" /\ role[p] = "main" /\ b \notin ioq /\ "BUSY" \in flags[b] /\ "ASYNC" \notin flags[b]
  BY DEF GotMiss, Modify, Placed, Transfers, OneOwner, Owns
<1>2. /\ flags' \in [Buf -> SUBSET Flag]
      /\ \A c \in Buf : c # b => flags'[c] = flags[c]
      /\ "BUSY" \in flags'[b] /\ "DONE" \notin flags'[b] /\ "ASYNC" \notin flags'[b]
      /\ "STALE" \in flags[b] => "STALE" \in flags'[b]
  BY <1>1 DEF GotMiss, Modify, TypeOK, Flag, WriteFlags
<1>3. ioq' = ioq \cup {b}
  BY DEF GotMiss
<1>4. TypeOK'
  BY <1>1, <1>2, <1>3 DEF GotMiss, Modify, Change, Goto, TypeOK, Label, ioVars
<1>5. Placed'
  BY <1>1 DEF GotMiss, Modify, Goto, TypeOK, Placed, InGetblk
<1>6. FreeIffNotBusy' /\ OneBufferPerBlock'
  BY <1>1, <1>2 DEF GotMiss, FreeIffNotBusy, OneBufferPerBlock, InFree
<1>7. OneOwner'
  <2>1. \A q \in Proc : \A c \in Buf : Owns(q, c)' <=> Owns(q, c)
    BY <1>1 DEF GotMiss, Goto, Owns, TypeOK, Placed, InGetblk
  <2> QED BY <1>1, <1>2, <1>3, <2>1 DEF OneOwner
<1>8. Transfers'
  BY <1>1, <1>2, <1>3 DEF GotMiss, Modify, Goto, Transfers, InGetblk, OneOwner, Owns, TypeOK, Placed
<1> QED BY <1>4, <1>5, <1>6, <1>7, <1>8

(* Entering the second half of breada() keeps the invariant.               *)
LEMMA ReadAheadInv ==
    ASSUME CacheInv, NEW p \in Proc, ReadAhead(p)
    PROVE  CacheInv'
<1> USE ConstantAssumption DEF CacheInv
<1>1. TypeOK'
  <2>1. call[p].second \in Block \cup {NoBlock}
    BY DEF TypeOK, Call
  <2> QED BY <2>1, SMTT(30) DEF TypeOK, ReadAhead, Goto, Label, bufVars, ioVars
<1>2. Placed'
  BY DEF TypeOK, Placed, InGetblk, ReadAhead, Enter, Goto, Sleep, Call, Op, bufVars, ioVars, Runs
<1>3. FreeIffNotBusy' /\ OneBufferPerBlock'
  BY DEF FreeIffNotBusy, OneBufferPerBlock, InFree, ReadAhead, Enter, bufVars
<1>4. OneOwner'
  BY DEF TypeOK, Placed, OneOwner, Owns, ReadAhead, Enter, Goto, Sleep, bufVars, ioVars
<1>5. Transfers'
  BY DEF TypeOK, Placed, Transfers, InGetblk, ReadAhead, Enter, Goto, Sleep, Call, Op, bufVars, ioVars
<1> QED BY <1>1, <1>2, <1>3, <1>4, <1>5

(* A read-ahead block that is already there keeps the invariant.           *)
LEMMA AheadHitInv ==
    ASSUME CacheInv, NEW p \in Proc, AheadHit(p)
    PROVE  CacheInv'
<1> USE ConstantAssumption DEF CacheInv
<1> DEFINE b == cur[p]
           f == flags[b]
<1>1. /\ b \in Buf /\ Owns(p, b) /\ b \notin ioq /\ "BUSY" \in flags[b]
      /\ pc[p] = "got" /\ role[p] = "second" /\ call[p].op = "breada"
  BY DEF AheadHit, Placed, Transfers, OneOwner, Owns
<1>2. /\ f \in SUBSET Flag /\ Brelse(b, f, wchan) /\ wchan \in [Proc -> Chan]
      /\ "STALE" \in flags[b] => "STALE" \in f
  BY <1>1 DEF AheadHit, TypeOK, Flag, Chan
<1>3. /\ flags' \in [Buf -> SUBSET Flag] /\ freelist' \in Seq(Buf)
      /\ flwanted' \in BOOLEAN /\ wchan' \in [Proc -> Chan]
      /\ FreeIffNotBusy'
      /\ \A c \in Buf : c # b => flags'[c] = flags[c]
      /\ "BUSY" \notin flags'[b] /\ "ASYNC" \notin flags'[b]
      /\ blkno' = blkno /\ OneBufferPerBlock => OneBufferPerBlock'
  BY <1>1, <1>2, BrelseType
<1>4. blkno' = blkno /\ ioq' = ioq
  BY DEF AheadHit, ioVars
<1> HIDE DEF f
<1>5. TypeOK'
  BY <1>1, <1>3 DEF AheadHit, Goto, TypeOK, Label, ioVars, Chan
<1>6. Placed'
  BY <1>1 DEF AheadHit, Goto, TypeOK, Placed, InGetblk
<1>7. \A q \in Proc : \A c \in Buf : Owns(q, c)' <=> Owns(q, c) /\ c # b
  BY <1>1 DEF AheadHit, Goto, Owns, TypeOK, Placed, OneOwner, Transfers, InGetblk
<1>8. OneOwner'
  BY <1>1, <1>3, <1>4, <1>7 DEF OneOwner
<1>9. Transfers'
  <2>1. /\ \A c \in ioq' : "BUSY" \in flags'[c] /\ "DONE" \notin flags'[c]
        /\ \A c \in Buf : "ASYNC" \in flags'[c] => c \in ioq'
    BY <1>1, <1>3, <1>4 DEF Transfers, TypeOK
  <2>2. /\ pc' = [pc EXCEPT ![p] = "join"]
        /\ UNCHANGED <<call, role, ret>>
        /\ cur' = [cur EXCEPT ![p] = NoBuf] /\ bp' = bp
    BY DEF AheadHit, Goto
  <2>4. ASSUME NEW q \in Proc
        PROVE  /\ (bp[q] \in ioq)' =>
                     \/ pc'[q] \in {"ahead", "join", "rwait"}
                     \/ InGetblk(q)' /\ role'[q] = "second" /\ call'[q].op = "breada"
               /\ (cur[q] \in ioq)' => pc'[q] \in {"found", "wwait"}
               /\ cur'[q] # NoBuf /\ pc'[q] # "found" => cur'[q] # bp'[q]
    <3>1. CASE q = p
      BY <1>1, <1>4, <2>2, <3>1 DEF Transfers, TypeOK
    <3>2. CASE q # p
      <4>1. /\ pc'[q] = pc[q] /\ role'[q] = role[q] /\ call'[q] = call[q]
            /\ ret'[q] = ret[q] /\ cur'[q] = cur[q] /\ bp'[q] = bp[q]
        BY <2>2, <2>4, <3>2 DEF TypeOK
      <4>2. InGetblk(q)' <=> InGetblk(q)
        BY <4>1 DEF InGetblk
      <4> QED BY <1>4, <2>4, <4>1, <4>2 DEF Transfers
    <3> QED BY <3>1, <3>2
  <2> QED BY <2>1, <2>4 DEF Transfers
<1> QED BY <1>3, <1>4, <1>5, <1>6, <1>8, <1>9

(* Starting a read-ahead keeps the invariant.                              *)
LEMMA AheadMissInv ==
    ASSUME CacheInv, NEW p \in Proc, AheadMiss(p)
    PROVE  CacheInv'
<1> USE ConstantAssumption DEF CacheInv
<1> DEFINE b == cur[p]
<1>1. b \in Buf /\ pc[p] = "got" /\ role[p] = "second" /\ call[p].op = "breada" /\ b \notin ioq /\ "BUSY" \in flags[b] /\ "ASYNC" \notin flags[b]
  BY DEF AheadMiss, AheadFlags, Modify, Placed, Transfers, OneOwner, Owns
<1>2. /\ flags' \in [Buf -> SUBSET Flag]
      /\ \A c \in Buf : c # b => flags'[c] = flags[c]
      /\ "BUSY" \in flags'[b] /\ "DONE" \notin flags'[b] /\ "ASYNC" \in flags'[b]
      /\ "STALE" \in flags[b] => "STALE" \in flags'[b]
  BY <1>1 DEF AheadMiss, AheadFlags, Modify, TypeOK, Flag, WriteFlags
<1>3. ioq' = ioq \cup {b}
  BY DEF AheadMiss, AheadFlags
<1>4. TypeOK'
  BY <1>1, <1>2, <1>3 DEF AheadMiss, AheadFlags, Modify, Change, Goto, TypeOK, Label, ioVars
<1>5. Placed'
  BY <1>1 DEF AheadMiss, AheadFlags, Modify, Goto, TypeOK, Placed, InGetblk
<1>6. FreeIffNotBusy' /\ OneBufferPerBlock'
  BY <1>1, <1>2 DEF AheadMiss, AheadFlags, FreeIffNotBusy, OneBufferPerBlock, InFree
<1>7. OneOwner'
  <2>1. \A q \in Proc : \A c \in Buf : Owns(q, c)' <=> Owns(q, c) /\ c # b
    BY <1>1 DEF AheadMiss, AheadFlags, Goto, Owns, TypeOK, Placed, OneOwner, Transfers
  <2> QED BY <1>1, <1>2, <1>3, <2>1 DEF OneOwner
<1>8. Transfers'
  BY <1>1, <1>2, <1>3 DEF AheadMiss, AheadFlags, Modify, Goto, Transfers, InGetblk, OneOwner, Owns, TypeOK, Placed
<1> QED BY <1>4, <1>5, <1>6, <1>7, <1>8

(* The third half of breada() keeps the invariant.                         *)
LEMMA JoinInv ==
    ASSUME CacheInv, NEW p \in Proc, Join(p)
    PROVE  CacheInv'
<1> USE ConstantAssumption DEF CacheInv
<1>1. TypeOK'
  <2>1. call[p].blk \in Block /\ [call[p] EXCEPT !.op = "read"] \in Call
    BY SMTT(30) DEF TypeOK, Call, Op
  <2>2. call' \in [Proc -> Call]
    BY <2>1 DEF TypeOK, Join
  <2> QED BY <2>1, <2>2, ZenonT(40) DEF TypeOK, Join, Goto, Label, bufVars, ioVars
<1>2. Placed'
  BY DEF TypeOK, Placed, InGetblk, Join, Enter, Goto, Sleep, Call, Op, bufVars, ioVars, Runs
<1>3. FreeIffNotBusy' /\ OneBufferPerBlock'
  BY DEF FreeIffNotBusy, OneBufferPerBlock, InFree, Join, Enter, bufVars
<1>4. OneOwner'
  BY DEF TypeOK, Placed, OneOwner, Owns, Join, Enter, Goto, Sleep, bufVars, ioVars
<1>5. Transfers'
  BY DEF TypeOK, Placed, Transfers, InGetblk, Join, Enter, Goto, Sleep, Call, Op, bufVars, ioVars
<1> QED BY <1>1, <1>2, <1>3, <1>4, <1>5

(* The end of iowait() in a read keeps the invariant.                      *)
LEMMA ReadWaitInv ==
    ASSUME CacheInv, NEW p \in Proc, ReadWait(p)
    PROVE  CacheInv'
<1> USE ConstantAssumption DEF CacheInv
<1>1. TypeOK'
  <2>1. bp[p] \in Buf
    BY DEF Placed, ReadWait
  <2> QED BY <2>1, ZenonT(40) DEF TypeOK, ReadWait, Iowait, Goto, Sleep, Label, bufVars, ioVars
<1>2. Placed'
  BY DEF TypeOK, Placed, InGetblk, ReadWait, Enter, Goto, Sleep, Iowait, Call, Op, bufVars, ioVars, Runs
<1>3. FreeIffNotBusy' /\ OneBufferPerBlock'
  BY DEF FreeIffNotBusy, OneBufferPerBlock, InFree, ReadWait, Enter, bufVars
<1>4. OneOwner'
  BY DEF TypeOK, Placed, OneOwner, Owns, ReadWait, Enter, Goto, Sleep, Iowait, bufVars, ioVars
<1>5. Transfers'
  BY DEF TypeOK, Placed, Transfers, InGetblk, ReadWait, Enter, Goto, Sleep, Iowait, Call, Op, bufVars, ioVars
<1> QED BY <1>1, <1>2, <1>3, <1>4, <1>5

(* brelse() after a read keeps the invariant.                              *)
LEMMA GiveBackInv ==
    ASSUME CacheInv, NEW p \in Proc, GiveBack(p)
    PROVE  CacheInv'
<1> USE ConstantAssumption DEF CacheInv
<1> DEFINE b == bp[p]
           f == flags[b]
<1>1. /\ b \in Buf /\ Owns(p, b) /\ b \notin ioq /\ "BUSY" \in flags[b]
      /\ pc[p] = "hold"
  BY DEF GiveBack, Placed, Transfers, OneOwner, Owns, InGetblk
<1>2. /\ f \in SUBSET Flag /\ Brelse(b, f, wchan) /\ wchan \in [Proc -> Chan]
      /\ "STALE" \in flags[b] => "STALE" \in f
  BY <1>1 DEF GiveBack, TypeOK, Flag, Chan
<1>3. /\ flags' \in [Buf -> SUBSET Flag] /\ freelist' \in Seq(Buf)
      /\ flwanted' \in BOOLEAN /\ wchan' \in [Proc -> Chan]
      /\ FreeIffNotBusy'
      /\ \A c \in Buf : c # b => flags'[c] = flags[c]
      /\ "BUSY" \notin flags'[b] /\ "ASYNC" \notin flags'[b]
      /\ blkno' = blkno /\ OneBufferPerBlock => OneBufferPerBlock'
  BY <1>1, <1>2, BrelseType
<1>4. blkno' = blkno /\ ioq' = ioq
  BY DEF GiveBack, ioVars
<1> HIDE DEF f
<1>5. TypeOK'
  BY <1>1, <1>3 DEF GiveBack, Goto, TypeOK, Label, ioVars, Chan
<1>6. Placed'
  BY <1>1 DEF GiveBack, Goto, TypeOK, Placed, InGetblk
<1>7. \A q \in Proc : \A c \in Buf : Owns(q, c)' <=> Owns(q, c) /\ c # b
  BY <1>1 DEF GiveBack, Goto, Owns, TypeOK, Placed, OneOwner, Transfers, InGetblk
<1>8. OneOwner'
  BY <1>1, <1>3, <1>4, <1>7 DEF OneOwner
<1>9. Transfers'
  <2>1. /\ \A c \in ioq' : "BUSY" \in flags'[c] /\ "DONE" \notin flags'[c]
        /\ \A c \in Buf : "ASYNC" \in flags'[c] => c \in ioq'
    BY <1>1, <1>3, <1>4 DEF Transfers, TypeOK
  <2>2. /\ pc' = [pc EXCEPT ![p] = "user"]
        /\ UNCHANGED <<call, role, ret>>
        /\ cur' = cur /\ bp' = [bp EXCEPT ![p] = NoBuf]
    BY DEF GiveBack, Goto
  <2>3. cur[p] = NoBuf
    BY <1>1 DEF Transfers, Placed, InGetblk, TypeOK
  <2>4. ASSUME NEW q \in Proc
        PROVE  /\ (bp[q] \in ioq)' =>
                     \/ pc'[q] \in {"ahead", "join", "rwait"}
                     \/ InGetblk(q)' /\ role'[q] = "second" /\ call'[q].op = "breada"
               /\ (cur[q] \in ioq)' => pc'[q] \in {"found", "wwait"}
               /\ cur'[q] # NoBuf /\ pc'[q] # "found" => cur'[q] # bp'[q]
    <3>1. CASE q = p
      BY <1>1, <1>4, <2>2, <2>3, <3>1 DEF Transfers, TypeOK
    <3>2. CASE q # p
      <4>1. /\ pc'[q] = pc[q] /\ role'[q] = role[q] /\ call'[q] = call[q]
            /\ ret'[q] = ret[q] /\ cur'[q] = cur[q] /\ bp'[q] = bp[q]
        BY <2>2, <2>4, <3>2 DEF TypeOK
      <4>2. InGetblk(q)' <=> InGetblk(q)
        BY <4>1 DEF InGetblk
      <4> QED BY <1>4, <2>4, <4>1, <4>2 DEF Transfers
    <3> QED BY <3>1, <3>2
  <2> QED BY <2>1, <2>4 DEF Transfers
<1> QED BY <1>3, <1>4, <1>5, <1>6, <1>8, <1>9

(* Changing the content of a held buffer keeps the invariant.              *)
LEMMA BeginModifyInv ==
    ASSUME CacheInv, NEW p \in Proc, BeginModify(p)
    PROVE  CacheInv'
<1> USE ConstantAssumption DEF CacheInv
<1>1. TypeOK'
  BY DEF TypeOK, Placed, BeginModify, Enter, Goto, Sleep, Label, Call, Op, bufVars, ioVars, Runs
<1>2. Placed'
  BY DEF TypeOK, Placed, InGetblk, BeginModify, Enter, Goto, Sleep, Call, Op, bufVars, ioVars, Runs
<1>3. FreeIffNotBusy' /\ OneBufferPerBlock'
  BY DEF FreeIffNotBusy, OneBufferPerBlock, InFree, BeginModify, Enter, bufVars
<1>4. OneOwner'
  BY DEF TypeOK, Placed, OneOwner, Owns, BeginModify, Enter, Goto, Sleep, bufVars, ioVars
<1>5. Transfers'
  BY DEF TypeOK, Placed, Transfers, InGetblk, BeginModify, Enter, Goto, Sleep, Call, Op, bufVars, ioVars
<1> QED BY <1>1, <1>2, <1>3, <1>4, <1>5

(* bmap()'s second allocation keeps the invariant.                         *)
LEMMA PairSecondInv ==
    ASSUME CacheInv, NEW p \in Proc, PairSecond(p)
    PROVE  CacheInv'
<1> USE ConstantAssumption DEF CacheInv
<1>1. TypeOK'
  BY DEF TypeOK, Placed, PairSecond, Enter, Goto, Sleep, Label, Call, Op, bufVars, ioVars, Runs
<1>2. Placed'
  BY DEF TypeOK, Placed, InGetblk, PairSecond, Enter, Goto, Sleep, Call, Op, bufVars, ioVars, Runs
<1>3. FreeIffNotBusy' /\ OneBufferPerBlock'
  BY DEF FreeIffNotBusy, OneBufferPerBlock, InFree, PairSecond, Enter, bufVars
<1>4. OneOwner'
  BY DEF TypeOK, Placed, OneOwner, Owns, PairSecond, Enter, Goto, Sleep, bufVars, ioVars
<1>5. Transfers'
  BY DEF TypeOK, Placed, Transfers, InGetblk, PairSecond, Enter, Goto, Sleep, Call, Op, bufVars, ioVars
<1> QED BY <1>1, <1>2, <1>3, <1>4, <1>5

(* The new block of bmap() keeps the invariant.                            *)
LEMMA PairGotInv ==
    ASSUME CacheInv, NEW p \in Proc, PairGot(p)
    PROVE  CacheInv'
<1> USE ConstantAssumption DEF CacheInv
<1>1. TypeOK'
  BY DEF TypeOK, Placed, PairGot, Enter, Goto, Sleep, Label, Call, Op, bufVars, ioVars, Runs
<1>2. Placed'
  BY DEF TypeOK, Placed, InGetblk, PairGot, Enter, Goto, Sleep, Call, Op, bufVars, ioVars, Runs
<1>3. FreeIffNotBusy' /\ OneBufferPerBlock'
  BY DEF FreeIffNotBusy, OneBufferPerBlock, InFree, PairGot, Enter, bufVars
<1>4. OneOwner'
  BY DEF TypeOK, Placed, OneOwner, Owns, PairGot, Enter, Goto, Sleep, bufVars, ioVars
<1>5. Transfers'
  BY DEF TypeOK, Placed, Transfers, InGetblk, PairGot, Enter, Goto, Sleep, Call, Op, bufVars, ioVars
<1> QED BY <1>1, <1>2, <1>3, <1>4, <1>5

(* The indirect block of bmap() keeps the invariant.                       *)
LEMMA PairParentInv ==
    ASSUME CacheInv, NEW p \in Proc, PairParent(p)
    PROVE  CacheInv'
<1> USE ConstantAssumption DEF CacheInv
<1>1. TypeOK'
  BY DEF TypeOK, Placed, PairParent, Enter, Goto, Sleep, Label, Call, Op, bufVars, ioVars, Runs
<1>2. Placed'
  BY DEF TypeOK, Placed, InGetblk, PairParent, Enter, Goto, Sleep, Call, Op, bufVars, ioVars, Runs
<1>3. FreeIffNotBusy' /\ OneBufferPerBlock'
  BY DEF FreeIffNotBusy, OneBufferPerBlock, InFree, PairParent, Enter, bufVars
<1>4. OneOwner'
  BY DEF TypeOK, Placed, OneOwner, Owns, PairParent, Enter, Goto, Sleep, bufVars, ioVars
<1>5. Transfers'
  BY DEF TypeOK, Placed, Transfers, InGetblk, PairParent, Enter, Goto, Sleep, Call, Op, bufVars, ioVars
<1> QED BY <1>1, <1>2, <1>3, <1>4, <1>5

(* bdwrite() keeps the invariant.                                          *)
LEMMA ModifyDelayedInv ==
    ASSUME CacheInv, NEW p \in Proc, ModifyDelayed(p)
    PROVE  CacheInv'
<1> USE ConstantAssumption DEF CacheInv
<1> DEFINE b == cur[p]
           f == flags[b] \cup {"DELWRI", "DONE"}
<1>1. /\ b \in Buf /\ Owns(p, b) /\ b \notin ioq /\ "BUSY" \in flags[b]
      /\ pc[p] = "modify"
  BY DEF ModifyDelayed, Modify, Placed, Transfers, OneOwner, Owns
<1>2. /\ f \in SUBSET Flag /\ Brelse(b, f, wchan) /\ wchan \in [Proc -> Chan]
      /\ "STALE" \in flags[b] => "STALE" \in f
  BY <1>1 DEF ModifyDelayed, Modify, TypeOK, Flag, Chan
<1>3. /\ flags' \in [Buf -> SUBSET Flag] /\ freelist' \in Seq(Buf)
      /\ flwanted' \in BOOLEAN /\ wchan' \in [Proc -> Chan]
      /\ FreeIffNotBusy'
      /\ \A c \in Buf : c # b => flags'[c] = flags[c]
      /\ "BUSY" \notin flags'[b] /\ "ASYNC" \notin flags'[b]
      /\ blkno' = blkno /\ OneBufferPerBlock => OneBufferPerBlock'
  BY <1>1, <1>2, BrelseType
<1>4. blkno' = blkno /\ ioq' = ioq
  BY DEF ModifyDelayed, ioVars
<1> HIDE DEF f
<1>5. TypeOK'
  <2>1. data' \in [Buf -> Value]
    BY <1>1 DEF ModifyDelayed, Modify, Change, TypeOK
  <2>2. /\ UNCHANGED <<blkno, ioVars, call, want, role, bp, ret, error>>
        /\ cur' = [cur EXCEPT ![p] = NoBuf] /\ cpu' \in {NoProc, p}
        /\ pc' = [pc EXCEPT ![p] = ret[p]] /\ ret[p] \in {"user", "parent"}
    BY <1>1 DEF ModifyDelayed, Goto, Placed
  <2> QED
    BY <1>1, <1>3, <2>1, <2>2 DEF TypeOK, Label, ioVars, Chan
<1>6. Placed'
  BY <1>1 DEF ModifyDelayed, Modify, Change, Goto, TypeOK, Placed, InGetblk
<1>7. \A q \in Proc : \A c \in Buf : Owns(q, c)' <=> Owns(q, c) /\ c # b
  BY <1>1 DEF ModifyDelayed, Modify, Change, Goto, Owns, TypeOK, Placed, OneOwner, Transfers, InGetblk
<1>8. OneOwner'
  BY <1>1, <1>3, <1>4, <1>7 DEF OneOwner
<1>9. Transfers'
  <2>1. /\ \A c \in ioq' : "BUSY" \in flags'[c] /\ "DONE" \notin flags'[c]
        /\ \A c \in Buf : "ASYNC" \in flags'[c] => c \in ioq'
    BY <1>1, <1>3, <1>4 DEF Transfers, TypeOK
  <2>2. /\ pc' = [pc EXCEPT ![p] = ret[p]]
        /\ UNCHANGED <<call, role, ret>>
        /\ cur' = [cur EXCEPT ![p] = NoBuf] /\ bp' = bp
    BY DEF ModifyDelayed, Goto
  <2>3. bp[p] \notin ioq /\ ret[p] \in {"user", "parent"}
    BY <1>1 DEF Transfers, Placed, InGetblk, TypeOK
  <2>4. ASSUME NEW q \in Proc
        PROVE  /\ (bp[q] \in ioq)' =>
                     \/ pc'[q] \in {"ahead", "join", "rwait"}
                     \/ InGetblk(q)' /\ role'[q] = "second" /\ call'[q].op = "breada"
               /\ (cur[q] \in ioq)' => pc'[q] \in {"found", "wwait"}
               /\ cur'[q] # NoBuf /\ pc'[q] # "found" => cur'[q] # bp'[q]
    <3>1. CASE q = p
      BY <1>1, <1>4, <2>2, <2>3, <3>1 DEF Transfers, TypeOK
    <3>2. CASE q # p
      <4>1. /\ pc'[q] = pc[q] /\ role'[q] = role[q] /\ call'[q] = call[q]
            /\ ret'[q] = ret[q] /\ cur'[q] = cur[q] /\ bp'[q] = bp[q]
        BY <2>2, <2>4, <3>2 DEF TypeOK
      <4>2. InGetblk(q)' <=> InGetblk(q)
        BY <4>1 DEF InGetblk
      <4> QED BY <1>4, <2>4, <4>1, <4>2 DEF Transfers
    <3> QED BY <3>1, <3>2
  <2> QED BY <2>1, <2>4 DEF Transfers
<1> QED BY <1>3, <1>4, <1>5, <1>6, <1>8, <1>9

(* bawrite() keeps the invariant.                                          *)
LEMMA ModifyAsyncInv ==
    ASSUME CacheInv, NEW p \in Proc, ModifyAsync(p)
    PROVE  CacheInv'
<1> USE ConstantAssumption DEF CacheInv
<1> DEFINE b == cur[p]
           g == WriteFlags(flags[b] \cup {"AGE"}) \cup {"BUSY", "ASYNC"}
<1>1. /\ b \in Buf /\ b \notin ioq /\ "BUSY" \in flags[b] /\ pc[p] = "modify"
      /\ Owns(p, b) /\ ret[p] \in {"user", "parent"}
  BY DEF ModifyAsync, Modify, Placed, Transfers, OneOwner, Owns
<1>2. /\ flags' = [flags EXCEPT ![b] = g] /\ ioq' = ioq \cup {b}
      /\ pc' = [pc EXCEPT ![p] = "count"] /\ cpu' = p
      /\ cur' = [cur EXCEPT ![p] = NoBuf] /\ ret' = ret
      /\ UNCHANGED <<blkno, freelist, flwanted, basyncnt, basywait, disk,
                     wchan, call, want, role, bp, error>>
  BY <1>1 DEF ModifyAsync, StartAsync, Goto, TypeOK
<1>3. data' \in [Buf -> Value]
  BY <1>1 DEF ModifyAsync, Modify, Change, TypeOK
<1>4. /\ g \in SUBSET Flag /\ "BUSY" \in g /\ "ASYNC" \in g /\ "DONE" \notin g
      /\ "STALE" \in flags[b] => "STALE" \in g
  BY <1>1 DEF TypeOK, WriteFlags, Flag
<1> HIDE DEF g
<1>5. /\ flags' \in [Buf -> SUBSET Flag] /\ flags'[b] = g
      /\ \A c \in Buf : c # b => flags'[c] = flags[c]
  BY <1>1, <1>2, <1>4 DEF TypeOK
<1>6. TypeOK'
  BY <1>1, <1>2, <1>3, <1>5 DEF TypeOK, Label
<1>7. Placed'
  BY <1>1, <1>2 DEF TypeOK, Placed, InGetblk
<1>8. FreeIffNotBusy' /\ OneBufferPerBlock'
  BY <1>1, <1>2, <1>4, <1>5 DEF FreeIffNotBusy, OneBufferPerBlock, InFree
<1>9. OneOwner'
  <2>1. \A q \in Proc : \A c \in Buf : Owns(q, c)' <=> Owns(q, c) /\ c # b
    BY <1>1, <1>2 DEF Owns, TypeOK, Placed, OneOwner, Transfers
  <2> QED BY <1>1, <1>2, <1>4, <1>5, <2>1 DEF OneOwner
<1>10. Transfers'
  BY <1>1, <1>2, <1>4, <1>5 DEF Transfers, InGetblk, OneOwner, Owns, TypeOK, Placed
<1> QED BY <1>6, <1>7, <1>8, <1>9, <1>10

(* bwrite() keeps the invariant.                                           *)
LEMMA ModifySyncInv ==
    ASSUME CacheInv, NEW p \in Proc, ModifySync(p)
    PROVE  CacheInv'
<1> USE ConstantAssumption DEF CacheInv
<1> DEFINE b == cur[p]
<1>1. b \in Buf /\ pc[p] = "modify" /\ b \notin ioq /\ "BUSY" \in flags[b] /\ "ASYNC" \notin flags[b]
  BY DEF ModifySync, Modify, Placed, Transfers, OneOwner, Owns
<1>2. /\ flags' \in [Buf -> SUBSET Flag]
      /\ \A c \in Buf : c # b => flags'[c] = flags[c]
      /\ "BUSY" \in flags'[b] /\ "DONE" \notin flags'[b] /\ "ASYNC" \notin flags'[b]
      /\ "STALE" \in flags[b] => "STALE" \in flags'[b]
  BY <1>1 DEF ModifySync, Modify, TypeOK, Flag, WriteFlags
<1>3. ioq' = ioq \cup {b}
  BY DEF ModifySync
<1>4. TypeOK'
  BY <1>1, <1>2, <1>3 DEF ModifySync, Modify, Change, Goto, TypeOK, Label, ioVars
<1>5. Placed'
  BY <1>1 DEF ModifySync, Modify, Goto, TypeOK, Placed, InGetblk
<1>6. FreeIffNotBusy' /\ OneBufferPerBlock'
  BY <1>1, <1>2 DEF ModifySync, FreeIffNotBusy, OneBufferPerBlock, InFree
<1>7. OneOwner'
  <2>1. \A q \in Proc : \A c \in Buf : Owns(q, c)' <=> Owns(q, c)
    BY <1>1 DEF ModifySync, Modify, Goto, Owns, TypeOK, Placed
  <2> QED BY <1>1, <1>2, <1>3, <2>1 DEF OneOwner
<1>8. Transfers'
  BY <1>1, <1>2, <1>3 DEF ModifySync, Modify, Goto, Transfers, InGetblk, OneOwner, Owns, TypeOK, Placed
<1> QED BY <1>4, <1>5, <1>6, <1>7, <1>8

(* The end of iowait() in a write keeps the invariant.                     *)
LEMMA WriteWaitInv ==
    ASSUME CacheInv, NEW p \in Proc, WriteWait(p)
    PROVE  CacheInv'
<1> USE ConstantAssumption DEF CacheInv
<1>1. TypeOK'
  BY DEF TypeOK, Placed, WriteWait, Enter, Goto, Sleep, Label, Call, Op, bufVars, ioVars, Runs
<1>2. Placed'
  BY DEF TypeOK, Placed, InGetblk, WriteWait, Enter, Goto, Sleep, Call, Op, bufVars, ioVars, Runs
<1>3. FreeIffNotBusy' /\ OneBufferPerBlock'
  BY DEF FreeIffNotBusy, OneBufferPerBlock, InFree, WriteWait, Enter, bufVars
<1>4. OneOwner'
  BY DEF TypeOK, Placed, OneOwner, Owns, WriteWait, Enter, Goto, Sleep, bufVars, ioVars
<1>5. Transfers'
  BY DEF TypeOK, Placed, Transfers, InGetblk, WriteWait, Enter, Goto, Sleep, Call, Op, bufVars, ioVars
<1> QED BY <1>1, <1>2, <1>3, <1>4, <1>5

(* brelse() after a write keeps the invariant.                             *)
LEMMA WriteDoneInv ==
    ASSUME CacheInv, NEW p \in Proc, WriteDone(p)
    PROVE  CacheInv'
<1> USE ConstantAssumption DEF CacheInv
<1> DEFINE b == cur[p]
           f == flags[b]
<1>1. /\ b \in Buf /\ Owns(p, b) /\ b \notin ioq /\ "BUSY" \in flags[b]
      /\ pc[p] = "wwait" /\ "DONE" \in flags[b]
  BY DEF WriteDone, Placed, Transfers, OneOwner, Owns
<1>2. /\ f \in SUBSET Flag /\ Brelse(b, f, wchan) /\ wchan \in [Proc -> Chan]
      /\ "STALE" \in flags[b] => "STALE" \in f
  BY <1>1 DEF WriteDone, TypeOK, Flag, Chan
<1>3. /\ flags' \in [Buf -> SUBSET Flag] /\ freelist' \in Seq(Buf)
      /\ flwanted' \in BOOLEAN /\ wchan' \in [Proc -> Chan]
      /\ FreeIffNotBusy'
      /\ \A c \in Buf : c # b => flags'[c] = flags[c]
      /\ "BUSY" \notin flags'[b] /\ "ASYNC" \notin flags'[b]
      /\ blkno' = blkno /\ OneBufferPerBlock => OneBufferPerBlock'
  BY <1>1, <1>2, BrelseType
<1>4. blkno' = blkno /\ ioq' = ioq
  BY DEF WriteDone, ioVars
<1> HIDE DEF f
<1>5. TypeOK'
  BY <1>1, <1>3 DEF WriteDone, Goto, TypeOK, Label, ioVars, Chan
<1>6. Placed'
  BY <1>1 DEF WriteDone, Goto, TypeOK, Placed, InGetblk
<1>7. \A q \in Proc : \A c \in Buf : Owns(q, c)' <=> Owns(q, c) /\ c # b
  BY <1>1 DEF WriteDone, Goto, Owns, TypeOK, Placed, OneOwner, Transfers, InGetblk
<1>8. OneOwner'
  BY <1>1, <1>3, <1>4, <1>7 DEF OneOwner
<1>9. Transfers'
  <2>1. /\ \A c \in ioq' : "BUSY" \in flags'[c] /\ "DONE" \notin flags'[c]
        /\ \A c \in Buf : "ASYNC" \in flags'[c] => c \in ioq'
    BY <1>1, <1>3, <1>4 DEF Transfers, TypeOK
  <2>2. /\ pc' = [pc EXCEPT ![p] = ret[p]]
        /\ UNCHANGED <<call, role, ret>>
        /\ cur' = [cur EXCEPT ![p] = NoBuf] /\ bp' = bp
    BY DEF WriteDone, Goto
  <2>3. bp[p] \notin ioq /\ ret[p] \in {"user", "parent"}
    BY <1>1 DEF Transfers, Placed, InGetblk, TypeOK
  <2>4. ASSUME NEW q \in Proc
        PROVE  /\ (bp[q] \in ioq)' =>
                     \/ pc'[q] \in {"ahead", "join", "rwait"}
                     \/ InGetblk(q)' /\ role'[q] = "second" /\ call'[q].op = "breada"
               /\ (cur[q] \in ioq)' => pc'[q] \in {"found", "wwait"}
               /\ cur'[q] # NoBuf /\ pc'[q] # "found" => cur'[q] # bp'[q]
    <3>1. CASE q = p
      BY <1>1, <1>4, <2>2, <2>3, <3>1 DEF Transfers, TypeOK
    <3>2. CASE q # p
      <4>1. /\ pc'[q] = pc[q] /\ role'[q] = role[q] /\ call'[q] = call[q]
            /\ ret'[q] = ret[q] /\ cur'[q] = cur[q] /\ bp'[q] = bp[q]
        BY <2>2, <2>4, <3>2 DEF TypeOK
      <4>2. InGetblk(q)' <=> InGetblk(q)
        BY <4>1 DEF InGetblk
      <4> QED BY <1>4, <2>4, <4>1, <4>2 DEF Transfers
    <3> QED BY <3>1, <3>2
  <2> QED BY <2>1, <2>4 DEF Transfers
<1> QED BY <1>3, <1>4, <1>5, <1>6, <1>8, <1>9

(* Counting an asynchronous write keeps the invariant.                     *)
LEMMA CountInv ==
    ASSUME CacheInv, NEW p \in Proc, Count(p)
    PROVE  CacheInv'
<1> USE ConstantAssumption DEF CacheInv
<1>1. TypeOK'
  BY DEF TypeOK, Placed, Count, Enter, Goto, Sleep, Label, Call, Op, bufVars, ioVars, Runs
<1>2. Placed'
  BY DEF TypeOK, Placed, InGetblk, Count, Enter, Goto, Sleep, Call, Op, bufVars, ioVars, Runs
<1>3. FreeIffNotBusy' /\ OneBufferPerBlock'
  BY DEF FreeIffNotBusy, OneBufferPerBlock, InFree, Count, Enter, bufVars
<1>4. OneOwner'
  BY DEF TypeOK, Placed, OneOwner, Owns, Count, Enter, Goto, Sleep, bufVars, ioVars
<1>5. Transfers'
  BY DEF TypeOK, Placed, Transfers, InGetblk, Count, Enter, Goto, Sleep, Call, Op, bufVars, ioVars
<1> QED BY <1>1, <1>2, <1>3, <1>4, <1>5

(* Writing one buffer in bflush() keeps the invariant.                     *)
LEMMA FlushWriteInv ==
    ASSUME CacheInv, NEW p \in Proc, FlushWrite(p)
    PROVE  CacheInv'
<1> USE ConstantAssumption DEF CacheInv
<1>0. PICK i \in DOMAIN freelist :
         /\ freelist' = RemoveAt(freelist, i)
         /\ StartAsync(p, freelist[i], flags[freelist[i]], "flush")
  BY DEF FlushWrite
<1> DEFINE b == freelist[i]
<1> DEFINE g == WriteFlags(flags[b]) \cup {"BUSY", "ASYNC"}
<1>1. /\ pc[p] = "flush"
      /\ (\E j \in DOMAIN freelist : b = freelist[j] /\ freelist' = RemoveAt(freelist, j))
      /\ UNCHANGED <<blkno, data, flwanted, basyncnt, basywait, disk, wchan, call, want, role, bp, error>>
  BY <1>0 DEF FlushWrite
<1>2. /\ flags' = [flags EXCEPT ![b] = g] /\ ioq' = ioq \cup {b}
      /\ ret' = [ret EXCEPT ![p] = "flush"] /\ cur' = [cur EXCEPT ![p] = NoBuf]
      /\ pc' = [pc EXCEPT ![p] = "count"] /\ cpu' = p
  BY <1>0, <1>1 DEF FlushWrite, StartAsync, Goto
<1>3. b \in Buf
  BY DEF TypeOK
<1>4. /\ g \in SUBSET Flag /\ "BUSY" \in g /\ "ASYNC" \in g /\ "DONE" \notin g
      /\ "STALE" \in flags[b] => "STALE" \in g
  BY <1>3 DEF TypeOK, WriteFlags, Flag
<1> HIDE DEF g
<1>5. /\ b \in Buf /\ "BUSY" \notin flags[b]
      /\ flags' \in [Buf -> SUBSET Flag] /\ flags'[b] = g
      /\ \A c \in Buf : c # b => flags'[c] = flags[c]
      /\ freelist' \in Seq(Buf) /\ FreeIffNotBusy'
  BY <1>1, <1>2, <1>4, TakeList
<1> HIDE DEF b
<1>6. TypeOK'
  BY <1>1, <1>2, <1>5 DEF TypeOK, Label
<1>7. Placed'
  BY <1>1, <1>2, <1>5 DEF TypeOK, Placed, InGetblk
<1>8. OneBufferPerBlock'
  BY <1>1, <1>4, <1>5 DEF OneBufferPerBlock
<1>9. /\ \A q \in Proc : ~Owns(q, b)
      /\ b \notin ioq
  BY <1>5 DEF OneOwner, Transfers
<1>10. OneOwner'
  <2>1. \A q \in Proc : \A c \in Buf : Owns(q, c)' <=> Owns(q, c)
    BY <1>1, <1>2 DEF Owns, TypeOK, Placed
  <2> QED BY <1>2, <1>4, <1>5, <1>9, <2>1 DEF OneOwner
<1>11. Transfers'
  BY <1>1, <1>2, <1>4, <1>5, <1>9 DEF Transfers, InGetblk, Owns, TypeOK, Placed
<1> QED BY <1>5, <1>6, <1>7, <1>8, <1>10, <1>11

(* The end of bflush() keeps the invariant.                                *)
LEMMA FlushEndInv ==
    ASSUME CacheInv, NEW p \in Proc, FlushEnd(p)
    PROVE  CacheInv'
<1> USE ConstantAssumption DEF CacheInv
<1>1. TypeOK'
  BY DEF TypeOK, Placed, FlushEnd, Enter, Goto, Sleep, Label, Call, Op, bufVars, ioVars, Runs
<1>2. Placed'
  BY DEF TypeOK, Placed, InGetblk, FlushEnd, Enter, Goto, Sleep, Call, Op, bufVars, ioVars, Runs
<1>3. FreeIffNotBusy' /\ OneBufferPerBlock'
  BY DEF FreeIffNotBusy, OneBufferPerBlock, InFree, FlushEnd, Enter, bufVars
<1>4. OneOwner'
  BY DEF TypeOK, Placed, OneOwner, Owns, FlushEnd, Enter, Goto, Sleep, bufVars, ioVars
<1>5. Transfers'
  BY DEF TypeOK, Placed, Transfers, InGetblk, FlushEnd, Enter, Goto, Sleep, Call, Op, bufVars, ioVars
<1> QED BY <1>1, <1>2, <1>3, <1>4, <1>5

(* Writing one buffer in bdflush() keeps the invariant.                    *)
LEMMA AgeWriteInv ==
    ASSUME CacheInv, NEW p \in Proc, AgeWrite(p)
    PROVE  CacheInv'
<1> USE ConstantAssumption DEF CacheInv
<1>0. PICK i \in DOMAIN freelist :
         /\ freelist' = RemoveAt(freelist, i)
         /\ StartAsync(p, freelist[i], flags[freelist[i]], "age")
  BY DEF AgeWrite
<1> DEFINE b == freelist[i]
<1> DEFINE g == WriteFlags(flags[b]) \cup {"BUSY", "ASYNC"}
<1>1. /\ pc[p] = "age"
      /\ (\E j \in DOMAIN freelist : b = freelist[j] /\ freelist' = RemoveAt(freelist, j))
      /\ UNCHANGED <<blkno, data, flwanted, basyncnt, basywait, disk, wchan, call, want, role, bp, error>>
  BY <1>0 DEF AgeWrite
<1>2. /\ flags' = [flags EXCEPT ![b] = g] /\ ioq' = ioq \cup {b}
      /\ ret' = [ret EXCEPT ![p] = "age"] /\ cur' = [cur EXCEPT ![p] = NoBuf]
      /\ pc' = [pc EXCEPT ![p] = "count"] /\ cpu' = p
  BY <1>0, <1>1 DEF AgeWrite, StartAsync, Goto
<1>3. b \in Buf
  BY DEF TypeOK
<1>4. /\ g \in SUBSET Flag /\ "BUSY" \in g /\ "ASYNC" \in g /\ "DONE" \notin g
      /\ "STALE" \in flags[b] => "STALE" \in g
  BY <1>3 DEF TypeOK, WriteFlags, Flag
<1> HIDE DEF g
<1>5. /\ b \in Buf /\ "BUSY" \notin flags[b]
      /\ flags' \in [Buf -> SUBSET Flag] /\ flags'[b] = g
      /\ \A c \in Buf : c # b => flags'[c] = flags[c]
      /\ freelist' \in Seq(Buf) /\ FreeIffNotBusy'
  BY <1>1, <1>2, <1>4, TakeList
<1> HIDE DEF b
<1>6. TypeOK'
  BY <1>1, <1>2, <1>5 DEF TypeOK, Label
<1>7. Placed'
  BY <1>1, <1>2, <1>5 DEF TypeOK, Placed, InGetblk
<1>8. OneBufferPerBlock'
  BY <1>1, <1>4, <1>5 DEF OneBufferPerBlock
<1>9. /\ \A q \in Proc : ~Owns(q, b)
      /\ b \notin ioq
  BY <1>5 DEF OneOwner, Transfers
<1>10. OneOwner'
  <2>1. \A q \in Proc : \A c \in Buf : Owns(q, c)' <=> Owns(q, c)
    BY <1>1, <1>2 DEF Owns, TypeOK, Placed
  <2> QED BY <1>2, <1>4, <1>5, <1>9, <2>1 DEF OneOwner
<1>11. Transfers'
  BY <1>1, <1>2, <1>4, <1>5, <1>9 DEF Transfers, InGetblk, Owns, TypeOK, Placed
<1> QED BY <1>5, <1>6, <1>7, <1>8, <1>10, <1>11

(* The end of bdflush() keeps the invariant.                               *)
LEMMA AgeEndInv ==
    ASSUME CacheInv, NEW p \in Proc, AgeEnd(p)
    PROVE  CacheInv'
<1> USE ConstantAssumption DEF CacheInv
<1>1. TypeOK'
  BY DEF TypeOK, Placed, AgeEnd, Enter, Goto, Sleep, Label, Call, Op, bufVars, ioVars, Runs
<1>2. Placed'
  BY DEF TypeOK, Placed, InGetblk, AgeEnd, Enter, Goto, Sleep, Call, Op, bufVars, ioVars, Runs
<1>3. FreeIffNotBusy' /\ OneBufferPerBlock'
  BY DEF FreeIffNotBusy, OneBufferPerBlock, InFree, AgeEnd, Enter, bufVars
<1>4. OneOwner'
  BY DEF TypeOK, Placed, OneOwner, Owns, AgeEnd, Enter, Goto, Sleep, bufVars, ioVars
<1>5. Transfers'
  BY DEF TypeOK, Placed, Transfers, InGetblk, AgeEnd, Enter, Goto, Sleep, Call, Op, bufVars, ioVars
<1> QED BY <1>1, <1>2, <1>3, <1>4, <1>5

(* Sleeping in bdwait() keeps the invariant.                               *)
LEMMA BdwaitSleepInv ==
    ASSUME CacheInv, NEW p \in Proc, BdwaitSleep(p)
    PROVE  CacheInv'
<1> USE ConstantAssumption DEF CacheInv
<1>1. TypeOK'
  BY DEF TypeOK, Placed, BdwaitSleep, Enter, Goto, Sleep, Label, Call, Op, bufVars, ioVars, Runs
<1>2. Placed'
  BY DEF TypeOK, Placed, InGetblk, BdwaitSleep, Enter, Goto, Sleep, Call, Op, bufVars, ioVars, Runs
<1>3. FreeIffNotBusy' /\ OneBufferPerBlock'
  BY DEF FreeIffNotBusy, OneBufferPerBlock, InFree, BdwaitSleep, Enter, bufVars
<1>4. OneOwner'
  BY DEF TypeOK, Placed, OneOwner, Owns, BdwaitSleep, Enter, Goto, Sleep, bufVars, ioVars
<1>5. Transfers'
  BY DEF TypeOK, Placed, Transfers, InGetblk, BdwaitSleep, Enter, Goto, Sleep, Call, Op, bufVars, ioVars
<1> QED BY <1>1, <1>2, <1>3, <1>4, <1>5

(* The end of bdwait() keeps the invariant.                                *)
LEMMA BdwaitEndInv ==
    ASSUME CacheInv, NEW p \in Proc, BdwaitEnd(p)
    PROVE  CacheInv'
<1> USE ConstantAssumption DEF CacheInv
<1>1. TypeOK'
  BY DEF TypeOK, Placed, BdwaitEnd, Enter, Goto, Sleep, Label, Call, Op, bufVars, ioVars, Runs
<1>2. Placed'
  BY DEF TypeOK, Placed, InGetblk, BdwaitEnd, Enter, Goto, Sleep, Call, Op, bufVars, ioVars, Runs
<1>3. FreeIffNotBusy' /\ OneBufferPerBlock'
  BY DEF FreeIffNotBusy, OneBufferPerBlock, InFree, BdwaitEnd, Enter, bufVars
<1>4. OneOwner'
  BY DEF TypeOK, Placed, OneOwner, Owns, BdwaitEnd, Enter, Goto, Sleep, bufVars, ioVars
<1>5. Transfers'
  BY DEF TypeOK, Placed, Transfers, InGetblk, BdwaitEnd, Enter, Goto, Sleep, Call, Op, bufVars, ioVars
<1> QED BY <1>1, <1>2, <1>3, <1>4, <1>5

(* binval() keeps the invariant.                                           *)
LEMMA BinvalInv ==
    ASSUME CacheInv, NEW p \in Proc, Binval(p)
    PROVE  CacheInv'
<1> USE ConstantAssumption DEF CacheInv
<1>1. /\ pc[p] = "inval" /\ pc' = [pc EXCEPT ![p] = "user"] /\ cpu' = NoProc
      /\ UNCHANGED <<blkno, data, freelist, flwanted, ioVars,
                     wchan, call, want, role, cur, bp, ret, error>>
  BY DEF Binval, Forget, Goto
<1>2. /\ flags' \in [Buf -> SUBSET Flag]
      /\ \A c \in Buf : \A f \in Flag \ {"STALE", "AGE"} : f \in flags'[c] <=> f \in flags[c]
      /\ \A c \in Buf : "STALE" \in flags[c] => "STALE" \in flags'[c]
  BY DEF Binval, Forget, TypeOK, Flag
<1>3. TypeOK'
  BY <1>1, <1>2 DEF TypeOK, Label, ioVars
<1>4. Placed'
  BY <1>1 DEF TypeOK, Placed, InGetblk
<1>5. FreeIffNotBusy' /\ OneBufferPerBlock'
  BY <1>1, <1>2 DEF FreeIffNotBusy, OneBufferPerBlock, InFree, Flag
<1>6. OneOwner'
  <2>1. \A q \in Proc : \A c \in Buf : Owns(q, c)' <=> Owns(q, c)
    BY <1>1 DEF Owns, TypeOK
  <2> QED BY <1>1, <1>2, <2>1 DEF OneOwner, Flag, ioVars
<1>7. Transfers'
  BY <1>1, <1>2, SMTT(30) DEF Transfers, InGetblk, TypeOK, Placed, Flag, ioVars
<1> QED BY <1>3, <1>4, <1>5, <1>6, <1>7

(* The interrupt that ends a transfer keeps the invariant.                 *)
LEMMA IodoneInv ==
    ASSUME CacheInv, NEW b \in ioq, NEW f \in SUBSET Flag, Iodone(b, f),
           \A x \in Flag \ {"DONE", "ERROR"} : x \in f <=> x \in flags[b],
           data' \in [Buf -> Value], disk' \in [Block -> Value]
    PROVE  CacheInv'
<1> USE ConstantAssumption DEF CacheInv
<1>1. /\ b \in Buf /\ "BUSY" \in flags[b] /\ "BUSY" \in f
      /\ ioq' = ioq \ {b}
      /\ UNCHANGED <<blkno, cpu, pc, call, want, role, cur, bp, ret, error>>
      /\ "STALE" \in flags[b] => "STALE" \in f
      /\ "ASYNC" \in flags[b] <=> "ASYNC" \in f
  BY DEF Iodone, AsyncDone, TypeOK, Transfers, Flag
<1>2. Placed'
  BY <1>1 DEF Placed, InGetblk
<1>3. \A q \in Proc : \A c \in Buf : Owns(q, c)' <=> Owns(q, c)
  BY <1>1 DEF Owns
<1>4. CASE "ASYNC" \in f
  <2>1. PICK w \in [Proc -> Chan] : Brelse(b, f, w)
    BY <1>4, WakeupType DEF Iodone, AsyncDone, TypeOK, Chan
  <2>2. basyncnt' \in Int
    <3>1. basyncnt' = IF "READ" \in f THEN basyncnt ELSE basyncnt - 1
      BY <1>4, Zenon DEF Iodone, AsyncDone
    <3> QED BY <3>1 DEF TypeOK
  <2>8. basywait' \in BOOLEAN
    <3>1. CASE basyncnt' = 0 /\ basywait
      <4>1. basywait' = FALSE
        BY <1>4, <3>1, Zenon DEF Iodone, AsyncDone
      <4> QED BY <4>1, Zenon
    <3>2. CASE ~ (basyncnt' = 0 /\ basywait)
      <4>1. basywait' = basywait
        BY <1>4, <3>2, Zenon DEF Iodone, AsyncDone
      <4> QED BY <4>1, Zenon DEF TypeOK
    <3> QED BY <3>1, <3>2
  <2>3. /\ flags' \in [Buf -> SUBSET Flag] /\ freelist' \in Seq(Buf)
        /\ flwanted' \in BOOLEAN /\ wchan' \in [Proc -> Chan]
        /\ FreeIffNotBusy' /\ OneBufferPerBlock'
        /\ \A c \in Buf : c # b => flags'[c] = flags[c]
        /\ "BUSY" \notin flags'[b] /\ "ASYNC" \notin flags'[b]
    BY <1>1, <2>1, BrelseType
  <2>4. TypeOK'
    BY <1>1, <2>2, <2>3, <2>8 DEF TypeOK, Chan
  <2>5. \A q \in Proc : ~Owns(q, b)
    BY <1>1, <1>4 DEF OneOwner
  <2>6. OneOwner'
    BY <1>1, <1>3, <2>3, <2>5 DEF OneOwner
  <2>7. Transfers'
    <3>1. /\ \A c \in ioq' : "BUSY" \in flags'[c] /\ "DONE" \notin flags'[c]
          /\ \A c \in Buf : "ASYNC" \in flags'[c] => c \in ioq'
      BY <1>1, <2>3 DEF Transfers, TypeOK
    <3>2. \A q \in Proc : InGetblk(q)' <=> InGetblk(q)
      BY <1>1 DEF InGetblk
    <3> QED BY <1>1, <3>1, <3>2 DEF Transfers
  <2> QED BY <1>2, <2>3, <2>4, <2>6, <2>7
<1>5. CASE "ASYNC" \notin f
  <2>1. /\ flags' = [flags EXCEPT ![b] = f \ {"WANTED"}]
        /\ wchan' = Wakeup(wchan, {b})
        /\ UNCHANGED <<freelist, flwanted, basyncnt, basywait>>
    BY <1>5 DEF Iodone, AsyncDone
  <2>2. wchan' \in [Proc -> Chan]
    BY <2>1, WakeupType DEF TypeOK, Chan
  <2>3. /\ flags' \in [Buf -> SUBSET Flag] /\ flags'[b] = f \ {"WANTED"}
        /\ \A c \in Buf : c # b => flags'[c] = flags[c]
    BY <1>1, <2>1 DEF TypeOK
  <2>4. TypeOK'
    BY <1>1, <2>1, <2>2, <2>3 DEF TypeOK, Chan
  <2>5. FreeIffNotBusy' /\ OneBufferPerBlock'
    BY <1>1, <2>1, <2>3 DEF FreeIffNotBusy, OneBufferPerBlock, InFree
  <2>6. OneOwner'
    BY <1>1, <1>3, <1>5, <2>3 DEF OneOwner
  <2>7. Transfers'
    <3>1. /\ \A c \in ioq' : "BUSY" \in flags'[c] /\ "DONE" \notin flags'[c]
          /\ \A c \in Buf : "ASYNC" \in flags'[c] => c \in ioq'
      BY <1>1, <1>5, <2>3 DEF Transfers, TypeOK
    <3>2. \A q \in Proc : InGetblk(q)' <=> InGetblk(q)
      BY <1>1 DEF InGetblk
    <3> QED BY <1>1, <3>1, <3>2 DEF Transfers
  <2> QED BY <1>2, <2>4, <2>5, <2>6, <2>7
<1> QED BY <1>4, <1>5
-----------------------------------------------------------------------------
(* Every step of a process keeps the devices' requests in range. *)

(* A call that starts with getblk() keeps the addresses.                   *)
LEMMA CallGetblkAddr ==
    ASSUME IndInv, NEW p \in Proc, CallGetblk(p)
    PROVE  Addressed'
<1> USE ConstantAssumption DEF IndInv, CacheInv
<1>1. /\ \A b \in ioq' : blkno'[b] \in Block
      /\ \A b \in Buf : "DELWRI" \in flags'[b] => blkno'[b] \in Block
  BY DEF CallGetblk, Runs, Goto, Enter, Addressed, AddressedProc, TypeOK, Placed, ioVars, bufVars
<1>2. ASSUME NEW q \in Proc
      PROVE  AddressedProc(q)'
  <2>1. CASE q = p
    BY <2>1 DEF CallGetblk, Runs, Goto, Enter, Addressed, AddressedProc, TypeOK, Placed, InGetblk, ioVars, bufVars, Call, Label
  <2>2. CASE q # p
    BY <1>2, <2>2 DEF CallGetblk, Runs, Goto, Enter, Addressed, AddressedProc, TypeOK, InGetblk, ioVars, bufVars
  <2> QED BY <2>1, <2>2
<1> QED BY <1>1, <1>2 DEF Addressed

(* A breada() whose block is in core keeps the addresses.                  *)
LEMMA CallBreadaIncoreAddr ==
    ASSUME IndInv, NEW p \in Proc, CallBreadaIncore(p)
    PROVE  Addressed'
<1> USE ConstantAssumption DEF IndInv, CacheInv
<1>1. /\ \A b \in ioq' : blkno'[b] \in Block
      /\ \A b \in Buf : "DELWRI" \in flags'[b] => blkno'[b] \in Block
  BY DEF CallBreadaIncore, Runs, Goto, Enter, Addressed, AddressedProc, TypeOK, Placed, ioVars, bufVars
<1>2. ASSUME NEW q \in Proc
      PROVE  AddressedProc(q)'
  <2>1. CASE q = p
    BY <2>1 DEF CallBreadaIncore, Runs, Goto, Enter, Addressed, AddressedProc, TypeOK, Placed, InGetblk, ioVars, bufVars, Call, Label
  <2>2. CASE q # p
    BY <1>2, <2>2 DEF CallBreadaIncore, Runs, Goto, Enter, Addressed, AddressedProc, TypeOK, InGetblk, ioVars, bufVars
  <2> QED BY <2>1, <2>2
<1> QED BY <1>1, <1>2 DEF Addressed

(* A call of bflush(), bdflush() or bdwait() keeps the addresses.          *)
LEMMA CallFlushAddr ==
    ASSUME IndInv, NEW p \in Proc, CallFlush(p)
    PROVE  Addressed'
<1> USE ConstantAssumption DEF IndInv, CacheInv
<1>1. /\ \A b \in ioq' : blkno'[b] \in Block
      /\ \A b \in Buf : "DELWRI" \in flags'[b] => blkno'[b] \in Block
  BY DEF CallFlush, Runs, Goto, Enter, Addressed, AddressedProc, TypeOK, Placed, ioVars, bufVars
<1>2. ASSUME NEW q \in Proc
      PROVE  AddressedProc(q)'
  <2>1. CASE q = p
    BY <2>1 DEF CallFlush, Runs, Goto, Enter, Addressed, AddressedProc, TypeOK, Placed, InGetblk, ioVars, bufVars, Call, Label
  <2>2. CASE q # p
    BY <1>2, <2>2 DEF CallFlush, Runs, Goto, Enter, Addressed, AddressedProc, TypeOK, InGetblk, ioVars, bufVars
  <2> QED BY <2>1, <2>2
<1> QED BY <1>1, <1>2 DEF Addressed

(* The search of the hash chain keeps the addresses.                       *)
LEMMA GetblkFindAddr ==
    ASSUME IndInv, NEW p \in Proc, GetblkFind(p)
    PROVE  Addressed'
<1> USE ConstantAssumption DEF IndInv, CacheInv
<1>1. /\ \A b \in ioq' : blkno'[b] \in Block
      /\ \A b \in Buf : "DELWRI" \in flags'[b] => blkno'[b] \in Block
  BY DEF GetblkFind, Runs, Goto, Matches, Addressed, AddressedProc, TypeOK, Placed, ioVars, bufVars
<1>2. ASSUME NEW q \in Proc
      PROVE  AddressedProc(q)'
  <2>1. CASE q = p
    BY <2>1 DEF GetblkFind, Runs, Goto, Matches, Addressed, AddressedProc, TypeOK, Placed, InGetblk, ioVars, bufVars, Call, Label
  <2>2. CASE q # p
    BY <1>2, <2>2 DEF GetblkFind, Runs, Goto, Matches, Addressed, AddressedProc, TypeOK, InGetblk, ioVars, bufVars
  <2> QED BY <2>1, <2>2
<1> QED BY <1>1, <1>2 DEF Addressed

(* Sleeping for a busy buffer keeps the addresses of what a process holds. *)
LEMMA GetblkBusyAddr ==
    ASSUME IndInv, NEW p \in Proc, GetblkBusy(p)
    PROVE  Addressed'
<1> USE ConstantAssumption DEF IndInv, CacheInv
<1>1. /\ \A b \in ioq' : blkno'[b] \in Block
      /\ \A b \in Buf : "DELWRI" \in flags'[b] => blkno'[b] \in Block
  BY DEF GetblkBusy, Runs, Sleep, Addressed, AddressedProc, TypeOK, Placed, ioVars, bufVars
<1>2. ASSUME NEW q \in Proc
      PROVE  AddressedProc(q)'
  <2>1. CASE q = p
    BY <2>1 DEF GetblkBusy, Runs, Sleep, Addressed, AddressedProc, TypeOK, Placed, InGetblk, ioVars, bufVars, Call, Label
  <2>2. CASE q # p
    BY <1>2, <2>2 DEF GetblkBusy, Runs, Sleep, Addressed, AddressedProc, TypeOK, InGetblk, ioVars, bufVars
  <2> QED BY <2>1, <2>2
<1> QED BY <1>1, <1>2 DEF Addressed

(* Taking a buffer that was found free keeps the addresses.                *)
LEMMA GetblkTakeAddr ==
    ASSUME IndInv, NEW p \in Proc, GetblkTake(p)
    PROVE  Addressed'
<1> USE ConstantAssumption DEF IndInv, CacheInv
<1>1. /\ \A b \in ioq' : blkno'[b] \in Block
      /\ \A b \in Buf : "DELWRI" \in flags'[b] => blkno'[b] \in Block
  BY DEF GetblkTake, Notavail, Runs, Goto, Addressed, AddressedProc, TypeOK, Placed, ioVars, bufVars
<1>2. ASSUME NEW q \in Proc
      PROVE  AddressedProc(q)'
  <2>1. CASE q = p
    BY <2>1 DEF GetblkTake, Notavail, Runs, Goto, Addressed, AddressedProc, TypeOK, Placed, InGetblk, ioVars, bufVars, Call, Label
  <2>2. CASE q # p
    BY <1>2, <2>2 DEF GetblkTake, Notavail, Runs, Goto, Addressed, AddressedProc, TypeOK, InGetblk, ioVars, bufVars
  <2> QED BY <2>1, <2>2
<1> QED BY <1>1, <1>2 DEF Addressed

(* Sleeping for any free buffer keeps the addresses.                       *)
LEMMA GetblkNoFreeAddr ==
    ASSUME IndInv, NEW p \in Proc, GetblkNoFree(p)
    PROVE  Addressed'
<1> USE ConstantAssumption DEF IndInv, CacheInv
<1>1. /\ \A b \in ioq' : blkno'[b] \in Block
      /\ \A b \in Buf : "DELWRI" \in flags'[b] => blkno'[b] \in Block
  BY DEF GetblkNoFree, Runs, Sleep, Addressed, AddressedProc, TypeOK, Placed, ioVars, bufVars
<1>2. ASSUME NEW q \in Proc
      PROVE  AddressedProc(q)'
  <2>1. CASE q = p
    BY <2>1 DEF GetblkNoFree, Runs, Sleep, Addressed, AddressedProc, TypeOK, Placed, InGetblk, ioVars, bufVars, Call, Label
  <2>2. CASE q # p
    BY <1>2, <2>2 DEF GetblkNoFree, Runs, Sleep, Addressed, AddressedProc, TypeOK, InGetblk, ioVars, bufVars
  <2> QED BY <2>1, <2>2
<1> QED BY <1>1, <1>2 DEF Addressed

(* Writing out a delayed buffer in getblk() keeps the addresses.           *)
LEMMA GetblkFlushAddr ==
    ASSUME IndInv, NEW p \in Proc, GetblkFlush(p)
    PROVE  Addressed'
<1> USE ConstantAssumption DEF IndInv, CacheInv
<1>1. /\ \A b \in ioq' : blkno'[b] \in Block
      /\ \A b \in Buf : "DELWRI" \in flags'[b] => blkno'[b] \in Block
  BY DEF GetblkFlush, Runs, Goto, StartAsync, WriteFlags, Addressed, AddressedProc, TypeOK, Placed, ioVars, bufVars
<1>2. ASSUME NEW q \in Proc
      PROVE  AddressedProc(q)'
  <2>1. CASE q = p
    BY <2>1 DEF GetblkFlush, Runs, Goto, StartAsync, WriteFlags, Addressed, AddressedProc, TypeOK, Placed, InGetblk, ioVars, bufVars, Call, Label
  <2>2. CASE q # p
    BY <1>2, <2>2 DEF GetblkFlush, Runs, Goto, StartAsync, WriteFlags, Addressed, AddressedProc, TypeOK, InGetblk, ioVars, bufVars
  <2> QED BY <2>1, <2>2
<1> QED BY <1>1, <1>2 DEF Addressed

(* Reassigning a buffer in getblk() keeps the addresses.                   *)
LEMMA GetblkAssignAddr ==
    ASSUME IndInv, NEW p \in Proc, GetblkAssign(p)
    PROVE  Addressed'
<1> USE ConstantAssumption DEF IndInv, CacheInv
<1> DEFINE b == Head(freelist)
<1>a. /\ b \in Buf /\ "BUSY" \notin flags[b] /\ b \notin ioq
      /\ \A q \in Proc : ~Owns(q, b)
  <2>1. b \in Buf /\ Contains(freelist, b)
    BY TailList DEF GetblkAssign, Reassign, TypeOK, FreeIffNotBusy
  <2> QED BY <2>1 DEF FreeIffNotBusy, InFree, OneOwner, Transfers
<1>b. /\ blkno' = [blkno EXCEPT ![b] = want[p]] /\ cpu' = p
      /\ "DELWRI" \notin flags'[b] /\ \A c \in Buf : c # b => flags'[c] = flags[c]
      /\ ioq' = ioq /\ Runs(p)
      /\ pc[p] = "search" /\ pc' = [pc EXCEPT ![p] = "got"]
      /\ cur' = [cur EXCEPT ![p] = b]
      /\ UNCHANGED <<call, want, role, bp, ret>>
  BY <1>a DEF GetblkAssign, Reassign, Goto, ioVars, TypeOK
<1> HIDE DEF b
<1>1. /\ \A d \in ioq' : blkno'[d] \in Block
      /\ \A d \in Buf : "DELWRI" \in flags'[d] => blkno'[d] \in Block
  BY <1>a, <1>b DEF Addressed, TypeOK
<1>2. ASSUME NEW q \in Proc
      PROVE  AddressedProc(q)'
  <2>1. CASE q = p
    BY <1>a, <1>b, <2>1 DEF Addressed, AddressedProc, TypeOK, Placed, InGetblk, ioVars, bufVars, Call, Label
  <2>2. CASE q # p
    BY <1>a, <1>b, <1>2, <2>2 DEF Runs, Addressed, AddressedProc, TypeOK, InGetblk, Owns
  <2> QED BY <2>1, <2>2
<1> QED BY <1>1, <1>2 DEF Addressed

(* A getblk() that found the content keeps the addresses.                  *)
LEMMA GotMainAddr ==
    ASSUME IndInv, NEW p \in Proc, GotMain(p)
    PROVE  Addressed'
<1> USE ConstantAssumption DEF IndInv, CacheInv
<1>1. /\ \A b \in ioq' : blkno'[b] \in Block
      /\ \A b \in Buf : "DELWRI" \in flags'[b] => blkno'[b] \in Block
  BY DEF GotMain, Runs, Goto, Addressed, AddressedProc, TypeOK, Placed, ioVars, bufVars
<1>2. ASSUME NEW q \in Proc
      PROVE  AddressedProc(q)'
  <2>1. CASE q = p
    BY <2>1 DEF GotMain, Runs, Goto, Addressed, AddressedProc, TypeOK, Placed, InGetblk, ioVars, bufVars, Call, Label
  <2>2. CASE q # p
    BY <1>2, <2>2 DEF GotMain, Runs, Goto, Addressed, AddressedProc, TypeOK, InGetblk, ioVars, bufVars
  <2> QED BY <2>1, <2>2
<1> QED BY <1>1, <1>2 DEF Addressed

(* Starting the read of a block that was not in core keeps the addresses.  *)
LEMMA GotMissAddr ==
    ASSUME IndInv, NEW p \in Proc, GotMiss(p)
    PROVE  Addressed'
<1> USE ConstantAssumption DEF IndInv, CacheInv
<1>1. /\ \A b \in ioq' : blkno'[b] \in Block
      /\ \A b \in Buf : "DELWRI" \in flags'[b] => blkno'[b] \in Block
  BY DEF GotMiss, Runs, Goto, Addressed, AddressedProc, TypeOK, Placed, ioVars, bufVars
<1>2. ASSUME NEW q \in Proc
      PROVE  AddressedProc(q)'
  <2>1. CASE q = p
    BY <2>1 DEF GotMiss, Runs, Goto, Addressed, AddressedProc, TypeOK, Placed, InGetblk, ioVars, bufVars, Call, Label
  <2>2. CASE q # p
    BY <1>2, <2>2 DEF GotMiss, Runs, Goto, Addressed, AddressedProc, TypeOK, InGetblk, ioVars, bufVars
  <2> QED BY <2>1, <2>2
<1> QED BY <1>1, <1>2 DEF Addressed

(* Entering the second half of breada() keeps the addresses.               *)
LEMMA ReadAheadAddr ==
    ASSUME IndInv, NEW p \in Proc, ReadAhead(p)
    PROVE  Addressed'
<1> USE ConstantAssumption DEF IndInv, CacheInv
<1>1. /\ \A b \in ioq' : blkno'[b] \in Block
      /\ \A b \in Buf : "DELWRI" \in flags'[b] => blkno'[b] \in Block
  BY DEF ReadAhead, Runs, Goto, Addressed, AddressedProc, TypeOK, Placed, ioVars, bufVars
<1>2. ASSUME NEW q \in Proc
      PROVE  AddressedProc(q)'
  <2>1. CASE q = p
    BY <2>1 DEF ReadAhead, Runs, Goto, Addressed, AddressedProc, TypeOK, Placed, InGetblk, ioVars, bufVars, Call, Label
  <2>2. CASE q # p
    BY <1>2, <2>2 DEF ReadAhead, Runs, Goto, Addressed, AddressedProc, TypeOK, InGetblk, ioVars, bufVars
  <2> QED BY <2>1, <2>2
<1> QED BY <1>1, <1>2 DEF Addressed

(* A read-ahead block that is already there keeps the addresses.           *)
LEMMA AheadHitAddr ==
    ASSUME IndInv, NEW p \in Proc, AheadHit(p)
    PROVE  Addressed'
<1> USE ConstantAssumption DEF IndInv, CacheInv
<1>1. /\ \A b \in ioq' : blkno'[b] \in Block
      /\ \A b \in Buf : "DELWRI" \in flags'[b] => blkno'[b] \in Block
  BY DEF AheadHit, Runs, Goto, Brelse, AfterError, Addressed, AddressedProc, TypeOK, Placed, ioVars, bufVars
<1>2. ASSUME NEW q \in Proc
      PROVE  AddressedProc(q)'
  <2>1. CASE q = p
    BY <2>1 DEF AheadHit, Runs, Goto, Brelse, AfterError, Addressed, AddressedProc, TypeOK, Placed, InGetblk, ioVars, bufVars, Call, Label
  <2>2. CASE q # p
    BY <1>2, <2>2 DEF AheadHit, Runs, Goto, Brelse, AfterError, Addressed, AddressedProc, TypeOK, InGetblk, ioVars, bufVars
  <2> QED BY <2>1, <2>2
<1> QED BY <1>1, <1>2 DEF Addressed

(* Starting a read-ahead keeps the addresses of what a process holds.      *)
LEMMA AheadMissAddr ==
    ASSUME IndInv, NEW p \in Proc, AheadMiss(p)
    PROVE  Addressed'
<1> USE ConstantAssumption DEF IndInv, CacheInv
<1>1. /\ \A b \in ioq' : blkno'[b] \in Block
      /\ \A b \in Buf : "DELWRI" \in flags'[b] => blkno'[b] \in Block
  BY DEF AheadMiss, AheadFlags, Runs, Goto, Addressed, AddressedProc, TypeOK, Placed, ioVars, bufVars
<1>2. ASSUME NEW q \in Proc
      PROVE  AddressedProc(q)'
  <2>1. CASE q = p
    BY <2>1 DEF AheadMiss, AheadFlags, Runs, Goto, Addressed, AddressedProc, TypeOK, Placed, InGetblk, ioVars, bufVars, Call, Label
  <2>2. CASE q # p
    BY <1>2, <2>2 DEF AheadMiss, AheadFlags, Runs, Goto, Addressed, AddressedProc, TypeOK, InGetblk, ioVars, bufVars
  <2> QED BY <2>1, <2>2
<1> QED BY <1>1, <1>2 DEF Addressed

(* The third half of breada() keeps the addresses of what a process holds. *)
LEMMA JoinAddr ==
    ASSUME IndInv, NEW p \in Proc, Join(p)
    PROVE  Addressed'
<1> USE ConstantAssumption DEF IndInv, CacheInv
<1>1. /\ \A b \in ioq' : blkno'[b] \in Block
      /\ \A b \in Buf : "DELWRI" \in flags'[b] => blkno'[b] \in Block
  BY DEF Join, Runs, Goto, Addressed, AddressedProc, TypeOK, Placed, ioVars, bufVars
<1>2. ASSUME NEW q \in Proc
      PROVE  AddressedProc(q)'
  <2>1. CASE q = p
    BY <2>1 DEF Join, Runs, Goto, Addressed, AddressedProc, TypeOK, Placed, InGetblk, ioVars, bufVars, Call, Label
  <2>2. CASE q # p
    BY <1>2, <2>2 DEF Join, Runs, Goto, Addressed, AddressedProc, TypeOK, InGetblk, ioVars, bufVars
  <2> QED BY <2>1, <2>2
<1> QED BY <1>1, <1>2 DEF Addressed

(* The end of iowait() in a read keeps the addresses.                      *)
LEMMA ReadWaitAddr ==
    ASSUME IndInv, NEW p \in Proc, ReadWait(p)
    PROVE  Addressed'
<1> USE ConstantAssumption DEF IndInv, CacheInv
<1>1. /\ \A b \in ioq' : blkno'[b] \in Block
      /\ \A b \in Buf : "DELWRI" \in flags'[b] => blkno'[b] \in Block
  BY DEF ReadWait, Runs, Goto, Sleep, Iowait, Addressed, AddressedProc, TypeOK, Placed, ioVars, bufVars
<1>2. ASSUME NEW q \in Proc
      PROVE  AddressedProc(q)'
  <2>1. CASE q = p
    BY <2>1 DEF ReadWait, Runs, Goto, Sleep, Iowait, Addressed, AddressedProc, TypeOK, Placed, InGetblk, ioVars, bufVars, Call, Label
  <2>2. CASE q # p
    BY <1>2, <2>2 DEF ReadWait, Runs, Goto, Sleep, Iowait, Addressed, AddressedProc, TypeOK, InGetblk, ioVars, bufVars
  <2> QED BY <2>1, <2>2
<1> QED BY <1>1, <1>2 DEF Addressed

(* brelse() after a read keeps the addresses of what a process holds.      *)
LEMMA GiveBackAddr ==
    ASSUME IndInv, NEW p \in Proc, GiveBack(p)
    PROVE  Addressed'
<1> USE ConstantAssumption DEF IndInv, CacheInv
<1>1. /\ \A b \in ioq' : blkno'[b] \in Block
      /\ \A b \in Buf : "DELWRI" \in flags'[b] => blkno'[b] \in Block
  BY DEF GiveBack, Runs, Goto, Brelse, AfterError, Addressed, AddressedProc, TypeOK, Placed, ioVars, bufVars
<1>2. ASSUME NEW q \in Proc
      PROVE  AddressedProc(q)'
  <2>1. CASE q = p
    BY <2>1 DEF GiveBack, Runs, Goto, Brelse, AfterError, Addressed, AddressedProc, TypeOK, Placed, InGetblk, ioVars, bufVars, Call, Label
  <2>2. CASE q # p
    BY <1>2, <2>2 DEF GiveBack, Runs, Goto, Brelse, AfterError, Addressed, AddressedProc, TypeOK, InGetblk, ioVars, bufVars
  <2> QED BY <2>1, <2>2
<1> QED BY <1>1, <1>2 DEF Addressed

(* Changing the content of a held buffer keeps the addresses.              *)
LEMMA BeginModifyAddr ==
    ASSUME IndInv, NEW p \in Proc, BeginModify(p)
    PROVE  Addressed'
<1> USE ConstantAssumption DEF IndInv, CacheInv
<1>1. /\ \A b \in ioq' : blkno'[b] \in Block
      /\ \A b \in Buf : "DELWRI" \in flags'[b] => blkno'[b] \in Block
  BY DEF BeginModify, Runs, Goto, Addressed, AddressedProc, TypeOK, Placed, ioVars, bufVars
<1>2. ASSUME NEW q \in Proc
      PROVE  AddressedProc(q)'
  <2>1. CASE q = p
    BY <2>1 DEF BeginModify, Runs, Goto, Addressed, AddressedProc, TypeOK, Placed, InGetblk, ioVars, bufVars, Call, Label
  <2>2. CASE q # p
    BY <1>2, <2>2 DEF BeginModify, Runs, Goto, Addressed, AddressedProc, TypeOK, InGetblk, ioVars, bufVars
  <2> QED BY <2>1, <2>2
<1> QED BY <1>1, <1>2 DEF Addressed

(* bmap()'s second allocation keeps the addresses of what a process holds. *)
LEMMA PairSecondAddr ==
    ASSUME IndInv, NEW p \in Proc, PairSecond(p)
    PROVE  Addressed'
<1> USE ConstantAssumption DEF IndInv, CacheInv
<1>1. /\ \A b \in ioq' : blkno'[b] \in Block
      /\ \A b \in Buf : "DELWRI" \in flags'[b] => blkno'[b] \in Block
  BY DEF PairSecond, Runs, Goto, Addressed, AddressedProc, TypeOK, Placed, ioVars, bufVars
<1>2. ASSUME NEW q \in Proc
      PROVE  AddressedProc(q)'
  <2>1. CASE q = p
    BY <2>1 DEF PairSecond, Runs, Goto, Addressed, AddressedProc, TypeOK, Placed, InGetblk, ioVars, bufVars, Call, Label
  <2>2. CASE q # p
    BY <1>2, <2>2 DEF PairSecond, Runs, Goto, Addressed, AddressedProc, TypeOK, InGetblk, ioVars, bufVars
  <2> QED BY <2>1, <2>2
<1> QED BY <1>1, <1>2 DEF Addressed

(* The new block of bmap() keeps the addresses of what a process holds.    *)
LEMMA PairGotAddr ==
    ASSUME IndInv, NEW p \in Proc, PairGot(p)
    PROVE  Addressed'
<1> USE ConstantAssumption DEF IndInv, CacheInv
<1>1. /\ \A b \in ioq' : blkno'[b] \in Block
      /\ \A b \in Buf : "DELWRI" \in flags'[b] => blkno'[b] \in Block
  BY DEF PairGot, Runs, Goto, Addressed, AddressedProc, TypeOK, Placed, ioVars, bufVars
<1>2. ASSUME NEW q \in Proc
      PROVE  AddressedProc(q)'
  <2>1. CASE q = p
    BY <2>1 DEF PairGot, Runs, Goto, Addressed, AddressedProc, TypeOK, Placed, InGetblk, ioVars, bufVars, Call, Label
  <2>2. CASE q # p
    BY <1>2, <2>2 DEF PairGot, Runs, Goto, Addressed, AddressedProc, TypeOK, InGetblk, ioVars, bufVars
  <2> QED BY <2>1, <2>2
<1> QED BY <1>1, <1>2 DEF Addressed

(* The indirect block of bmap() keeps the addresses.                       *)
LEMMA PairParentAddr ==
    ASSUME IndInv, NEW p \in Proc, PairParent(p)
    PROVE  Addressed'
<1> USE ConstantAssumption DEF IndInv, CacheInv
<1>1. /\ \A b \in ioq' : blkno'[b] \in Block
      /\ \A b \in Buf : "DELWRI" \in flags'[b] => blkno'[b] \in Block
  BY DEF PairParent, Runs, Goto, Addressed, AddressedProc, TypeOK, Placed, ioVars, bufVars
<1>2. ASSUME NEW q \in Proc
      PROVE  AddressedProc(q)'
  <2>1. CASE q = p
    BY <2>1 DEF PairParent, Runs, Goto, Addressed, AddressedProc, TypeOK, Placed, InGetblk, ioVars, bufVars, Call, Label
  <2>2. CASE q # p
    BY <1>2, <2>2 DEF PairParent, Runs, Goto, Addressed, AddressedProc, TypeOK, InGetblk, ioVars, bufVars
  <2> QED BY <2>1, <2>2
<1> QED BY <1>1, <1>2 DEF Addressed

(* bdwrite() keeps the addresses of what a process holds.                  *)
LEMMA ModifyDelayedAddr ==
    ASSUME IndInv, NEW p \in Proc, ModifyDelayed(p)
    PROVE  Addressed'
<1> USE ConstantAssumption DEF IndInv, CacheInv
<1>1. /\ \A b \in ioq' : blkno'[b] \in Block
      /\ \A b \in Buf : "DELWRI" \in flags'[b] => blkno'[b] \in Block
  BY DEF ModifyDelayed, Runs, Goto, Brelse, AfterError, Modify, Change, Addressed, AddressedProc, TypeOK, Placed, ioVars, bufVars
<1>2. ASSUME NEW q \in Proc
      PROVE  AddressedProc(q)'
  <2>1. CASE q = p
    BY <2>1 DEF ModifyDelayed, Runs, Goto, Brelse, AfterError, Modify, Change, Addressed, AddressedProc, TypeOK, Placed, InGetblk, ioVars, bufVars, Call, Label
  <2>2. CASE q # p
    BY <1>2, <2>2 DEF ModifyDelayed, Runs, Goto, Brelse, AfterError, Modify, Change, Addressed, AddressedProc, TypeOK, InGetblk, ioVars, bufVars
  <2> QED BY <2>1, <2>2
<1> QED BY <1>1, <1>2 DEF Addressed

(* bawrite() keeps the addresses of what a process holds.                  *)
LEMMA ModifyAsyncAddr ==
    ASSUME IndInv, NEW p \in Proc, ModifyAsync(p)
    PROVE  Addressed'
<1> USE ConstantAssumption DEF IndInv, CacheInv
<1>1. /\ \A b \in ioq' : blkno'[b] \in Block
      /\ \A b \in Buf : "DELWRI" \in flags'[b] => blkno'[b] \in Block
  BY DEF ModifyAsync, Runs, Goto, StartAsync, WriteFlags, Modify, Change, Addressed, AddressedProc, TypeOK, Placed, ioVars, bufVars
<1>2. ASSUME NEW q \in Proc
      PROVE  AddressedProc(q)'
  <2>1. CASE q = p
    BY <2>1 DEF ModifyAsync, Runs, Goto, StartAsync, WriteFlags, Modify, Change, Addressed, AddressedProc, TypeOK, Placed, InGetblk, ioVars, bufVars, Call, Label
  <2>2. CASE q # p
    BY <1>2, <2>2 DEF ModifyAsync, Runs, Goto, StartAsync, WriteFlags, Modify, Change, Addressed, AddressedProc, TypeOK, InGetblk, ioVars, bufVars
  <2> QED BY <2>1, <2>2
<1> QED BY <1>1, <1>2 DEF Addressed

(* bwrite() keeps the addresses of what a process holds.                   *)
LEMMA ModifySyncAddr ==
    ASSUME IndInv, NEW p \in Proc, ModifySync(p)
    PROVE  Addressed'
<1> USE ConstantAssumption DEF IndInv, CacheInv
<1>1. /\ \A b \in ioq' : blkno'[b] \in Block
      /\ \A b \in Buf : "DELWRI" \in flags'[b] => blkno'[b] \in Block
  BY DEF ModifySync, Runs, Goto, Modify, Change, WriteFlags, Addressed, AddressedProc, TypeOK, Placed, ioVars, bufVars
<1>2. ASSUME NEW q \in Proc
      PROVE  AddressedProc(q)'
  <2>1. CASE q = p
    BY <2>1 DEF ModifySync, Runs, Goto, Modify, Change, WriteFlags, Addressed, AddressedProc, TypeOK, Placed, InGetblk, ioVars, bufVars, Call, Label
  <2>2. CASE q # p
    BY <1>2, <2>2 DEF ModifySync, Runs, Goto, Modify, Change, WriteFlags, Addressed, AddressedProc, TypeOK, InGetblk, ioVars, bufVars
  <2> QED BY <2>1, <2>2
<1> QED BY <1>1, <1>2 DEF Addressed

(* The end of iowait() in a write keeps the addresses.                     *)
LEMMA WriteWaitAddr ==
    ASSUME IndInv, NEW p \in Proc, WriteWait(p)
    PROVE  Addressed'
<1> USE ConstantAssumption DEF IndInv, CacheInv
<1>1. /\ \A b \in ioq' : blkno'[b] \in Block
      /\ \A b \in Buf : "DELWRI" \in flags'[b] => blkno'[b] \in Block
  BY DEF WriteWait, Runs, Sleep, Addressed, AddressedProc, TypeOK, Placed, ioVars, bufVars
<1>2. ASSUME NEW q \in Proc
      PROVE  AddressedProc(q)'
  <2>1. CASE q = p
    BY <2>1 DEF WriteWait, Runs, Sleep, Addressed, AddressedProc, TypeOK, Placed, InGetblk, ioVars, bufVars, Call, Label
  <2>2. CASE q # p
    BY <1>2, <2>2 DEF WriteWait, Runs, Sleep, Addressed, AddressedProc, TypeOK, InGetblk, ioVars, bufVars
  <2> QED BY <2>1, <2>2
<1> QED BY <1>1, <1>2 DEF Addressed

(* brelse() after a write keeps the addresses of what a process holds.     *)
LEMMA WriteDoneAddr ==
    ASSUME IndInv, NEW p \in Proc, WriteDone(p)
    PROVE  Addressed'
<1> USE ConstantAssumption DEF IndInv, CacheInv
<1>1. /\ \A b \in ioq' : blkno'[b] \in Block
      /\ \A b \in Buf : "DELWRI" \in flags'[b] => blkno'[b] \in Block
  BY DEF WriteDone, Runs, Goto, Brelse, AfterError, Addressed, AddressedProc, TypeOK, Placed, ioVars, bufVars
<1>2. ASSUME NEW q \in Proc
      PROVE  AddressedProc(q)'
  <2>1. CASE q = p
    BY <2>1 DEF WriteDone, Runs, Goto, Brelse, AfterError, Addressed, AddressedProc, TypeOK, Placed, InGetblk, ioVars, bufVars, Call, Label
  <2>2. CASE q # p
    BY <1>2, <2>2 DEF WriteDone, Runs, Goto, Brelse, AfterError, Addressed, AddressedProc, TypeOK, InGetblk, ioVars, bufVars
  <2> QED BY <2>1, <2>2
<1> QED BY <1>1, <1>2 DEF Addressed

(* Counting an asynchronous write keeps the addresses.                     *)
LEMMA CountAddr ==
    ASSUME IndInv, NEW p \in Proc, Count(p)
    PROVE  Addressed'
<1> USE ConstantAssumption DEF IndInv, CacheInv
<1>1. /\ \A b \in ioq' : blkno'[b] \in Block
      /\ \A b \in Buf : "DELWRI" \in flags'[b] => blkno'[b] \in Block
  BY DEF Count, Runs, Goto, Addressed, AddressedProc, TypeOK, Placed, ioVars, bufVars
<1>2. ASSUME NEW q \in Proc
      PROVE  AddressedProc(q)'
  <2>1. CASE q = p
    BY <2>1 DEF Count, Runs, Goto, Addressed, AddressedProc, TypeOK, Placed, InGetblk, ioVars, bufVars, Call, Label
  <2>2. CASE q # p
    BY <1>2, <2>2 DEF Count, Runs, Goto, Addressed, AddressedProc, TypeOK, InGetblk, ioVars, bufVars
  <2> QED BY <2>1, <2>2
<1> QED BY <1>1, <1>2 DEF Addressed

(* Writing one buffer in bflush() keeps the addresses.                     *)
LEMMA FlushWriteAddr ==
    ASSUME IndInv, NEW p \in Proc, FlushWrite(p)
    PROVE  Addressed'
<1> USE ConstantAssumption DEF IndInv, CacheInv
<1>1. /\ \A b \in ioq' : blkno'[b] \in Block
      /\ \A b \in Buf : "DELWRI" \in flags'[b] => blkno'[b] \in Block
  <2>1. PICK i \in DOMAIN freelist :
           FlushAt(p, i) /\ StartAsync(p, freelist[i], flags[freelist[i]], "flush")
    BY DEF FlushWrite
  <2>2. freelist[i] \in Buf /\ "DELWRI" \in flags[freelist[i]] /\ blkno' = blkno
    BY <2>1 DEF FlushWrite, FlushAt, TypeOK
  <2> DEFINE b == freelist[i]
  <2>3. ioq' = ioq \cup {b} /\ flags' = [flags EXCEPT ![b] = WriteFlags(flags[b]) \cup {"BUSY", "ASYNC"}]
    BY <2>1 DEF StartAsync
  <2> HIDE DEF b
  <2> QED BY <2>2, <2>3 DEF WriteFlags, Addressed, TypeOK, b
<1>2. ASSUME NEW q \in Proc
      PROVE  AddressedProc(q)'
  <2>1. CASE q = p
    BY <2>1 DEF FlushWrite, Runs, Goto, StartAsync, WriteFlags, Addressed, AddressedProc, TypeOK, Placed, InGetblk, ioVars, bufVars, Call, Label
  <2>2. CASE q # p
    BY <1>2, <2>2 DEF FlushWrite, Runs, Goto, StartAsync, WriteFlags, Addressed, AddressedProc, TypeOK, InGetblk, ioVars, bufVars
  <2> QED BY <2>1, <2>2
<1> QED BY <1>1, <1>2 DEF Addressed

(* The end of bflush() keeps the addresses of what a process holds.        *)
LEMMA FlushEndAddr ==
    ASSUME IndInv, NEW p \in Proc, FlushEnd(p)
    PROVE  Addressed'
<1> USE ConstantAssumption DEF IndInv, CacheInv
<1>1. /\ \A b \in ioq' : blkno'[b] \in Block
      /\ \A b \in Buf : "DELWRI" \in flags'[b] => blkno'[b] \in Block
  BY DEF FlushEnd, Runs, Goto, Addressed, AddressedProc, TypeOK, Placed, ioVars, bufVars
<1>2. ASSUME NEW q \in Proc
      PROVE  AddressedProc(q)'
  <2>1. CASE q = p
    BY <2>1 DEF FlushEnd, Runs, Goto, Addressed, AddressedProc, TypeOK, Placed, InGetblk, ioVars, bufVars, Call, Label
  <2>2. CASE q # p
    BY <1>2, <2>2 DEF FlushEnd, Runs, Goto, Addressed, AddressedProc, TypeOK, InGetblk, ioVars, bufVars
  <2> QED BY <2>1, <2>2
<1> QED BY <1>1, <1>2 DEF Addressed

(* Writing one buffer in bdflush() keeps the addresses.                    *)
LEMMA AgeWriteAddr ==
    ASSUME IndInv, NEW p \in Proc, AgeWrite(p)
    PROVE  Addressed'
<1> USE ConstantAssumption DEF IndInv, CacheInv
<1>1. /\ \A b \in ioq' : blkno'[b] \in Block
      /\ \A b \in Buf : "DELWRI" \in flags'[b] => blkno'[b] \in Block
  BY DEF AgeWrite, Runs, Goto, StartAsync, WriteFlags, Addressed, AddressedProc, TypeOK, Placed, ioVars, bufVars
<1>2. ASSUME NEW q \in Proc
      PROVE  AddressedProc(q)'
  <2>1. CASE q = p
    BY <2>1 DEF AgeWrite, Runs, Goto, StartAsync, WriteFlags, Addressed, AddressedProc, TypeOK, Placed, InGetblk, ioVars, bufVars, Call, Label
  <2>2. CASE q # p
    BY <1>2, <2>2 DEF AgeWrite, Runs, Goto, StartAsync, WriteFlags, Addressed, AddressedProc, TypeOK, InGetblk, ioVars, bufVars
  <2> QED BY <2>1, <2>2
<1> QED BY <1>1, <1>2 DEF Addressed

(* The end of bdflush() keeps the addresses of what a process holds.       *)
LEMMA AgeEndAddr ==
    ASSUME IndInv, NEW p \in Proc, AgeEnd(p)
    PROVE  Addressed'
<1> USE ConstantAssumption DEF IndInv, CacheInv
<1>1. /\ \A b \in ioq' : blkno'[b] \in Block
      /\ \A b \in Buf : "DELWRI" \in flags'[b] => blkno'[b] \in Block
  BY DEF AgeEnd, Runs, Goto, Addressed, AddressedProc, TypeOK, Placed, ioVars, bufVars
<1>2. ASSUME NEW q \in Proc
      PROVE  AddressedProc(q)'
  <2>1. CASE q = p
    BY <2>1 DEF AgeEnd, Runs, Goto, Addressed, AddressedProc, TypeOK, Placed, InGetblk, ioVars, bufVars, Call, Label
  <2>2. CASE q # p
    BY <1>2, <2>2 DEF AgeEnd, Runs, Goto, Addressed, AddressedProc, TypeOK, InGetblk, ioVars, bufVars
  <2> QED BY <2>1, <2>2
<1> QED BY <1>1, <1>2 DEF Addressed

(* Sleeping in bdwait() keeps the addresses of what a process holds.       *)
LEMMA BdwaitSleepAddr ==
    ASSUME IndInv, NEW p \in Proc, BdwaitSleep(p)
    PROVE  Addressed'
<1> USE ConstantAssumption DEF IndInv, CacheInv
<1>1. /\ \A b \in ioq' : blkno'[b] \in Block
      /\ \A b \in Buf : "DELWRI" \in flags'[b] => blkno'[b] \in Block
  BY DEF BdwaitSleep, Runs, Sleep, Addressed, AddressedProc, TypeOK, Placed, ioVars, bufVars
<1>2. ASSUME NEW q \in Proc
      PROVE  AddressedProc(q)'
  <2>1. CASE q = p
    BY <2>1 DEF BdwaitSleep, Runs, Sleep, Addressed, AddressedProc, TypeOK, Placed, InGetblk, ioVars, bufVars, Call, Label
  <2>2. CASE q # p
    BY <1>2, <2>2 DEF BdwaitSleep, Runs, Sleep, Addressed, AddressedProc, TypeOK, InGetblk, ioVars, bufVars
  <2> QED BY <2>1, <2>2
<1> QED BY <1>1, <1>2 DEF Addressed

(* The end of bdwait() keeps the addresses of what a process holds.        *)
LEMMA BdwaitEndAddr ==
    ASSUME IndInv, NEW p \in Proc, BdwaitEnd(p)
    PROVE  Addressed'
<1> USE ConstantAssumption DEF IndInv, CacheInv
<1>1. /\ \A b \in ioq' : blkno'[b] \in Block
      /\ \A b \in Buf : "DELWRI" \in flags'[b] => blkno'[b] \in Block
  BY DEF BdwaitEnd, Runs, Goto, Addressed, AddressedProc, TypeOK, Placed, ioVars, bufVars
<1>2. ASSUME NEW q \in Proc
      PROVE  AddressedProc(q)'
  <2>1. CASE q = p
    BY <2>1 DEF BdwaitEnd, Runs, Goto, Addressed, AddressedProc, TypeOK, Placed, InGetblk, ioVars, bufVars, Call, Label
  <2>2. CASE q # p
    BY <1>2, <2>2 DEF BdwaitEnd, Runs, Goto, Addressed, AddressedProc, TypeOK, InGetblk, ioVars, bufVars
  <2> QED BY <2>1, <2>2
<1> QED BY <1>1, <1>2 DEF Addressed

(* binval() keeps the addresses of what a process holds.                   *)
LEMMA BinvalAddr ==
    ASSUME IndInv, NEW p \in Proc, Binval(p)
    PROVE  Addressed'
<1> USE ConstantAssumption DEF IndInv, CacheInv
<1>1. /\ \A b \in ioq' : blkno'[b] \in Block
      /\ \A b \in Buf : "DELWRI" \in flags'[b] => blkno'[b] \in Block
  BY DEF Binval, Forget, Runs, Goto, Addressed, AddressedProc, TypeOK, Placed, ioVars, bufVars
<1>2. ASSUME NEW q \in Proc
      PROVE  AddressedProc(q)'
  <2>1. CASE q = p
    BY <2>1 DEF Binval, Forget, Runs, Goto, Addressed, AddressedProc, TypeOK, Placed, InGetblk, ioVars, bufVars, Call, Label
  <2>2. CASE q # p
    BY <1>2, <2>2 DEF Binval, Forget, Runs, Goto, Addressed, AddressedProc, TypeOK, InGetblk, ioVars, bufVars
  <2> QED BY <2>1, <2>2
<1> QED BY <1>1, <1>2 DEF Addressed
-----------------------------------------------------------------------------
(* The interrupt, the initial state and the whole next-state relation. *)

(* Every interrupt keeps the invariant.                                    *)
LEMMA InterruptInv ==
    ASSUME IndInv, NEW b \in Buf, Interrupt(b)
    PROVE  IndInv'
<1> USE ConstantAssumption DEF IndInv
<1>1. /\ b \in ioq /\ b \in Buf /\ blkno[b] \in Block
      /\ data' \in [Buf -> Value] /\ disk' \in [Block -> Value]
      /\ \E f \in SUBSET Flag : /\ Iodone(b, f)
                                /\ flags[b] \subseteq f
                                /\ f \subseteq flags[b] \cup {"DONE", "ERROR"}
  <2>1. CASE IoSucceeds(b)
    <3>1. /\ b \in ioq /\ blkno[b] \in Block
          /\ Iodone(b, flags[b] \cup {"DONE"}) /\ flags[b] \cup {"DONE"} \in SUBSET Flag
      BY <2>1 DEF IoSucceeds, Addressed, CacheInv, TypeOK, Flag
    <3>2. disk[blkno[b]] \in Value /\ data[b] \in Value
      BY <3>1 DEF CacheInv, TypeOK
    <3>3. data' \in [Buf -> Value] /\ disk' \in [Block -> Value]
      BY <2>1, <3>1, <3>2 DEF IoSucceeds, CacheInv, TypeOK
    <3> QED BY <3>1, <3>3
  <2>2. CASE IoFails(b)
    <3>1. /\ b \in ioq /\ blkno[b] \in Block
          /\ Iodone(b, flags[b] \cup {"DONE", "ERROR"})
          /\ flags[b] \cup {"DONE", "ERROR"} \in SUBSET Flag
      BY <2>2 DEF IoFails, Addressed, CacheInv, TypeOK, Flag
    <3>2. disk' = disk /\ (data' = data \/ \E v \in Value : data' = [data EXCEPT ![b] = v])
      BY <2>2 DEF IoFails
    <3>3. data \in [Buf -> Value] /\ disk \in [Block -> Value]
      BY DEF CacheInv, TypeOK
    <3> QED BY <3>1, <3>2, <3>3
  <2> QED BY <2>1, <2>2 DEF Interrupt
<1>2. PICK f \in SUBSET Flag : /\ Iodone(b, f)
                               /\ flags[b] \subseteq f
                               /\ f \subseteq flags[b] \cup {"DONE", "ERROR"}
  BY <1>1
<1>3. CacheInv'
  BY <1>1, <1>2, IodoneInv
<1>4. UNCHANGED <<blkno, cpu, pc, call, want, role, cur, bp, ret>> /\ ioq' = ioq \ {b}
  BY <1>2 DEF Iodone, AsyncDone
<1>5. \A c \in Buf : "DELWRI" \in flags'[c] => blkno[c] \in Block
  <2>1. \A c \in Buf : c # b => flags'[c] = flags[c]
    BY <1>1, <1>2 DEF Iodone, AsyncDone, Brelse, CacheInv, TypeOK
  <2> QED BY <1>1, <2>1 DEF Addressed
<1>6. ASSUME NEW q \in Proc PROVE AddressedProc(q)'
  BY <1>4 DEF Addressed, AddressedProc, InGetblk
<1>7. Addressed'
  BY <1>1, <1>4, <1>5, <1>6 DEF Addressed
<1> QED BY <1>3, <1>7

(* The invariant holds after binit().                                      *)
LEMMA InitInv == Init => IndInv
<1> SUFFICES ASSUME Init PROVE IndInv
  OBVIOUS
<1> USE ConstantAssumption
<1>1. freelist \in Seq(Buf) /\ IsInjective(freelist) /\ \A b \in Buf : Contains(freelist, b)
  <2>1. Cardinality(Buf) \in Nat
    BY FS_CardinalityType
  <2> QED BY <2>1 DEF Init, InFree
<1>2. (CHOOSE v \in Value : TRUE) \in Value /\ (CHOOSE c \in Calls : TRUE) \in Calls
  OBVIOUS
<1>3. TypeOK
  <2> DEFINE x == CHOOSE v \in Value : TRUE
             y == CHOOSE c \in Calls : TRUE
  <2>1. /\ data = [b \in Buf |-> x] /\ x \in Value
        /\ call = [p \in Proc |-> y] /\ y \in Call
    BY <1>2 DEF Init
  <2> HIDE DEF x, y
  <2>2. data \in [Buf -> Value]
    BY <2>1
  <2>3. call \in [Proc -> Call]
    BY <2>1, Zenon
  <2>4. /\ flags \in [Buf -> SUBSET Flag] /\ blkno \in [Buf -> Block \cup {NoBlock}]
        /\ basyncnt \in Int /\ ioq \in SUBSET Buf /\ disk \in [Block -> Value]
        /\ cpu \in Proc \cup {NoProc}
    BY DEF Init
  <2>7. flwanted \in BOOLEAN /\ basywait \in BOOLEAN
    BY Zenon DEF Init
  <2>5. /\ wchan \in [Proc -> Buf \cup {FreeChan, AsyncChan, Awake}]
        /\ pc \in [Proc -> Label] /\ want \in [Proc -> Block \cup {NoBlock}]
        /\ role \in [Proc -> {"main", "second"}]
    BY DEF Init, Label
  <2>6. /\ cur \in [Proc -> Buf \cup {NoBuf}] /\ bp \in [Proc -> Buf \cup {NoBuf}]
        /\ ret \in [Proc -> {"user", "parent", "search", "flush", "age"}]
        /\ error \in [Proc -> BOOLEAN]
    BY DEF Init
  <2> QED BY <1>1, <2>2, <2>3, <2>4, <2>5, <2>6, <2>7 DEF TypeOK
<1>4. FreeIffNotBusy /\ OneBufferPerBlock /\ OneOwner /\ Placed /\ Transfers
  BY <1>1 DEF Init, FreeIffNotBusy, OneBufferPerBlock, OneOwner, Owns, Placed, Transfers,
              InFree, InGetblk
<1>5. Addressed
  BY <1>2 DEF Init, Addressed, AddressedProc, InGetblk
<1> QED BY <1>3, <1>4, <1>5 DEF IndInv, CacheInv

(* A step that changes nothing keeps the invariant.                        *)
LEMMA StutterInv == IndInv /\ UNCHANGED vars => IndInv'
BY DEF IndInv, CacheInv, vars, bufVars, ioVars, procVars, TypeOK, FreeIffNotBusy,
       OneBufferPerBlock, OneOwner, Owns, Placed, Transfers, InFree, InGetblk,
       Addressed, AddressedProc

(* The invariant is inductive.                                             *)
LEMMA NextInv == IndInv /\ [Next]_vars => IndInv'
<1> SUFFICES ASSUME IndInv, [Next]_vars PROVE IndInv'
  OBVIOUS
<1>1. CASE UNCHANGED vars
  BY <1>1, StutterInv
<1>2. CASE \E b \in Buf : Interrupt(b)
  BY <1>2, InterruptInv
<1>3. ASSUME NEW p \in Proc, EnterKernel(p) PROVE IndInv'
  BY <1>3, CallGetblkInv, CallBreadaIncoreInv, CallFlushInv,
     CallGetblkAddr, CallBreadaIncoreAddr, CallFlushAddr DEF EnterKernel, IndInv
<1>4. ASSUME NEW p \in Proc, Getblk(p) PROVE IndInv'
  BY <1>4, GetblkFindInv, GetblkBusyInv, GetblkTakeInv, GetblkNoFreeInv,
     GetblkFlushInv, GetblkAssignInv, GetblkFindAddr, GetblkBusyAddr,
     GetblkTakeAddr, GetblkNoFreeAddr, GetblkFlushAddr, GetblkAssignAddr
     DEF Getblk, IndInv
<1>5. ASSUME NEW p \in Proc, Read(p) PROVE IndInv'
  BY <1>5, GotMainInv, GotMissInv, ReadAheadInv, AheadHitInv, AheadMissInv,
     JoinInv, ReadWaitInv, GiveBackInv, GotMainAddr, GotMissAddr,
     ReadAheadAddr, AheadHitAddr, AheadMissAddr, JoinAddr, ReadWaitAddr,
     GiveBackAddr DEF Read, IndInv
<1>6. ASSUME NEW p \in Proc, Update(p) PROVE IndInv'
  <2>1. CASE BeginModify(p) \/ PairSecond(p) \/ PairGot(p) \/ PairParent(p)
    BY <2>1, BeginModifyInv, PairSecondInv, PairGotInv, PairParentInv,
       BeginModifyAddr, PairSecondAddr, PairGotAddr, PairParentAddr DEF IndInv
  <2>2. CASE ModifyDelayed(p) \/ ModifyAsync(p) \/ ModifySync(p)
    BY <2>2, ModifyDelayedInv, ModifyAsyncInv, ModifySyncInv,
       ModifyDelayedAddr, ModifyAsyncAddr, ModifySyncAddr DEF IndInv
  <2>3. CASE WriteWait(p) \/ WriteDone(p) \/ Count(p)
    BY <2>3, WriteWaitInv, WriteDoneInv, CountInv,
       WriteWaitAddr, WriteDoneAddr, CountAddr DEF IndInv
  <2> QED BY <1>6, <2>1, <2>2, <2>3 DEF Update
<1>7. ASSUME NEW p \in Proc, Flush(p) PROVE IndInv'
  BY <1>7, FlushWriteInv, FlushEndInv, AgeWriteInv, AgeEndInv, BdwaitSleepInv,
     BdwaitEndInv, BinvalInv, FlushWriteAddr, FlushEndAddr, AgeWriteAddr,
     AgeEndAddr, BdwaitSleepAddr, BdwaitEndAddr, BinvalAddr DEF Flush, IndInv
<1> QED BY <1>1, <1>2, <1>3, <1>4, <1>5, <1>6, <1>7 DEF Next, Kernel
-----------------------------------------------------------------------------
(* The theorems. *)

(* The inductive invariant holds in every reachable state: for any number  *)
(* of processes and buffers, with any device failures, bio.c keeps its     *)
(* lists, its owners and its transfers consistent.                         *)
THEOREM CacheCorrect == Spec => []IndInv
<1>1. Init => IndInv
  BY InitInv
<1>2. IndInv /\ [Next]_vars => IndInv'
  BY NextInv
<1> QED BY <1>1, <1>2, PTL DEF Spec

(* Type correctness of the cache. *)
THEOREM TypeCorrect == Spec => []TypeOK
<1>1. IndInv => TypeOK
  BY DEF IndInv, CacheInv
<1> QED BY <1>1, CacheCorrect, PTL

(* "If not marked BUSY a buffer is linked onto the available list"         *)
(* (sys/buf.h): exactly the buffers without B_BUSY are on it, once each.   *)
THEOREM FreeListCorrect == Spec => []FreeIffNotBusy
<1>1. IndInv => FreeIffNotBusy
  BY DEF IndInv, CacheInv
<1> QED BY <1>1, CacheCorrect, PTL

(* Two processes that miss the same block at the same time do not both     *)
(* enter it in the cache.                                                  *)
THEOREM NoDuplicates == Spec => []OneBufferPerBlock
<1>1. IndInv => OneBufferPerBlock
  BY DEF IndInv, CacheInv
<1> QED BY <1>1, CacheCorrect, PTL

(* A busy buffer has one owner, a process or an asynchronous transfer: it  *)
(* is neither shared nor lost.                                             *)
THEOREM Ownership == Spec => []OneOwner
<1>1. IndInv => OneOwner
  BY DEF IndInv, CacheInv
<1> QED BY <1>1, CacheCorrect, PTL
-----------------------------------------------------------------------------
(* On top of that inductive invariant: no wakeup is lost and no delayed    *)
(* write is, and the cache implements BlockStore.                          *)

(* What a step does to the buffers, seen from the buffer. *)

(* The buffers stay as they are.                                           *)
Rests == UNCHANGED <<flags, blkno, data, freelist, ioq, disk>>

(* Flags of F are set in some buffers.                                     *)
Marks(F) ==
    /\ UNCHANGED <<blkno, data, ioq, disk>>
    /\ freelist = <<>> => freelist' = <<>>
    /\ \A b \in Buf : flags[b] \subseteq flags'[b] /\ flags'[b] \subseteq flags[b] \cup F

(* Buffer b, off the free list, is given to block k.                       *)
Assigns(b, k) ==
    /\ b \in Buf \ ioq /\ "BUSY" \notin flags[b] /\ "DELWRI" \notin flags[b]
    /\ Matches(k) = {} /\ freelist # <<>>
    /\ \E F \in SUBSET {"AGE"} : flags' = [flags EXCEPT ![b] = {"BUSY"} \cup F]
    /\ blkno' = [blkno EXCEPT ![b] = k]
    /\ UNCHANGED <<data, ioq, disk>>

(* A read into b is started.                                               *)
StartsRead(b) ==
    /\ b \in Buf \ ioq /\ "BUSY" \in flags[b] /\ "DONE" \notin flags[b]
    /\ \E F \in {{"READ"}, AheadFlags} : flags' = [flags EXCEPT ![b] = @ \cup F]
    /\ ioq' = ioq \cup {b}
    /\ UNCHANGED <<blkno, data, freelist, disk>>

(* The delayed write of a free buffer b is started.                        *)
StartsWrite(b) ==
    /\ b \in Buf \ ioq /\ "BUSY" \notin flags[b] /\ "DELWRI" \in flags[b]
    /\ freelist # <<>>
    /\ flags' = [flags EXCEPT ![b] = WriteFlags(flags[b]) \cup {"BUSY", "ASYNC"}]
    /\ ioq' = ioq \cup {b}
    /\ UNCHANGED <<blkno, data, disk>>

(* The buffer b, with a new content v and the flags F, is given to the     *)
(* device.                                                                 *)
Writes(b, v, F) ==
    /\ b \in Buf \ ioq /\ "BUSY" \in flags[b]
    /\ flags' = [flags EXCEPT ![b] = WriteFlags(flags[b]) \cup F]
    /\ ioq' = ioq \cup {b}
    /\ data' = [data EXCEPT ![b] = v]
    /\ UNCHANGED <<blkno, freelist, disk>>

(* The buffer b is given back as it is, or with a new content v.           *)
Returns(b) == /\ b \in Buf \ ioq /\ "BUSY" \in flags[b]
              /\ Brelse(b, flags[b], wchan)
              /\ UNCHANGED <<blkno, data, ioq, disk>>

Delays(b, v) == /\ b \in Buf \ ioq /\ "BUSY" \in flags[b]
                /\ Brelse(b, flags[b] \cup {"DELWRI", "DONE"}, wchan)
                /\ data' = [data EXCEPT ![b] = v]
                /\ UNCHANGED <<blkno, ioq, disk>>

WriteAsync == {"ASYNC", "AGE", "BUSY"}

(* What a step of process p does to the buffers; it goes to basyncnt++     *)
(* when it has started an asynchronous write, and only then.               *)
BufferStep(p) ==
    \/ /\ pc'[p] # "count"
       /\ \/ Rests
          \/ pc[p] \in {"search", "found"} /\ Marks({"BUSY", "WANTED"})
          \/ pc[p] = "inval" /\ Marks({"STALE", "AGE"})
          \/ pc[p] = "search" /\ \E b \in Buf : Assigns(b, want[p])
          \/ pc[p] = "got" /\ StartsRead(cur[p])
          \/ pc[p] = "modify" /\ \E v \in Value : \E F \in SUBSET {"AGE"} : Writes(cur[p], v, F)
          \/ pc[p] = "hold" /\ Returns(bp[p])
          \/ pc[p] \in {"got", "wwait"} /\ Returns(cur[p])
          \/ pc[p] = "modify" /\ \E v \in Value : Delays(cur[p], v)
    \/ /\ pc'[p] = "count"
       /\ \/ pc[p] \in {"search", "flush", "age"} /\ \E b \in Buf : StartsWrite(b)
          \/ pc[p] = "modify" /\ \E v \in Value : Writes(cur[p], v, WriteAsync)

(* A step of a process does one of these things to the buffers.            *)
LEMMA BufferSteps ==
    ASSUME IndInv, NEW p \in Proc, EnterKernel(p) \/ Kernel(p)
    PROVE  BufferStep(p)
<1> USE ConstantAssumption
<1>1. /\ flags \in [Buf -> SUBSET Flag] /\ freelist \in Seq(Buf)
      /\ pc \in [Proc -> Label]
      /\ ret \in [Proc -> {"user", "parent", "search", "flush", "age"}]
      /\ \A b \in Buf : "BUSY" \notin flags[b] => b \notin ioq
  BY DEF IndInv, CacheInv, TypeOK, Transfers
<1>2. /\ \A i \in DOMAIN freelist : freelist[i] \in Buf /\ "BUSY" \notin flags[freelist[i]]
      /\ freelist # <<>> => Head(freelist) \in Buf /\ "BUSY" \notin flags[Head(freelist)]
      /\ DOMAIN freelist # {} => freelist # <<>>
  BY <1>1 DEF IndInv, CacheInv, FreeIffNotBusy, InFree, Contains
<1>3. /\ pc[p] \in {"found", "got", "modify", "wwait"} => cur[p] \in Buf
      /\ pc[p] \in {"got", "modify"} => cur[p] \notin ioq
      /\ pc[p] \in {"got", "modify", "wwait"} => "BUSY" \in flags[cur[p]]
      /\ pc[p] = "wwait" /\ "DONE" \in flags[cur[p]] => cur[p] \notin ioq
      /\ pc[p] = "hold" => bp[p] \in Buf \ ioq /\ "BUSY" \in flags[bp[p]]
  BY DEF IndInv, CacheInv, Placed, Transfers, OneOwner, Owns, InGetblk
<1>4. CASE EnterKernel(p)
  BY <1>1, <1>4 DEF EnterKernel, CallGetblk, CallBreadaIncore, CallFlush, Enter, bufVars, ioVars,
              Goto, BufferStep, Rests
<1>5. CASE Getblk(p)
  <2>1. CASE GetblkFind(p) \/ GetblkNoFree(p)
    BY <1>1, <2>1 DEF GetblkFind, GetblkNoFree, bufVars, ioVars, Goto, Sleep, BufferStep, Rests
  <2>2. CASE GetblkBusy(p)
    BY <1>1, <1>3, <2>2 DEF GetblkBusy, ioVars, Sleep, BufferStep, Marks
  <2>3. CASE GetblkTake(p)
    <3>1. freelist # <<>>
      BY <1>2, <2>3 DEF GetblkTake, Notavail
    <3> QED BY <1>1, <1>3, <2>3, <3>1 DEF GetblkTake, ioVars, Goto, BufferStep, Marks
  <2>4. CASE GetblkFlush(p)
    BY <1>1, <1>2, <2>4 DEF GetblkFlush, StartAsync, Goto, BufferStep, StartsWrite
  <2>5. CASE GetblkAssign(p)
    <3>1. \E F \in SUBSET {"AGE"} : flags' = [flags EXCEPT ![Head(freelist)] = {"BUSY"} \cup F]
      BY <2>5 DEF GetblkAssign, Reassign
    <3>2. Assigns(Head(freelist), want[p])
      BY <1>1, <1>2, <2>5, <3>1 DEF GetblkAssign, Reassign, ioVars, Assigns
    <3> QED BY <1>1, <1>2, <2>5, <3>2 DEF GetblkAssign, Reassign, Goto, BufferStep
  <2> QED BY <1>5, <2>1, <2>2, <2>3, <2>4, <2>5 DEF Getblk
<1>6. CASE Read(p)
  <2>1. CASE GotMain(p) \/ ReadAhead(p) \/ Join(p) \/ ReadWait(p)
    BY <1>1, <2>1 DEF GotMain, ReadAhead, Join, ReadWait, bufVars, ioVars, Iowait, Goto, Sleep,
       BufferStep, Rests
  <2>2. CASE GotMiss(p)
    BY <1>1, <1>3, <2>2 DEF GotMiss, Goto, BufferStep, StartsRead
  <2>3. CASE AheadMiss(p)
    BY <1>1, <1>3, <2>3 DEF AheadMiss, Goto, BufferStep, StartsRead
  <2>4. CASE AheadHit(p)
    BY <1>1, <1>3, <2>4 DEF AheadHit, ioVars, Goto, BufferStep, Returns
  <2>5. CASE GiveBack(p)
    BY <1>1, <1>3, <2>5 DEF GiveBack, ioVars, Goto, BufferStep, Returns
  <2> QED BY <1>6, <2>1, <2>2, <2>3, <2>4, <2>5 DEF Read
<1>7. CASE Update(p)
  <2>1. CASE BeginModify(p) \/ PairSecond(p) \/ PairGot(p) \/ PairParent(p) \/ WriteWait(p) \/ Count(p)
    BY <1>1, <2>1 DEF BeginModify, PairSecond, PairGot, PairParent, WriteWait, Count,
                bufVars, ioVars, Goto, Sleep, BufferStep, Rests
  <2>2. CASE ModifyDelayed(p)
    BY <1>1, <1>3, <2>2 DEF ModifyDelayed, Modify, Change, ioVars, Goto, BufferStep, Delays
  <2>3. CASE ModifyAsync(p)
    <3>1. PICK v \in Value : data' = [data EXCEPT ![cur[p]] = v]
      BY <2>3 DEF ModifyAsync, Modify, Change
    <3>2. WriteFlags(flags[cur[p]] \cup {"AGE"}) \cup {"BUSY", "ASYNC"}
             = WriteFlags(flags[cur[p]]) \cup WriteAsync
      BY DEF WriteFlags, WriteAsync
    <3>3. flags' = [flags EXCEPT ![cur[p]] = WriteFlags(flags[cur[p]]) \cup WriteAsync]
      BY <2>3, <3>2 DEF ModifyAsync, StartAsync
    <3>4. Writes(cur[p], v, WriteAsync)
      BY <1>3, <2>3, <3>1, <3>3 DEF ModifyAsync, Modify, StartAsync, Writes
    <3> QED BY <1>1, <2>3, <3>4 DEF ModifyAsync, Modify, StartAsync, Goto, BufferStep
  <2>4. CASE ModifySync(p)
    <3>1. PICK v \in Value : data' = [data EXCEPT ![cur[p]] = v]
      BY <2>4 DEF ModifySync, Modify, Change
    <3>2. PICK F \in SUBSET {"AGE"} :
             flags' = [flags EXCEPT ![cur[p]] = WriteFlags(flags[cur[p]]) \cup F]
      BY <2>4 DEF ModifySync
    <3>3. Writes(cur[p], v, F)
      BY <1>3, <2>4, <3>1, <3>2 DEF ModifySync, Modify, Writes
    <3> QED BY <1>1, <2>4, <3>3 DEF ModifySync, Modify, Goto, BufferStep
  <2>5. CASE WriteDone(p)
    BY <1>1, <1>3, <2>5 DEF WriteDone, ioVars, Goto, BufferStep, Returns
  <2> QED BY <1>7, <2>1, <2>2, <2>3, <2>4, <2>5 DEF Update
<1>8. CASE Flush(p)
  <2>1. CASE AgeEnd(p) \/ BdwaitSleep(p) \/ BdwaitEnd(p)
    BY <1>1, <2>1 DEF AgeEnd, BdwaitSleep, BdwaitEnd, bufVars, ioVars, Goto, Sleep, BufferStep,
       Rests
  <2>2. CASE FlushWrite(p)
    <3>1. PICK i \in DOMAIN freelist :
             FlushAt(p, i) /\ StartAsync(p, freelist[i], flags[freelist[i]], "flush")
      BY <2>2 DEF FlushWrite
    <3>2. StartsWrite(freelist[i])
      BY <1>1, <1>2, <2>2, <3>1 DEF FlushWrite, FlushAt, StartAsync, StartsWrite
    <3> QED BY <1>1, <1>2, <2>2, <3>2 DEF FlushWrite, StartAsync, Goto, BufferStep
  <2>3. CASE AgeWrite(p)
    <3>1. PICK i \in DOMAIN freelist :
             "DELWRI" \in flags[freelist[i]] /\ StartAsync(p, freelist[i], flags[freelist[i]], "age")
      BY <2>3 DEF AgeWrite
    <3>2. StartsWrite(freelist[i])
      BY <1>1, <1>2, <2>3, <3>1 DEF AgeWrite, StartAsync, StartsWrite
    <3> QED BY <1>1, <1>2, <2>3, <3>2 DEF AgeWrite, StartAsync, Goto, BufferStep
  <2>4. CASE Binval(p)
    BY <1>1, <2>4 DEF Binval, Forget, ioVars, Goto, BufferStep, Marks
  <2>5. CASE FlushEnd(p)
    <3>1. call[p].op \in {"update", "shutdown", "umount"}
      BY <2>5 DEF FlushEnd, IndInv, CacheInv, Placed
    <3>2. \E l \in {"user", "bdwait", "inval"} : Goto(p, l)
      BY <2>5, <3>1 DEF FlushEnd
    <3> QED BY <1>1, <2>5, <3>2 DEF FlushEnd, bufVars, ioVars, Goto, BufferStep, Rests
  <2> QED BY <1>8, <2>1, <2>2, <2>3, <2>4, <2>5 DEF Flush
<1> QED BY <1>4, <1>5, <1>6, <1>7, <1>8 DEF Kernel
-----------------------------------------------------------------------------
(* Who runs and who sleeps. *)

SleepLabel == {"search", "rwait", "wwait", "bdwait"}

(* Process p goes on in the kernel or leaves it; others may be woken up.   *)
Goes(p) == /\ \E l \in Label : Goto(p, l)
           /\ \A q \in Proc : wchan'[q] \in {wchan[q], Awake}

Waits(p) == \/ GetblkBusy(p) \/ GetblkNoFree(p) \/ ReadWait(p)
            \/ WriteWait(p) \/ BdwaitSleep(p)

Sleeps(p) ==
    /\ Waits(p)
    /\ \E l \in SleepLabel : \E c \in Chan \ {Awake} : Sleep(p, c, l)

(* What the other processes have and want is left alone.                   *)
Spares(p) == \A q \in Proc \ {p} :
    /\ call'[q] = call[q] /\ want'[q] = want[q] /\ role'[q] = role[q]
    /\ cur'[q] = cur[q] /\ bp'[q] = bp[q] /\ ret'[q] = ret[q] /\ error'[q] = error[q]

(* What the flags for sleepers and the count become in a step of p.        *)
Promises(p) ==
    /\ basywait => basywait'
    /\ basyncnt' = IF pc[p] = "count" THEN basyncnt + 1 ELSE basyncnt
    /\ flwanted => flwanted' \/ \E b \in Buf : \E f \in SUBSET Flag : Brelse(b, f, wchan)

(* brelse() only wakes up.                                                 *)
LEMMA BrelseWakes ==
    ASSUME NEW b, NEW f, Brelse(b, f, wchan)
    PROVE  \A q \in Proc : wchan'[q] \in {wchan[q], Awake}
BY DEF Brelse, Wakeup

(* A process that takes a step has the processor; it keeps it or sleeps.   *)
LEMMA Control ==
    ASSUME IndInv, NEW p \in Proc, EnterKernel(p) \/ Kernel(p)
    PROVE  /\ Runs(p) /\ (Goes(p) \/ Sleeps(p)) /\ Spares(p) /\ Promises(p)
<1> USE ConstantAssumption
<1>1. TypeOK /\ Placed
  BY DEF IndInv, CacheInv
<1>2. \A b \in Buf \cup {FreeChan, AsyncChan} : b \in Chan \ {Awake}
  BY DEF Chan, FreeChan, AsyncChan, Awake
<1>3. CASE EnterKernel(p)
  <2>1. CASE CallGetblk(p)
    BY <1>1, <1>2, <2>1 DEF CallGetblk, Runs, Goto, Enter, Goes, Label, Spares, Promises, TypeOK,
       bufVars, ioVars
  <2>2. CASE CallBreadaIncore(p)
    BY <1>1, <1>2, <2>2 DEF CallBreadaIncore, Runs, Goto, Enter, Goes, Label, Spares, Promises,
       TypeOK, bufVars, ioVars
  <2>3. CASE CallFlush(p)
    <3>1. PICK c \in Calls : Enter(p, c, IF c.op = "bdflush" THEN "age" ELSE "flush")
      BY <2>3 DEF CallFlush
    <3>2. Enter(p, c, "age") \/ Enter(p, c, "flush")
      <4>1. CASE c.op = "bdflush"
        BY <3>1, <4>1, Zenon
      <4>2. CASE c.op # "bdflush"
        BY <3>1, <4>2, Zenon
      <4> QED BY <4>1, <4>2
    <3>3. want' = want
      BY <2>3 DEF CallFlush
    <3> QED BY <1>1, <3>2, <3>3 DEF Runs, Goto, Enter, Goes, Label, Spares, Promises, TypeOK,
                                    bufVars, ioVars
  <2> QED BY <1>3, <2>1, <2>2, <2>3 DEF EnterKernel
<1>4. CASE Getblk(p)
  <2>1. CASE GetblkFind(p)
    BY <1>1, <1>2, <2>1 DEF GetblkFind, Runs, Goto, Goes, Label, Spares, Promises, TypeOK,
       bufVars, ioVars
  <2>2. CASE GetblkBusy(p)
    BY <1>1, <1>2, <2>2 DEF GetblkBusy, Runs, Goto, Sleep, Sleeps, Waits, SleepLabel, Spares,
       Promises, TypeOK, bufVars, ioVars, Placed
  <2>3. CASE GetblkTake(p)
    BY <1>1, <1>2, <2>3 DEF GetblkTake, Runs, Goto, Goes, Label, Spares, Promises, TypeOK,
       bufVars, ioVars
  <2>4. CASE GetblkNoFree(p)
    BY <1>1, <1>2, <2>4 DEF GetblkNoFree, Runs, Goto, Sleep, Sleeps, Waits, SleepLabel, Spares,
       Promises, TypeOK, bufVars, ioVars
  <2>5. CASE GetblkFlush(p)
    BY <1>1, <1>2, <2>5 DEF GetblkFlush, Runs, Goto, Goes, Label, StartAsync, Spares, Promises,
       TypeOK, bufVars, ioVars
  <2>6. CASE GetblkAssign(p)
    BY <1>1, <1>2, <2>6 DEF GetblkAssign, Runs, Goto, Goes, Label, Reassign, Spares, Promises,
       TypeOK, bufVars, ioVars
  <2> QED BY <1>4, <2>1, <2>2, <2>3, <2>4, <2>5, <2>6 DEF Getblk
<1>5. CASE Read(p)
  <2>1. CASE GotMain(p)
    BY <1>1, <1>2, <2>1 DEF GotMain, Runs, Goto, Goes, Label, Spares, Promises, TypeOK, bufVars,
       ioVars
  <2>2. CASE GotMiss(p)
    BY <1>1, <1>2, <2>2 DEF GotMiss, Runs, Goto, Goes, Label, Spares, Promises, TypeOK, bufVars,
       ioVars
  <2>3. CASE ReadAhead(p)
    BY <1>1, <1>2, <2>3 DEF ReadAhead, Runs, Goto, Goes, Label, Spares, Promises, TypeOK, bufVars,
       ioVars
  <2>4. CASE AheadHit(p)
    <3>1. cur[p] \in Buf /\ flags[cur[p]] \in SUBSET Flag
      BY <1>1, <2>4 DEF AheadHit, TypeOK, Placed, Flag
    <3>2. Brelse(cur[p], flags[cur[p]], wchan)
      BY <2>4 DEF AheadHit
    <3>3. \A q \in Proc : wchan'[q] \in {wchan[q], Awake}
      BY <3>2, BrelseWakes
    <3>4. flwanted => flwanted' \/ \E b \in Buf : \E g \in SUBSET Flag : Brelse(b, g, wchan)
      BY <3>1, <3>2
    <3> QED BY <1>1, <2>4, <3>3, <3>4 DEF AheadHit, Runs, Goto, Goes, Label, Spares, Promises,
               TypeOK, bufVars, ioVars, Placed
  <2>5. CASE AheadMiss(p)
    BY <1>1, <1>2, <2>5 DEF AheadMiss, Runs, Goto, Goes, Label, Spares, Promises, TypeOK, bufVars,
       ioVars
  <2>6. CASE Join(p)
    BY <1>1, <1>2, <2>6 DEF Join, Runs, Goto, Goes, Label, Spares, Promises, TypeOK, bufVars, ioVars
  <2>7. CASE ReadWait(p)
    BY <1>1, <1>2, <2>7 DEF ReadWait, Runs, Goto, Iowait, Sleep, Sleeps, Waits, SleepLabel, Goes,
       Label, Spares, Promises, TypeOK, bufVars, ioVars, Placed
  <2>8. CASE GiveBack(p)
    <3>1. bp[p] \in Buf /\ flags[bp[p]] \in SUBSET Flag
      BY <1>1, <2>8 DEF GiveBack, TypeOK, Placed, Flag
    <3>2. Brelse(bp[p], flags[bp[p]], wchan)
      BY <2>8 DEF GiveBack
    <3>3. \A q \in Proc : wchan'[q] \in {wchan[q], Awake}
      BY <3>2, BrelseWakes
    <3>4. flwanted => flwanted' \/ \E b \in Buf : \E g \in SUBSET Flag : Brelse(b, g, wchan)
      BY <3>1, <3>2
    <3> QED BY <1>1, <2>8, <3>3, <3>4 DEF GiveBack, Runs, Goto, Goes, Label, Spares, Promises,
               TypeOK, bufVars, ioVars, Placed
  <2> QED BY <1>5, <2>1, <2>2, <2>3, <2>4, <2>5, <2>6, <2>7, <2>8 DEF Read
<1>6. CASE Update(p)
  <2>1. CASE BeginModify(p)
    BY <1>1, <1>2, <2>1 DEF BeginModify, Runs, Goto, Goes, Label, Spares, Promises, TypeOK,
       bufVars, ioVars
  <2>2. CASE PairSecond(p)
    BY <1>1, <1>2, <2>2 DEF PairSecond, Runs, Goto, Goes, Label, Spares, Promises, TypeOK,
       bufVars, ioVars
  <2>3. CASE PairGot(p)
    BY <1>1, <1>2, <2>3 DEF PairGot, Runs, Goto, Goes, Label, Spares, Promises, TypeOK, bufVars,
       ioVars
  <2>4. CASE PairParent(p)
    BY <1>1, <1>2, <2>4 DEF PairParent, Runs, Goto, Goes, Label, Spares, Promises, TypeOK,
       bufVars, ioVars
  <2>5. CASE ModifyDelayed(p)
    <3>1. cur[p] \in Buf /\ flags[cur[p]] \cup {"DELWRI", "DONE"} \in SUBSET Flag
      BY <1>1, <2>5 DEF ModifyDelayed, Modify, TypeOK, Placed, Flag
    <3>2. Brelse(cur[p], flags[cur[p]] \cup {"DELWRI", "DONE"}, wchan)
      BY <2>5 DEF ModifyDelayed
    <3>3. \A q \in Proc : wchan'[q] \in {wchan[q], Awake}
      BY <3>2, BrelseWakes
    <3>4. flwanted => flwanted' \/ \E b \in Buf : \E g \in SUBSET Flag : Brelse(b, g, wchan)
      BY <3>1, <3>2
    <3> QED BY <1>1, <2>5, <3>3, <3>4 DEF ModifyDelayed, Runs, Goto, Goes, Label, Modify, Spares,
               Promises, TypeOK, bufVars, ioVars, Placed
  <2>6. CASE ModifyAsync(p)
    BY <1>1, <1>2, <2>6 DEF ModifyAsync, Runs, Goto, Goes, Label, StartAsync, Modify, Spares,
       Promises, TypeOK, bufVars, ioVars, Placed
  <2>7. CASE ModifySync(p)
    BY <1>1, <1>2, <2>7 DEF ModifySync, Runs, Goto, Goes, Label, Modify, Spares, Promises, TypeOK,
       bufVars, ioVars
  <2>8. CASE WriteWait(p)
    BY <1>1, <1>2, <2>8 DEF WriteWait, Runs, Goto, Sleep, Sleeps, Waits, SleepLabel, Spares,
       Promises, TypeOK, bufVars, ioVars, Placed
  <2>9. CASE WriteDone(p)
    <3>1. cur[p] \in Buf /\ flags[cur[p]] \in SUBSET Flag
      BY <1>1, <2>9 DEF WriteDone, TypeOK, Placed, Flag
    <3>2. Brelse(cur[p], flags[cur[p]], wchan)
      BY <2>9 DEF WriteDone
    <3>3. \A q \in Proc : wchan'[q] \in {wchan[q], Awake}
      BY <3>2, BrelseWakes
    <3>4. flwanted => flwanted' \/ \E b \in Buf : \E g \in SUBSET Flag : Brelse(b, g, wchan)
      BY <3>1, <3>2
    <3>5. Runs(p) /\ Goes(p) /\ Promises(p)
      BY <1>1, <2>9, <3>3, <3>4 DEF WriteDone, Runs, Goto, Goes, Label, Promises, TypeOK, ioVars,
         Placed
    <3>6. \A q \in Proc \ {p} : error'[q] = error[q]
      <4>1. \E e : error' = [error EXCEPT ![p] = e]
        BY <2>9 DEF WriteDone
      <4> QED BY <1>1, <4>1 DEF TypeOK
    <3>7. Spares(p)
      BY <1>1, <2>9, <3>6 DEF WriteDone, Spares, TypeOK
    <3> QED BY <3>5, <3>7
  <2>10. CASE Count(p)
    BY <1>1, <1>2, <2>10 DEF Count, Runs, Goto, Goes, Label, Spares, Promises, TypeOK, bufVars,
       ioVars, Placed
  <2> QED BY <1>6, <2>1, <2>2, <2>3, <2>4, <2>5, <2>6, <2>7, <2>8, <2>9, <2>10 DEF Update
<1>7. CASE Flush(p)
  <2>1. CASE FlushWrite(p)
    BY <1>1, <1>2, <2>1 DEF FlushWrite, Runs, Goto, Goes, Label, StartAsync, Spares, Promises,
       TypeOK, bufVars, ioVars
  <2>2. CASE FlushEnd(p)
    BY <1>1, <1>2, <2>2 DEF FlushEnd, Runs, Goto, Goes, Label, Spares, Promises, TypeOK, bufVars,
       ioVars, Placed
  <2>3. CASE AgeWrite(p)
    BY <1>1, <1>2, <2>3 DEF AgeWrite, Runs, Goto, Goes, Label, StartAsync, Spares, Promises,
       TypeOK, bufVars, ioVars
  <2>4. CASE AgeEnd(p)
    BY <1>1, <1>2, <2>4 DEF AgeEnd, Runs, Goto, Goes, Label, Spares, Promises, TypeOK, bufVars,
       ioVars
  <2>5. CASE BdwaitSleep(p)
    BY <1>1, <1>2, <2>5 DEF BdwaitSleep, Runs, Goto, Sleep, Sleeps, Waits, SleepLabel, Spares,
       Promises, TypeOK, bufVars, ioVars
  <2>6. CASE BdwaitEnd(p)
    BY <1>1, <1>2, <2>6 DEF BdwaitEnd, Runs, Goto, Goes, Label, Spares, Promises, TypeOK, bufVars,
       ioVars
  <2>7. CASE Binval(p)
    BY <1>1, <1>2, <2>7 DEF Binval, Runs, Goto, Goes, Label, Spares, Promises, TypeOK, bufVars,
       ioVars
  <2> QED BY <1>7, <2>1, <2>2, <2>3, <2>4, <2>5, <2>6, <2>7 DEF Flush
<1> QED BY <1>3, <1>4, <1>5, <1>6, <1>7 DEF Kernel

(* A process that takes a step leaves no other in the kernel with it.      *)
LEMMA CpuHeldStep ==
    ASSUME IndInv, CpuHeld, NEW p \in Proc, EnterKernel(p) \/ Kernel(p)
    PROVE  CpuHeld'
<1> USE ConstantAssumption
<1>1. /\ Runs(p) /\ (Goes(p) \/ Sleeps(p))
      /\ pc \in [Proc -> Label] /\ wchan \in [Proc -> Chan]
  BY Control DEF IndInv, CacheInv, TypeOK, Chan
<1>2. \A q \in Proc \ {p} :
         pc[q] \in {"user", "search", "rwait", "wwait", "bdwait"} /\ pc'[q] = pc[q]
  BY <1>1 DEF CpuHeld, Runs, Goes, Sleeps, Goto, Sleep
<1>3. CASE Goes(p)
  BY <1>1, <1>2, <1>3 DEF CpuHeld, Runs, Goes, Goto
<1>4. CASE Sleeps(p)
  BY <1>1, <1>2, <1>4 DEF CpuHeld, Runs, Sleeps, SleepLabel, Sleep, Chan
<1> QED BY <1>1, <1>3, <1>4

(* What brelse() does for who waits: it wakes up all who wait for the      *)
(* buffer and all who wait for any.                                        *)
LEMMA BrelseAnnounces ==
    ASSUME NEW b \in Buf, NEW f, NEW w \in [Proc -> Chan], Brelse(b, f, w),
           flags \in [Buf -> SUBSET Flag], flags[b] \subseteq f
    PROVE  /\ \A q \in Proc : "WANTED" \in flags[b] /\ w[q] = b => wchan'[q] = Awake
           /\ \A q \in Proc : flwanted /\ w[q] = FreeChan => wchan'[q] = Awake
           /\ \A c \in Buf \ {b} : flags'[c] = flags[c]
BY DEF Brelse, ReleaseChans, Wakeup

(* What is promised to a sleeper is kept by the steps of the others, or    *)
(* they wake him up.                                                       *)
LEMMA OthersAnnounce ==
    ASSUME IndInv, NEW p \in Proc, EnterKernel(p) \/ Kernel(p),
           NEW q \in Proc, wchan'[q] = wchan[q], wchan[q] # Awake, q # p
    PROVE  /\ wchan[q] \in Buf /\ {"BUSY", "WANTED"} \subseteq flags[wchan[q]]
                  => {"BUSY", "WANTED"} \subseteq flags'[wchan[q]]
           /\ wchan[q] = FreeChan /\ flwanted /\ freelist = <<>> => flwanted' /\ freelist' = <<>>
           /\ ioq \subseteq ioq'
<1> USE ConstantAssumption
<1>1. /\ flags \in [Buf -> SUBSET Flag] /\ wchan \in [Proc -> Chan]
      /\ \A b \in Buf : "BUSY" \in flags[b] \/ freelist # <<>>
  BY DEF IndInv, CacheInv, TypeOK, Chan, FreeIffNotBusy, InFree, Contains
<1>2. BufferStep(p) /\ Promises(p)
  BY BufferSteps, Control
<1>3. ASSUME NEW b \in Buf, NEW f, Brelse(b, f, wchan), flags[b] \subseteq f
      PROVE  /\ wchan[q] \in Buf /\ {"BUSY", "WANTED"} \subseteq flags[wchan[q]]
                    => {"BUSY", "WANTED"} \subseteq flags'[wchan[q]]
             /\ ~ (wchan[q] = FreeChan /\ flwanted)
  BY <1>1, <1>3, BrelseAnnounces
<1>4. wchan[q] = FreeChan /\ flwanted => flwanted'
  <2>1. ASSUME NEW b \in Buf, NEW f \in SUBSET Flag, Brelse(b, f, wchan), flwanted
        PROVE  wchan[q] # FreeChan
    BY <1>1, <2>1 DEF Brelse, ReleaseChans, Wakeup
  <2> QED BY <1>2, <2>1 DEF Promises
<1> DEFINE Kept == /\ wchan[q] \in Buf /\ {"BUSY", "WANTED"} \subseteq flags[wchan[q]]
                          => {"BUSY", "WANTED"} \subseteq flags'[wchan[q]]
                   /\ wchan[q] = FreeChan /\ flwanted /\ freelist = <<>> => freelist' = <<>>
                   /\ ioq \subseteq ioq'
<1>5. ASSUME Rests PROVE Kept
  BY <1>5 DEF Rests
<1>6. ASSUME NEW F, Marks(F) PROVE Kept
  BY <1>1, <1>6 DEF Marks
<1>7. ASSUME NEW b, NEW k, Assigns(b, k) PROVE Kept
  BY <1>1, <1>7 DEF Assigns
<1>8. ASSUME NEW b, StartsRead(b) PROVE Kept
  <2>1. PICK F : flags' = [flags EXCEPT ![b] = @ \cup F]
    BY <1>8 DEF StartsRead
  <2> QED BY <1>1, <1>8, <2>1 DEF StartsRead
<1>9. ASSUME NEW b, StartsWrite(b) PROVE Kept
  BY <1>1, <1>9 DEF StartsWrite, WriteFlags
<1>10. ASSUME NEW b, NEW v, NEW F, Writes(b, v, F) PROVE Kept
  BY <1>1, <1>10 DEF Writes, WriteFlags
<1>11. ASSUME NEW b, Returns(b) PROVE Kept
  BY <1>3, <1>11 DEF Returns
<1>12. ASSUME NEW b, NEW v, Delays(b, v) PROVE Kept
  BY <1>3, <1>12 DEF Delays
<1>13. Kept
  BY <1>2, <1>5, <1>6, <1>7, <1>8, <1>9, <1>10, <1>11, <1>12 DEF BufferStep
<1> QED BY <1>4, <1>13

(* A buffer is as it was, but for flags that getblk() or binval() set.     *)
LeftAlone(p, b) ==
    /\ flags[b] \subseteq flags'[b]
    /\ flags'[b] \subseteq flags[b] \cup {"BUSY", "WANTED"}
                             \cup (IF pc[p] = "inval" THEN {"STALE", "AGE"} ELSE {})
    /\ data'[b] = data[b] /\ blkno'[b] = blkno[b]
    /\ b \in ioq' <=> b \in ioq

(* A busy buffer is changed by nobody but its owner.                       *)
LEMMA Untouched ==
    ASSUME IndInv, NEW p \in Proc, EnterKernel(p) \/ Kernel(p),
           NEW b \in Buf, "BUSY" \in flags[b],
           ~ (b = cur[p] /\ pc[p] \in {"got", "modify", "wwait"}),
           ~ (b = bp[p] /\ pc[p] = "hold")
    PROVE  LeftAlone(p, b)
<1>1. /\ flags \in [Buf -> SUBSET Flag] /\ data \in [Buf -> Value]
      /\ blkno \in [Buf -> Block \cup {NoBlock}]
  BY DEF IndInv, CacheInv, TypeOK
<1>2. BufferStep(p)
  BY BufferSteps
<1>3. ASSUME NEW c \in Buf, c # b, \E g : flags' = [flags EXCEPT ![c] = g],
             data' = data \/ \E v : data' = [data EXCEPT ![c] = v],
             blkno' = blkno \/ \E k : blkno' = [blkno EXCEPT ![c] = k],
             ioq' = ioq \/ ioq' = ioq \cup {c}
      PROVE  LeftAlone(p, b)
  <2>1. flags'[b] = flags[b] /\ data'[b] = data[b] /\ blkno'[b] = blkno[b]
    BY <1>1, <1>3
  <2> QED BY <1>3, <2>1 DEF LeftAlone
<1>4. CASE Rests
  BY <1>4 DEF Rests, LeftAlone
<1>5. CASE pc[p] \in {"search", "found"} /\ Marks({"BUSY", "WANTED"})
  BY <1>5 DEF Marks, LeftAlone
<1>6. CASE pc[p] = "inval" /\ Marks({"STALE", "AGE"})
  BY <1>6 DEF Marks, LeftAlone
<1>7. ASSUME NEW c, Assigns(c, want[p]) PROVE LeftAlone(p, b)
  BY <1>3, <1>7 DEF Assigns
<1>8. CASE pc[p] = "got" /\ StartsRead(cur[p])
  <2>1. \E g : flags' = [flags EXCEPT ![cur[p]] = g]
    BY <1>8 DEF StartsRead
  <2> QED BY <1>3, <1>8, <2>1 DEF StartsRead
<1>9. ASSUME NEW c, StartsWrite(c) PROVE LeftAlone(p, b)
  BY <1>3, <1>9 DEF StartsWrite
<1>10. ASSUME NEW v, NEW F, Writes(cur[p], v, F), pc[p] = "modify" PROVE LeftAlone(p, b)
  BY <1>3, <1>10 DEF Writes
<1>11. CASE pc[p] = "hold" /\ Returns(bp[p])
  BY <1>3, <1>11 DEF Returns, Brelse
<1>12. CASE pc[p] \in {"got", "wwait"} /\ Returns(cur[p])
  BY <1>3, <1>12 DEF Returns, Brelse
<1>13. ASSUME NEW v, Delays(cur[p], v), pc[p] = "modify" PROVE LeftAlone(p, b)
  BY <1>3, <1>13 DEF Delays, Brelse
<1> QED BY <1>2, <1>4, <1>5, <1>6, <1>7, <1>8, <1>9, <1>10, <1>11, <1>12, <1>13 DEF BufferStep

(* What a process has is left alone by the others, and by himself as long  *)
(* as he is busy with a second buffer.                                     *)
LEMMA OwnedLeftAlone ==
    ASSUME IndInv, NEW p \in Proc, EnterKernel(p) \/ Kernel(p),
           NEW q \in Proc, NEW b \in Buf, Owns(q, b),
           q # p \/ (b = bp[p] /\ pc[p] # "hold")
    PROVE  LeftAlone(p, b)
<1>1. "BUSY" \in flags[b]
  BY DEF IndInv, CacheInv, OneOwner
<1>2. CASE q # p
  <2>1. ~Owns(p, b)
    BY <1>2 DEF IndInv, CacheInv, OneOwner
  <2> QED BY <1>1, <2>1, Untouched DEF Owns
<1>3. CASE b = bp[p] /\ pc[p] # "hold"
  <2>1. cur[p] # b \/ pc[p] = "found"
    BY <1>3, ConstantAssumption DEF IndInv, CacheInv, Transfers
  <2> QED BY <1>1, <1>3, <2>1, Untouched
<1> QED BY <1>2, <1>3

(* A transfer that somebody is going to wait for stays under way or done.  *)
LEMMA StartedStep ==
    ASSUME IndInv, Started, NEW p \in Proc, EnterKernel(p) \/ Kernel(p)
    PROVE  Started'
<1> USE ConstantAssumption
<1>1. TypeOK /\ Placed /\ Transfers /\ Spares(p) /\ (Goes(p) \/ Sleeps(p))
  BY Control DEF IndInv, CacheInv
<1>2. ASSUME NEW q \in Proc \ {p} PROVE StartedFor(q)'
  <2>1. \A b \in Buf : Owns(q, b) => LeftAlone(p, b)
    BY OwnedLeftAlone
  <2>2. /\ pc'[q] = pc[q] /\ role'[q] = role[q] /\ call'[q] = call[q] /\ ret'[q] = ret[q]
        /\ cur'[q] = cur[q] /\ bp'[q] = bp[q]
    BY <1>1 DEF Spares, Goes, Sleeps, Goto, Sleep, TypeOK
  <2>3. /\ bp[q] \in Buf \cup {NoBuf} /\ StartedFor(q)
        /\ pc[q] = "wwait" => cur[q] \in Buf
    BY <1>1 DEF TypeOK, Placed, Started
  <2> QED BY <2>1, <2>2, <2>3 DEF StartedFor, Owns, LeftAlone, InGetblk
<1>3. StartedFor(p)'
  <2>1. /\ bp[p] \in Buf /\ pc[p] # "hold"
        => (bp[p] \in ioq \/ "DONE" \in flags[bp[p]] => bp[p] \in ioq' \/ "DONE" \in flags'[bp[p]])
    BY OwnedLeftAlone DEF Owns, LeftAlone
  <2>2. StartedFor(p) /\ bp[p] \in Buf \cup {NoBuf}
    BY <1>1 DEF Started, TypeOK
  <2> USE <1>1, <2>1, <2>2 DEF StartedFor, InGetblk, TypeOK, Placed
  <2>3. CASE EnterKernel(p)
    <3>1. CASE CallGetblk(p)
      BY <3>1 DEF CallGetblk, Goto, Enter
    <3>2. CASE CallBreadaIncore(p)
      BY <3>2 DEF CallBreadaIncore, Goto, Enter
    <3>3. CASE CallFlush(p)
      BY <3>3 DEF CallFlush, Goto, Enter
    <3> QED BY <2>3, <3>1, <3>2, <3>3 DEF EnterKernel
  <2>4. CASE Getblk(p)
    <3>1. CASE GetblkFind(p)
      BY <3>1 DEF GetblkFind, Goto
    <3>2. CASE GetblkBusy(p)
      BY <3>2 DEF GetblkBusy, Sleep
    <3>3. CASE GetblkTake(p)
      BY <3>3 DEF GetblkTake, Goto
    <3>4. CASE GetblkNoFree(p)
      BY <3>4 DEF GetblkNoFree, Sleep
    <3>5. CASE GetblkFlush(p)
      BY <3>5 DEF GetblkFlush, StartAsync, Goto
    <3>6. CASE GetblkAssign(p)
      BY <3>6 DEF GetblkAssign, Reassign, Goto
    <3> QED BY <2>4, <3>1, <3>2, <3>3, <3>4, <3>5, <3>6 DEF Getblk
  <2>5. CASE Read(p)
    <3>1. CASE GotMain(p)
      BY <3>1 DEF GotMain, Goto, bufVars, ioVars
    <3>2. CASE GotMiss(p)
      BY <3>2 DEF GotMiss, Goto
    <3>3. CASE ReadAhead(p)
      BY <3>3 DEF ReadAhead, Goto
    <3>4. CASE AheadHit(p)
      BY <3>4 DEF AheadHit, Goto
    <3>5. CASE AheadMiss(p)
      BY <3>5 DEF AheadMiss, Goto
    <3>6. CASE Join(p)
      BY <3>6 DEF Join, Goto
    <3>7. CASE ReadWait(p)
      BY <3>7 DEF ReadWait, Iowait, Sleep, bufVars, ioVars, Goto
    <3>8. CASE GiveBack(p)
      BY <3>8 DEF GiveBack, Goto
    <3> QED BY <2>5, <3>1, <3>2, <3>3, <3>4, <3>5, <3>6, <3>7, <3>8 DEF Read
  <2>6. CASE Update(p)
    <3>1. CASE BeginModify(p)
      BY <3>1 DEF BeginModify, Goto
    <3>2. CASE PairSecond(p)
      BY <3>2 DEF PairSecond, Goto
    <3>3. CASE PairGot(p)
      BY <3>3 DEF PairGot, Goto
    <3>4. CASE PairParent(p)
      BY <3>4 DEF PairParent, Goto
    <3>5. CASE ModifyDelayed(p)
      BY <3>5 DEF ModifyDelayed, Modify, Goto
    <3>6. CASE ModifyAsync(p)
      BY <3>6 DEF ModifyAsync, Modify, StartAsync, Goto
    <3>7. CASE ModifySync(p)
      BY <3>7 DEF ModifySync, Goto
    <3>8. CASE WriteWait(p)
      BY <3>8 DEF WriteWait, Sleep, bufVars, ioVars, Goto
    <3>9. CASE WriteDone(p)
      BY <3>9 DEF WriteDone, Goto
    <3>10. CASE Count(p)
      BY <3>10 DEF Count, Goto
    <3> QED BY <2>6, <3>1, <3>2, <3>3, <3>4, <3>5, <3>6, <3>7, <3>8, <3>9, <3>10 DEF Update
  <2>7. CASE Flush(p)
    <3>1. CASE FlushWrite(p)
      BY <3>1 DEF FlushWrite, StartAsync, Goto
    <3>2. CASE FlushEnd(p)
      BY <3>2 DEF FlushEnd, Goto
    <3>3. CASE AgeWrite(p)
      BY <3>3 DEF AgeWrite, StartAsync, Goto
    <3>4. CASE AgeEnd(p)
      BY <3>4 DEF AgeEnd, Goto
    <3>5. CASE BdwaitSleep(p)
      BY <3>5 DEF BdwaitSleep, Sleep
    <3>6. CASE BdwaitEnd(p)
      BY <3>6 DEF BdwaitEnd, Goto
    <3>7. CASE Binval(p)
      BY <3>7 DEF Binval, Goto
    <3> QED BY <2>7, <3>1, <3>2, <3>3, <3>4, <3>5, <3>6, <3>7 DEF Flush
  <2> QED BY <2>3, <2>4, <2>5, <2>6, <2>7 DEF Kernel
<1> QED BY <1>2, <1>3 DEF Started

(* Nobody loses a wakeup in a step of a process.                           *)
LEMMA SleepersStep ==
    ASSUME IndInv, WakeInv, NEW p \in Proc, EnterKernel(p) \/ Kernel(p)
    PROVE  Sleepers'
<1> USE ConstantAssumption
<1>1. /\ Runs(p) /\ (Goes(p) \/ Sleeps(p)) /\ Spares(p) /\ Promises(p)
      /\ pc \in [Proc -> Label] /\ wchan \in [Proc -> Chan] /\ basyncnt \in Int
  BY Control DEF IndInv, CacheInv, TypeOK, Chan
<1>2. TypeOK' /\ wchan' \in [Proc -> Chan]
  BY NextInv DEF IndInv, CacheInv, TypeOK, Chan, Next
<1>3. {FreeChan, AsyncChan, Awake} \cap Buf = {} /\ FreeChan # Awake /\ AsyncChan # Awake
  BY DEF FreeChan, AsyncChan, Awake
<1>4. ASSUME NEW q \in Proc PROVE SleepsFor(q)'
  <2>1. CASE wchan'[q] = Awake
    BY <1>3, <2>1 DEF SleepsFor
  <2>2. CASE wchan'[q] # Awake /\ q # p
    <3>1. wchan'[q] = wchan[q] /\ wchan[q] # Awake /\ pc'[q] = pc[q]
      BY <1>1, <1>2, <2>2 DEF Goes, Goto, Sleeps, Sleep
    <3>2. /\ wchan[q] \in Buf /\ {"BUSY", "WANTED"} \subseteq flags[wchan[q]]
                  => {"BUSY", "WANTED"} \subseteq flags'[wchan[q]]
          /\ wchan[q] = FreeChan /\ flwanted /\ freelist = <<>> => flwanted' /\ freelist' = <<>>
          /\ ioq \subseteq ioq'
      BY <2>2, <3>1, OthersAnnounce
    <3>3. cur'[q] = cur[q] /\ bp'[q] = bp[q]
      BY <1>1, <2>2 DEF Spares
    <3>4. (basywait => basywait') /\ (basyncnt > 0 => basyncnt' > 0)
      BY <1>1 DEF Promises
    <3>5. SleepsFor(q)
      BY DEF WakeInv, Sleepers
    <3> QED BY <3>1, <3>2, <3>3, <3>4, <3>5 DEF SleepsFor
  <2>3. CASE wchan'[q] # Awake /\ q = p
    <3>1. Waits(p) /\ wchan[p] = Awake
      BY <1>1, <2>3 DEF Runs, Goes, Sleeps
    <3>2. CASE GetblkBusy(p)
      <4>1. cur[p] \in Buf /\ flags \in [Buf -> SUBSET Flag]
        BY <3>2 DEF GetblkBusy, IndInv, CacheInv, TypeOK, Placed
      <4> QED BY <1>1, <1>3, <2>3, <3>2, <4>1 DEF GetblkBusy, Sleep, SleepsFor
    <3>3. CASE GetblkNoFree(p)
      BY <1>1, <1>3, <2>3, <3>3 DEF GetblkNoFree, Sleep, SleepsFor, FreeChan, AsyncChan
    <3>4. CASE ReadWait(p)
      <4>1. bp[p] \in Buf /\ pc[p] = "rwait"
        BY <3>4 DEF ReadWait, IndInv, CacheInv, Placed
      <4>2. "DONE" \notin flags[bp[p]] => bp[p] \in ioq
        BY <4>1 DEF WakeInv, Started, StartedFor
      <4> QED BY <1>1, <1>3, <2>3, <3>1, <3>4, <4>1, <4>2
              DEF ReadWait, Iowait, Sleep, SleepsFor, ioVars
    <3>5. CASE WriteWait(p)
      <4>1. cur[p] \in Buf /\ pc[p] = "wwait"
        BY <3>5 DEF WriteWait, IndInv, CacheInv, Placed
      <4>2. cur[p] \in ioq
        BY <3>5, <4>1 DEF WriteWait, WakeInv, Started, StartedFor
      <4> QED BY <1>1, <1>3, <2>3, <3>1, <3>5, <4>1, <4>2 DEF WriteWait, Sleep, SleepsFor, ioVars
    <3>6. CASE BdwaitSleep(p)
      <4>1. {q1 \in Proc : pc[q1] = "count"} = {}
        BY <1>1, <3>6 DEF WakeInv, CpuHeld, BdwaitSleep, Runs
      <4>2. basyncnt > 0
        <5>1. IsFiniteSet(AsyncWrites)
          <6>1. AsyncWrites \subseteq Buf
            BY DEF AsyncWrites, IndInv, CacheInv, TypeOK
          <6> QED BY <6>1, FS_Subset
        <5>2. Cardinality(AsyncWrites) \in Nat /\ Cardinality({}) = 0
          BY <5>1, FS_CardinalityType, FS_EmptySet
        <5>3. basyncnt = Cardinality(AsyncWrites) - Cardinality({q1 \in Proc : pc[q1] = "count"})
          BY Zenon DEF WakeInv, AsyncCount
        <5>4. basyncnt = Cardinality(AsyncWrites) - Cardinality({})
          BY <4>1, <5>3, Zenon
        <5>5. basyncnt # 0
          BY <3>6, Zenon DEF BdwaitSleep
        <5> QED BY <5>2, <5>4, <5>5
      <4> QED BY <1>1, <1>3, <2>3, <3>6, <4>2 DEF BdwaitSleep, Sleep, SleepsFor, FreeChan, AsyncChan
    <3> QED BY <2>3, <3>1, <3>2, <3>3, <3>4, <3>5, <3>6 DEF Waits
  <2> QED BY <2>1, <2>2, <2>3
<1> QED BY <1>4 DEF Sleepers
-----------------------------------------------------------------------------
(* The count of asynchronous writes. *)

Uncounted == {p \in Proc : pc[p] = "count"}

(* Both sets are finite: of the buffers one, of the processes that keep    *)
(* the processor there is at most one.                                     *)
LEMMA CountedSets ==
    ASSUME TypeOK, CpuHeld
    PROVE  /\ IsFiniteSet(AsyncWrites) /\ Cardinality(AsyncWrites) \in Nat
           /\ IsFiniteSet(Uncounted) /\ Cardinality(Uncounted) \in Nat
<1>1. AsyncWrites \subseteq Buf /\ Uncounted \subseteq {cpu}
  BY DEF AsyncWrites, Uncounted, TypeOK, CpuHeld
<1>2. IsFiniteSet(AsyncWrites) /\ IsFiniteSet(Uncounted)
  BY <1>1, FS_Subset, FS_Singleton, ConstantAssumption
<1> QED BY <1>2, FS_CardinalityType

(* A step of a process counts the write it starts, or leaves one to count. *)
LEMMA WritesCounted ==
    ASSUME IndInv, CpuHeld, NEW p \in Proc, EnterKernel(p) \/ Kernel(p)
    PROVE  \/ /\ pc[p] # "count" /\ pc'[p] = "count"
              /\ \E b : b \notin AsyncWrites /\ AsyncWrites' = AsyncWrites \cup {b}
           \/ pc'[p] # "count" /\ AsyncWrites' = AsyncWrites
<1>1. /\ flags \in [Buf -> SUBSET Flag] /\ ioq \in SUBSET Buf /\ BufferStep(p)
      /\ \A b \in Buf : "ASYNC" \in flags[b] => b \in ioq
  BY BufferSteps DEF IndInv, CacheInv, TypeOK, Transfers
<1>2. ASSUME ioq' = ioq,
             \A b \in ioq : \A x \in {"ASYNC", "READ"} : x \in flags[b] <=> x \in flags'[b]
      PROVE  AsyncWrites' = AsyncWrites
  BY <1>2 DEF AsyncWrites
<1>3. ASSUME NEW b \in Buf \ ioq, ioq' = ioq \cup {b}, "ASYNC" \notin flags[b],
             NEW g, flags' = [flags EXCEPT ![b] = g]
      PROVE  /\ "ASYNC" \notin g \/ "READ" \in g => AsyncWrites' = AsyncWrites
             /\ "ASYNC" \in g /\ "READ" \notin g => AsyncWrites' = AsyncWrites \cup {b}
             /\ b \notin AsyncWrites
  <2>1. flags'[b] = g /\ \A c \in ioq : flags'[c] = flags[c]
    BY <1>1, <1>3
  <2> QED BY <1>3, <2>1 DEF AsyncWrites
<1>4. ASSUME NEW b \in Buf \ ioq, NEW f, Brelse(b, f, wchan), ioq' = ioq
      PROVE  AsyncWrites' = AsyncWrites
  BY <1>1, <1>2, <1>4 DEF Brelse
<1>5. ASSUME Rests PROVE AsyncWrites' = AsyncWrites
  BY <1>2, <1>5 DEF Rests
<1>6. ASSUME Marks({"BUSY", "WANTED"}) \/ Marks({"STALE", "AGE"})
      PROVE  AsyncWrites' = AsyncWrites
  BY <1>1, <1>2, <1>6 DEF Marks
<1>7. ASSUME NEW b, NEW k, Assigns(b, k) PROVE AsyncWrites' = AsyncWrites
  BY <1>1, <1>2, <1>7 DEF Assigns
<1>8. ASSUME NEW b, StartsRead(b) PROVE AsyncWrites' = AsyncWrites
  <2>1. PICK F \in {{"READ"}, AheadFlags} : flags' = [flags EXCEPT ![b] = @ \cup F]
    BY <1>8 DEF StartsRead
  <2>2. "READ" \in flags[b] \cup F
    BY <2>1 DEF AheadFlags
  <2> QED BY <1>1, <1>3, <1>8, <2>1, <2>2 DEF StartsRead
<1>9. ASSUME NEW b, StartsWrite(b)
      PROVE  b \notin AsyncWrites /\ AsyncWrites' = AsyncWrites \cup {b}
  <2> DEFINE g == WriteFlags(flags[b]) \cup {"BUSY", "ASYNC"}
  <2>1. b \in Buf \ ioq /\ ioq' = ioq \cup {b} /\ flags' = [flags EXCEPT ![b] = g]
    BY <1>9 DEF StartsWrite
  <2>2. "ASYNC" \notin flags[b]
    BY <1>1, <2>1
  <2>3. "READ" \notin g /\ "ASYNC" \in g
    BY <2>2 DEF WriteFlags
  <2> HIDE DEF g
  <2> QED BY <1>3, <2>1, <2>2, <2>3
<1>10. ASSUME NEW b, NEW v, NEW F \in SUBSET {"AGE"}, Writes(b, v, F)
       PROVE  AsyncWrites' = AsyncWrites
  <2> DEFINE g == WriteFlags(flags[b]) \cup F
  <2>1. b \in Buf \ ioq /\ ioq' = ioq \cup {b} /\ flags' = [flags EXCEPT ![b] = g]
    BY <1>10 DEF Writes
  <2>2. "ASYNC" \notin flags[b]
    BY <1>1, <2>1
  <2>3. "READ" \notin g /\ "ASYNC" \notin g
    BY <2>2 DEF WriteFlags
  <2> HIDE DEF g
  <2> QED BY <1>3, <2>1, <2>2, <2>3
<1>11. ASSUME NEW b, NEW v, Writes(b, v, WriteAsync)
       PROVE  b \notin AsyncWrites /\ AsyncWrites' = AsyncWrites \cup {b}
  <2> DEFINE g == WriteFlags(flags[b]) \cup WriteAsync
  <2>1. b \in Buf \ ioq /\ ioq' = ioq \cup {b} /\ flags' = [flags EXCEPT ![b] = g]
    BY <1>11 DEF Writes
  <2>2. "ASYNC" \notin flags[b]
    BY <1>1, <2>1
  <2>3. "READ" \notin g /\ "ASYNC" \in g
    BY <2>2 DEF WriteFlags, WriteAsync
  <2> HIDE DEF g
  <2> QED BY <1>3, <2>1, <2>2, <2>3
<1>12. ASSUME NEW b, Returns(b) PROVE AsyncWrites' = AsyncWrites
  BY <1>4, <1>12 DEF Returns
<1>13. ASSUME NEW b, NEW v, Delays(b, v) PROVE AsyncWrites' = AsyncWrites
  BY <1>4, <1>13 DEF Delays
<1> QED BY <1>1, <1>5, <1>6, <1>7, <1>8, <1>9, <1>10, <1>11, <1>12, <1>13 DEF BufferStep

(* The count stays right in a step of a process.                           *)
LEMMA AsyncCountStep ==
    ASSUME IndInv, CpuHeld, AsyncCount, NEW p \in Proc, EnterKernel(p) \/ Kernel(p)
    PROVE  AsyncCount'
<1> USE ConstantAssumption
<1>1. /\ TypeOK /\ pc \in [Proc -> Label] /\ basyncnt \in Int /\ Promises(p)
      /\ \E l : pc' = [pc EXCEPT ![p] = l]
  BY Control DEF IndInv, CacheInv, TypeOK, Goes, Sleeps, Goto, Sleep
<1>2. /\ IsFiniteSet(AsyncWrites) /\ Cardinality(AsyncWrites) \in Nat
      /\ IsFiniteSet(Uncounted) /\ Cardinality(Uncounted) \in Nat
  BY <1>1, CountedSets
<1>3. basyncnt = Cardinality(AsyncWrites) - Cardinality(Uncounted)
  BY DEF AsyncCount, Uncounted
<1>4. /\ pc'[p] # "count" => Uncounted' = Uncounted \ {p}
      /\ pc'[p] = "count" => Uncounted' = Uncounted \cup {p}
      /\ p \in Uncounted <=> pc[p] = "count"
  BY <1>1 DEF Uncounted
<1>5. CASE pc[p] # "count" /\ pc'[p] = "count"
  <2>1. PICK b : b \notin AsyncWrites /\ AsyncWrites' = AsyncWrites \cup {b}
    BY <1>5, WritesCounted
  <2>2. Cardinality(AsyncWrites') = Cardinality(AsyncWrites) + 1
    BY <1>2, <2>1, FS_AddElement
  <2>3. Cardinality(Uncounted') = Cardinality(Uncounted) + 1
    BY <1>2, <1>4, <1>5, FS_AddElement
  <2>4. basyncnt' = basyncnt
    BY <1>1, <1>5 DEF Promises
  <2> QED BY <1>2, <1>3, <2>2, <2>3, <2>4 DEF AsyncCount, Uncounted
<1>6. CASE pc[p] = "count"
  <2>1. pc'[p] # "count" /\ AsyncWrites' = AsyncWrites
    BY <1>6, WritesCounted
  <2>2. Cardinality(Uncounted') = Cardinality(Uncounted) - 1
    BY <1>2, <1>4, <1>6, <2>1, FS_RemoveElement
  <2>3. basyncnt' = basyncnt + 1
    BY <1>1, <1>6 DEF Promises
  <2> QED BY <1>1, <1>2, <1>3, <2>1, <2>2, <2>3 DEF AsyncCount, Uncounted
<1>7. CASE pc[p] # "count" /\ pc'[p] # "count"
  <2>1. AsyncWrites' = AsyncWrites
    BY <1>7, WritesCounted
  <2>2. Uncounted' = Uncounted
    BY <1>4, <1>7
  <2>3. basyncnt' = basyncnt
    BY <1>1, <1>7 DEF Promises
  <2> QED BY <1>3, <2>1, <2>2, <2>3 DEF AsyncCount, Uncounted
<1> QED BY <1>5, <1>6, <1>7
-----------------------------------------------------------------------------
(* The interrupt. *)

(* The flags a buffer has after iodone() and, of an asynchronous transfer, *)
(* brelse().                                                               *)
FlagsAfter(f) == IF "ASYNC" \in f
                 THEN AfterError(f) \ {"WANTED", "BUSY", "ASYNC", "AGE"}
                 ELSE f \ {"WANTED"}

(* What iodone() does: it ends one transfer and wakes up.                  *)
LEMMA IodoneShape ==
    ASSUME NEW b, NEW f, Iodone(b, f)
    PROVE  /\ flags' = [flags EXCEPT ![b] = FlagsAfter(f)] /\ ioq' = ioq \ {b}
           /\ UNCHANGED <<blkno, cpu, pc, call, want, role, cur, bp, ret, error>>
           /\ \A q \in Proc : wchan'[q] \in {wchan[q], Awake}
<1>1. CASE "ASYNC" \in f
  <2>1. Brelse(b, f, wchan) \/ Brelse(b, f, Wakeup(wchan, {AsyncChan}))
    BY <1>1 DEF Iodone, AsyncDone
  <2> QED BY <1>1, <2>1 DEF Brelse, FlagsAfter, Wakeup, Iodone
<1>2. CASE "ASYNC" \notin f
  BY <1>2 DEF Iodone, FlagsAfter, Wakeup
<1> QED BY <1>1, <1>2

(* What an interrupt does to the flags and the queue.                      *)
LEMMA InterruptShape ==
    ASSUME IndInv, NEW b \in Buf, Interrupt(b)
    PROVE  \E f \in SUBSET Flag :
              /\ Iodone(b, f) /\ b \in ioq
              /\ f = flags[b] \cup {"DONE"} \/ f = flags[b] \cup {"DONE", "ERROR"}
              /\ flags' = [flags EXCEPT ![b] = FlagsAfter(f)] /\ ioq' = ioq \ {b}
              /\ UNCHANGED <<blkno, cpu, pc, call, want, role, cur, bp, ret, error>>
              /\ \A q \in Proc : wchan'[q] \in {wchan[q], Awake}
<1>1. flags[b] \in SUBSET Flag
  BY DEF IndInv, CacheInv, TypeOK
<1>2. PICK f \in SUBSET Flag :
         /\ Iodone(b, f) /\ b \in ioq
         /\ f = flags[b] \cup {"DONE"} \/ f = flags[b] \cup {"DONE", "ERROR"}
  <2>1. CASE IoSucceeds(b)
    BY <1>1, <2>1 DEF IoSucceeds, Flag
  <2>2. CASE IoFails(b)
    BY <1>1, <2>2 DEF IoFails, Flag
  <2> QED BY <2>1, <2>2 DEF Interrupt
<1> QED BY <1>2, IodoneShape

(* An interrupt loses no wakeup: it announces the end of the transfer, the *)
(* free buffer and the last asynchronous write.                            *)
LEMMA SleepersInterrupt ==
    ASSUME IndInv, WakeInv, NEW b \in Buf, Interrupt(b)
    PROVE  Sleepers'
<1> USE ConstantAssumption
<1>1. PICK f \in SUBSET Flag :
         /\ Iodone(b, f) /\ b \in ioq
         /\ f = flags[b] \cup {"DONE"} \/ f = flags[b] \cup {"DONE", "ERROR"}
         /\ flags' = [flags EXCEPT ![b] = FlagsAfter(f)] /\ ioq' = ioq \ {b}
         /\ UNCHANGED <<blkno, cpu, pc, call, want, role, cur, bp, ret, error>>
         /\ \A q \in Proc : wchan'[q] \in {wchan[q], Awake}
  BY InterruptShape
<1>2. /\ flags \in [Buf -> SUBSET Flag] /\ wchan \in [Proc -> Chan] /\ basyncnt \in Int
      /\ basywait \in BOOLEAN
  BY DEF IndInv, CacheInv, TypeOK, Chan
<1>3. /\ {FreeChan, AsyncChan, Awake} \cap Buf = {}
      /\ FreeChan # Awake /\ AsyncChan # Awake /\ AsyncChan # FreeChan
  BY DEF FreeChan, AsyncChan, Awake
<1>4. ASSUME NEW q \in Proc, wchan'[q] = wchan[q], wchan[q] # Awake PROVE SleepsFor(q)'
  <2>1. SleepsFor(q)
    BY DEF WakeInv, Sleepers
  <2>2. CASE wchan[q] \in Buf \ {b}
    <3>1. flags'[wchan[q]] = flags[wchan[q]] /\ (wchan[q] \in ioq => wchan[q] \in ioq')
      BY <1>1, <1>2, <2>2
    <3> QED BY <1>1, <1>3, <1>4, <2>1, <2>2, <3>1 DEF SleepsFor
  <2>3. wchan[q] # b
    <3>1. CASE "ASYNC" \in f
      <4>1. ~Owns(q, b) \/ pc[q] = "found"
        BY <1>1, <3>1 DEF IndInv, CacheInv, OneOwner
      <4>2. wchan[q] = b => "WANTED" \in flags[b]
        BY <2>1, <4>1 DEF SleepsFor, Owns
      <4>3. Brelse(b, f, wchan) \/ Brelse(b, f, Wakeup(wchan, {AsyncChan}))
        BY <1>1, <3>1 DEF Iodone, AsyncDone
      <4> QED BY <1>1, <1>3, <1>4, <4>2, <4>3 DEF Brelse, ReleaseChans, Wakeup
    <3>2. CASE "ASYNC" \notin f
      BY <1>1, <1>4, <3>2 DEF Iodone, Wakeup
    <3> QED BY <3>1, <3>2
  <2>4. CASE wchan[q] = FreeChan
    <3>1. flwanted /\ freelist = <<>> /\ pc[q] = "search"
      BY <2>1, <2>4 DEF SleepsFor
    <3>2. CASE "ASYNC" \in f
      <4>1. Brelse(b, f, wchan) \/ Brelse(b, f, Wakeup(wchan, {AsyncChan}))
        BY <1>1, <3>2 DEF Iodone, AsyncDone
      <4> QED BY <1>3, <1>4, <2>4, <3>1, <4>1 DEF Brelse, ReleaseChans, Wakeup
    <3>3. CASE "ASYNC" \notin f
      <4>1. flwanted' = flwanted /\ freelist' = freelist
        BY <1>1, <3>3 DEF Iodone
      <4> QED BY <1>1, <1>3, <1>4, <2>4, <3>1, <4>1 DEF SleepsFor
    <3> QED BY <3>2, <3>3
  <2>5. CASE wchan[q] = AsyncChan
    <3>1. basywait /\ basyncnt > 0 /\ pc[q] = "bdwait"
      BY <2>1, <2>5 DEF SleepsFor
    <3>2. basywait' /\ basyncnt' > 0
      <4>1. CASE "ASYNC" \in f
        <5>1. basyncnt' = IF "READ" \in f THEN basyncnt ELSE basyncnt - 1
          BY <1>1, <4>1, Zenon DEF Iodone, AsyncDone
        <5>2. basyncnt' # 0
          <6> SUFFICES ASSUME basyncnt' = 0 PROVE FALSE
            OBVIOUS
          <6>1. Brelse(b, f, Wakeup(wchan, {AsyncChan}))
            BY <1>1, <3>1, <4>1 DEF Iodone, AsyncDone
          <6> QED BY <1>3, <1>4, <2>5, <6>1 DEF Brelse, Wakeup
        <5>3. basywait' = basywait
          BY <1>1, <4>1, <5>2, Zenon DEF Iodone, AsyncDone
        <5>4. basyncnt' > 0
          BY <1>2, <3>1, <5>1, <5>2
        <5> QED BY <3>1, <5>3, <5>4
      <4>2. CASE "ASYNC" \notin f
        BY <1>1, <3>1, <4>2 DEF Iodone
      <4> QED BY <4>1, <4>2
    <3> QED BY <1>1, <1>3, <1>4, <2>5, <3>1, <3>2 DEF SleepsFor
  <2> QED BY <1>2, <1>4, <2>2, <2>3, <2>4, <2>5 DEF Chan
<1>5. ASSUME NEW q \in Proc, wchan'[q] = Awake PROVE SleepsFor(q)'
  BY <1>3, <1>5 DEF SleepsFor
<1> QED BY <1>1, <1>4, <1>5 DEF Sleepers

(* An interrupt keeps the other parts of the invariant.                    *)
LEMMA WakeInterrupt ==
    ASSUME IndInv, WakeInv, NEW b \in Buf, Interrupt(b)
    PROVE  WakeInv'
<1> USE ConstantAssumption
<1>1. PICK f \in SUBSET Flag :
         /\ Iodone(b, f) /\ b \in ioq
         /\ f = flags[b] \cup {"DONE"} \/ f = flags[b] \cup {"DONE", "ERROR"}
         /\ flags' = [flags EXCEPT ![b] = FlagsAfter(f)] /\ ioq' = ioq \ {b}
         /\ UNCHANGED <<blkno, cpu, pc, call, want, role, cur, bp, ret, error>>
         /\ \A q \in Proc : wchan'[q] \in {wchan[q], Awake}
  BY InterruptShape
<1>2. /\ TypeOK /\ flags \in [Buf -> SUBSET Flag] /\ basyncnt \in Int /\ ioq \in SUBSET Buf
  BY DEF IndInv, CacheInv, TypeOK
<1>3. CpuHeld'
  BY <1>1 DEF WakeInv, CpuHeld
<1>4. Started'
  <2>1. "DONE" \in flags'[b]
    BY <1>1, <1>2 DEF FlagsAfter, AfterError
  <2>2. \A c \in Buf : c \in ioq \/ "DONE" \in flags[c] => c \in ioq' \/ "DONE" \in flags'[c]
    BY <1>1, <1>2, <2>1
  <2>3. ASSUME NEW q \in Proc PROVE StartedFor(q)'
    <3>1. bp[q] \in Buf \cup {NoBuf} /\ (pc[q] = "wwait" => cur[q] \in Buf)
      BY DEF IndInv, CacheInv, TypeOK, Placed
    <3> QED BY <1>1, <2>2, <3>1 DEF WakeInv, Started, StartedFor, InGetblk
  <2> QED BY <2>3 DEF Started
<1>5. AsyncCount'
  <2>1. /\ IsFiniteSet(AsyncWrites) /\ Cardinality(AsyncWrites) \in Nat
        /\ IsFiniteSet(Uncounted) /\ Cardinality(Uncounted) \in Nat
    BY <1>2, CountedSets DEF WakeInv
  <2>2. Uncounted' = Uncounted
    BY <1>1 DEF Uncounted
  <2>3. AsyncWrites' = AsyncWrites \ {b}
    <3>1. \A c \in ioq' : flags'[c] = flags[c]
      BY <1>1, <1>2
    <3> QED BY <1>1, <3>1 DEF AsyncWrites
  <2>4. b \in AsyncWrites <=> "ASYNC" \in f /\ "READ" \notin f
    BY <1>1 DEF AsyncWrites
  <2>5. basyncnt' = IF b \in AsyncWrites THEN basyncnt - 1 ELSE basyncnt
    <3>1. CASE "ASYNC" \in f
      <4>1. basyncnt' = IF "READ" \in f THEN basyncnt ELSE basyncnt - 1
        BY <1>1, <3>1, Zenon DEF Iodone, AsyncDone
      <4> QED BY <2>4, <3>1, <4>1
    <3>2. CASE "ASYNC" \notin f
      BY <1>1, <2>4, <3>2 DEF Iodone
    <3> QED BY <3>1, <3>2
  <2>6. Cardinality(AsyncWrites') =
           IF b \in AsyncWrites THEN Cardinality(AsyncWrites) - 1 ELSE Cardinality(AsyncWrites)
    BY <2>1, <2>3, FS_RemoveElement
  <2>7. basyncnt = Cardinality(AsyncWrites) - Cardinality(Uncounted)
    BY DEF WakeInv, AsyncCount, Uncounted
  <2>8. basyncnt' = Cardinality(AsyncWrites') - Cardinality(Uncounted')
    BY <1>2, <2>1, <2>2, <2>5, <2>6, <2>7
  <2> QED BY <2>8 DEF AsyncCount, Uncounted
<1>6. Sleepers'
  BY SleepersInterrupt
<1> QED BY <1>3, <1>4, <1>5, <1>6 DEF WakeInv

(* The invariant of the wakeups holds at the start.                        *)
LEMMA WakeInit == Init => WakeInv
<1> SUFFICES ASSUME Init PROVE WakeInv
  OBVIOUS
<1> USE ConstantAssumption
<1>1. CpuHeld /\ Started
  BY DEF Init, CpuHeld, Started, StartedFor, InGetblk
<1>2. Sleepers
  BY DEF Init, Sleepers, SleepsFor, FreeChan, AsyncChan, Awake
<1>3. AsyncCount
  <2>1. AsyncWrites = {} /\ {p \in Proc : pc[p] = "count"} = {}
    BY DEF Init, AsyncWrites
  <2>2. Cardinality({}) = 0
    BY FS_EmptySet
  <2>3. Cardinality(AsyncWrites) = 0 /\ Cardinality({p \in Proc : pc[p] = "count"}) = 0
    BY <2>1, <2>2
  <2>4. basyncnt = 0
    BY DEF Init
  <2> QED BY <2>3, <2>4 DEF AsyncCount
<1> QED BY <1>1, <1>2, <1>3 DEF WakeInv

(* It is inductive, next to the invariant of the lists.                    *)
LEMMA WakeNext == IndInv /\ WakeInv /\ [Next]_vars => WakeInv'
<1> SUFFICES ASSUME IndInv, WakeInv, [Next]_vars PROVE WakeInv'
  OBVIOUS
<1>1. CASE UNCHANGED vars
  BY <1>1 DEF vars, bufVars, ioVars, procVars, WakeInv, CpuHeld, Started, StartedFor, InGetblk,
              Sleepers, SleepsFor, AsyncCount, AsyncWrites
<1>2. ASSUME NEW p \in Proc, EnterKernel(p) \/ Kernel(p) PROVE WakeInv'
  BY <1>2, CpuHeldStep, StartedStep, SleepersStep, AsyncCountStep DEF WakeInv
<1>3. ASSUME NEW b \in Buf, Interrupt(b) PROVE WakeInv'
  BY <1>3, WakeInterrupt
<1> QED BY <1>1, <1>2, <1>3 DEF Next

(* A delayed write stays safe in every step.                               *)
LEMMA DirtyNext == IndInv /\ DirtyIsSafe /\ [Next]_vars => DirtyIsSafe'
<1> SUFFICES ASSUME IndInv, DirtyIsSafe, [Next]_vars PROVE DirtyIsSafe'
  OBVIOUS
<1> USE ConstantAssumption
<1>1. /\ flags \in [Buf -> SUBSET Flag] /\ ioq \in SUBSET Buf
      /\ blkno \in [Buf -> Block \cup {NoBlock}]
  BY DEF IndInv, CacheInv, TypeOK
<1>2. CASE UNCHANGED vars
  BY <1>2 DEF vars, bufVars, ioVars, DirtyIsSafe
<1>3. ASSUME NEW p \in Proc, EnterKernel(p) \/ Kernel(p) PROVE DirtyIsSafe'
  <2>1. BufferStep(p) /\ (pc[p] = "modify" => blkno[cur[p]] \in Block)
    <3>1. pc[p] = "modify" => cur[p] \in Buf /\ call[p].op # "eblk"
      BY DEF IndInv, CacheInv, Placed, Addressed, AddressedProc
    <3> QED BY <1>3, <3>1, BufferSteps DEF IndInv, Addressed, AddressedProc
  <2>2. ASSUME NEW b \in Buf, NEW f, Brelse(b, f, wchan), blkno' = blkno, ioq' = ioq,
               b \notin ioq, f = flags[b] \/ f = flags[b] \cup {"DELWRI", "DONE"},
               "DELWRI" \in f => blkno[b] \in Block
        PROVE  DirtyIsSafe'
    <3>1. /\ flags'[b] = AfterError(f) \ {"WANTED", "BUSY", "ASYNC", "AGE"}
          /\ \A c \in Buf \ {b} : flags'[c] = flags[c]
      BY <1>1, <2>2 DEF Brelse
    <3> QED BY <1>1, <2>2, <3>1 DEF DirtyIsSafe, AfterError
  <2>3. ASSUME NEW b \in Buf, NEW g, flags' = [flags EXCEPT ![b] = g], "DELWRI" \notin g,
               \A c \in Buf \ {b} : blkno'[c] = blkno[c],
               ioq' = ioq \/ ioq' = ioq \cup {b}
        PROVE  DirtyIsSafe'
    BY <1>1, <2>3 DEF DirtyIsSafe
  <2>4. ASSUME Rests PROVE DirtyIsSafe'
    BY <2>4 DEF Rests, DirtyIsSafe
  <2>5. ASSUME Marks({"BUSY", "WANTED"}) \/ Marks({"STALE", "AGE"}) PROVE DirtyIsSafe'
    BY <1>1, <2>5 DEF Marks, DirtyIsSafe
  <2>6. ASSUME NEW b, NEW k, Assigns(b, k) PROVE DirtyIsSafe'
    <3>1. PICK F \in SUBSET {"AGE"} : flags' = [flags EXCEPT ![b] = {"BUSY"} \cup F]
      BY <2>6 DEF Assigns
    <3> QED BY <1>1, <2>3, <2>6, <3>1 DEF Assigns
  <2>7. ASSUME NEW b, StartsRead(b) PROVE DirtyIsSafe'
    <3>1. PICK F \in {{"READ"}, AheadFlags} : flags' = [flags EXCEPT ![b] = @ \cup F]
      BY <2>7 DEF StartsRead
    <3>2. "DELWRI" \notin flags[b] \cup F
      BY <2>7, <3>1 DEF StartsRead, DirtyIsSafe, AheadFlags
    <3> QED BY <1>1, <2>3, <2>7, <3>1, <3>2 DEF StartsRead
  <2>8. ASSUME NEW b, StartsWrite(b) PROVE DirtyIsSafe'
    <3>1. "DELWRI" \notin WriteFlags(flags[b]) \cup {"BUSY", "ASYNC"}
      BY DEF WriteFlags
    <3> QED BY <1>1, <2>3, <2>8, <3>1 DEF StartsWrite
  <2>9. ASSUME NEW b, NEW v, NEW F, Writes(b, v, F), "DELWRI" \notin F PROVE DirtyIsSafe'
    <3>1. "DELWRI" \notin WriteFlags(flags[b]) \cup F
      BY <2>9 DEF WriteFlags
    <3> QED BY <1>1, <2>3, <2>9, <3>1 DEF Writes
  <2>10. ASSUME NEW b, Returns(b) PROVE DirtyIsSafe'
    BY <2>2, <2>10 DEF Returns, IndInv, Addressed
  <2>11. ASSUME NEW b, NEW v, Delays(b, v), blkno[b] \in Block PROVE DirtyIsSafe'
    BY <2>2, <2>11 DEF Delays
  <2> QED BY <2>1, <2>4, <2>5, <2>6, <2>7, <2>8, <2>9, <2>10, <2>11 DEF BufferStep, WriteAsync
<1>4. ASSUME NEW b \in Buf, Interrupt(b) PROVE DirtyIsSafe'
  <2>1. PICK f \in SUBSET Flag :
           /\ b \in ioq /\ f \subseteq flags[b] \cup {"DONE", "ERROR"}
           /\ flags' = [flags EXCEPT ![b] = FlagsAfter(f)] /\ ioq' = ioq \ {b}
           /\ blkno' = blkno
    BY <1>4, InterruptShape
  <2>2. "DELWRI" \notin flags'[b]
    BY <1>1, <2>1 DEF DirtyIsSafe, FlagsAfter, AfterError
  <2> QED BY <1>1, <2>1, <2>2 DEF DirtyIsSafe
<1> QED BY <1>2, <1>3, <1>4 DEF Next
-----------------------------------------------------------------------------
(* The theorems about wakeups and delayed writes. *)

(* The invariant of the wakeups holds in every reachable state.            *)
THEOREM WakeCorrect == Spec => []WakeInv
<1>1. Spec => []IndInv
  BY CacheCorrect
<1> QED BY <1>1, WakeInit, WakeNext, PTL DEF Spec

(* getblk(), iowait() and bdwait() put nobody to sleep on an event that    *)
(* has happened, and brelse() and iodone() forget nobody: for any number   *)
(* of processes, buffers and outstanding transfers.                        *)
THEOREM NoWakeupLost == Spec => []NoLostWakeup
<1>1. IndInv /\ WakeInv => NoLostWakeup
  <2> SUFFICES ASSUME IndInv, WakeInv, NEW p \in Proc
               PROVE  /\ wchan[p] \in Buf =>
                            /\ "BUSY" \in flags[wchan[p]]
                            /\ \/ "WANTED" \in flags[wchan[p]]
                               \/ wchan[p] \in ioq /\ "ASYNC" \notin flags[wchan[p]]
                      /\ wchan[p] = FreeChan => flwanted /\ freelist = <<>>
                      /\ wchan[p] = AsyncChan =>
                            basywait /\ \E b \in ioq : {"ASYNC", "READ"} \cap flags[b] = {"ASYNC"}
    BY DEF NoLostWakeup
  <2>1. SleepsFor(p)
    BY DEF WakeInv, Sleepers
  <2>2. ASSUME wchan[p] \in Buf
        PROVE  /\ "BUSY" \in flags[wchan[p]]
               /\ \/ "WANTED" \in flags[wchan[p]]
                  \/ wchan[p] \in ioq /\ "ASYNC" \notin flags[wchan[p]]
    <3>1. CASE pc[p] = "search"
      BY <2>1, <2>2, <3>1 DEF SleepsFor
    <3>2. CASE pc[p] # "search"
      <4>1. wchan[p] \in ioq /\ Owns(p, wchan[p])
        BY <2>1, <2>2, <3>2 DEF SleepsFor, Owns
      <4> QED BY <2>2, <4>1 DEF IndInv, CacheInv, OneOwner
    <3> QED BY <3>1, <3>2
  <2>3. ASSUME wchan[p] = AsyncChan
        PROVE  basywait /\ \E b \in ioq : {"ASYNC", "READ"} \cap flags[b] = {"ASYNC"}
    <3>1. basywait /\ basyncnt > 0
      BY <2>1, <2>3 DEF SleepsFor
    <3>2. /\ IsFiniteSet(AsyncWrites) /\ Cardinality(AsyncWrites) \in Nat
          /\ Cardinality(Uncounted) \in Nat
      BY CountedSets DEF WakeInv, IndInv, CacheInv
    <3>3. basyncnt = Cardinality(AsyncWrites) - Cardinality(Uncounted)
      BY DEF WakeInv, AsyncCount, Uncounted
    <3>4. Cardinality(AsyncWrites) # 0
      BY <3>1, <3>2, <3>3
    <3>5. PICK b : b \in AsyncWrites
      BY <3>2, <3>4, FS_EmptySet
    <3> QED BY <3>1, <3>5 DEF AsyncWrites
  <2> QED BY <2>1, <2>2, <2>3 DEF SleepsFor
<1> QED BY <1>1, CacheCorrect, WakeCorrect, PTL

(* basyncnt is the number of asynchronous writes in the device queues but  *)
(* those that bwrite() has yet to count, although iodone() may come first. *)
THEOREM WritesCountedRight == Spec => []AsyncCount
<1>1. WakeInv => AsyncCount
  BY DEF WakeInv
<1> QED BY <1>1, WakeCorrect, PTL

(* A delayed write is never on a buffer that a device is using, nor on one *)
(* without an address or whose transfer failed: it can still be written.   *)
THEOREM DirtySafe == Spec => []DirtyIsSafe
<1>1. Init => DirtyIsSafe
  BY DEF Init, DirtyIsSafe
<1> QED BY <1>1, DirtyNext, CacheCorrect, PTL DEF Spec
-----------------------------------------------------------------------------
(* The contents. *)

(* No device is closed for the last time: binval() forgets the buffers of  *)
(* writes that are still in the device queue.                              *)
NoLastClose == \A c \in Calls : c.op # "umount"

(* No failed transfer interrupts getblk() with a buffer in hand.           *)
WindowClosed == ErrorsInWindow => Failing = {}

(* Without the call, nobody comes to binval().                             *)
NotInval == \A p \in Proc : pc[p] # "inval" /\ call[p].op # "umount"

(* At the start everybody is outside. *)
LEMMA NotInvalInit == NoLastClose /\ Init => NotInval
BY ConstantAssumption DEF Init, NotInval, NoLastClose

(* Only a last close calls binval().  *)
LEMMA NotInvalNext == NoLastClose /\ IndInv /\ NotInval /\ [Next]_vars => NotInval'
<1> SUFFICES ASSUME NoLastClose, IndInv, NotInval, [Next]_vars PROVE NotInval'
  OBVIOUS
<1>1. /\ pc \in [Proc -> Label] /\ call \in [Proc -> Call]
      /\ \A p \in Proc : ret[p] # "inval"
  BY DEF IndInv, CacheInv, TypeOK
<1>2. ASSUME NEW p \in Proc, EnterKernel(p) \/ Kernel(p) PROVE NotInval'
  <2>1. Spares(p) /\ (Goes(p) \/ Sleeps(p))
    BY <1>2, Control
  <2>2. ASSUME NEW q \in Proc \ {p} PROVE pc'[q] # "inval" /\ call'[q].op # "umount"
    BY <1>1, <2>1 DEF NotInval, Spares, Goes, Sleeps, Goto, Sleep
  <2>3. call'[p].op # "umount"
    <3>1. CASE EnterKernel(p)
      BY <1>1, <3>1 DEF EnterKernel, CallGetblk, CallBreadaIncore, CallFlush, Enter, NoLastClose
    <3>2. CASE Join(p)
      BY <1>1, <3>2 DEF Join, NotInval, Call
    <3>3. CASE Kernel(p) /\ ~Join(p)
      <4>1. call' = call
        BY <3>3 DEF Kernel, Getblk, Read, Update, Flush, GetblkFind, GetblkBusy, GetblkTake,
             GetblkNoFree, GetblkFlush, GetblkAssign, Reassign, GotMain, GotMiss, ReadAhead,
             AheadHit, AheadMiss, ReadWait, GiveBack, BeginModify, PairSecond, PairGot,
             PairParent, ModifyDelayed, ModifyAsync, ModifySync, WriteWait, WriteDone, Count,
             FlushWrite, FlushEnd, AgeWrite, AgeEnd, BdwaitSleep, BdwaitEnd, Binval
      <4> QED BY <4>1 DEF NotInval
    <3> QED BY <1>2, <3>1, <3>2, <3>3
  <2>4. pc'[p] # "inval"
    <3>1. CASE FlushEnd(p)
      <4>1. call[p].op \in {"update", "shutdown"}
        BY <3>1 DEF FlushEnd, NotInval, IndInv, CacheInv, Placed
      <4>2. \E l \in {"user", "bdwait"} : Goto(p, l)
        BY <3>1, <4>1 DEF FlushEnd
      <4> QED BY <1>1, <4>2 DEF Goto
    <3>2. CASE EnterKernel(p)
      <4>1. pc'[p] \in {"search", "ahead", "age", "flush"}
        BY <1>1, <3>2 DEF EnterKernel, CallGetblk, CallBreadaIncore, CallFlush, Enter, Goto
      <4> QED BY <4>1
    <3>3. CASE Getblk(p)
      BY <1>1, <3>3 DEF Getblk, GetblkFind, GetblkBusy, GetblkTake, GetblkNoFree,
           GetblkFlush, GetblkAssign, Reassign, StartAsync, Goto, Sleep
    <3>4. CASE Read(p)
      BY <1>1, <3>4 DEF Read, GotMain, GotMiss, ReadAhead, AheadHit, AheadMiss, Join, ReadWait,
           Iowait, GiveBack, Goto, Sleep
    <3>5. CASE Update(p)
      BY <1>1, <3>5 DEF Update, BeginModify, PairSecond, PairGot, PairParent, ModifyDelayed,
           ModifyAsync, ModifySync, StartAsync, WriteWait, WriteDone, Count, Goto, Sleep
    <3>6. CASE Flush(p) /\ ~FlushEnd(p)
      BY <1>1, <3>6 DEF Flush, FlushWrite, AgeWrite, AgeEnd, BdwaitSleep, BdwaitEnd, Binval,
           StartAsync, Goto, Sleep
    <3> QED BY <1>2, <3>1, <3>2, <3>3, <3>4, <3>5, <3>6 DEF Kernel
  <2> QED BY <2>2, <2>3, <2>4 DEF NotInval
<1>3. ASSUME NEW b \in Buf, Interrupt(b) PROVE NotInval'
  <2>1. pc' = pc /\ call' = call
    BY <1>3, InterruptShape
  <2> QED BY <2>1 DEF NotInval
<1>4. CASE UNCHANGED vars
  BY <1>4 DEF vars, procVars, NotInval
<1> QED BY <1>2, <1>3, <1>4 DEF Next

(* What another process has and asked for stays as it is.                  *)
LEMMA ServesOthers ==
    ASSUME IndInv, CpuHeld, NotInval, NEW p \in Proc, EnterKernel(p) \/ Kernel(p),
           NEW q \in Proc \ {p}, Serves(q)
    PROVE  Serves(q)'
<1> USE ConstantAssumption
<1>1. TypeOK /\ Placed /\ Spares(p) /\ Runs(p) /\ (Goes(p) \/ Sleeps(p))
  BY Control DEF IndInv, CacheInv
<1>2. \A b \in Buf : Owns(q, b) => LeftAlone(p, b)
  BY OwnedLeftAlone
<1>3. /\ pc'[q] = pc[q] /\ role'[q] = role[q] /\ call'[q] = call[q] /\ ret'[q] = ret[q]
      /\ cur'[q] = cur[q] /\ bp'[q] = bp[q] /\ want'[q] = want[q] /\ error'[q] = error[q]
  BY <1>1 DEF Spares, Goes, Sleeps, Goto, Sleep, TypeOK
<1>4. pc[q] # "found" /\ pc[p] # "inval"
  BY <1>1 DEF CpuHeld, Runs, NotInval
<1>5. /\ bp[q] \in Buf \cup {NoBuf} /\ cur[q] \in Buf \cup {NoBuf}
      /\ pc[q] \in {"got", "modify"} => cur[q] \in Buf
      /\ pc[q] = "hold" \/ HasParent(q) => bp[q] \in Buf
  BY <1>1 DEF TypeOK, Placed, HasParent, InGetblk
<1>6. \A b \in Buf : Owns(q, b) =>
         /\ blkno'[b] = blkno[b] /\ flags[b] \subseteq flags'[b]
         /\ flags'[b] \subseteq flags[b] \cup {"BUSY", "WANTED"}
  BY <1>2, <1>4 DEF LeftAlone
<1>7. HasParent(q)' <=> HasParent(q)
  BY <1>3 DEF HasParent, InGetblk
<1>8. InGetblk(q)' <=> InGetblk(q)
  BY <1>3 DEF InGetblk
<1> QED BY <1>3, <1>4, <1>5, <1>6, <1>7, <1>8 DEF Serves, Owns

(* Nor is what the process has that takes the step confused.               *)
LEMMA ServesSelf ==
    ASSUME IndInv, CpuHeld, NotInval, StoreInv, NEW p \in Proc, EnterKernel(p) \/ Kernel(p)
    PROVE  Serves(p)'
<1> USE ConstantAssumption
<1>1. TypeOK /\ Placed /\ Transfers /\ Spares(p) /\ (Goes(p) \/ Sleeps(p))
  BY Control DEF IndInv, CacheInv
<1>2. bp[p] \in Buf /\ pc[p] # "hold"
      => /\ blkno'[bp[p]] = blkno[bp[p]] /\ flags[bp[p]] \subseteq flags'[bp[p]]
         /\ flags'[bp[p]] \subseteq flags[bp[p]] \cup {"BUSY", "WANTED"}
  BY OwnedLeftAlone DEF Owns, LeftAlone, NotInval
<1>3. Serves(p) /\ AddressedProc(p)
  BY DEF StoreInv, IndInv, Addressed
<1>4. bp[p] \in Buf \cup {NoBuf} /\ cur[p] \in Buf \cup {NoBuf}
  BY <1>1 DEF TypeOK
<1>5. \A b \in Buf : "ERROR" \in flags[b] => "BUSY" \in flags[b]
  BY DEF StoreInv, Copies
<1>6. CASE EnterKernel(p)
  <2> USE <1>1, <1>3, <1>4 DEF Serves, HasParent, InGetblk, TypeOK, Placed
  <2>1. CASE CallGetblk(p)
    BY <2>1 DEF CallGetblk, Goto, Enter, bufVars
  <2>2. CASE CallBreadaIncore(p)
    BY <2>2 DEF CallBreadaIncore, Goto, Enter, bufVars
  <2>3. CASE CallFlush(p)
    BY <2>3 DEF CallFlush, Goto, Enter, bufVars
  <2> QED BY <1>6, <2>1, <2>2, <2>3 DEF EnterKernel
<1>7. CASE Getblk(p)
  <2> USE <1>1, <1>2, <1>3, <1>4, <1>5 DEF Serves, HasParent, InGetblk, TypeOK, Placed
  <2>1. CASE GetblkFind(p)
    BY <2>1 DEF GetblkFind, Goto, bufVars, Matches
  <2>2. CASE GetblkBusy(p)
    BY <2>2 DEF GetblkBusy, Sleep
  <2>3. CASE GetblkTake(p)
    BY <2>3 DEF GetblkTake, Goto
  <2>4. CASE GetblkNoFree(p)
    BY <2>4 DEF GetblkNoFree, Sleep
  <2>5. CASE GetblkFlush(p)
    <3>1. /\ pc'[p] = "count" /\ ret'[p] = "search" /\ cur'[p] = NoBuf /\ pc[p] = "search"
          /\ UNCHANGED <<want, call, role, bp, error>>
      BY <2>5 DEF GetblkFlush, StartAsync, Goto
    <3> QED BY <3>1
  <2>6. CASE GetblkAssign(p)
    BY <2>6 DEF GetblkAssign, Reassign, Goto
  <2> QED BY <1>7, <2>1, <2>2, <2>3, <2>4, <2>5, <2>6 DEF Getblk
<1>8. CASE Read(p)
  <2> USE <1>1, <1>2, <1>3, <1>4 DEF Serves, HasParent, InGetblk, TypeOK, Placed
  <2>1. CASE GotMain(p)
    BY <2>1 DEF GotMain, Goto, bufVars
  <2>2. CASE GotMiss(p)
    BY <2>2 DEF GotMiss, Goto
  <2>3. CASE ReadAhead(p)
    BY <2>3 DEF ReadAhead, Goto, bufVars
  <2>4. CASE AheadHit(p)
    BY <2>4 DEF AheadHit, Goto
  <2>5. CASE AheadMiss(p)
    BY <2>5, SMTT(30) DEF AheadMiss, Goto
  <2>6. CASE Join(p)
    BY <2>6 DEF Join, Goto, bufVars, Call
  <2>7. CASE ReadWait(p)
    <3>1. /\ pc[p] = "rwait" /\ Iowait(p, bp[p], "hold")
          /\ UNCHANGED <<flags, blkno, call, want, role, cur, bp, ret>>
      BY <2>7 DEF ReadWait, bufVars
    <3>2. CASE "DONE" \in flags[bp[p]]
      <4>1. Goto(p, "hold")
        BY <3>1, <3>2 DEF Iowait
      <4>2. error' = [error EXCEPT ![p] = @ \/ "ERROR" \in flags[bp[p]]]
        BY <3>1, <3>2 DEF Iowait
      <4>3. error \in [Proc -> BOOLEAN]
        OBVIOUS
      <4>4. error'[p] = (error[p] \/ "ERROR" \in flags[bp[p]])
        BY <4>2, <4>3, ZenonT(40)
      <4>5. ~error'[p] => "ERROR" \notin flags[bp[p]]
        BY <4>4
      <4> QED BY <3>1, <3>2, <4>1, <4>5 DEF Goto
    <3>3. CASE "DONE" \notin flags[bp[p]]
      <4>1. pc' = pc /\ error' = error
        BY <3>1, <3>3 DEF Iowait, Sleep
      <4> QED BY <3>1, <4>1
    <3> QED BY <3>2, <3>3
  <2>8. CASE GiveBack(p)
    BY <2>8 DEF GiveBack, Goto
  <2> QED BY <1>8, <2>1, <2>2, <2>3, <2>4, <2>5, <2>6, <2>7, <2>8 DEF Read
<1>9. CASE Update(p)
  <2> USE <1>1, <1>2, <1>3, <1>4 DEF Serves, HasParent, InGetblk, TypeOK, Placed
  <2>1. CASE BeginModify(p)
    BY <2>1 DEF BeginModify, Goto, bufVars
  <2>2. CASE PairSecond(p)
    BY <2>2 DEF PairSecond, Goto, bufVars
  <2>3. CASE PairGot(p)
    BY <2>3 DEF PairGot, Goto, bufVars
  <2>4. CASE PairParent(p)
    BY <2>4 DEF PairParent, Goto, bufVars
  <2>5. CASE ModifyDelayed(p)
    BY <2>5, SMTT(30) DEF ModifyDelayed, Modify, Goto
  <2>6. CASE ModifyAsync(p)
    <3>1. /\ pc[p] = "modify" /\ pc'[p] = "count" /\ ret' = [ret EXCEPT ![p] = @] /\ cur'[p] = NoBuf
          /\ UNCHANGED <<want, call, role, bp, error>>
      BY <2>6 DEF ModifyAsync, Modify, StartAsync, Goto
    <3> QED BY <3>1
  <2>7. CASE ModifySync(p)
    BY <2>7 DEF ModifySync, Modify, Goto, WriteFlags
  <2>8. CASE WriteWait(p)
    BY <2>8 DEF WriteWait, Sleep, bufVars, Goto
  <2>9. CASE WriteDone(p)
    BY <2>9 DEF WriteDone, Goto
  <2>10. CASE Count(p)
    BY <2>10 DEF Count, Goto, bufVars
  <2> QED BY <1>9, <2>1, <2>2, <2>3, <2>4, <2>5, <2>6, <2>7, <2>8, <2>9, <2>10 DEF Update
<1>10. CASE Flush(p)
  <2> USE <1>1, <1>2, <1>3, <1>4 DEF Serves, HasParent, InGetblk, TypeOK, Placed
  <2>1. CASE FlushWrite(p)
    BY <2>1 DEF FlushWrite, StartAsync, Goto
  <2>2. CASE FlushEnd(p)
    <3>1. call[p].op \in {"update", "shutdown"}
      BY <2>2 DEF FlushEnd, NotInval
    <3>2. Goto(p, "user") \/ Goto(p, "bdwait")
      BY <2>2, <3>1 DEF FlushEnd
    <3> QED BY <2>2, <3>2 DEF FlushEnd, Goto, bufVars
  <2>3. CASE AgeWrite(p)
    BY <2>3 DEF AgeWrite, StartAsync, Goto
  <2>4. CASE AgeEnd(p)
    BY <2>4 DEF AgeEnd, Goto, bufVars
  <2>5. CASE BdwaitSleep(p)
    BY <2>5 DEF BdwaitSleep, Sleep, bufVars
  <2>6. CASE BdwaitEnd(p)
    BY <2>6 DEF BdwaitEnd, Goto, bufVars
  <2>7. ~Binval(p)
    BY DEF Binval, NotInval
  <2> QED BY <1>10, <2>1, <2>2, <2>3, <2>4, <2>5, <2>6, <2>7 DEF Flush
<1> QED BY <1>6, <1>7, <1>8, <1>9, <1>10 DEF Kernel

(* A buffer that is not to be written goes on holding what the device      *)
(* holds, whatever a process does.                                         *)
LEMMA CopiesStep ==
    ASSUME IndInv, NotInval, DirtyIsSafe, StoreInv,
           NEW p \in Proc, EnterKernel(p) \/ Kernel(p), NEW b \in Buf
    PROVE  Copies(b)'
<1> USE ConstantAssumption
<1>1. /\ flags \in [Buf -> SUBSET Flag] /\ data \in [Buf -> Value]
      /\ blkno \in [Buf -> Block \cup {NoBlock}]
  BY DEF IndInv, CacheInv, TypeOK
<1>2. BufferStep(p) /\ pc[p] # "inval"
  BY BufferSteps DEF NotInval
<1>3. Copies(b)
  BY DEF StoreInv
<1>4. /\ pc[p] \in {"got", "modify"} => {"STALE", "ERROR"} \cap flags[cur[p]] = {}
      /\ pc[p] = "modify" => cur[p] \in Buf
  BY DEF StoreInv, Serves, IndInv, CacheInv, Placed
<1>5. CASE Rests
  BY <1>3, <1>5 DEF Rests, Copies
<1>6. CASE Marks({"BUSY", "WANTED"})
  <2>1. /\ flags[b] \subseteq flags'[b] /\ flags'[b] \subseteq flags[b] \cup {"BUSY", "WANTED"}
        /\ UNCHANGED <<blkno, data, ioq, disk>>
    BY <1>6 DEF Marks
  <2> QED BY <1>3, <2>1 DEF Copies
<1>7. ASSUME NEW c, c # b, NEW g, flags' = [flags EXCEPT ![c] = g],
             data' = data \/ \E v : data' = [data EXCEPT ![c] = v],
             blkno' = blkno \/ \E k : blkno' = [blkno EXCEPT ![c] = k],
             ioq' = ioq \/ ioq' = ioq \cup {c}, disk' = disk
      PROVE  Copies(b)'
  <2>1. flags'[b] = flags[b] /\ data'[b] = data[b] /\ blkno'[b] = blkno[b]
    BY <1>1, <1>7
  <2>2. b \in ioq' => b \in ioq
    BY <1>7
  <2> QED BY <1>3, <1>7, <2>1, <2>2 DEF Copies
<1>8. ASSUME NEW g, flags' = [flags EXCEPT ![b] = g],
             {"DONE", "ERROR", "STALE", "DELWRI"} \cap g = {}
      PROVE  Copies(b)'
  BY <1>1, <1>8 DEF Copies
<1>9. ASSUME NEW c, NEW k, Assigns(c, k) PROVE Copies(b)'
  <2>1. PICK F \in SUBSET {"AGE"} : flags' = [flags EXCEPT ![c] = {"BUSY"} \cup F]
    BY <1>9 DEF Assigns
  <2> QED BY <1>7, <1>8, <1>9, <2>1 DEF Assigns
<1>10. ASSUME StartsRead(cur[p]), pc[p] = "got" PROVE Copies(b)'
  <2>1. PICK F \in {{"READ"}, AheadFlags} : flags' = [flags EXCEPT ![cur[p]] = flags[cur[p]] \cup F]
    BY <1>10 DEF StartsRead
  <2>2. {"DONE", "ERROR", "STALE", "DELWRI"} \cap (flags[cur[p]] \cup F) = {}
    BY <1>4, <1>10, <2>1 DEF StartsRead, AheadFlags, DirtyIsSafe
  <2> QED BY <1>7, <1>8, <1>10, <2>1, <2>2 DEF StartsRead
<1>11. ASSUME NEW c, StartsWrite(c) PROVE Copies(b)'
  <2>1. {"DONE", "ERROR", "STALE", "DELWRI"} \cap (WriteFlags(flags[c]) \cup {"BUSY", "ASYNC"}) = {}
    BY <1>11 DEF StartsWrite, WriteFlags, StoreInv, Copies
  <2> QED BY <1>7, <1>8, <1>11, <2>1 DEF StartsWrite
<1>12. ASSUME NEW v, NEW F, Writes(cur[p], v, F), F \in SUBSET {"AGE"} \/ F = WriteAsync,
              pc[p] = "modify"
       PROVE  Copies(b)'
  <2>1. {"DONE", "ERROR", "STALE", "DELWRI"} \cap (WriteFlags(flags[cur[p]]) \cup F) = {}
    BY <1>4, <1>12 DEF WriteFlags, WriteAsync
  <2> QED BY <1>7, <1>8, <1>12, <2>1 DEF Writes
<1>13. ASSUME NEW c, Returns(c) PROVE Copies(b)'
  <2>1. /\ flags' = [flags EXCEPT ![c] =
                        AfterError(flags[c]) \ {"WANTED", "BUSY", "ASYNC", "AGE"}]
        /\ UNCHANGED <<blkno, data, ioq, disk>> /\ c \notin ioq
    BY <1>13 DEF Returns, Brelse
  <2>2. CASE c # b
    BY <1>7, <2>1, <2>2
  <2>3. CASE c = b
    <3>1. flags'[b] = AfterError(flags[b]) \ {"WANTED", "BUSY", "ASYNC", "AGE"}
      BY <1>1, <2>1, <2>3
    <3> QED BY <1>3, <2>1, <2>3, <3>1 DEF Copies, AfterError
  <2> QED BY <2>2, <2>3
<1>14. ASSUME NEW v, Delays(cur[p], v), pc[p] = "modify" PROVE Copies(b)'
  <2>1. /\ flags' = [flags EXCEPT ![cur[p]] = AfterError(flags[cur[p]] \cup {"DELWRI", "DONE"})
                                                 \ {"WANTED", "BUSY", "ASYNC", "AGE"}]
        /\ cur[p] \notin ioq /\ data' = [data EXCEPT ![cur[p]] = v]
        /\ UNCHANGED <<blkno, ioq, disk>>
    BY <1>14 DEF Delays, Brelse
  <2>2. CASE cur[p] # b
    BY <1>7, <2>1, <2>2
  <2>3. CASE cur[p] = b
    <3>1. flags'[b] = (flags[b] \cup {"DELWRI", "DONE"}) \ {"WANTED", "BUSY", "ASYNC", "AGE"}
      BY <1>1, <1>4, <1>14, <2>1, <2>3 DEF AfterError
    <3> QED BY <1>4, <1>14, <2>1, <2>3, <3>1 DEF Copies
  <2> QED BY <2>2, <2>3
<1> QED BY <1>2, <1>5, <1>6, <1>9, <1>10, <1>11, <1>12, <1>13, <1>14 DEF BufferStep

(* What a transfer leaves in the buffer and on the device.                 *)
LEMMA InterruptData ==
    ASSUME NEW b \in Buf, Interrupt(b)
    PROVE  /\ b \in ioq /\ ioq' = ioq \ {b}
           /\ UNCHANGED <<blkno, cpu, pc, call, want, role, cur, bp, ret, error>>
           /\ \/ /\ flags' = [flags EXCEPT ![b] = FlagsAfter(flags[b] \cup {"DONE"})]
                 /\ \/ /\ "READ" \in flags[b]
                       /\ data' = [data EXCEPT ![b] = disk[blkno[b]]] /\ disk' = disk
                    \/ /\ "READ" \notin flags[b]
                       /\ disk' = [disk EXCEPT ![blkno[b]] = data[b]] /\ data' = data
              \/ /\ flags' = [flags EXCEPT ![b] = FlagsAfter(flags[b] \cup {"DONE", "ERROR"})]
                 /\ disk' = disk /\ Failing # {}
                 /\ ErrorsInWindow \/ \A p \in Proc : pc[p] # "found"
                 /\ \/ "READ" \in flags[b] /\ \E v \in Value : data' = [data EXCEPT ![b] = v]
                    \/ "READ" \notin flags[b] /\ "WRITE" \in Failing /\ data' = data
<1>1. CASE IoSucceeds(b)
  BY <1>1, IodoneShape DEF IoSucceeds, Direction
<1>2. CASE IoFails(b)
  BY <1>2, IodoneShape DEF IoFails, Direction
<1> QED BY <1>1, <1>2 DEF Interrupt

(* An interrupt keeps the contents.                                        *)
LEMMA StoreInterrupt ==
    ASSUME IndInv, DirtyIsSafe, StoreInv, WindowClosed, NEW b \in Buf, Interrupt(b)
    PROVE  StoreInv'
<1> USE ConstantAssumption
<1>1. /\ b \in ioq /\ ioq' = ioq \ {b}
      /\ UNCHANGED <<blkno, cpu, pc, call, want, role, cur, bp, ret, error>>
  BY InterruptData
<1>2. /\ flags \in [Buf -> SUBSET Flag] /\ data \in [Buf -> Value]
      /\ blkno \in [Buf -> Block \cup {NoBlock}] /\ disk \in [Block -> Value]
      /\ blkno[b] \in Block
  BY <1>1 DEF IndInv, CacheInv, TypeOK, Addressed
<1>3. /\ {"STALE", "ERROR", "DELWRI", "DONE"} \cap flags[b] = {} /\ "BUSY" \in flags[b]
  BY <1>1 DEF StoreInv, Copies, DirtyIsSafe, IndInv, CacheInv, Transfers
<1>4. \A c \in Buf \ {b} : flags'[c] = flags[c] /\ data'[c] = data[c]
  <2>1. \E g : flags' = [flags EXCEPT ![b] = g]
    BY InterruptData
  <2>2. data' = data \/ \E v : data' = [data EXCEPT ![b] = v]
    BY InterruptData
  <2> QED BY <1>2, <2>1, <2>2
<1>5. ASSUME NEW q \in Proc PROVE Serves(q)'
  <2>1. Serves(q) /\ bp[q] \in Buf \cup {NoBuf} /\ cur[q] \in Buf \cup {NoBuf}
    BY DEF StoreInv, IndInv, CacheInv, TypeOK
  <2>2. ~ (pc[q] \in {"got", "modify"} /\ cur[q] = b)
    BY <1>1 DEF IndInv, CacheInv, Transfers
  <2>3. ~ ((pc[q] = "hold" \/ HasParent(q)) /\ bp[q] = b)
    BY <1>1 DEF IndInv, CacheInv, Transfers, HasParent, InGetblk
  <2>4. bp[q] = b \/ cur[q] = b => "STALE" \notin flags'[b]
    <3>1. CASE "ASYNC" \in flags[b]
      <4>1. bp[q] # b /\ (cur[q] = b => pc[q] = "found")
        BY <1>1, <3>1 DEF IndInv, CacheInv, OneOwner, Owns
      <4>2. pc[q] = "found" => flags' = [flags EXCEPT ![b] = FlagsAfter(flags[b] \cup {"DONE"})]
        BY InterruptData DEF WindowClosed
      <4> QED BY <1>2, <1>3, <4>1, <4>2 DEF FlagsAfter, AfterError
    <3>2. CASE "ASYNC" \notin flags[b]
      <4>1. \E f \in {flags[b] \cup {"DONE"}, flags[b] \cup {"DONE", "ERROR"}} :
               flags' = [flags EXCEPT ![b] = FlagsAfter(f)]
        BY InterruptData
      <4> QED BY <1>2, <1>3, <3>2, <4>1 DEF FlagsAfter
    <3> QED BY <3>1, <3>2
  <2>5. HasParent(q)' <=> HasParent(q)
    BY <1>1 DEF HasParent, InGetblk
  <2>6. InGetblk(q)' <=> InGetblk(q)
    BY <1>1 DEF InGetblk
  <2>7. pc[q] \in {"got", "modify"} => cur[q] \in Buf
    BY DEF IndInv, CacheInv, Placed
  <2>8. pc[q] = "hold" \/ HasParent(q) => bp[q] \in Buf
    BY DEF IndInv, CacheInv, Placed, HasParent, InGetblk
  <2>9. pc[q] = "hold" /\ call[q].op \notin {"write", "eblk"} => "DONE" \in flags'[bp[q]]
    BY <1>4, <2>1, <2>3, <2>8 DEF Serves
  <2> QED BY <1>1, <1>4, <2>1, <2>2, <2>3, <2>4, <2>5, <2>6, <2>7, <2>8, <2>9 DEF Serves
<1>6. ASSUME NEW c \in Buf PROVE Copies(c)'
  <2>1. CASE c = b
    <3>1. b \notin ioq'
      BY <1>1
    <3>2. CASE /\ flags' = [flags EXCEPT ![b] = FlagsAfter(flags[b] \cup {"DONE"})]
               /\ data'[b] = disk'[blkno[b]]
      BY <1>1, <1>2, <1>3, <2>1, <3>1, <3>2 DEF Copies, FlagsAfter, AfterError
    <3>3. CASE flags' = [flags EXCEPT ![b] = FlagsAfter(flags[b] \cup {"DONE", "ERROR"})]
      BY <1>1, <1>2, <1>3, <2>1, <3>1, <3>3 DEF Copies, FlagsAfter, AfterError
    <3>4. \/ data' = [data EXCEPT ![b] = disk[blkno[b]]] /\ disk' = disk
          \/ disk' = [disk EXCEPT ![blkno[b]] = data[b]] /\ data' = data
          => data'[b] = disk'[blkno[b]]
      BY <1>2
    <3> QED BY <3>2, <3>3, <3>4, InterruptData
  <2>2. CASE c # b
    <3>1. Copies(c) /\ flags'[c] = flags[c] /\ data'[c] = data[c] /\ blkno'[c] = blkno[c]
      BY <1>1, <1>4, <2>2 DEF StoreInv
    <3>2. c \in ioq' => c \in ioq
      BY <1>1
    <3>3. blkno[c] # NoBlock /\ "STALE" \notin flags[c] => disk'[blkno[c]] = disk[blkno[c]]
      <4>1. blkno[c] = blkno[b] => "STALE" \in flags[c]
        BY <1>2, <1>3, <2>2 DEF IndInv, CacheInv, OneBufferPerBlock
      <4>2. disk' = disk \/ disk' = [disk EXCEPT ![blkno[b]] = data[b]]
        BY InterruptData
      <4> QED BY <1>2, <4>1, <4>2
    <3> QED BY <3>1, <3>2, <3>3 DEF Copies
  <2> QED BY <2>1, <2>2
<1> QED BY <1>5, <1>6 DEF StoreInv

(* Nothing is in the cache at the start.                                   *)
LEMMA StoreStart == Init => StoreInv
BY ConstantAssumption DEF Init, StoreInv, Serves, Copies, InGetblk, HasParent

(* The invariant of the contents is inductive, next to the others.         *)
LEMMA StoreStep ==
    /\ WindowClosed /\ IndInv /\ WakeInv /\ DirtyIsSafe /\ NotInval /\ StoreInv
    /\ [Next]_vars
    => StoreInv'
<1> SUFFICES ASSUME WindowClosed, IndInv, WakeInv, DirtyIsSafe, NotInval, StoreInv, [Next]_vars
             PROVE  StoreInv'
  OBVIOUS
<1>1. CASE UNCHANGED vars
  BY <1>1 DEF vars, bufVars, ioVars, procVars, StoreInv, Serves, Copies, InGetblk, HasParent
<1>2. ASSUME NEW p \in Proc, EnterKernel(p) \/ Kernel(p) PROVE StoreInv'
  <2>1. \A q \in Proc : Serves(q)
    BY DEF StoreInv
  <2>2. ASSUME NEW q \in Proc PROVE Serves(q)'
    BY <1>2, <2>1, ServesSelf, ServesOthers DEF WakeInv
  <2>3. ASSUME NEW b \in Buf PROVE Copies(b)'
    BY <1>2, CopiesStep
  <2> QED BY <2>2, <2>3 DEF StoreInv
<1>3. ASSUME NEW b \in Buf, Interrupt(b) PROVE StoreInv'
  BY <1>3, StoreInterrupt
<1> QED BY <1>1, <1>2, <1>3 DEF Next

(* Without last closes, and without errors in the window of getblk(),      *)
(* every process has the block it asked for, and every buffer that is not  *)
(* to be written holds what the device holds.                              *)
THEOREM ContentsCorrect ==
    ASSUME NoLastClose, WindowClosed
    PROVE  Spec => []StoreInv
<1>1. NotInval /\ IndInv /\ [Next]_vars => NotInval'
  BY NotInvalNext
<1>2. Init => NotInval
  BY NotInvalInit
<1>3. /\ IndInv /\ WakeInv /\ DirtyIsSafe /\ NotInval /\ StoreInv /\ [Next]_vars
      => StoreInv'
  BY StoreStep
<1> QED BY <1>1, <1>2, <1>3, StoreStart, CacheCorrect, WakeCorrect, DirtySafe, PTL DEF Spec

-----------------------------------------------------------------------------
(* The cache implements BlockStore. *)

(* The content of a block is that of its current buffer, or what the       *)
(* device holds: there is at most one current buffer.                      *)
ContentRule ==
    /\ Content = [k \in Block |-> Content[k]]
    /\ \A k \in Block :
          /\ \A b \in Buf : blkno[b] = k /\ Current(b) => Content[k] = data[b]
          /\ (\A b \in Buf : ~ (blkno[b] = k /\ Current(b))) => Content[k] = disk[k]

(* A block has its content in the one buffer that holds it, or on disk.    *)
LEMMA ContentIs == OneBufferPerBlock => ContentRule
<1>0. Content = [k \in Block |-> Content[k]]
  BY Zenon DEF Content
<1> SUFFICES ASSUME OneBufferPerBlock, NEW k \in Block
             PROVE  /\ \A b \in Buf : blkno[b] = k /\ Current(b) => Content[k] = data[b]
                    /\ (\A b \in Buf : ~ (blkno[b] = k /\ Current(b))) => Content[k] = disk[k]
  BY <1>0 DEF ContentRule
<1> USE ConstantAssumption
<1> DEFINE Is(b) == b \in Buf /\ blkno[b] = k /\ Current(b)
           c == CHOOSE b \in Buf : blkno[b] = k /\ Current(b)
<1>1. Content[k] = IF \E b \in Buf : blkno[b] = k /\ Current(b) THEN data[c] ELSE disk[k]
  BY Zenon DEF Content
<1>2. (\E b \in Buf : blkno[b] = k /\ Current(b)) => Is(c)
  BY Zenon
<1> HIDE DEF c
<1>3. \A b \in Buf : Is(b) /\ Is(c) => b = c
  BY DEF OneBufferPerBlock, Current
<1> QED BY <1>1, <1>2, <1>3

(* A block keeps its content if its current buffer, or else the device,    *)
(* does.                                                                   *)
LEMMA SameContent ==
    ASSUME ContentRule, ContentRule', NEW k \in Block,
           \A b \in Buf : blkno[b] = k /\ Current(b)
                          => blkno'[b] = k /\ Current(b)' /\ data'[b] = data[b],
           \A b \in Buf : blkno'[b] = k /\ Current(b)' => blkno[b] = k /\ Current(b),
           disk'[k] = disk[k]
    PROVE  Content'[k] = Content[k]
<1>1. CASE \E b \in Buf : blkno[b] = k /\ Current(b)
  BY <1>1 DEF ContentRule
<1>2. CASE ~ \E b \in Buf : blkno[b] = k /\ Current(b)
  <2>1. Content[k] = disk[k]
    BY <1>2 DEF ContentRule
  <2>2. Content'[k] = disk'[k]
    BY <1>2 DEF ContentRule
  <2> QED BY <2>1, <2>2
<1> QED BY <1>1, <1>2

(* What a step of a process does to the contents: it writes one block that *)
(* it has, or nothing.                                                     *)
LEMMA ContentStep ==
    ASSUME IndInv, NotInval, DirtyIsSafe, StoreInv, ContentRule, ContentRule',
           NEW p \in Proc, EnterKernel(p) \/ Kernel(p)
    PROVE  /\ disk' = disk
           /\ \/ Content' = Content
              \/ /\ pc[p] = "modify" /\ pc'[p] # "modify" /\ blkno[cur[p]] \in Block
                 /\ \E v \in Value : Content' = [Content EXCEPT ![blkno[cur[p]]] = v]
<1> USE ConstantAssumption
<1>1. /\ flags \in [Buf -> SUBSET Flag] /\ data \in [Buf -> Value]
      /\ blkno \in [Buf -> Block \cup {NoBlock}] /\ ioq \in SUBSET Buf
      /\ pc \in [Proc -> Label]
  BY DEF IndInv, CacheInv, TypeOK
<1>2. BufferStep(p) /\ pc[p] # "inval"
  BY BufferSteps DEF NotInval
<1>3. disk' = disk
  BY <1>2 DEF BufferStep, Rests, Marks, Assigns, StartsRead, Writes, Returns, Delays, StartsWrite
<1>4. Content = [k \in Block |-> Content[k]] /\ Content' = [k \in Block |-> Content'[k]]
  BY DEF ContentRule
<1>5. pc[p] = "modify" => /\ cur[p] \in Buf /\ blkno[cur[p]] \in Block
                          /\ {"STALE", "ERROR"} \cap flags[cur[p]] = {} /\ pc'[p] # "modify"
  <2>1. pc[p] = "modify" => cur[p] \in Buf /\ call[p].op # "eblk" /\ ret[p] \in {"user", "parent"}
    BY DEF IndInv, CacheInv, Placed, Addressed, AddressedProc
  <2>2. pc[p] = "modify" => ModifyDelayed(p) \/ ModifyAsync(p) \/ ModifySync(p)
    <3>1. pc[p] = "modify" => ~EnterKernel(p)
      BY DEF EnterKernel, CallGetblk, CallBreadaIncore, CallFlush, Enter
    <3>2. pc[p] = "modify" => ~Getblk(p)
      BY DEF Getblk, GetblkFind, GetblkBusy, GetblkTake, GetblkNoFree, GetblkFlush,
             GetblkAssign, Reassign
    <3>3. pc[p] = "modify" => ~Read(p)
      BY DEF Read, GotMain, GotMiss, ReadAhead, AheadHit, AheadMiss, Join, ReadWait, GiveBack
    <3>4. pc[p] = "modify" => ~Flush(p)
      BY DEF Flush, FlushWrite, FlushEnd, AgeWrite, AgeEnd, BdwaitSleep, BdwaitEnd, Binval
    <3> QED BY <3>1, <3>2, <3>3, <3>4 DEF Kernel, Update, BeginModify, PairSecond, PairGot,
                                          PairParent, WriteWait, WriteDone, Count
  <2>3. pc[p] = "modify" => pc'[p] # "modify"
    BY <1>1, <2>1, <2>2 DEF ModifyDelayed, ModifyAsync, ModifySync, StartAsync, Goto
  <2>4. pc[p] = "modify" => blkno[cur[p]] \in Block
    BY <2>1, ConstantAssumption DEF IndInv, Addressed, AddressedProc
  <2> QED BY <2>1, <2>3, <2>4 DEF StoreInv, Serves
<1> DEFINE Stays == Content' = Content
           Writ == /\ pc[p] = "modify"
                   /\ \E v \in Value : Content' = [Content EXCEPT ![blkno[cur[p]]] = v]
<1>6. ASSUME NEW c \in Buf, NEW g, flags' = [flags EXCEPT ![c] = g],
             data' = data \/ \E v : data' = [data EXCEPT ![c] = v],
             blkno' = blkno, ioq' = ioq \/ ioq' = ioq \cup {c},
             NEW k \in Block, k # blkno[c]
      PROVE  Content'[k] = Content[k]
  <2>1. \A b \in Buf \ {c} : flags'[b] = flags[b] /\ data'[b] = data[b] /\ (b \in ioq' <=> b \in ioq)
    BY <1>1, <1>6
  <2>2. \A b \in Buf \ {c} : Current(b)' <=> Current(b)
    BY <2>1 DEF Current
  <2> QED BY <1>3, <1>6, <2>1, <2>2, SameContent
<1>7. ASSUME NEW c \in Buf, NEW g, flags' = [flags EXCEPT ![c] = g],
             data' = data, blkno' = blkno, ioq' = ioq \/ ioq' = ioq \cup {c},
             Current(c)' <=> Current(c)
      PROVE  Stays
  <2>1. ASSUME NEW k \in Block PROVE Content'[k] = Content[k]
    <3>1. CASE k # blkno[c]
      BY <1>6, <1>7, <2>1, <3>1
    <3>2. CASE k = blkno[c]
      <4>1. \A b \in Buf \ {c} : flags'[b] = flags[b] /\ (b \in ioq' <=> b \in ioq)
        BY <1>1, <1>7
      <4>2. \A b \in Buf : Current(b)' <=> Current(b)
        BY <1>7, <4>1 DEF Current
      <4> QED BY <1>3, <1>7, <2>1, <4>2, SameContent
    <3> QED BY <3>1, <3>2
  <2> QED BY <1>4, <2>1
<1>8. ASSUME NEW c \in Buf, NEW g, flags' = [flags EXCEPT ![c] = g], NEW v \in Value,
             data' = [data EXCEPT ![c] = v], blkno' = blkno, ioq' = ioq \/ ioq' = ioq \cup {c},
             blkno[c] \in Block, Current(c)'
      PROVE  Content' = [Content EXCEPT ![blkno[c]] = v]
  <2>1. \A k \in Block : k # blkno[c] => Content'[k] = Content[k]
    BY <1>6, <1>8
  <2>2. Content'[blkno[c]] = v
    <3>1. data'[c] = v
      BY <1>1, <1>8
    <3> QED BY <1>8, <3>1 DEF ContentRule
  <2> QED BY <1>4, <2>1, <2>2
<1>9. CASE Rests
  <2>1. \A b \in Buf : Current(b)' <=> Current(b)
    BY <1>9 DEF Rests, Current
  <2>2. \A k \in Block : Content'[k] = Content[k]
    BY <1>9, <2>1, SameContent DEF Rests
  <2> QED BY <1>3, <1>4, <2>2
<1>10. CASE Marks({"BUSY", "WANTED"})
  <2>1. \A b \in Buf : Current(b)' <=> Current(b)
    BY <1>10 DEF Marks, Current
  <2>2. \A k \in Block : Content'[k] = Content[k]
    BY <1>10, <2>1, SameContent DEF Marks
  <2> QED BY <1>3, <1>4, <2>2
<1>11. ASSUME NEW c, Assigns(c, want[p]) PROVE Stays
  <2>1. PICK F \in SUBSET {"AGE"} : flags' = [flags EXCEPT ![c] = {"BUSY"} \cup F]
    BY <1>11 DEF Assigns
  <2>2. ~Current(c)' /\ c \notin ioq
    BY <1>1, <1>11, <2>1 DEF Assigns, Current
  <2>3. \A b \in Buf \ {c} : (Current(b)' <=> Current(b)) /\ blkno'[b] = blkno[b] /\ data'[b] = data[b]
    BY <1>1, <1>11, <2>1 DEF Assigns, Current
  <2>4. ASSUME NEW k \in Block PROVE Content'[k] = Content[k]
    <3>1. CASE blkno[c] = k /\ Current(c)
      <4>1. data[c] = disk[k]
        <5>1. "DONE" \in flags[c] /\ {"STALE", "ERROR", "DELWRI"} \cap flags[c] = {} /\ c \in Buf
          BY <1>11, <2>2, <3>1 DEF Assigns, Current
        <5> QED BY <3>1, <5>1, <2>4 DEF StoreInv, Copies
      <4>2. Content[k] = disk[k]
        BY <1>11, <3>1, <4>1, <2>4 DEF ContentRule, Assigns
      <4>3. \A b \in Buf : ~ (blkno'[b] = k /\ Current(b)')
        BY <1>11, <2>2, <2>3, <3>1 DEF Assigns, IndInv, CacheInv, OneBufferPerBlock, Current
      <4>4. Content'[k] = disk'[k]
        BY <2>4, <4>3 DEF ContentRule
      <4> QED BY <1>3, <4>2, <4>4
    <3>2. CASE ~ (blkno[c] = k /\ Current(c))
      BY <1>3, <2>2, <2>3, <2>4, <3>2, SameContent
    <3> QED BY <3>1, <3>2
  <2> QED BY <1>4, <2>4
<1>12. ASSUME NEW c, StartsRead(c) PROVE Stays
  <2>1. PICK F \in {{"READ"}, AheadFlags} : flags' = [flags EXCEPT ![c] = flags[c] \cup F]
    BY <1>12 DEF StartsRead
  <2>2. ~Current(c) /\ ~Current(c)'
    BY <1>1, <1>12, <2>1 DEF StartsRead, Current, AheadFlags
  <2> QED BY <1>7, <1>12, <2>1, <2>2 DEF StartsRead
<1>13. ASSUME NEW c, StartsWrite(c) PROVE Stays
  <2>1. Current(c) /\ Current(c)'
    BY <1>1, <1>13 DEF StartsWrite, Current, WriteFlags, DirtyIsSafe, StoreInv, Copies
  <2> QED BY <1>7, <1>13, <2>1 DEF StartsWrite
<1>14. ASSUME NEW c, c = cur[p], NEW v \in Value, NEW F, Writes(c, v, F), F \in SUBSET {"AGE"} \/ F = WriteAsync,
              pc[p] = "modify"
       PROVE  Writ
  <2>1. Current(c)'
    BY <1>1, <1>5, <1>14 DEF Writes, Current, WriteFlags, WriteAsync
  <2> QED BY <1>5, <1>8, <1>14, <2>1 DEF Writes
<1>15. ASSUME NEW c, Returns(c) PROVE Stays
  <2>1. /\ flags' = [flags EXCEPT ![c] =
                        AfterError(flags[c]) \ {"WANTED", "BUSY", "ASYNC", "AGE"}]
        /\ UNCHANGED <<blkno, data, ioq, disk>> /\ c \in Buf \ ioq
    BY <1>15 DEF Returns, Brelse
  <2>2. Current(c)' <=> Current(c)
    BY <1>1, <2>1 DEF Current, AfterError
  <2> QED BY <1>7, <2>1, <2>2
<1>16. ASSUME NEW c, c = cur[p], NEW v \in Value, Delays(c, v), pc[p] = "modify" PROVE Writ
  <2>1. /\ flags' = [flags EXCEPT ![c] = AfterError(flags[c] \cup {"DELWRI", "DONE"})
                                                 \ {"WANTED", "BUSY", "ASYNC", "AGE"}]
        /\ data' = [data EXCEPT ![c] = v] /\ UNCHANGED <<blkno, ioq>>
    BY <1>16 DEF Delays, Brelse
  <2>2. Current(c)'
    BY <1>1, <1>5, <1>16, <2>1 DEF Current, AfterError
  <2> QED BY <1>5, <1>8, <1>16, <2>1, <2>2
<1>17. Stays \/ Writ
  BY <1>2, <1>9, <1>10, <1>11, <1>12, <1>13, <1>14, <1>15, <1>16 DEF BufferStep
<1> QED BY <1>3, <1>5, <1>17

(* What an interrupt does to the contents: the device has taken a block,   *)
(* or has refused it, or nothing.                                          *)
LEMMA ContentInterrupt ==
    ASSUME IndInv, DirtyIsSafe, StoreInv, ContentRule, ContentRule',
           NEW b \in Buf, Interrupt(b)
    PROVE  \/ disk' = disk /\ Content' = Content
           \/ \E k \in Block : disk' = [disk EXCEPT ![k] = Content[k]] /\ Content' = Content
           \/ \E k \in Block : /\ "WRITE" \in Failing /\ disk' = disk
                               /\ Content' = [Content EXCEPT ![k] = disk[k]]
<1> USE ConstantAssumption
<1>1. /\ b \in ioq /\ ioq' = ioq \ {b} /\ blkno' = blkno
      /\ \E g : flags' = [flags EXCEPT ![b] = g]
      /\ data' = data \/ \E v : data' = [data EXCEPT ![b] = v]
      /\ disk' = disk \/ disk' = [disk EXCEPT ![blkno[b]] = data[b]]
  BY InterruptData
<1>2. /\ flags \in [Buf -> SUBSET Flag] /\ data \in [Buf -> Value] /\ disk \in [Block -> Value]
      /\ blkno[b] \in Block
  BY <1>1 DEF IndInv, CacheInv, TypeOK, Addressed
<1>3. {"STALE", "ERROR", "DELWRI", "DONE"} \cap flags[b] = {}
  BY <1>1 DEF StoreInv, Copies, DirtyIsSafe, IndInv, CacheInv, Transfers
<1>4. Content = [k \in Block |-> Content[k]] /\ Content' = [k \in Block |-> Content'[k]]
  BY DEF ContentRule
<1>5. \A c \in Buf \ {b} : /\ flags'[c] = flags[c] /\ data'[c] = data[c]
                           /\ Current(c)' <=> Current(c)
                           /\ blkno[c] = blkno[b] => ~Current(c)
  <2>1. \A c \in Buf \ {b} : flags'[c] = flags[c] /\ data'[c] = data[c] /\ (c \in ioq' <=> c \in ioq)
    BY <1>1, <1>2
  <2> QED BY <1>2, <1>3, <2>1 DEF Current, IndInv, CacheInv, OneBufferPerBlock
<1>6. ASSUME NEW k \in Block, k # blkno[b] PROVE Content'[k] = Content[k]
  <2>1. disk'[k] = disk[k]
    BY <1>1, <1>2, <1>6
  <2> QED BY <1>1, <1>5, <1>6, <2>1, SameContent
<1>7. /\ Current(b) => Content[blkno[b]] = data[b]
      /\ ~Current(b) => Content[blkno[b]] = disk[blkno[b]]
  BY <1>2, <1>5 DEF ContentRule
<1>8. /\ Current(b)' => Content'[blkno[b]] = data'[b]
      /\ ~Current(b)' => Content'[blkno[b]] = disk'[blkno[b]]
  BY <1>1, <1>2, <1>5 DEF ContentRule
<1>9. CASE /\ flags' = [flags EXCEPT ![b] = FlagsAfter(flags[b] \cup {"DONE"})]
           /\ \/ /\ "READ" \in flags[b]
                 /\ data' = [data EXCEPT ![b] = disk[blkno[b]]] /\ disk' = disk
              \/ /\ "READ" \notin flags[b]
                 /\ disk' = [disk EXCEPT ![blkno[b]] = data[b]] /\ data' = data
  <2>1. Current(b)'
    BY <1>2, <1>3, <1>9 DEF Current, FlagsAfter, AfterError
  <2>2. CASE "READ" \in flags[b] /\ data' = [data EXCEPT ![b] = disk[blkno[b]]] /\ disk' = disk
    <3>1. ~Current(b)
      BY <1>3, <2>2 DEF Current
    <3>2. Content'[blkno[b]] = Content[blkno[b]]
      BY <1>2, <1>7, <1>8, <2>1, <2>2, <3>1
    <3> QED BY <1>4, <1>6, <2>2, <3>2
  <2>3. CASE "READ" \notin flags[b] /\ disk' = [disk EXCEPT ![blkno[b]] = data[b]] /\ data' = data
    <3>1. Current(b)
      BY <1>1, <1>3, <2>3 DEF Current
    <3>2. Content'[blkno[b]] = Content[blkno[b]] /\ Content[blkno[b]] = data[b]
      BY <1>7, <1>8, <2>1, <2>3, <3>1
    <3> QED BY <1>2, <1>4, <1>6, <2>3, <3>2
  <2> QED BY <1>9, <2>2, <2>3
<1>10. CASE /\ flags' = [flags EXCEPT ![b] = FlagsAfter(flags[b] \cup {"DONE", "ERROR"})]
            /\ disk' = disk /\ ("READ" \notin flags[b] => "WRITE" \in Failing)
  <2>1. ~Current(b)'
    BY <1>2, <1>3, <1>10 DEF Current, FlagsAfter, AfterError
  <2>2. disk' = disk /\ ("READ" \notin flags[b] => "WRITE" \in Failing)
    BY <1>10
  <2>3. CASE "READ" \in flags[b]
    <3>1. ~Current(b)
      BY <1>3, <2>3 DEF Current
    <3>2. Content'[blkno[b]] = Content[blkno[b]]
      BY <1>7, <1>8, <2>1, <2>2, <3>1
    <3> QED BY <1>4, <1>6, <2>2, <3>2
  <2>4. CASE "READ" \notin flags[b]
    <3>1. Content'[blkno[b]] = disk[blkno[b]]
      BY <1>8, <2>1, <2>2
    <3>2. Content' = [Content EXCEPT ![blkno[b]] = disk[blkno[b]]]
      BY <1>2, <1>4, <1>6, <3>1
    <3> QED BY <1>2, <2>2, <2>4, <3>2
  <2> QED BY <2>3, <2>4
<1> QED BY <1>9, <1>10, InterruptData

(* The processor keeps the changes apart: a process that takes a step is   *)
(* the only one that may have a block to change.                           *)
LEMMA HeldStep ==
    ASSUME IndInv, IndInv', CpuHeld, NEW p \in Proc, EnterKernel(p) \/ Kernel(p)
    PROVE  /\ Held = IF pc[p] = "modify" THEN {blkno[cur[p]]} ELSE {}
           /\ pc'[p] # "modify" => Held' = {}
           /\ pc'[p] = "modify" => /\ Held' = {blkno'[cur'[p]]} /\ blkno'[cur'[p]] \in Block
                                   /\ UNCHANGED bufVars /\ UNCHANGED ioVars
                                   /\ pc[p] # "modify"
<1> USE ConstantAssumption
<1>1. Runs(p) /\ Spares(p) /\ (Goes(p) \/ Sleeps(p)) /\ pc \in [Proc -> Label]
  BY Control DEF IndInv, CacheInv, TypeOK
<1>2. \A q \in Proc \ {p} : pc[q] # "modify" /\ pc'[q] = pc[q]
  BY <1>1 DEF CpuHeld, Runs, Goes, Sleeps, Goto, Sleep
<1>3. Held = IF pc[p] = "modify" THEN {blkno[cur[p]]} ELSE {}
  BY <1>2 DEF Held
<1>4. Held' = IF pc'[p] = "modify" THEN {blkno'[cur'[p]]} ELSE {}
  BY <1>2 DEF Held
<1>5. ASSUME pc'[p] = "modify"
      PROVE  UNCHANGED bufVars /\ UNCHANGED ioVars /\ pc[p] # "modify"
  <2>1. /\ ret[p] \in {"user", "parent", "search", "flush", "age"}
        /\ pc[p] = "flush" => call[p].op \in {"update", "shutdown", "umount"}
    BY DEF IndInv, CacheInv, TypeOK, Placed
  <2>2. CASE BeginModify(p) \/ PairGot(p) \/ PairParent(p)
    BY <2>2 DEF BeginModify, PairGot, PairParent
  <2>3. ~EnterKernel(p)
    BY <1>1, <1>5 DEF EnterKernel, CallGetblk, CallBreadaIncore, CallFlush, Enter, Goto
  <2>4. ~Getblk(p)
    BY <1>1, <1>5 DEF Getblk, GetblkFind, GetblkBusy, GetblkTake, GetblkNoFree, GetblkFlush,
           GetblkAssign, Reassign, StartAsync, Goto, Sleep
  <2>5. ~Read(p)
    BY <1>1, <1>5 DEF Read, GotMain, GotMiss, ReadAhead, AheadHit, AheadMiss, Join, ReadWait,
           Iowait, GiveBack, Goto, Sleep
  <2>6. Update(p) => BeginModify(p) \/ PairGot(p) \/ PairParent(p)
    BY <1>1, <1>5, <2>1 DEF Update, PairSecond, ModifyDelayed, ModifyAsync, ModifySync, StartAsync,
           WriteWait, WriteDone, Count, Goto, Sleep
  <2>7. ~FlushEnd(p)
    <3>1. SUFFICES ASSUME FlushEnd(p) PROVE FALSE
      OBVIOUS
    <3>2. \E l \in {"user", "bdwait", "inval"} : Goto(p, l)
      BY <2>1, <3>1 DEF FlushEnd
    <3> QED BY <1>1, <1>5, <3>2 DEF Goto
  <2>8. ~Flush(p)
    BY <1>1, <1>5, <2>7 DEF Flush, FlushWrite, AgeWrite, AgeEnd, BdwaitSleep, BdwaitEnd, Binval,
           StartAsync, Goto, Sleep
  <2> QED BY <2>2, <2>3, <2>4, <2>5, <2>6, <2>8 DEF Kernel
<1>6. pc'[p] = "modify" => blkno'[cur'[p]] \in Block
  <2>1. AddressedProc(p)' /\ Placed'
    BY DEF IndInv, CacheInv, Addressed
  <2> QED BY <2>1 DEF AddressedProc, Placed
<1> QED BY <1>3, <1>4, <1>5, <1>6

(* Every step is one of the block store's, or changes nothing there.       *)
LEMMA StoreNextStep ==
    ASSUME IndInv, IndInv', WakeInv, DirtyIsSafe, NotInval, StoreInv, [Next]_vars,
           ContentRule, ContentRule'
    PROVE  [Store!StoreNext]_(Store!storeVars)
<1> USE ConstantAssumption
<1>1. CASE UNCHANGED vars
  <2>1. UNCHANGED <<flags, blkno, data, ioq, disk, pc, cur>>
    BY <1>1 DEF vars, bufVars, ioVars, procVars
  <2>2. Held' = Held /\ \A b \in Buf : Current(b)' <=> Current(b)
    BY <2>1 DEF Held, Current
  <2>3. \A k \in Block : Content'[k] = Content[k]
    BY <2>1, <2>2, SameContent
  <2>4. Content' = Content
    BY <2>3 DEF ContentRule
  <2> QED BY <2>1, <2>2, <2>4 DEF Store!storeVars
<1>2. ASSUME NEW p \in Proc, EnterKernel(p) \/ Kernel(p)
      PROVE  [Store!StoreNext]_(Store!storeVars)
  <2>1. /\ disk' = disk
        /\ \/ Content' = Content
           \/ /\ pc[p] = "modify" /\ pc'[p] # "modify" /\ blkno[cur[p]] \in Block
              /\ \E v \in Value : Content' = [Content EXCEPT ![blkno[cur[p]]] = v]
    BY <1>2, ContentStep
  <2>2. /\ Held = IF pc[p] = "modify" THEN {blkno[cur[p]]} ELSE {}
        /\ pc'[p] # "modify" => Held' = {}
        /\ pc'[p] = "modify" => /\ Held' = {blkno'[cur'[p]]} /\ blkno'[cur'[p]] \in Block
                                /\ UNCHANGED bufVars /\ UNCHANGED ioVars
                                /\ pc[p] # "modify"
    BY <1>2, HeldStep DEF WakeInv
  <2>3. CASE pc[p] = "modify"
    <3> DEFINE k == blkno[cur[p]]
    <3>1. k \in Block
      BY <2>3 DEF IndInv, CacheInv, Addressed, AddressedProc, Placed
    <3>2. Held = {k} /\ Held' = {}
      BY <2>2, <2>3
    <3>3. \E v \in Value : Content' = [Content EXCEPT ![k] = v]
      <4>1. Content[k] \in Value
        <5>1. data \in [Buf -> Value] /\ disk \in [Block -> Value]
          BY DEF IndInv, CacheInv, TypeOK
        <5> QED BY <3>1, <5>1 DEF ContentRule
      <4>2. Content = [Content EXCEPT ![k] = Content[k]]
        BY <3>1 DEF ContentRule
      <4> QED BY <2>1, <4>1, <4>2
    <3> HIDE DEF k
    <3>4. \E v \in Value : Store!Write(k, v)
      BY <2>1, <3>2, <3>3 DEF Store!Write
    <3> QED BY <3>1, <3>4 DEF Store!StoreNext
  <2>4. CASE pc'[p] = "modify"
    <3> DEFINE k == blkno'[cur'[p]]
    <3>1. k \in Block /\ Held = {} /\ Held' = {k} /\ Content' = Content
      BY <2>1, <2>2, <2>4
    <3> HIDE DEF k
    <3>2. Store!Take(k)
      BY <2>1, <3>1 DEF Store!Take
    <3> QED BY <3>1, <3>2 DEF Store!StoreNext
  <2>5. CASE pc[p] # "modify" /\ pc'[p] # "modify"
    BY <2>1, <2>2, <2>5 DEF Store!storeVars
  <2> QED BY <2>3, <2>4, <2>5
<1>3. ASSUME NEW b \in Buf, Interrupt(b)
      PROVE  [Store!StoreNext]_(Store!storeVars)
  <2>1. Held' = Held
    <3>1. UNCHANGED <<blkno, pc, cur>>
      BY <1>3, InterruptData
    <3> QED BY <3>1 DEF Held
  <2>2. CASE disk' = disk /\ Content' = Content
    BY <2>1, <2>2 DEF Store!storeVars
  <2>3. ASSUME NEW k \in Block, disk' = [disk EXCEPT ![k] = Content[k]], Content' = Content
        PROVE  Store!StoreNext
    BY <2>1, <2>3 DEF Store!StoreNext, Store!Commit
  <2>4. ASSUME NEW k \in Block, "WRITE" \in Failing, disk' = disk,
               Content' = [Content EXCEPT ![k] = disk[k]]
        PROVE  Store!StoreNext
    BY <2>1, <2>4 DEF Store!StoreNext, Store!Lose
  <2> QED BY <1>3, <2>2, <2>3, <2>4, ContentInterrupt
<1> QED BY <1>1, <1>2, <1>3 DEF Next

(* The cache starts empty, with the contents of the devices.               *)
LEMMA StoreInitStep == Init /\ ContentRule => Store!StoreInit
<1> SUFFICES ASSUME Init, ContentRule PROVE Store!StoreInit
  OBVIOUS
<1>1. Held = {} /\ \A b \in Buf : ~Current(b)
  BY DEF Init, Held, Current
<1>2. disk \in [Block -> Value]
  BY DEF Init
<1>3. \A k \in Block : Content[k] = disk[k]
  BY <1>1 DEF ContentRule
<1>4. Content = disk
  BY <1>2, <1>3 DEF ContentRule
<1> QED BY <1>1, <1>2, <1>4 DEF Store!StoreInit

(* The cache implements the block store, whatever the order of transfers,  *)
(* reassignments and releases: a block changes by a write of the one       *)
(* caller who has it, and where a device refuses a write.                  *)
THEOREM CacheImplementsStore ==
    ASSUME NoLastClose, WindowClosed
    PROVE  Spec => ImplementsStore
<1>1. Spec => [](IndInv /\ WakeInv /\ DirtyIsSafe /\ NotInval /\ StoreInv)
  <2>1. NotInval /\ IndInv /\ [Next]_vars => NotInval'
    BY NotInvalNext
  <2>2. Init => NotInval
    BY NotInvalInit
  <2>3. Spec => []StoreInv
    BY ContentsCorrect
  <2> QED BY <2>1, <2>2, <2>3, CacheCorrect, WakeCorrect, DirtySafe, PTL DEF Spec
<1>2. IndInv => ContentRule
  BY ContentIs DEF IndInv, CacheInv
<1>3. Init /\ ContentRule => Store!StoreInit
  BY StoreInitStep
<1>4. /\ IndInv /\ IndInv' /\ WakeInv /\ DirtyIsSafe /\ NotInval /\ StoreInv /\ [Next]_vars
      /\ ContentRule /\ ContentRule'
      => [Store!StoreNext]_(Store!storeVars)
  BY StoreNextStep
<1> QED BY <1>1, <1>2, <1>3, <1>4, PTL DEF Spec, ImplementsStore, Store!StoreSpec

(* A read that reports no error returns the content of the block that was  *)
(* asked for.                                                              *)
THEOREM ReadsAreCurrent ==
    ASSUME NoLastClose, WindowClosed
    PROVE  Spec => []ReadsCurrent
<1>1. IndInv /\ StoreInv /\ ContentRule => ReadsCurrent
  <2> SUFFICES ASSUME IndInv, StoreInv, ContentRule, NEW p \in Proc, pc[p] = "hold", ~error[p],
                      call[p].op \in {"read", "breada", "modify", "pair"}
               PROVE  data[bp[p]] = Content[call[p].blk]
    BY DEF ReadsCurrent
  <2>1. bp[p] \in Buf /\ Serves(p)
    BY DEF StoreInv, IndInv, CacheInv, Placed
  <2>2. Current(bp[p])
    <3>1. "STALE" \notin flags[bp[p]] /\ "DONE" \in flags[bp[p]] /\ "ERROR" \notin flags[bp[p]]
      BY <2>1, ConstantAssumption DEF Serves
    <3> QED BY <3>1 DEF Current
  <2>3. blkno[bp[p]] = call[p].blk /\ blkno[bp[p]] \in Block
    BY <2>1, ConstantAssumption DEF Serves, IndInv, Addressed, AddressedProc
  <2> QED BY <2>1, <2>2, <2>3 DEF ContentRule
<1>2. IndInv => ContentRule
  BY ContentIs DEF IndInv, CacheInv
<1>3. Spec => []StoreInv
  BY ContentsCorrect
<1> QED BY <1>1, <1>2, <1>3, CacheCorrect, PTL
=============================================================================
