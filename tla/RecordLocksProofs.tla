-------------------------- MODULE RecordLocksProofs --------------------------
(***************************************************************************)
(* Proofs about RecordLocks: sleepers, headers and records of any number   *)
(* of processes and files; and, when all locks are for writing, that the   *)
(* chains are a table of bytes.                                            *)
(***************************************************************************)
EXTENDS RecordLocks, ListLemmas, TLAPS
-----------------------------------------------------------------------------
(* The least number of a set.                                              *)
LEMMA MinIs ==
    ASSUME NEW S, S \subseteq Nat, S # {}
    PROVE  Min(S) \in S /\ \A x \in S : Min(S) <= x
<1>1. \E x \in S : \A y \in S : x <= y
  BY LeastOne
<1> QED BY <1>1 DEF Min

LEMMA FirstIs ==
    ASSUME NEW S, S \subseteq Nat, NEW d
    PROVE  /\ S = {} => FirstOf(S, d) = d
           /\ S # {} => FirstOf(S, d) \in S /\ \A x \in S : FirstOf(S, d) <= x
BY MinIs DEF FirstOf

(* Where a search in a chain may end.                                      *)
LEMMA SearchEndIs ==
    ASSUME NEW c \in Seq(Lock), NEW p, NEW ld
    PROVE  LET e == SearchEnd(c, p, ld)
               Stops(j) == c[j].start >= ld.start \/ (c[j].pid = p /\ Touches(c[j], ld))
           IN  /\ e \in 1 .. Len(c) + 1
               /\ \A j \in 1 .. Len(c) : j < e => ~Stops(j)
               /\ e <= Len(c) => Stops(e)
<1> DEFINE Stops(j) == c[j].start >= ld.start \/ (c[j].pid = p /\ Touches(c[j], ld))
           S == {i \in DOMAIN c : Stops(i)}
<1>1. Len(c) \in Nat /\ DOMAIN c = 1 .. Len(c) /\ S \subseteq Nat /\ S \subseteq 1 .. Len(c)
  OBVIOUS
<1>2. SearchEnd(c, p, ld) = FirstOf(S, Len(c) + 1)
  BY DEF SearchEnd
<1>3. \A j \in 1 .. Len(c) : j \in S <=> Stops(j)
  BY <1>1
<1> HIDE DEF S, Stops
<1> DEFINE e == SearchEnd(c, p, ld)
<1> HIDE DEF e
<1>4. /\ e \in 1 .. Len(c) + 1
      /\ \A j \in 1 .. Len(c) : j < e => ~Stops(j)
      /\ e <= Len(c) => Stops(e)
  <2>1. CASE S = {}
    <3>1. e = Len(c) + 1
      BY <1>1, <1>2, <2>1, FirstIs DEF e
    <3> QED BY <1>1, <1>3, <2>1, <3>1
  <2>2. CASE S # {}
    <3>1. e \in S /\ \A x \in S : e <= x
      <4>1. FirstOf(S, Len(c) + 1) \in S /\ \A x \in S : FirstOf(S, Len(c) + 1) <= x
        BY <1>1, <2>2, FirstIs
      <4> QED BY <1>2, <4>1 DEF e
    <3> QED BY <1>1, <1>3, <3>1
  <2> QED BY <2>1, <2>2
<1> QED BY <1>4 DEF e, Stops

LEMMA InsrtIs ==
    ASSUME NEW c \in Seq(Lock), NEW p, NEW ld
    PROVE  Insrt(c, p, ld) \in 0 .. Len(c)
<1> DEFINE e == SearchEnd(c, p, ld)
<1>1. e \in 1 .. Len(c) + 1 /\ Len(c) \in Nat /\ DOMAIN c = 1 .. Len(c)
  BY SearchEndIs
<1> HIDE DEF e
<1>2. Insrt(c, p, ld) = IF e \in DOMAIN c /\ c[e].start < ld.start THEN e ELSE e - 1
  BY DEF Insrt, e
<1> QED BY <1>1, <1>2

LEMMA PlaceIs ==
    ASSUME NEW c \in Seq(Lock), NEW from \in 1 .. Len(c), NEW start
    PROVE  LET k == Place(c, from, start)
           IN  /\ k \in from .. Len(c)
               /\ \A j \in from .. Len(c) : j <= k /\ j > from => ~(c[j].start >= start)
               /\ k < Len(c) /\ ~(c[from].start >= start) => c[k + 1].start >= start
<1> DEFINE S == {i \in from .. Len(c) : c[i].start >= start}
           k == FirstOf(S, Len(c) + 1)
<1>1. Len(c) \in Nat /\ S \subseteq Nat /\ S \subseteq from .. Len(c)
  OBVIOUS
<1>2. Place(c, from, start) = IF k = from THEN from ELSE k - 1
  BY DEF Place
<1>3. \A j \in from .. Len(c) : j \in S <=> c[j].start >= start
  OBVIOUS
<1> HIDE DEF S, k
<1>4. CASE S = {}
  <2>1. k = Len(c) + 1
    BY <1>1, <1>4, FirstIs DEF k
  <2> QED BY <1>1, <1>2, <1>3, <1>4, <2>1
<1>5. CASE S # {}
  <2>1. k \in S /\ \A x \in S : k <= x
    BY <1>1, <1>5, FirstIs DEF k
  <2>2. \A j \in from .. Len(c) : j < k => ~(c[j].start >= start)
    BY <1>1, <1>3, <2>1
  <2> QED BY <1>1, <1>2, <1>3, <2>1, <2>2
<1> QED BY <1>4, <1>5

(* A chain with a lock put behind its i-th.                                *)
LEMMA InsertIs ==
    ASSUME NEW c \in Seq(Lock), NEW i \in 0 .. Len(c), NEW l \in Lock
    PROVE  /\ Insert(c, i, l) \in Seq(Lock) /\ Len(Insert(c, i, l)) = Len(c) + 1
           /\ \A j \in 1 .. i : Insert(c, i, l)[j] = c[j]
           /\ Insert(c, i, l)[i + 1] = l
           /\ \A j \in i + 2 .. Len(c) + 1 : Insert(c, i, l)[j] = c[j - 1]
<1>1. PICK n : n = i + 1
  OBVIOUS
<1>2. n \in 1 .. Len(c) + 1
  BY <1>1
<1> DEFINE t == InsertAt(c, n, l)
<1>3. t \in Seq(Lock) /\ Len(t) = Len(c) + 1 /\ t[n] = l
  BY <1>2, InsertAtIs
<1>4. \A j \in 1 .. n - 1 : t[j] = c[j]
  BY <1>2, InsertAtIs
<1>5. \A j \in n + 1 .. Len(c) + 1 : t[j] = c[j - 1]
  BY <1>2, InsertAtIs
<1>6. Insert(c, i, l) = t
  BY <1>1 DEF Insert
<1> HIDE DEF t
<1> QED BY <1>1, <1>3, <1>4, <1>5, <1>6
-----------------------------------------------------------------------------
(* flckadj(), for locks of both types.                                     *)

Asked == [type : Types \cup {"unlock"}, start : 0 .. MAXEND, end : 0 .. MAXEND]

Status == {"walk", "insert", "done", "failed"}

State == [c : Seq(Lock), i : Nat, ins : Nat, ld : Asked, n : Nat,
          status : Status]

Proper(c) == \A k \in DOMAIN c : c[k].start < c[k].end

(* A lock of the chain c was in the chain b, sleepers and all, or nobody   *)
(* sleeps at it.                                                           *)
From(c, b) == \A k \in DOMAIN c : c[k].waits = {} \/ \E j \in DOMAIN b : c[k] = b[j]

(* What each step of the loop keeps, if the chain was b and m is the sum   *)
(* of its length and the records that were left.                           *)
Loop(b, m) ==
    {st \in State : /\ 1 <= st.i /\ st.ins <= st.i /\ st.ins <= Len(st.c)
                    /\ st.ld.start < st.ld.end /\ Proper(st.c)
                    /\ st.n + Len(st.c) = m
                    /\ From(st.c, b)}

(* What the steps put into the variables of flckadj().                     *)
LEMMA Put ==
    ASSUME NEW st \in State
    PROVE  /\ \A c \in Seq(Lock) : LET r == [st EXCEPT !.c = c] IN
                 /\ r \in State /\ r.c = c /\ r.i = st.i /\ r.ins = st.ins
                 /\ r.ld = st.ld /\ r.n = st.n /\ r.status = st.status
           /\ \A i \in Nat : LET r == [st EXCEPT !.i = i] IN
                 /\ r \in State /\ r.c = st.c /\ r.i = i /\ r.ins = st.ins
                 /\ r.ld = st.ld /\ r.n = st.n /\ r.status = st.status
           /\ \A i \in Nat : LET r == [st EXCEPT !.ins = i] IN
                 /\ r \in State /\ r.c = st.c /\ r.i = st.i /\ r.ins = i
                 /\ r.ld = st.ld /\ r.n = st.n /\ r.status = st.status
           /\ \A ld \in Asked : LET r == [st EXCEPT !.ld = ld] IN
                 /\ r \in State /\ r.c = st.c /\ r.i = st.i /\ r.ins = st.ins
                 /\ r.ld = ld /\ r.n = st.n /\ r.status = st.status
           /\ \A i \in Nat : LET r == [st EXCEPT !.n = i] IN
                 /\ r \in State /\ r.c = st.c /\ r.i = st.i /\ r.ins = st.ins
                 /\ r.ld = st.ld /\ r.n = i /\ r.status = st.status
           /\ \A s \in Status : LET r == [st EXCEPT !.status = s] IN
                 /\ r \in State /\ r.c = st.c /\ r.i = st.i /\ r.ins = st.ins
                 /\ r.ld = st.ld /\ r.n = st.n /\ r.status = s
BY DEF State

(* The chain and the records that are left.                                *)
Dropped(st, c, n) == [st EXCEPT !.c = c, !.n = n]

LEMMA PutDrop ==
    ASSUME NEW st \in State, NEW c \in Seq(Lock), NEW n \in Nat
    PROVE  LET r == Dropped(st, c, n)
           IN  /\ r \in State /\ r.c = c /\ r.i = st.i /\ r.ins = st.ins
                   /\ r.ld = st.ld /\ r.n = n /\ r.status = st.status
<1> DEFINE s1 == [st EXCEPT !.c = c]
<1>1. /\ s1 \in State /\ s1.c = c /\ s1.i = st.i /\ s1.ins = st.ins
      /\ s1.ld = st.ld /\ s1.n = st.n /\ s1.status = st.status
  BY Put
<1> HIDE DEF s1
<1> DEFINE s2 == [s1 EXCEPT !.n = n]
<1>2. /\ s2 \in State /\ s2.c = s1.c /\ s2.i = s1.i /\ s2.ins = s1.ins
      /\ s2.ld = s1.ld /\ s2.n = n /\ s2.status = s1.status
  BY <1>1, Put
<1> HIDE DEF s2
<1> QED BY <1>1, <1>2 DEF s1, s2, Dropped

(* The chain and insrtp.                                                   *)
Cutting(st, c, k) == [st EXCEPT !.c = c, !.ins = k]

LEMMA PutCut ==
    ASSUME NEW st \in State, NEW c \in Seq(Lock), NEW k \in Nat
    PROVE  LET r == Cutting(st, c, k)
           IN  /\ r \in State /\ r.c = c /\ r.i = st.i /\ r.ins = k
                   /\ r.ld = st.ld /\ r.n = st.n /\ r.status = st.status
<1> DEFINE s1 == [st EXCEPT !.c = c]
<1>1. /\ s1 \in State /\ s1.c = c /\ s1.i = st.i /\ s1.ins = st.ins
      /\ s1.ld = st.ld /\ s1.n = st.n /\ s1.status = st.status
  BY Put
<1> HIDE DEF s1
<1> DEFINE s2 == [s1 EXCEPT !.ins = k]
<1>2. /\ s2 \in State /\ s2.c = s1.c /\ s2.i = s1.i /\ s2.ins = k
      /\ s2.ld = s1.ld /\ s2.n = s1.n /\ s2.status = s1.status
  BY <1>1, Put
<1> HIDE DEF s2
<1> QED BY <1>1, <1>2 DEF s1, s2, Cutting

(* The lock at hand and insrtp.                                            *)
Moved(st, k, j) == [st EXCEPT !.ins = k, !.i = j]

LEMMA PutNext ==
    ASSUME NEW st \in State, NEW k \in Nat, NEW j \in Nat
    PROVE  LET r == Moved(st, k, j)
           IN  /\ r \in State /\ r.c = st.c /\ r.i = j /\ r.ins = k
                   /\ r.ld = st.ld /\ r.n = st.n /\ r.status = st.status
<1> DEFINE s1 == [st EXCEPT !.ins = k]
<1>1. /\ s1 \in State /\ s1.c = st.c /\ s1.i = st.i /\ s1.ins = k
      /\ s1.ld = st.ld /\ s1.n = st.n /\ s1.status = st.status
  BY Put
<1> HIDE DEF s1
<1> DEFINE s2 == [s1 EXCEPT !.i = j]
<1>2. /\ s2 \in State /\ s2.c = s1.c /\ s2.i = j /\ s2.ins = s1.ins
      /\ s2.ld = s1.ld /\ s2.n = s1.n /\ s2.status = s1.status
  BY <1>1, Put
<1> HIDE DEF s2
<1> QED BY <1>1, <1>2 DEF s1, s2, Moved

(* The chain, the records and the end of the loop.                         *)
Severed(st, c, n, s) == [st EXCEPT !.c = c, !.n = n, !.status = s]

LEMMA PutSever ==
    ASSUME NEW st \in State, NEW c \in Seq(Lock), NEW n \in Nat, NEW s \in Status
    PROVE  LET r == Severed(st, c, n, s)
           IN  /\ r \in State /\ r.c = c /\ r.i = st.i /\ r.ins = st.ins
                   /\ r.ld = st.ld /\ r.n = n /\ r.status = s
<1> DEFINE s1 == [st EXCEPT !.c = c]
<1>1. /\ s1 \in State /\ s1.c = c /\ s1.i = st.i /\ s1.ins = st.ins
      /\ s1.ld = st.ld /\ s1.n = st.n /\ s1.status = st.status
  BY Put
<1> HIDE DEF s1
<1> DEFINE s2 == [s1 EXCEPT !.n = n]
<1>2. /\ s2 \in State /\ s2.c = s1.c /\ s2.i = s1.i /\ s2.ins = s1.ins
      /\ s2.ld = s1.ld /\ s2.n = n /\ s2.status = s1.status
  BY <1>1, Put
<1> HIDE DEF s2
<1> DEFINE s3 == [s2 EXCEPT !.status = s]
<1>3. /\ s3 \in State /\ s3.c = s2.c /\ s3.i = s2.i /\ s3.ins = s2.ins
      /\ s3.ld = s2.ld /\ s3.n = s2.n /\ s3.status = s
  BY <1>2, Put
<1> HIDE DEF s3
<1> QED BY <1>1, <1>2, <1>3 DEF s1, s2, s3, Severed

(* The lock at hand may be dropped, when insrtp does not point to it.      *)
LEMMA DropLoop ==
    ASSUME NEW b, NEW m, NEW st \in Loop(b, m), st.i <= Len(st.c), st.ins < st.i
    PROVE  Drop(st) \in Loop(b, m) /\ Drop(st).ld = st.ld
<1> DEFINE d == RemoveAt(st.c, st.i)
<1>1. /\ st \in State /\ 1 <= st.i /\ Proper(st.c) /\ st.n + Len(st.c) = m /\ From(st.c, b)
      /\ st.ld.start < st.ld.end
  BY DEF Loop
<1>2. st.c \in Seq(Lock) /\ st.i \in DOMAIN st.c /\ Len(st.c) \in Nat /\ st.n \in Nat /\ st.ins \in Nat
  BY <1>1 DEF State
<1>3. /\ d \in Seq(Lock) /\ Len(d) = Len(st.c) - 1
      /\ \A j \in 1 .. Len(st.c) - 1 : d[j] = IF j < st.i THEN st.c[j] ELSE st.c[j + 1]
  BY <1>2, RemoveAtIs
<1> DEFINE n == st.n + 1
<1>5. Drop(st) = Dropped(st, d, n)
  BY DEF Drop, Dropped
<1> HIDE DEF d
<1>4. Proper(d) /\ From(d, b)
  <2>1. ASSUME NEW k \in DOMAIN d PROVE \E j \in DOMAIN st.c : d[k] = st.c[j]
    BY <1>2, <1>3
  <2> QED BY <1>1, <2>1 DEF Proper, From
<1>6. n \in Nat /\ n = st.n + 1
  BY <1>2
<1> HIDE DEF n
<1>7. /\ Drop(st) \in State
      /\ Drop(st).c = d /\ Drop(st).n = n /\ Drop(st).i = st.i
      /\ Drop(st).ins = st.ins /\ Drop(st).ld = st.ld
  <2>1. st \in State
    BY <1>1
  <2>2. d \in Seq(Lock)
    BY <1>3
  <2>3. n \in Nat
    BY <1>6
  <2> QED BY <1>5, <2>1, <2>2, <2>3, PutDrop
<1> HIDE DEF Loop
<1>8. st.i \in Nat /\ st.ins <= Len(d) /\ (st.n + 1) + Len(d) = m /\ st.ins <= st.i
  BY <1>1, <1>2, <1>3 DEF State
<1> QED BY <1>1, <1>4, <1>6, <1>7, <1>8 DEF Loop

LEMMA BackLoop ==
    ASSUME NEW b, NEW m, NEW st \in Loop(b, m), st.i <= Len(st.c)
    PROVE  /\ StepBack(st) \in Loop(b, m) /\ StepOff(st) \in Loop(b, m)
           /\ StepBack(st).ins < st.i /\ StepOff(st).ins < st.i
           /\ \A r \in {StepBack(st), StepOff(st)} :
                 r.i = st.i /\ r.c = st.c /\ r.ld = st.ld /\ r.n = st.n /\ r.status = st.status
<1>1. /\ st \in State /\ st.i \in Nat /\ st.ins \in Nat /\ 1 <= st.i /\ st.ins <= st.i
      /\ Len(st.c) \in Nat
  BY DEF Loop, State
<1>2. StepBack(st) = [st EXCEPT !.ins = st.i - 1]
  BY DEF StepBack
<1>3. StepBack(st) \in State
  BY <1>1, <1>2 DEF State
<1>4. /\ StepBack(st).ins = st.i - 1 /\ StepBack(st).c = st.c /\ StepBack(st).i = st.i
      /\ StepBack(st).ld = st.ld /\ StepBack(st).n = st.n /\ StepBack(st).status = st.status
  BY <1>1, <1>2 DEF State
<1>5. StepBack(st) \in Loop(b, m)
  BY <1>1, <1>3, <1>4 DEF Loop
<1>6. StepOff(st) = StepBack(st) \/ (StepOff(st) = st /\ st.ins # st.i)
  BY DEF StepOff
<1> QED BY <1>1, <1>4, <1>5, <1>6

(* The range grows by that of the lock.                                    *)
LEMMA GrowLoop ==
    ASSUME NEW b, NEW m, NEW st \in Loop(b, m), NEW e \in 0 .. MAXEND
    PROVE  /\ st.ld.start < e => [st EXCEPT !.ld.end = e] \in Loop(b, m)
           /\ e < st.ld.end => [st EXCEPT !.ld.start = e] \in Loop(b, m)
<1>1. st \in State /\ st.ld \in Asked
  BY DEF Loop, State
<1>2. /\ [st.ld EXCEPT !.end = e] \in Asked /\ [st.ld EXCEPT !.start = e] \in Asked
      /\ [st.ld EXCEPT !.end = e].start = st.ld.start /\ [st.ld EXCEPT !.end = e].end = e
      /\ [st.ld EXCEPT !.start = e].end = st.ld.end /\ [st.ld EXCEPT !.start = e].start = e
  BY <1>1 DEF Asked
<1>3. ASSUME NEW l \in Asked, l.start < l.end
      PROVE  [st EXCEPT !.ld = l] \in Loop(b, m)
  <2>1. [st EXCEPT !.ld = l] \in State
    BY <1>1 DEF State
  <2>2. LET r == [st EXCEPT !.ld = l]
        IN  /\ r.c = st.c /\ r.i = st.i /\ r.ins = st.ins /\ r.n = st.n /\ r.ld = l
    BY <1>1 DEF State
  <2> QED BY <1>3, <2>1, <2>2 DEF Loop
<1>4. /\ [st EXCEPT !.ld.end = e] = [st EXCEPT !.ld = [st.ld EXCEPT !.end = e]]
      /\ [st EXCEPT !.ld.start = e] = [st EXCEPT !.ld = [st.ld EXCEPT !.start = e]]
  BY <1>1 DEF State
<1> QED BY <1>2, <1>3, <1>4

LEMMA MoveLoop ==
    ASSUME NEW b, NEW m, NEW st \in Loop(b, m),
           NEW s \in Status
    PROVE  [st EXCEPT !.status = s] \in Loop(b, m)
<1>1. st \in State
  BY DEF Loop
<1>2. [st EXCEPT !.status = s] \in State
  BY <1>1 DEF State
<1>3. LET r == [st EXCEPT !.status = s]
      IN  r.c = st.c /\ r.i = st.i /\ r.ins = st.ins /\ r.n = st.n /\ r.ld = st.ld
  BY <1>1 DEF State
<1> QED BY <1>2, <1>3 DEF Loop

LEMMA AdvanceLoop ==
    ASSUME NEW b, NEW m, NEW st \in Loop(b, m), st.i <= Len(st.c)
    PROVE  /\ Advance(st) \in Loop(b, m)
           /\ Advance([st EXCEPT !.ins = st.i]) \in Loop(b, m)
<1>1. /\ st \in State /\ st.i \in Nat /\ st.ins \in Nat /\ 1 <= st.i /\ st.ins <= st.i
      /\ Len(st.c) \in Nat
  BY DEF Loop, State
<1>2. ASSUME NEW k \in {st.ins, st.i}
      PROVE  [st EXCEPT !.ins = k, !.i = st.i + 1] \in Loop(b, m)
  <2> DEFINE j == st.i + 1
             r == Moved(st, k, j)
  <2>1. st \in State /\ k \in Nat /\ j \in Nat /\ j = st.i + 1
    BY <1>1
  <2> HIDE DEF j
  <2>2. /\ r \in State /\ r.c = st.c /\ r.i = j /\ r.ins = k /\ r.n = st.n /\ r.ld = st.ld
    <3>1. st \in State
      BY <2>1
    <3>2. k \in Nat
      BY <2>1
    <3>3. j \in Nat
      BY <2>1
    <3> QED BY <3>1, <3>2, <3>3, PutNext, ZenonT(40)
  <2> HIDE DEF r
  <2>3. k <= j /\ k <= Len(st.c) /\ 1 <= j
    BY <1>1, <2>1 DEF Loop
  <2>4. r \in Loop(b, m)
    BY <2>2, <2>3 DEF Loop
  <2> QED BY <2>4 DEF r, j, Moved
<1>3. Advance([st EXCEPT !.ins = st.i]) = [st EXCEPT !.ins = st.i, !.i = st.i + 1]
  BY <1>1, Put DEF Advance
<1>4. Advance(st) = [st EXCEPT !.ins = st.ins, !.i = st.i + 1]
  BY <1>1 DEF Advance, State
<1> QED BY <1>2, <1>3, <1>4

(* A lock is cut: whoever slept at it is awake.                            *)
LEMMA CutLoop ==
    ASSUME NEW b, NEW m, NEW st \in Loop(b, m), st.i <= Len(st.c),
           st.c[st.i].start < st.ld.start
    PROVE  Cut(st) \in Loop(b, m) /\ Cut(st).i = st.i /\ Len(Cut(st).c) = Len(st.c)
<1> DEFINE l == [st.c[st.i] EXCEPT !.end = st.ld.start, !.waits = {}]
           d == [st.c EXCEPT ![st.i] = l]
<1>1. /\ st \in State /\ st.i \in Nat /\ st.ins \in Nat /\ 1 <= st.i /\ st.ins <= st.i
      /\ Len(st.c) \in Nat /\ st.ld \in Asked /\ st.c \in Seq(Lock) /\ st.i \in DOMAIN st.c
  BY DEF Loop, State
<1>2. st.c[st.i] \in Lock /\ st.ld.start \in 0 .. MAXEND
  BY <1>1 DEF Asked
<1>3. l \in Lock /\ l.start < l.end /\ l.waits = {}
  BY <1>2 DEF Lock
<1> DEFINE j == st.i
<1>4. Cut(st) = Cutting(st, d, j)
  BY <1>1, <1>2 DEF Cut, Cutting, State, Lock
<1> HIDE DEF l
<1>5. /\ d \in Seq(Lock) /\ Len(d) = Len(st.c) /\ DOMAIN d = DOMAIN st.c
      /\ d[st.i] = l /\ \A k \in DOMAIN d : k # st.i => d[k] = st.c[k]
  BY <1>1, <1>3
<1> HIDE DEF d
<1>6. j = st.i
  OBVIOUS
<1>a. j \in Nat
  BY <1>1
<1>b. st \in State
  BY <1>1
<1>c. d \in Seq(Lock)
  BY <1>5
<1> HIDE DEF j
<1>7. LET r == Cut(st)
      IN  /\ r \in State
          /\ r.c = d /\ r.i = st.i /\ r.ins = j /\ r.n = st.n /\ r.ld = st.ld
  BY <1>4, <1>a, <1>b, <1>c, PutCut, SMTT(30)
<1>8. Proper(d) /\ From(d, b)
  BY <1>3, <1>5 DEF Loop, Proper, From
<1> QED BY <1>1, <1>5, <1>6, <1>7, <1>8 DEF Loop

(* The piece behind the range goes behind the lock at hand.                *)
LEMMA SeverLoop ==
    ASSUME NEW b, NEW m, NEW st \in Loop(b, m), NEW p \in Proc, st.i <= Len(st.c),
           st.ld.end < st.c[st.i].end
    PROVE  /\ Sever(st, p) \in Loop(b, m) /\ Sever(st, p).i = st.i
           /\ Sever(st, p).ld = st.ld
           /\ st.i <= Len(Sever(st, p).c) /\ Sever(st, p).c[st.i] = st.c[st.i]
<1> DEFINE l == st.c[st.i]
           piece == NewLock(p, [type |-> l.type, start |-> st.ld.end, end |-> l.end])
           k == Place(st.c, st.i, st.ld.start)
           d == Insert(st.c, k, piece)
<1>1. /\ st \in State /\ st.i \in Nat /\ st.ins \in Nat /\ 1 <= st.i /\ st.ins <= st.i
      /\ Len(st.c) \in Nat /\ st.ld \in Asked /\ st.c \in Seq(Lock) /\ st.i \in DOMAIN st.c
      /\ st.n \in Nat /\ st.ins <= Len(st.c)
  BY DEF Loop, State
<1>2. CASE st.n = 0
  <2>1. Sever(st, p) = [st EXCEPT !.status = "failed"]
    BY <1>2 DEF Sever
  <2>2. /\ Sever(st, p).i = st.i /\ Sever(st, p).ld = st.ld /\ Sever(st, p).c = st.c
    BY <1>1, <2>1, Put
  <2>3. Sever(st, p) \in Loop(b, m)
    <3>1. "failed" \in Status
      BY DEF Status
    <3> QED BY <2>1, <3>1, MoveLoop
  <2> QED BY <1>1, <2>2, <2>3
<1>3. CASE st.n # 0
  <2>1. l \in Lock /\ piece \in Lock /\ piece.start < piece.end /\ piece.waits = {}
    <3>1. l \in Lock
      BY <1>1
    <3>2. st.ld.end \in 0 .. MAXEND /\ l.end \in 0 .. MAXEND /\ l.type \in Types
      BY <1>1, <3>1 DEF Lock, Asked
    <3> HIDE DEF l
    <3> QED BY <3>1, <3>2 DEF Lock, NewLock, l
  <2>2. k \in st.i .. Len(st.c)
    <3>1. st.i \in 1 .. Len(st.c)
      BY <1>1
    <3> QED BY <1>1, <3>1, PlaceIs
  <2> HIDE DEF piece, l, k
  <2>3. /\ d \in Seq(Lock) /\ Len(d) = Len(st.c) + 1
        /\ \A j \in 1 .. k : d[j] = st.c[j]
        /\ d[k + 1] = piece
        /\ \A j \in k + 2 .. Len(st.c) + 1 : d[j] = st.c[j - 1]
    <3>1. k \in 0 .. Len(st.c)
      BY <1>1, <2>2
    <3> HIDE DEF d
    <3>2. d = Insert(st.c, k, piece)
      BY DEF d
    <3>3. piece \in Lock
      BY <2>1
    <3>4. st.c \in Seq(Lock)
      BY <1>1
    <3> QED BY <3>1, <3>2, <3>3, <3>4, InsertIs
  <2> HIDE DEF d
  <2>4. ASSUME NEW j \in DOMAIN d
        PROVE  d[j] = piece \/ \E x \in DOMAIN st.c : d[j] = st.c[x]
    <3>1. j \in 1 .. Len(st.c) + 1 /\ DOMAIN st.c = 1 .. Len(st.c) /\ k \in Nat /\ k <= Len(st.c)
      BY <1>1, <2>2, <2>3
    <3>2. CASE j < k + 1
      <4>1. j \in DOMAIN st.c /\ d[j] = st.c[j]
        BY <1>1, <2>3, <3>1, <3>2
      <4> QED BY <4>1
    <3>3. CASE j = k + 1
      BY <2>3, <3>1, <3>3
    <3>4. CASE j > k + 1
      <4>1. j - 1 \in DOMAIN st.c /\ d[j] = st.c[j - 1]
        BY <1>1, <2>3, <3>1, <3>4
      <4> QED BY <4>1
    <3> QED BY <3>1, <3>2, <3>3, <3>4
  <2>5. Proper(d) /\ From(d, b)
    BY <2>1, <2>4 DEF Loop, Proper, From
  <2> DEFINE n == st.n - 1
  <2>6. Sever(st, p) = Severed(st, d, n, "insert")
    BY <1>1, <1>3 DEF Sever, Severed, d, k, piece, l
  <2>7. n = st.n - 1
    OBVIOUS
  <2>a. n \in Nat
    BY <1>1, <1>3
  <2>b. st \in State
    BY <1>1
  <2>c. d \in Seq(Lock)
    BY <2>3
  <2>d. "insert" \in Status
    BY DEF Status
  <2> HIDE DEF n
  <2>8. LET r == Sever(st, p)
        IN  /\ r \in State
            /\ r.c = d /\ r.i = st.i /\ r.ins = st.ins /\ r.n = n /\ r.ld = st.ld
    BY <2>6, <2>a, <2>b, <2>c, <2>d, PutSever
  <2>9. n + Len(d) = m
    <3>1. st.n + Len(st.c) = m
      BY DEF Loop
    <3>2. st.n \in Nat /\ Len(st.c) \in Nat /\ Len(d) = Len(st.c) + 1 /\ n = st.n - 1
      BY <1>1, <2>3, <2>7
    <3> QED BY <3>1, <3>2
  <2>10. d[st.i] = st.c[st.i]
    BY <1>1, <2>2, <2>3
  <2>11. st.ins <= Len(d) /\ st.i <= Len(d)
    BY <1>1, <2>3
  <2> QED BY <1>1, <2>5, <2>8, <2>9, <2>10, <2>11 DEF Loop
<1> QED BY <1>2, <1>3

(* A range that grows over the lock at hand, which goes.                   *)
LEMMA JoinLoop ==
    ASSUME NEW b, NEW m, NEW st \in Loop(b, m), st.i <= Len(st.c),
           NEW e \in 0 .. MAXEND
    PROVE  /\ st.ld.start < e => [Drop(StepOff(st)) EXCEPT !.ld.end = e] \in Loop(b, m)
           /\ e < st.ld.end => Drop([StepBack(st) EXCEPT !.ld.start = e]) \in Loop(b, m)
<1>1. /\ StepOff(st) \in Loop(b, m) /\ StepBack(st) \in Loop(b, m)
      /\ StepOff(st).i = st.i /\ StepOff(st).c = st.c /\ StepOff(st).ld = st.ld
      /\ StepBack(st).i = st.i /\ StepBack(st).c = st.c /\ StepBack(st).ld = st.ld
      /\ StepOff(st).ins < st.i /\ StepBack(st).ins < st.i
  BY BackLoop
<1>2. ASSUME st.ld.start < e PROVE [Drop(StepOff(st)) EXCEPT !.ld.end = e] \in Loop(b, m)
  <2> DEFINE s == StepOff(st)
             d == Drop(s)
  <2>1. s \in Loop(b, m) /\ s.i <= Len(s.c) /\ s.ins < s.i /\ s.ld = st.ld
    BY <1>1
  <2> HIDE DEF s
  <2>2. d \in Loop(b, m) /\ d.ld = st.ld
    BY <2>1, DropLoop
  <2> HIDE DEF d
  <2>3. [d EXCEPT !.ld.end = e] \in Loop(b, m)
    BY <1>2, <2>2, GrowLoop
  <2> QED BY <2>3 DEF d, s
<1>3. ASSUME e < st.ld.end PROVE Drop([StepBack(st) EXCEPT !.ld.start = e]) \in Loop(b, m)
  <2> DEFINE s == StepBack(st)
             r == [s EXCEPT !.ld.start = e]
  <2>1. s \in Loop(b, m) /\ s.i <= Len(s.c) /\ s.ins < s.i /\ s.ld = st.ld
    BY <1>1
  <2> HIDE DEF s
  <2>2. r \in Loop(b, m)
    BY <1>3, <2>1, GrowLoop
  <2>3. r.i = s.i /\ r.c = s.c /\ r.ins = s.ins
    BY <2>1 DEF Loop, State
  <2> HIDE DEF r
  <2>4. Drop(r) \in Loop(b, m)
    BY <2>1, <2>2, <2>3, DropLoop
  <2> QED BY <2>4 DEF r, s
<1> QED BY <1>2, <1>3

(* A pass of the loop keeps what flckadj() keeps.                          *)
LEMMA WalkLoop ==
    ASSUME NEW b, NEW m, NEW st \in Loop(b, m), NEW p \in Proc
    PROVE  Walk(st, p) \in Loop(b, m)
<1> DEFINE l == st.c[st.i]
           ld == st.ld
           severed == Sever(st, p)
<1>1. CASE st.status # "walk" \/ st.i > Len(st.c)
  BY <1>1 DEF Walk
<1>2. CASE ~(st.status # "walk" \/ st.i > Len(st.c))
  <2>1. /\ st.i \in DOMAIN st.c /\ st.i <= Len(st.c) /\ l \in Lock /\ l.start < l.end
        /\ ld \in Asked /\ ld.start < ld.end
    BY <1>2 DEF Loop, State, Proper
  <2>2. /\ l.start \in 0 .. MAXEND /\ l.end \in 0 .. MAXEND
        /\ ld.start \in 0 .. MAXEND /\ ld.end \in 0 .. MAXEND /\ MAXEND \in Nat
    BY <2>1, LockAssumption DEF Lock, Asked
  <2>3. ASSUME NEW r \in Loop(b, m) PROVE LeaveLoop(r) \in Loop(b, m)
    BY MoveLoop DEF LeaveLoop, Status
  <2>4. [st EXCEPT !.status = "done"] \in Loop(b, m)
    BY MoveLoop DEF Status
  <2>5. Advance(st) \in Loop(b, m) /\ Advance([st EXCEPT !.ins = st.i]) \in Loop(b, m)
    BY <2>1, AdvanceLoop
  <2>6. ld.start < l.end => [Drop(StepOff(st)) EXCEPT !.ld.end = l.end] \in Loop(b, m)
    BY <2>1, <2>2, JoinLoop
  <2>7. l.start < ld.end => Drop([StepBack(st) EXCEPT !.ld.start = l.start]) \in Loop(b, m)
    BY <2>1, <2>2, JoinLoop
  <2>8. ASSUME NEW r \in Loop(b, m), r.i <= Len(r.c)
        PROVE  Drop(StepOff(r)) \in Loop(b, m) /\ Drop(StepBack(r)) \in Loop(b, m)
    <3>1. ASSUME NEW s \in {StepOff(r), StepBack(r)} PROVE Drop(s) \in Loop(b, m)
      <4>1. s \in Loop(b, m) /\ s.i <= Len(s.c) /\ s.ins < s.i
        BY <2>8, BackLoop
      <4> QED BY <4>1, DropLoop
    <3> QED BY <3>1
  <2>9. ASSUME ld.end < l.end
        PROVE  /\ severed \in Loop(b, m) /\ severed.i <= Len(severed.c)
               /\ severed.ld = ld /\ severed.c[severed.i] = l
    BY <2>1, <2>9, SeverLoop
  <2>10. ASSUME ld.end < l.end, ld.start > l.start PROVE Cut(severed) \in Loop(b, m)
    <3>1. /\ severed \in Loop(b, m) /\ severed.i <= Len(severed.c)
          /\ severed.c[severed.i].start < severed.ld.start
      BY <2>2, <2>9, <2>10
    <3> HIDE DEF severed
    <3> QED BY <3>1, CutLoop
  <2>11. ASSUME ld.start > l.start PROVE Advance(Cut(st)) \in Loop(b, m)
    <3>1. /\ Cut(st) \in Loop(b, m) /\ Cut(st).i = st.i /\ Len(Cut(st).c) = Len(st.c)
      BY <2>1, <2>2, <2>11, CutLoop
    <3> QED BY <2>1, <3>1, AdvanceLoop
  <2>12. ASSUME ld.end < l.end
         PROVE  Drop(StepOff(severed)) \in Loop(b, m) /\ Drop(StepBack(severed)) \in Loop(b, m)
    BY <2>8, <2>9, <2>12
  <2> DEFINE same == l.type = ld.type
             W == Walk(st, p)
  <2>13. CASE l.pid # p
    BY <1>2, <2>3, <2>5, <2>13 DEF Walk
  <2>14. CASE l.pid = p /\ ld.end <= l.start
    <3>1. ld.end < l.start => W = LeaveLoop(st)
      BY <1>2, <2>14 DEF Walk
    <3>2. ld.end = l.start =>
             W = LeaveLoop(IF same THEN [Drop(StepOff(st)) EXCEPT !.ld.end = l.end] ELSE st)
      BY <1>2, <2>2, <2>14 DEF Walk
    <3> SUFFICES W \in Loop(b, m)
      OBVIOUS
    <3> HIDE DEF W, l, ld
    <3> QED BY <2>1, <2>2, <2>3, <2>6, <2>14, <3>1, <3>2
  <2>15. CASE l.pid = p /\ ld.end > l.start
    <3>0. ~(l.pid # p) /\ ~(ld.end < l.start) /\ ~(ld.end = l.start)
      BY <2>2, <2>15
    <3>1. CASE ld.start > l.end
      BY <1>2, <2>5, <3>0, <3>1 DEF Walk
    <3>2. CASE ld.start <= l.end
      <4>0. ~(ld.start > l.end)
        BY <2>2, <3>2
      <4> DEFINE
            Done == same /\ ld.start >= l.start /\ ld.end <= l.end
            FromStart == ld.start = l.start /\ ld.end >= l.end
            Over == ld.start < l.start /\ ld.end >= l.end
            Before == ld.start < l.start
            Inside == ld.end < l.end
      <4>1. W = IF Done THEN [st EXCEPT !.status = "done"]
                ELSE IF FromStart THEN Drop(StepBack(st))
                ELSE IF Over THEN IF same /\ ld.end = l.end THEN LeaveLoop(Drop(StepOff(st)))
                                  ELSE Drop(StepOff(st))
                ELSE IF Before
                     THEN IF same THEN LeaveLoop([Drop(StepOff(st)) EXCEPT !.ld.end = l.end])
                          ELSE IF severed.status = "failed" THEN severed
                          ELSE Drop(StepOff(severed))
                ELSE IF Inside
                     THEN IF severed.status = "failed" THEN severed
                          ELSE IF ld.start > l.start THEN Cut(severed)
                          ELSE Drop(StepBack(severed))
                ELSE IF same /\ ld.end > l.end
                     THEN Drop([StepBack(st) EXCEPT !.ld.start = l.start])
                ELSE Advance(Cut(st))
        BY <1>2, <3>0, <4>0, Zenon DEF Walk
      <4>a. SUFFICES W \in Loop(b, m)
        OBVIOUS
      <4> HIDE DEF W, severed, l, ld
      <4>2. CASE Done \/ FromStart \/ Over
        BY <2>1, <2>3, <2>4, <2>8, <4>1, <4>2
      <4>3. CASE ~Done /\ ~FromStart /\ ~Over /\ Before
        BY <2>1, <2>2, <2>3, <2>6, <2>9, <2>12, <4>1, <4>3
      <4>4. CASE ~Done /\ ~FromStart /\ ~Over /\ ~Before
        BY <2>1, <2>2, <2>7, <2>9, <2>10, <2>11, <2>12, <2>15, <4>1, <4>4
      <4> QED BY <4>2, <4>3, <4>4
    <3> QED BY <2>2, <3>1, <3>2
  <2> QED BY <2>2, <2>13, <2>14, <2>15
<1> QED BY <1>1, <1>2

(* The loop as a function of the number of passes.                         *)
Start(c, insrt, ld, n) ==
    [c |-> c, i |-> IF insrt = 0 THEN 1 ELSE insrt, ins |-> insrt,
     ld |-> ld, n |-> n, status |-> "walk"]

LEMMA LoopIs ==
    ASSUME NEW c, Len(c) \in Nat, NEW p, NEW insrt, NEW ld, NEW n, NEW X,
           Start(c, insrt, ld, n) \in X, \A st \in X : Walk(st, p) \in X
    PROVE  \E f : /\ f[0] = Start(c, insrt, ld, n)
                  /\ \A k \in 1 .. Len(c) : f[k] = Walk(f[k - 1], p)
                  /\ \A k \in 0 .. Len(c) : f[k] \in X
                  /\ Flckadj(c, p, insrt, ld, n) = Finish(f[Len(c)], p)
<1> DEFINE s == Start(c, insrt, ld, n)
           N == Len(c)
           F(f) == [k \in 0 .. N |-> IF k = 0 THEN s ELSE Walk(f[k - 1], p)]
           loop == CHOOSE f : f = F(f)
           g == [x \in (1 .. N) \X X |-> Walk(x[2], p)]
<1>1. Flckadj(c, p, insrt, ld, n) = Finish(loop[N], p)
  BY DEF Flckadj, Start
<1>2. N \in Nat /\ s \in X
  OBVIOUS
<1> HIDE DEF s, N
<1>3. g \in [(1 .. N) \X X -> X] /\ Passes(g, N, X)
  BY DEF Passes
<1>4. \A k \in 1 .. N, x \in X : g[<<k, x>>] = Walk(x, p)
  OBVIOUS
<1> HIDE DEF g
<1>a. \E f : Unfolded(f, s, N, g, X)
  BY <1>2, <1>3, Unfolds
<1>5. PICK f \in [0 .. N -> X] : f[0] = s /\ \A k \in 1 .. N : f[k] = g[<<k, f[k - 1]>>]
  BY <1>a DEF Unfolded
<1>6. f = F(f)
  <2>1. ASSUME NEW k \in 0 .. N PROVE f[k] = F(f)[k]
    <3>1. CASE k = 0
      BY <1>5, <3>1
    <3>2. CASE k # 0
      <4>1. k \in 1 .. N /\ k - 1 \in 0 .. N
        BY <1>2, <3>2
      <4>2. f[k] = g[<<k, f[k - 1]>>] /\ f[k - 1] \in X
        BY <1>5, <4>1
      <4>3. f[k] = Walk(f[k - 1], p)
        BY <1>4, <4>1, <4>2
      <4> QED BY <3>2, <4>3
    <3> QED BY <3>1, <3>2
  <2> QED BY <2>1
<1>7. loop = F(loop)
  BY <1>6
<1> HIDE DEF loop
<1>8. loop[0] = s
  BY <1>2, <1>7
<1>9. ASSUME NEW k \in 1 .. N PROVE loop[k] = Walk(loop[k - 1], p)
  BY <1>2, <1>7
<1>10. \A k \in 0 .. N : loop[k] \in X
  <2>1. loop[0] \in X
    BY <1>2, <1>8
  <2>2. \A k \in 1 .. N : loop[k - 1] \in X => loop[k] \in X
    BY <1>9
  <2> QED BY <1>2, <2>1, <2>2, Stepwise
<1> QED BY <1>1, <1>8, <1>9, <1>10 DEF s, N

(* What follows the loop keeps it too.                                     *)
LEMMA FinishLoop ==
    ASSUME NEW b, NEW m, NEW st \in Loop(b, m), NEW p \in Proc
    PROVE  Finish(st, p) \in Loop(b, m)
<1>1. /\ st \in State /\ st.i \in Nat /\ st.ins \in Nat /\ 1 <= st.i /\ st.ins <= st.i
      /\ Len(st.c) \in Nat /\ st.ld \in Asked /\ st.c \in Seq(Lock)
      /\ st.n \in Nat /\ st.ins <= Len(st.c)
      /\ st.ld.start < st.ld.end /\ st.n + Len(st.c) = m /\ Proper(st.c) /\ From(st.c, b)
  BY DEF Loop, State
<1>2. CASE st.status \in {"done", "failed"}
  BY <1>2 DEF Finish
<1>3. CASE ~(st.status \in {"done", "failed"}) /\ (st.ld.type = "unlock" \/ st.n = 0)
  <2>1. Finish(st, p) \in {[st EXCEPT !.status = "done"], [st EXCEPT !.status = "failed"]}
    BY <1>3 DEF Finish
  <2>2. "done" \in Status /\ "failed" \in Status
    BY DEF Status
  <2>3. ASSUME NEW s \in {"done", "failed"} PROVE [st EXCEPT !.status = s] \in Loop(b, m)
    BY <2>2, MoveLoop
  <2> QED BY <2>1, <2>3
<1>4. CASE ~(st.status \in {"done", "failed"}) /\ ~(st.ld.type = "unlock" \/ st.n = 0)
  <2> DEFINE l == NewLock(p, st.ld)
             k == IF st.ins = 0 THEN 0 ELSE Place(st.c, st.ins, st.ld.start)
             d == Insert(st.c, k, l)
             n == st.n - 1
             s1 == Severed(st, d, n, "done")
  <2>1. Finish(st, p) = [st EXCEPT !.status = "done", !.n = n, !.c = d]
    BY <1>4 DEF Finish
  <2>2. l \in Lock /\ l.start < l.end /\ l.waits = {}
    BY <1>1, <1>4 DEF NewLock, Lock, Asked
  <2>3. k \in 0 .. Len(st.c)
    <3>1. CASE st.ins = 0
      BY <1>1, <3>1
    <3>2. CASE st.ins # 0
      <4>1. st.ins \in 1 .. Len(st.c)
        BY <1>1, <3>2
      <4>2. Place(st.c, st.ins, st.ld.start) \in st.ins .. Len(st.c)
        BY <1>1, <4>1, PlaceIs
      <4> QED BY <1>1, <3>2, <4>1, <4>2
    <3> QED BY <3>1, <3>2
  <2>4. n \in Nat /\ n = st.n - 1
    BY <1>1, <1>4
  <2> HIDE DEF l, k, n
  <2>5. /\ d \in Seq(Lock) /\ Len(d) = Len(st.c) + 1
        /\ \A j \in 1 .. k : d[j] = st.c[j]
        /\ d[k + 1] = l
        /\ \A j \in k + 2 .. Len(st.c) + 1 : d[j] = st.c[j - 1]
    BY <1>1, <2>2, <2>3, InsertIs
  <2> HIDE DEF d
  <2>6. ASSUME NEW j \in DOMAIN d
        PROVE  d[j] = l \/ \E x \in DOMAIN st.c : d[j] = st.c[x]
    <3>1. j \in 1 .. Len(st.c) + 1 /\ DOMAIN st.c = 1 .. Len(st.c) /\ k \in Nat /\ k <= Len(st.c)
      BY <1>1, <2>3, <2>5
    <3>2. CASE j < k + 1
      <4>1. j \in DOMAIN st.c /\ d[j] = st.c[j]
        BY <1>1, <2>5, <3>1, <3>2, SMTT(30)
      <4> QED BY <4>1
    <3>3. CASE j = k + 1
      BY <2>5, <3>1, <3>3
    <3>4. CASE j > k + 1
      <4>1. j - 1 \in DOMAIN st.c /\ d[j] = st.c[j - 1]
        BY <1>1, <2>5, <3>1, <3>4, SMTT(30)
      <4> QED BY <4>1
    <3> QED BY <3>1, <3>2, <3>3, <3>4
  <2>7. Proper(d) /\ From(d, b)
    BY <1>1, <2>2, <2>6 DEF Proper, From
  <2>8. /\ s1 \in State /\ s1.c = d /\ s1.i = st.i /\ s1.ins = st.ins
        /\ s1.ld = st.ld /\ s1.n = n /\ s1.status = "done"
    <3>1. st \in State
      BY <1>1
    <3>2. d \in Seq(Lock)
      BY <2>5
    <3>3. n \in Nat
      BY <2>4
    <3>4. "done" \in Status
      BY DEF Status
    <3> QED BY <3>1, <3>2, <3>3, <3>4, PutSever
  <2>9. n + Len(d) = m
    BY <1>1, <2>4, <2>5, SMTT(30)
  <2>10. st.ins <= Len(d)
    BY <1>1, <2>5
  <2> HIDE DEF s1
  <2>11. s1 \in Loop(b, m)
    BY <1>1, <2>7, <2>8, <2>9, <2>10 DEF Loop
  <2>12. Finish(st, p) = s1
    BY <1>1, <2>1 DEF s1, Severed, State
  <2> QED BY <2>11, <2>12
<1> QED BY <1>2, <1>3, <1>4

LEMMA FlckadjIs ==
    ASSUME NEW c \in Seq(Lock), Proper(c), NEW p \in Proc, NEW insrt \in 0 .. Len(c),
           NEW ld \in Asked, ld.start < ld.end, NEW n \in Nat
    PROVE  Flckadj(c, p, insrt, ld, n) \in Loop(c, n + Len(c))
<1> DEFINE s == Start(c, insrt, ld, n)
           m == n + Len(c)
<1>1. Len(c) \in Nat /\ insrt \in Nat
  OBVIOUS
<1>2. s \in State
  BY <1>1 DEF State, Start, Status
<1>3. /\ s.c = c /\ s.i = (IF insrt = 0 THEN 1 ELSE insrt) /\ s.ins = insrt
      /\ s.ld = ld /\ s.n = n
  BY DEF Start
<1>4. From(c, c)
  BY DEF From
<1> HIDE DEF s
<1>5. m = n + Len(c)
  OBVIOUS
<1> HIDE DEF m
<1>6. s \in Loop(c, m)
  BY <1>1, <1>2, <1>3, <1>4, <1>5 DEF Loop
<1>7. \A st \in Loop(c, m) : Walk(st, p) \in Loop(c, m)
  BY WalkLoop
<1>8. PICK f : /\ \A k \in 0 .. Len(c) : f[k] \in Loop(c, m)
               /\ Flckadj(c, p, insrt, ld, n) = Finish(f[Len(c)], p)
  BY <1>1, <1>6, <1>7, LoopIs DEF s
<1>9. f[Len(c)] \in Loop(c, m)
  BY <1>1, <1>8
<1>10. Finish(f[Len(c)], p) \in Loop(c, m)
  BY <1>9, FinishLoop
<1> QED BY <1>8, <1>10 DEF m

LEMMA RequestIs ==
    ASSUME NEW ld \in Request
    PROVE  /\ ld \in Asked /\ ld.start < ld.end
           /\ ld.type \in Types \cup {"unlock"} /\ ld.start \in 0 .. MAXEND /\ ld.end \in 0 .. MAXEND
<1>1. PICK t \in Types \cup {"unlock"}, r \in Ranges :
         ld = [type |-> t, start |-> r[1], end |-> r[2]]
  BY DEF Request
<1> QED BY <1>1, LockAssumption DEF Asked

(* What a request makes of a chain: locks as they were, or without a       *)
(* sleeper; and no record comes or goes.                                   *)
LEMMA AdjustIs ==
    ASSUME NEW c \in Seq(Lock), Proper(c), NEW p \in Proc, NEW ld \in Request, NEW n \in Nat
    PROVE  LET r == Adjust(c, p, ld, n)
           IN  /\ r.c \in Seq(Lock) /\ Proper(r.c) /\ From(r.c, c)
               /\ r.n \in Nat /\ r.n + Len(r.c) = n + Len(c)
<1> DEFINE k == IF ld.type = "unlock" THEN IF c = <<>> THEN 0 ELSE 1 ELSE Insrt(c, p, ld)
<1>1. ld \in Asked /\ ld.start < ld.end
  BY RequestIs
<1>2. Adjust(c, p, ld, n) = Flckadj(c, p, k, ld, n)
  BY DEF Adjust
<1>3. k \in 0 .. Len(c)
  <2>1. Insrt(c, p, ld) \in 0 .. Len(c)
    BY InsrtIs
  <2>2. Len(c) \in Nat /\ (c # <<>> => Len(c) > 0)
    OBVIOUS
  <2> QED BY <2>1, <2>2
<1> HIDE DEF k
<1> DEFINE r == Flckadj(c, p, k, ld, n)
<1>4. r \in Loop(c, n + Len(c))
  BY <1>1, <1>3, FlckadjIs
<1> HIDE DEF r
<1>5. /\ r.c \in Seq(Lock) /\ Proper(r.c) /\ From(r.c, c)
      /\ r.n \in Nat /\ r.n + Len(r.c) = n + Len(c)
  BY <1>4 DEF Loop, State
<1> QED BY <1>2, <1>5 DEF r

(* The loop of cleanlocks().                                               *)
LEMMA CleanLoop ==
    ASSUME NEW c \in Seq(Lock), NEW p
    PROVE  \E f : /\ f[0] = <<>>
                  /\ \A k \in 1 .. Len(c) :
                        f[k] = IF c[k].pid = p THEN f[k - 1] ELSE Append(f[k - 1], c[k])
                  /\ \A k \in 0 .. Len(c) : f[k] \in Seq(Lock)
                  /\ Cleaned(c, p) = f[Len(c)]
<1> DEFINE N == Len(c)
           X == Seq(Lock)
           s == <<>>
           F(f) == [k \in 0 .. N |-> IF k = 0 THEN <<>>
                                     ELSE IF c[k].pid = p THEN f[k - 1] ELSE Append(f[k - 1], c[k])]
           rest == CHOOSE f : f = F(f)
           g == [x \in (1 .. N) \X X |-> IF c[x[1]].pid = p THEN x[2] ELSE Append(x[2], c[x[1]])]
<1>1. Cleaned(c, p) = rest[N]
  BY Zenon DEF Cleaned
<1>2. N \in Nat /\ s \in X /\ \A k \in 1 .. N : c[k] \in Lock
  OBVIOUS
<1>b. \A q \in X, l \in Lock : Append(q, l) \in X
  OBVIOUS
<1> HIDE DEF N, X, s
<1>3. g \in [(1 .. N) \X X -> X] /\ Passes(g, N, X)
  BY <1>2, <1>b DEF Passes
<1>4. \A k \in 1 .. N, q \in X : g[<<k, q>>] = IF c[k].pid = p THEN q ELSE Append(q, c[k])
  OBVIOUS
<1> HIDE DEF g
<1>a. \E f : Unfolded(f, s, N, g, X)
  BY <1>2, <1>3, Unfolds
<1>5. PICK f \in [0 .. N -> X] : f[0] = s /\ \A k \in 1 .. N : f[k] = g[<<k, f[k - 1]>>]
  BY <1>a DEF Unfolded
<1>6. f = F(f)
  <2>1. ASSUME NEW k \in 0 .. N PROVE f[k] = F(f)[k]
    <3>1. CASE k = 0
      BY <1>5, <3>1 DEF s
    <3>2. CASE k # 0
      <4>1. k \in 1 .. N /\ k - 1 \in 0 .. N
        BY <1>2, <3>2
      <4>2. f[k] = g[<<k, f[k - 1]>>] /\ f[k - 1] \in X
        BY <1>5, <4>1
      <4>3. f[k] = IF c[k].pid = p THEN f[k - 1] ELSE Append(f[k - 1], c[k])
        BY <1>4, <4>1, <4>2
      <4> QED BY <3>2, <4>3
    <3> QED BY <3>1, <3>2
  <2> QED BY <2>1
<1>7. rest = F(rest)
  BY <1>6, Zenon
<1> HIDE DEF rest
<1>8. rest[0] = <<>>
  BY <1>2, <1>7
<1>9. ASSUME NEW k \in 1 .. N
      PROVE  rest[k] = IF c[k].pid = p THEN rest[k - 1] ELSE Append(rest[k - 1], c[k])
  <2>1. k \in 0 .. N /\ k # 0
    BY <1>2
  <2> QED BY <1>7, <2>1
<1>10. \A k \in 0 .. N : rest[k] \in X
  <2>1. rest[0] \in X
    BY <1>2, <1>8 DEF s
  <2>2. \A k \in 1 .. N : rest[k - 1] \in X => rest[k] \in X
    BY <1>2, <1>b, <1>9
  <2> QED BY <1>2, <2>1, <2>2, Stepwise
<1> QED BY <1>1, <1>8, <1>9, <1>10 DEF N, X

(* A chain s of the locks among the first k of c that are not p's, in      *)
(* their order.                                                            *)
Without(s, c, k, p) ==
    /\ s \in Seq(Lock) /\ Len(s) <= k
    /\ \A j \in DOMAIN s : \E i \in 1 .. k : s[j] = c[i] /\ c[i].pid # p
    /\ \A i \in 1 .. k : c[i].pid # p => \E j \in DOMAIN s : s[j] = c[i]
    /\ \A j1, j2 \in DOMAIN s : j1 < j2 =>
          \E i1, i2 \in 1 .. k : i1 < i2 /\ s[j1] = c[i1] /\ s[j2] = c[i2]

LEMMA CleanStep ==
    ASSUME NEW c \in Seq(Lock), NEW p, NEW s, NEW k \in Nat, k + 1 <= Len(c), Without(s, c, k, p)
    PROVE  Without(IF c[k + 1].pid = p THEN s ELSE Append(s, c[k + 1]), c, k + 1, p)
<1> DEFINE n == k + 1
           l == c[n]
           t == Append(s, l)
<1>1. /\ n \in 1 .. Len(c) /\ n \in 1 .. n /\ n \in Nat /\ k < n /\ l \in Lock
      /\ s \in Seq(Lock) /\ Len(s) \in Nat /\ DOMAIN s = 1 .. Len(s) /\ Len(s) <= k
      /\ \A i \in 1 .. k : i \in 1 .. n /\ i < n
      /\ \A i \in 1 .. n : i \in 1 .. k \/ i = n
  BY DEF Without
<1>2. CASE l.pid = p
  <2>1. Without(s, c, n, p)
    <3> HIDE DEF n, l
    <3>1. \A i \in 1 .. n : c[i].pid # p => \E j \in DOMAIN s : s[j] = c[i]
      <4>1. c[n].pid = p
        BY <1>2 DEF l
      <4> QED BY <1>1, <4>1 DEF Without
    <3>2. \A j \in DOMAIN s : \E i \in 1 .. n : s[j] = c[i] /\ c[i].pid # p
      BY <1>1 DEF Without
    <3>3. ASSUME NEW j1 \in DOMAIN s, NEW j2 \in DOMAIN s, j1 < j2
          PROVE  \E i1, i2 \in 1 .. n : i1 < i2 /\ s[j1] = c[i1] /\ s[j2] = c[i2]
      <4>1. PICK i1 \in 1 .. k, i2 \in 1 .. k : i1 < i2 /\ s[j1] = c[i1] /\ s[j2] = c[i2]
        BY <3>3 DEF Without
      <4>2. i1 \in 1 .. n /\ i2 \in 1 .. n
        BY <1>1
      <4> QED BY <4>1, <4>2
    <3>4. s \in Seq(Lock) /\ Len(s) <= n
      BY <1>1
    <3> QED BY <3>1, <3>2, <3>3, <3>4 DEF Without
  <2> QED BY <1>2, <2>1
<1>3. CASE l.pid # p
  <2>1. /\ t \in Seq(Lock) /\ Len(t) = Len(s) + 1 /\ DOMAIN t = 1 .. Len(s) + 1
        /\ t[Len(s) + 1] = l /\ \A j \in 1 .. Len(s) : t[j] = s[j]
    BY <1>1
  <2>a. l = c[n]
    OBVIOUS
  <2> HIDE DEF t, l, n
  <2>2. \A j \in DOMAIN t : j \in DOMAIN s \/ j = Len(s) + 1
    BY <1>1, <2>1
  <2>3. \A j \in DOMAIN t : \E i \in 1 .. n : t[j] = c[i] /\ c[i].pid # p
    BY <1>1, <1>3, <2>a, <2>1, <2>2 DEF Without
  <2>4. \A i \in 1 .. n : c[i].pid # p => \E j \in DOMAIN t : t[j] = c[i]
    <3>1. ASSUME NEW i \in 1 .. k, c[i].pid # p PROVE \E j \in DOMAIN t : t[j] = c[i]
      <4>1. PICK j \in DOMAIN s : s[j] = c[i]
        BY <3>1 DEF Without
      <4>2. j \in DOMAIN t /\ t[j] = s[j]
        BY <1>1, <2>1
      <4> QED BY <4>1, <4>2
    <3>2. Len(s) + 1 \in DOMAIN t /\ t[Len(s) + 1] = c[n]
      BY <1>1, <2>a, <2>1
    <3> QED BY <1>1, <3>1, <3>2
  <2>5. ASSUME NEW j1 \in DOMAIN t, NEW j2 \in DOMAIN t, j1 < j2
        PROVE  \E i1, i2 \in 1 .. n : i1 < i2 /\ t[j1] = c[i1] /\ t[j2] = c[i2]
    <3>1. j1 \in DOMAIN s /\ t[j1] = s[j1]
      BY <1>1, <2>1, <2>2, <2>5
    <3>2. CASE j2 \in DOMAIN s
      <4>1. PICK i1 \in 1 .. k, i2 \in 1 .. k : i1 < i2 /\ s[j1] = c[i1] /\ s[j2] = c[i2]
        BY <2>5, <3>1, <3>2 DEF Without
      <4>2. t[j2] = s[j2]
        BY <1>1, <2>1, <3>2
      <4> QED BY <1>1, <3>1, <4>1, <4>2
    <3>3. CASE j2 = Len(s) + 1
      <4>1. PICK i1 \in 1 .. k : s[j1] = c[i1]
        BY <3>1 DEF Without
      <4> QED BY <1>1, <2>a, <2>1, <3>1, <3>3, <4>1
    <3> QED BY <2>2, <3>2, <3>3
  <2>6. Len(t) <= n
    BY <1>1, <2>1 DEF n
  <2>7. Without(t, c, n, p)
    BY <2>1, <2>3, <2>4, <2>5, <2>6 DEF Without
  <2> QED BY <1>3, <2>7 DEF t, l, n
<1> QED BY <1>2, <1>3

LEMMA CleanedIs ==
    ASSUME NEW c \in Seq(Lock), NEW p
    PROVE  Without(Cleaned(c, p), c, Len(c), p)
<1>1. PICK f : /\ f[0] = <<>>
               /\ \A k \in 1 .. Len(c) :
                     f[k] = IF c[k].pid = p THEN f[k - 1] ELSE Append(f[k - 1], c[k])
               /\ Cleaned(c, p) = f[Len(c)]
  BY CleanLoop
<1> DEFINE T == {k \in Nat : k <= Len(c) => Without(f[k], c, k, p)}
<1>2. 0 \in T
  <2>1. <<>> \in Seq(Lock) /\ Len(<<>>) = 0 /\ DOMAIN <<>> = {}
    OBVIOUS
  <2>2. PICK s : s = f[0] /\ s \in Seq(Lock) /\ Len(s) = 0 /\ DOMAIN s = {}
    BY <1>1, <2>1
  <2>3. \A i \in 1 .. 0 : FALSE
    OBVIOUS
  <2>4. Without(s, c, 0, p)
    BY <2>2, <2>3 DEF Without
  <2> QED BY <2>2, <2>4
<1>3. ASSUME NEW k \in Nat, k \in T PROVE k + 1 \in T
  <2>1. SUFFICES ASSUME k + 1 <= Len(c) PROVE Without(f[k + 1], c, k + 1, p)
    OBVIOUS
  <2>2. Len(c) \in Nat
    OBVIOUS
  <2>3. Without(f[k], c, k, p)
    BY <1>3, <2>1, <2>2
  <2>4. k + 1 \in 1 .. Len(c) /\ (k + 1) - 1 = k
    BY <2>1, <2>2
  <2>5. f[k + 1] = IF c[k + 1].pid = p THEN f[k] ELSE Append(f[k], c[k + 1])
    BY <1>1, <2>4
  <2>6. Without(IF c[k + 1].pid = p THEN f[k] ELSE Append(f[k], c[k + 1]), c, k + 1, p)
    BY <2>1, <2>3, CleanStep
  <2> QED BY <2>5, <2>6
<1>4. Nat \subseteq T
  <2> HIDE DEF T
  <2> QED BY <1>2, <1>3, Induction
<1>5. Len(c) \in T /\ Len(c) \in Nat
  BY <1>4
<1> QED BY <1>1, <1>5
-----------------------------------------------------------------------------
(* The records that are in use.                                            *)

Cells(ch) == UNION {{f} \X DOMAIN ch[f] : f \in File}

LEMMA RowIs ==
    ASSUME NEW f, NEW c \in Seq(Lock)
    PROVE  IsFiniteSet({f} \X DOMAIN c) /\ Cardinality({f} \X DOMAIN c) = Len(c)
<1>1. Len(c) \in Nat /\ DOMAIN c = 1 .. Len(c)
  OBVIOUS
<1>2. IsFiniteSet(1 .. Len(c)) /\ Cardinality(1 .. Len(c)) = Len(c)
  BY <1>1, FS_Interval
<1>3. IsFiniteSet({f}) /\ Cardinality({f}) = 1
  BY FS_Singleton
<1>4. /\ IsFiniteSet({f} \X (1 .. Len(c)))
      /\ Cardinality({f} \X (1 .. Len(c))) = Cardinality({f}) * Cardinality(1 .. Len(c))
  BY <1>2, <1>3, FS_Product
<1> QED BY <1>1, <1>2, <1>3, <1>4

LEMMA CellsFinite ==
    ASSUME NEW ch \in [File -> Seq(Lock)]
    PROVE  IsFiniteSet(Cells(ch)) /\ Cardinality(Cells(ch)) \in Nat
<1> DEFINE T == {{f} \X DOMAIN ch[f] : f \in File}
           g == [f \in File |-> {f} \X DOMAIN ch[f]]
<1>1. g \in Surjection(File, T)
  BY DEF Surjection
<1>2. IsFiniteSet(T)
  <2> HIDE DEF T, g
  <2> QED BY <1>1, LockAssumption, FS_Surjection
<1>3. \A t \in T : IsFiniteSet(t)
  BY RowIs
<1>4. Cells(ch) = UNION T
  BY DEF Cells
<1> HIDE DEF T
<1>5. IsFiniteSet(UNION T)
  BY <1>2, <1>3, FS_UNION
<1> QED BY <1>4, <1>5, FS_CardinalityType

(* One chain changes.                                                      *)
LEMMA CellsChange ==
    ASSUME NEW ch \in [File -> Seq(Lock)], NEW d \in [File -> Seq(Lock)], NEW f \in File,
           \A g \in File \ {f} : d[g] = ch[g]
    PROVE  Cardinality(Cells(d)) = Cardinality(Cells(ch)) - Len(ch[f]) + Len(d[f])
<1> DEFINE R == UNION {{g} \X DOMAIN ch[g] : g \in File \ {f}}
           A == {f} \X DOMAIN ch[f]
           c == d[f]
           B == {f} \X DOMAIN c
<1>1. /\ IsFiniteSet(A) /\ Cardinality(A) = Len(ch[f])
      /\ IsFiniteSet(B) /\ Cardinality(B) = Len(c)
      /\ Len(ch[f]) \in Nat /\ Len(c) \in Nat
  <2>1. ch[f] \in Seq(Lock)
    OBVIOUS
  <2>2. IsFiniteSet(A) /\ Cardinality(A) = Len(ch[f])
    BY <2>1, RowIs
  <2>3. c \in Seq(Lock)
    OBVIOUS
  <2> HIDE DEF c
  <2>4. IsFiniteSet(B) /\ Cardinality(B) = Len(c)
    BY <2>3, RowIs
  <2> HIDE DEF A, B
  <2> QED BY <2>1, <2>2, <2>3, <2>4
<1>2. Cells(ch) = R \cup A
  BY DEF Cells
<1>3. Cells(d) = R \cup B
  <2>2. \A g \in File \ {f} : {g} \X DOMAIN d[g] = {g} \X DOMAIN ch[g]
    OBVIOUS
  <2>3. {f} \X DOMAIN d[f] = B
    OBVIOUS
  <2> HIDE DEF B
  <2> QED BY <2>2, <2>3 DEF Cells
<1>4. R \cap A = {} /\ R \cap B = {}
  OBVIOUS
<1>5. IsFiniteSet(Cells(ch))
  BY CellsFinite
<1> HIDE DEF R, A, B
<1>6. IsFiniteSet(R)
  <2>1. R \in SUBSET Cells(ch)
    BY <1>2
  <2> QED BY <1>5, <2>1, FS_Subset
<1>7. /\ Cardinality(R \cup A) = Cardinality(R) + Cardinality(A)
      /\ Cardinality(R \cup B) = Cardinality(R) + Cardinality(B)
  <2>a. Cardinality(R \cup A) = Cardinality(R) + Cardinality(A) - Cardinality(R \cap A)
    BY <1>1, <1>6, FS_Union
  <2>b. Cardinality(R \cup B) = Cardinality(R) + Cardinality(B) - Cardinality(R \cap B)
    BY <1>1, <1>6, FS_Union
  <2>2. Cardinality({}) = 0
    BY FS_EmptySet
  <2>3. Cardinality(R) \in Nat /\ Cardinality(A) \in Nat /\ Cardinality(B) \in Nat
    BY <1>1, <1>6, FS_CardinalityType
  <2>4. Cardinality(R \cap A) = 0 /\ Cardinality(R \cap B) = 0
    BY <1>4, <2>2, Zenon
  <2> QED BY <2>a, <2>b, <2>3, <2>4
<1>8. Cardinality(R) \in Nat
  BY <1>6, FS_CardinalityType
<1>9. Cardinality(Cells(d)) = Cardinality(Cells(ch)) - Len(ch[f]) + Len(c)
  BY <1>1, <1>2, <1>3, <1>7, <1>8
<1> QED BY <1>9
-----------------------------------------------------------------------------
(* The invariant.  Chains of locks that hold their types, files that have  *)
(* their headers, records within their number; and at a lock sleep         *)
(* processes whose recorded request it blocks, and whose recorded blkpid   *)
(* is its owner.                                                           *)

Entry == [file : File, ld : Request, blkpid : Proc]

Typed ==
    /\ flck \in [File -> Seq(Lock)] /\ \A f \in File : Proper(flck[f])
    /\ fids \subseteq File /\ Cardinality(fids) <= Fils
    /\ refcnt \in [File -> Nat]
    /\ sleeplcks \in [Proc -> Entry \cup {NoSleep}]
    /\ Cardinality(Cells(flck)) + Cardinality(Sleepers) <= Recs

Users(f) == {p \in Sleepers : sleeplcks[p].file = f}

Counted ==
    \A f \in File : /\ refcnt[f] = Cardinality(Users(f))
                    /\ f \in fids <=> (flck[f] # <<>> \/ refcnt[f] > 0)

Waiting(l, p, f) ==
    /\ p \in Sleepers /\ sleeplcks[p].file = f
    /\ sleeplcks[p].blkpid = l.pid /\ Conflict(l, p, sleeplcks[p].ld)

Sleeping ==
    \A f \in File : \A i \in DOMAIN flck[f] : \A p \in flck[f][i].waits :
        Waiting(flck[f][i], p, f)

IndInv == Typed /\ Counted /\ Sleeping /\ NoDeadlock

(* A pass of the loop in setflck(), or cleanlocks(): p, if it slept, slept *)
(* in file f; `others' and n are what the actions say they are.            *)
Asks(p, f, others, n) ==
    /\ p \in Proc /\ f \in File
    /\ p \in Sleepers => sleeplcks[p].file = f
    /\ others = Cardinality(Users(f) \ {p})
    /\ n = Recs - (Cardinality(Cells(flck)) + Cardinality(Sleepers \ {p}))
    /\ f \in fids \/ Cardinality(fids) < Fils

(* The processes at the locks of c were at the same locks before, p is not *)
(* among them.                                                             *)
Remain(c, b, p) ==
    \A k \in DOMAIN c : \A q \in c[k].waits :
        q # p /\ \E j \in DOMAIN b : /\ q \in b[j].waits /\ b[j].pid = c[k].pid
                                     /\ b[j].type = c[k].type /\ b[j].start = c[k].start
                                     /\ b[j].end = c[k].end

LEMMA SleepersFinite == IsFiniteSet(Sleepers) /\ Sleepers \subseteq Proc
<1>1. Sleepers \in SUBSET Proc
  BY DEF Sleepers
<1> QED BY <1>1, LockAssumption, FS_Subset

LEMMA AsksIs ==
    ASSUME IndInv, NEW p, NEW f, NEW others, NEW n, Asks(p, f, others, n)
    PROVE  /\ n \in Nat /\ others \in Nat
           /\ IsFiniteSet(Sleepers \ {p}) /\ Cardinality(Sleepers \ {p}) \in Nat
           /\ Cardinality(Cells(flck)) \in Nat /\ flck[f] \in Seq(Lock) /\ Proper(flck[f])
<1>1. flck \in [File -> Seq(Lock)] /\ f \in File /\ Proper(flck[f])
  BY DEF IndInv, Typed, Asks
<1>2. Cardinality(Cells(flck)) \in Nat
  BY <1>1, CellsFinite
<1>3. IsFiniteSet(Sleepers \ {p}) /\ Cardinality(Sleepers \ {p}) \in Nat
      /\ Cardinality(Sleepers \ {p}) <= Cardinality(Sleepers) /\ Cardinality(Sleepers) \in Nat
  <2>1. (Sleepers \ {p}) \in SUBSET Sleepers
    OBVIOUS
  <2> QED BY <2>1, SleepersFinite, FS_Subset, FS_CardinalityType
<1>4. n \in Nat
  BY <1>2, <1>3, LockAssumption DEF IndInv, Typed, Asks
<1>5. others \in Nat
  <2>1. (Users(f) \ {p}) \in SUBSET Sleepers
    BY DEF Users
  <2>2. IsFiniteSet(Users(f) \ {p})
    BY <2>1, SleepersFinite, FS_Subset
  <2>3. Cardinality(Users(f) \ {p}) \in Nat
    BY <2>2, FS_CardinalityType
  <2> QED BY <2>3 DEF Asks
<1> QED BY <1>1, <1>2, <1>3, <1>4, <1>5

(* What a return leaves in the records of the sleepers.                    *)
LEMMA ReturnIs ==
    ASSUME IndInv, NEW p, NEW f, NEW others, NEW n, NEW c \in Seq(Lock),
           Asks(p, f, others, n), Return(p, f, others, c)
    PROVE  /\ flck' = [flck EXCEPT ![f] = c] /\ flck' \in [File -> Seq(Lock)]
           /\ flck'[f] = c /\ \A g \in File \ {f} : flck'[g] = flck[g]
           /\ sleeplcks' \in [Proc -> Entry \cup {NoSleep}]
           /\ \A q \in Proc \ {p} : sleeplcks'[q] = sleeplcks[q]
           /\ Sleepers' = Sleepers \ {p}
           /\ \A g \in File : Users(g)' = Users(g) \ {p}
           /\ refcnt' = [refcnt EXCEPT ![f] = others]
           /\ fids' = IF others = 0 /\ c = <<>> THEN fids \ {f} ELSE fids \cup {f}
<1>1. /\ p \in Proc /\ f \in File /\ flck \in [File -> Seq(Lock)]
      /\ sleeplcks \in [Proc -> Entry \cup {NoSleep}]
  BY DEF IndInv, Typed, Asks
<1>2. /\ flck' = [flck EXCEPT ![f] = c]
      /\ sleeplcks' = [sleeplcks EXCEPT ![p] = NoSleep]
      /\ refcnt' = [refcnt EXCEPT ![f] = others]
      /\ fids' = IF others = 0 /\ c = <<>> THEN fids \ {f} ELSE fids \cup {f}
  BY DEF Return, Freefid
<1>3. flck' \in [File -> Seq(Lock)] /\ flck'[f] = c /\ \A g \in File \ {f} : flck'[g] = flck[g]
  BY <1>1, <1>2
<1>4. /\ sleeplcks' \in [Proc -> Entry \cup {NoSleep}] /\ sleeplcks'[p] = NoSleep
      /\ \A q \in Proc \ {p} : sleeplcks'[q] = sleeplcks[q]
  BY <1>1, <1>2
<1>5. Sleepers' = Sleepers \ {p}
  BY <1>4 DEF Sleepers
<1>6. ASSUME NEW g \in File PROVE Users(g)' = Users(g) \ {p}
  BY <1>4, <1>5, SleepersFinite DEF Users
<1> QED BY <1>2, <1>3, <1>4, <1>5, <1>6

LEMMA ReturnTyped ==
    ASSUME IndInv, NEW p, NEW f, NEW others, NEW n, NEW c \in Seq(Lock),
           Asks(p, f, others, n), Return(p, f, others, c), Proper(c),
           Len(c) <= n + Len(flck[f])
    PROVE  Typed' /\ Counted'
<1>0. /\ flck' = [flck EXCEPT ![f] = c] /\ flck' \in [File -> Seq(Lock)]
      /\ flck'[f] = c /\ \A g \in File \ {f} : flck'[g] = flck[g]
      /\ sleeplcks' \in [Proc -> Entry \cup {NoSleep}]
      /\ Sleepers' = Sleepers \ {p}
      /\ \A g \in File : Users(g)' = Users(g) \ {p}
      /\ refcnt' = [refcnt EXCEPT ![f] = others]
      /\ fids' = IF others = 0 /\ c = <<>> THEN fids \ {f} ELSE fids \cup {f}
  BY ReturnIs
<1>1. /\ n \in Nat /\ others \in Nat /\ Cardinality(Sleepers \ {p}) \in Nat
      /\ Cardinality(Cells(flck)) \in Nat /\ flck[f] \in Seq(Lock)
  BY AsksIs
<1>2. /\ flck \in [File -> Seq(Lock)] /\ \A g \in File : Proper(flck[g])
      /\ fids \subseteq File /\ Cardinality(fids) <= Fils
      /\ refcnt \in [File -> Nat] /\ f \in File /\ Fils \in Nat /\ Recs \in Nat
      /\ f \in fids \/ Cardinality(fids) < Fils
      /\ others = Cardinality(Users(f) \ {p})
      /\ n = Recs - (Cardinality(Cells(flck)) + Cardinality(Sleepers \ {p}))
  BY LockAssumption DEF IndInv, Typed, Asks
<1>3. \A g \in File : Proper(flck'[g])
  BY <1>0, <1>2
<1>4. fids' \subseteq File /\ Cardinality(fids') <= Fils
  <2>1. IsFiniteSet(fids) /\ Cardinality(fids) \in Nat
    <3>1. IsFiniteSet(fids)
      BY <1>2, LockAssumption, FS_Subset
    <3> QED BY <3>1, FS_CardinalityType
  <2>2. /\ Cardinality(fids \ {f}) <= Cardinality(fids)
        /\ Cardinality(fids \cup {f}) = IF f \in fids THEN Cardinality(fids) ELSE Cardinality(fids) + 1
    <3>1. Cardinality(fids \ {f}) = IF f \in fids THEN Cardinality(fids) - 1 ELSE Cardinality(fids)
      BY <2>1, FS_RemoveElement
    <3>2. Cardinality(fids \cup {f}) = IF f \in fids THEN Cardinality(fids) ELSE Cardinality(fids) + 1
      BY <2>1, FS_AddElement
    <3> QED BY <2>1, <3>1, <3>2
  <2>3. CASE others = 0 /\ c = <<>>
    <3>1. fids' = fids \ {f}
      BY <1>0, <2>3
    <3>2. Cardinality(fids') <= Cardinality(fids)
      BY <2>2, <3>1
    <3>3. Cardinality(fids') \in Nat
      <4>1. IsFiniteSet(fids')
        BY <2>1, <3>1, FS_RemoveElement
      <4> QED BY <4>1, FS_CardinalityType
    <3> QED BY <1>2, <2>1, <3>1, <3>2, <3>3
  <2>4. CASE ~(others = 0 /\ c = <<>>)
    <3>1. fids' = fids \cup {f}
      BY <1>0, <2>4
    <3>2. Cardinality(fids') = IF f \in fids THEN Cardinality(fids) ELSE Cardinality(fids) + 1
      BY <2>2, <3>1
    <3> QED BY <1>2, <2>1, <3>1, <3>2
  <2> QED BY <2>3, <2>4
<1>5. refcnt' \in [File -> Nat]
  BY <1>0, <1>1, <1>2
<1>6. Cardinality(Cells(flck')) + Cardinality(Sleepers') <= Recs
  <2>1. Cardinality(Cells(flck')) = Cardinality(Cells(flck)) - Len(flck[f]) + Len(c)
    <3>1. Cardinality(Cells(flck')) = Cardinality(Cells(flck)) - Len(flck[f]) + Len(flck'[f])
      BY <1>0, <1>2, CellsChange
    <3> QED BY <1>0, <3>1
  <2>2. Len(flck[f]) \in Nat /\ Len(c) \in Nat
    BY <1>1
  <2>3. Cardinality(Sleepers') = Cardinality(Sleepers \ {p})
    BY <1>0
  <2> QED BY <1>1, <1>2, <2>1, <2>2, <2>3, SMTT(30)
<1>7. Typed'
  BY <1>0, <1>3, <1>4, <1>5, <1>6 DEF Typed, Cells
<1>8. Counted'
  <2>1. ASSUME NEW g \in File, g # f
        PROVE  /\ refcnt'[g] = Cardinality(Users(g)')
               /\ g \in fids' <=> (flck'[g] # <<>> \/ refcnt'[g] > 0)
    <3>1. refcnt'[g] = refcnt[g] /\ flck'[g] = flck[g] /\ (g \in fids' <=> g \in fids)
      BY <1>0, <1>2, <2>1
    <3>2. Users(g)' = Users(g)
      <4>1. p \notin Users(g)
        BY <2>1 DEF Asks, Users
      <4> QED BY <1>0, <4>1
    <3> QED BY <3>1, <3>2 DEF IndInv, Counted
  <2>2. /\ refcnt'[f] = Cardinality(Users(f)')
        /\ f \in fids' <=> (flck'[f] # <<>> \/ refcnt'[f] > 0)
    <3>1. refcnt'[f] = others /\ Users(f)' = Users(f) \ {p} /\ flck'[f] = c
      BY <1>0, <1>2
    <3>2. f \in fids' <=> ~(others = 0 /\ c = <<>>)
      BY <1>0
    <3> QED BY <1>1, <1>2, <3>1, <3>2
  <2> QED BY <2>1, <2>2 DEF Counted
<1> QED BY <1>7, <1>8

(* Nobody sleeps at a lock that no longer blocks it, and no new wait.      *)
LEMMA ReturnSleeping ==
    ASSUME IndInv, NEW p, NEW f, NEW others, NEW n, NEW c \in Seq(Lock),
           Asks(p, f, others, n), Return(p, f, others, c), Remain(c, flck[f], p)
    PROVE  Sleeping' /\ NoDeadlock'
<1>0. /\ flck'[f] = c /\ \A g \in File \ {f} : flck'[g] = flck[g]
      /\ \A q \in Proc \ {p} : sleeplcks'[q] = sleeplcks[q]
      /\ Sleepers' = Sleepers \ {p}
  BY ReturnIs
<1>1. f \in File /\ Sleepers \subseteq Proc
  BY SleepersFinite DEF Asks
<1>2. Sleeping /\ NoDeadlock
  BY DEF IndInv
<1>3. ASSUME NEW g \in File, NEW i \in DOMAIN flck'[g], NEW q \in flck'[g][i].waits
      PROVE  /\ q # p /\ q \in Sleepers
             /\ sleeplcks[q].file = g /\ sleeplcks[q].blkpid = flck'[g][i].pid
             /\ Conflict(flck'[g][i], q, sleeplcks[q].ld)
             /\ WaitsFor(q, flck'[g][i].pid)
  <2>1. CASE g = f
    <3>1. PICK j \in DOMAIN flck[f] :
             /\ q \in flck[f][j].waits /\ flck[f][j].pid = flck'[g][i].pid
             /\ flck[f][j].type = flck'[g][i].type /\ flck[f][j].start = flck'[g][i].start
             /\ flck[f][j].end = flck'[g][i].end
      BY <1>0, <2>1 DEF Remain
    <3>2. q # p
      BY <1>0, <2>1 DEF Remain
    <3>3. Waiting(flck[f][j], q, f)
      BY <1>1, <1>2, <3>1 DEF Sleeping
    <3>4. WaitsFor(q, flck[f][j].pid)
      BY <1>1, <3>1 DEF WaitsFor
    <3> QED BY <2>1, <3>1, <3>2, <3>3, <3>4 DEF Waiting, Conflict
  <2>2. CASE g # f
    <3>1. flck'[g] = flck[g]
      BY <1>0, <2>2
    <3>2. Waiting(flck[g][i], q, g)
      BY <1>2, <3>1 DEF Sleeping
    <3>3. q # p
      BY <2>2, <3>2 DEF Waiting, Asks
    <3>4. WaitsFor(q, flck[g][i].pid)
      BY <3>1 DEF WaitsFor
    <3> QED BY <3>1, <3>2, <3>3, <3>4 DEF Waiting
  <2> QED BY <2>1, <2>2
<1>4. ASSUME NEW g \in File, NEW i \in DOMAIN flck'[g], NEW q \in flck'[g][i].waits
      PROVE  /\ q \in Sleepers' /\ sleeplcks'[q].file = g
             /\ sleeplcks'[q].blkpid = flck'[g][i].pid
             /\ Conflict(flck'[g][i], q, sleeplcks'[q].ld)
  <2>1. q # p /\ q \in Sleepers /\ q \in Proc
    BY <1>1, <1>3
  <2>2. sleeplcks'[q] = sleeplcks[q]
    BY <1>0, <2>1
  <2> QED BY <1>0, <1>3, <2>1, <2>2
<1>5. Sleeping'
  BY <1>4 DEF Sleeping, Waiting, Conflict
<1>6. \A q, r : WaitsFor(q, r)' => WaitsFor(q, r)
  BY <1>3 DEF WaitsFor
<1>7. NoDeadlock'
  <2>1. ASSUME NEW S \in (SUBSET Sleepers') \ {{}} PROVE \E q \in S : \A r \in S : ~WaitsFor(q, r)'
    <3>1. S \in (SUBSET Sleepers) \ {{}}
      BY <1>0, <2>1
    <3>2. PICK q \in S : \A r \in S : ~WaitsFor(q, r)
      BY <1>2, <3>1 DEF NoDeadlock
    <3> QED BY <1>6, <3>2
  <2> QED BY <2>1 DEF NoDeadlock
<1> QED BY <1>5, <1>7

LEMMA ReturnStep ==
    ASSUME IndInv, NEW p, NEW f, NEW others, NEW n, NEW c \in Seq(Lock),
           Asks(p, f, others, n), Return(p, f, others, c), Proper(c),
           Len(c) <= n + Len(flck[f]), Remain(c, flck[f], p)
    PROVE  IndInv'
BY ReturnTyped, ReturnSleeping DEF IndInv

(* The locks that remain when nobody but the sleepers of before sleeps.    *)
LEMMA FromRemain ==
    ASSUME NEW b, NEW c, NEW p, From(c, b), \A i \in DOMAIN b : p \notin b[i].waits
    PROVE  Remain(c, b, p)
<1>1. SUFFICES ASSUME NEW k \in DOMAIN c, NEW q \in c[k].waits
               PROVE  q # p /\ \E j \in DOMAIN b : /\ q \in b[j].waits /\ b[j].pid = c[k].pid
                                     /\ b[j].type = c[k].type /\ b[j].start = c[k].start
                                     /\ b[j].end = c[k].end
  BY DEF Remain
<1>2. PICK j \in DOMAIN b : c[k] = b[j]
  BY <1>1 DEF From
<1> QED BY <1>1, <1>2

(* blocked() finds a lock of another process that is in the way.           *)
LEMMA BlockedIs ==
    ASSUME NEW c \in Seq(Lock), NEW p, NEW ld, Blocked(c, p, ld) # 0
    PROVE  Blocked(c, p, ld) \in DOMAIN c /\ Conflict(c[Blocked(c, p, ld)], p, ld)
<1> DEFINE S == {i \in DOMAIN c : /\ Conflict(c[i], p, ld)
                                  /\ \A j \in SearchEnd(c, p, ld) .. i - 1 : c[j].start <= ld.end}
<1>1. S \subseteq Nat /\ S \subseteq DOMAIN c /\ \A i \in S : Conflict(c[i], p, ld)
  OBVIOUS
<1>2. Blocked(c, p, ld) = FirstOf(S, 0)
  BY DEF Blocked
<1> HIDE DEF S
<1>3. S # {}
  BY <1>1, <1>2, FirstIs
<1>4. FirstOf(S, 0) \in S
  BY <1>1, <1>3, FirstIs
<1> QED BY <1>1, <1>2, <1>4

(* deadflck() as a walk along the processes.                               *)
LEMMA DeadflckIs ==
    ASSUME IndInv, NEW p, NEW l \in Lock
    PROVE  \E hop : /\ \A k \in 0 .. Cardinality(Proc) : hop[k] \in Proc
                    /\ hop[0] = l.pid
                    /\ \A k \in 1 .. Cardinality(Proc) : hop[k] = BlockedOn(hop[k - 1])
                    /\ Deadflck(p, l) <=> \E k \in 0 .. Cardinality(Proc) : hop[k] = p
<1> DEFINE N == Cardinality(Proc)
           s == l.pid
           F(h) == [k \in 0 .. N |-> IF k = 0 THEN l.pid ELSE BlockedOn(h[k - 1])]
           hop == CHOOSE h : h = F(h)
           g == [x \in (1 .. N) \X Proc |-> BlockedOn(x[2])]
<1>1. Deadflck(p, l) <=> \E k \in DOMAIN hop : hop[k] = p
  BY Zenon DEF Deadflck
<1>2. N \in Nat /\ s \in Proc
  BY LockAssumption, FS_CardinalityType DEF Lock
<1>b. \A q \in Proc : BlockedOn(q) \in Proc
  <2>1. ASSUME NEW q \in Proc PROVE BlockedOn(q) \in Proc
    <3>1. CASE q \in Sleepers
      <4>1. sleeplcks[q] \in Entry
        BY <2>1, <3>1 DEF IndInv, Typed, Sleepers
      <4> QED BY <3>1, <4>1 DEF Entry, BlockedOn
    <3>2. CASE q \notin Sleepers
      BY <2>1, <3>2 DEF BlockedOn
    <3> QED BY <3>1, <3>2
  <2> QED BY <2>1
<1> HIDE DEF N
<1>3. g \in [(1 .. N) \X Proc -> Proc] /\ Passes(g, N, Proc)
  BY <1>b DEF Passes
<1>4. \A k \in 1 .. N, q \in Proc : g[<<k, q>>] = BlockedOn(q)
  OBVIOUS
<1> HIDE DEF g
<1>a. \E h : Unfolded(h, s, N, g, Proc)
  <2> HIDE DEF s
  <2> QED BY <1>2, <1>3, Unfolds
<1>5. PICK h \in [0 .. N -> Proc] : h[0] = s /\ \A k \in 1 .. N : h[k] = g[<<k, h[k - 1]>>]
  BY <1>a DEF Unfolded
<1>6. h = F(h)
  <2>1. ASSUME NEW k \in 0 .. N PROVE h[k] = F(h)[k]
    <3>1. CASE k = 0
      BY <1>5, <3>1
    <3>2. CASE k # 0
      <4>1. k \in 1 .. N /\ k - 1 \in 0 .. N
        BY <1>2, <3>2
      <4>2. h[k] = g[<<k, h[k - 1]>>] /\ h[k - 1] \in Proc
        BY <1>5, <4>1
      <4>3. h[k] = BlockedOn(h[k - 1])
        BY <1>4, <4>1, <4>2
      <4> QED BY <3>2, <4>3
    <3> QED BY <3>1, <3>2
  <2> QED BY <2>1
<1>7. hop = F(hop)
  BY <1>6, Zenon
<1> HIDE DEF hop
<1>8. hop[0] = l.pid /\ DOMAIN hop = 0 .. N
  BY <1>2, <1>7
<1>9. ASSUME NEW k \in 1 .. N PROVE hop[k] = BlockedOn(hop[k - 1])
  <2>1. k \in 0 .. N /\ k # 0
    BY <1>2
  <2> QED BY <1>7, <2>1
<1>10. \A k \in 0 .. N : hop[k] \in Proc
  <2>1. hop[0] \in Proc
    BY <1>2, <1>8
  <2>2. \A k \in 1 .. N : hop[k - 1] \in Proc => hop[k] \in Proc
    BY <1>b, <1>9
  <2> QED BY <1>2, <2>1, <2>2, Stepwise
<1> QED BY <1>1, <1>8, <1>9, <1>10 DEF N

(* A request that goes to sleep.                                           *)
Slept(p, f, b, ld, others, n) ==
    /\ b = Blocked(flck[f], p, ld) /\ Conflict(flck[f][b], p, ld)
    /\ ~Deadflck(p, flck[f][b]) /\ n > 0
    /\ flck' \in [File -> Seq(Lock)] /\ \A g \in File \ {f} : flck'[g] = flck[g]
    /\ Len(flck'[f]) = Len(flck[f]) /\ DOMAIN flck'[f] = DOMAIN flck[f]
    /\ \A i \in DOMAIN flck[f] :
          /\ flck'[f][i].start = flck[f][i].start /\ flck'[f][i].end = flck[f][i].end
          /\ flck'[f][i].type = flck[f][i].type /\ flck'[f][i].pid = flck[f][i].pid
          /\ flck'[f][i].waits = IF i = b THEN flck[f][i].waits \cup {p}
                                 ELSE flck[f][i].waits
    /\ sleeplcks' \in [Proc -> Entry \cup {NoSleep}]
    /\ sleeplcks'[p] = [file |-> f, ld |-> ld, blkpid |-> flck[f][b].pid]
    /\ \A q \in Proc \ {p} : sleeplcks'[q] = sleeplcks[q]
    /\ Sleepers' = Sleepers \cup {p}
    /\ refcnt' = [refcnt EXCEPT ![f] = others + 1]
    /\ fids' = fids \cup {f}

LEMMA SleepsIs ==
    ASSUME IndInv, NEW p, NEW f, NEW others, NEW n, NEW ld \in Request,
           Asks(p, f, others, n), Sleeps(p, f, ld, others, n)
    PROVE  \E b \in DOMAIN flck[f] : Slept(p, f, b, ld, others, n)
<1> DEFINE b == Blocked(flck[f], p, ld)
           c == flck[f]
           l == [c[b] EXCEPT !.waits = @ \cup {p}]
           d == [c EXCEPT ![b] = l]
           e == [file |-> f, ld |-> ld, blkpid |-> c[b].pid]
<1>1. /\ p \in Proc /\ f \in File /\ flck \in [File -> Seq(Lock)] /\ c \in Seq(Lock)
      /\ sleeplcks \in [Proc -> Entry \cup {NoSleep}]
  BY DEF IndInv, Typed, Asks
<1>2. /\ b # 0 /\ ~Deadflck(p, flck[f][b]) /\ n > 0
      /\ flck' = [flck EXCEPT ![f][b].waits = @ \cup {p}]
      /\ sleeplcks' = [sleeplcks EXCEPT ![p] = e]
      /\ refcnt' = [refcnt EXCEPT ![f] = others + 1]
      /\ fids' = fids \cup {f}
  BY DEF Sleeps
<1>3. b \in DOMAIN c /\ Conflict(c[b], p, ld)
  BY <1>1, <1>2, BlockedIs
<1>4. c[b] \in Lock
  BY <1>1, <1>3
<1>5. flck' = [flck EXCEPT ![f] = d]
  BY <1>1, <1>2, <1>3, <1>4
<1> HIDE DEF b
<1>6. /\ l \in Lock /\ l.start = c[b].start /\ l.end = c[b].end /\ l.type = c[b].type
      /\ l.pid = c[b].pid /\ l.waits = c[b].waits \cup {p}
  BY <1>1, <1>4 DEF Lock
<1> HIDE DEF l
<1>7. /\ d \in Seq(Lock) /\ Len(d) = Len(c) /\ DOMAIN d = DOMAIN c
      /\ d[b] = l /\ \A i \in DOMAIN c : i # b => d[i] = c[i]
  BY <1>1, <1>3, <1>6
<1> HIDE DEF d
<1>8. /\ flck' \in [File -> Seq(Lock)] /\ flck'[f] = d /\ \A g \in File \ {f} : flck'[g] = flck[g]
  BY <1>1, <1>5, <1>7
<1>9. e \in Entry
  BY <1>1, <1>4 DEF Entry, Lock
<1> HIDE DEF e
<1>10. /\ sleeplcks' \in [Proc -> Entry \cup {NoSleep}] /\ sleeplcks'[p] = e
       /\ \A q \in Proc \ {p} : sleeplcks'[q] = sleeplcks[q]
  BY <1>1, <1>2, <1>9
<1>11. e # NoSleep
  BY <1>9, LockAssumption DEF Entry
<1>12. Sleepers' = Sleepers \cup {p}
  BY <1>1, <1>10, <1>11 DEF Sleepers
<1>13. ASSUME NEW i \in DOMAIN c
       PROVE  /\ d[i].start = c[i].start /\ d[i].end = c[i].end
              /\ d[i].type = c[i].type /\ d[i].pid = c[i].pid
              /\ d[i].waits = IF i = b THEN c[i].waits \cup {p} ELSE c[i].waits
  BY <1>3, <1>6, <1>7
<1> QED BY <1>2, <1>3, <1>7, <1>8, <1>10, <1>12, <1>13, ZenonT(40) DEF Slept, b, e

LEMMA SleepsTyped ==
    ASSUME IndInv, NEW p, NEW f, NEW others, NEW n, NEW ld \in Request,
           Asks(p, f, others, n), Sleeps(p, f, ld, others, n)
    PROVE  Typed' /\ Counted'
<1>s. PICK b \in DOMAIN flck[f] : Slept(p, f, b, ld, others, n)
  BY SleepsIs
<1>a. \A i \in DOMAIN flck[f] :
         flck'[f][i].start = flck[f][i].start /\ flck'[f][i].end = flck[f][i].end
  BY <1>s DEF Slept
<1>b. sleeplcks'[p].file = f
  BY <1>s DEF Slept
<1>0. /\ n > 0
      /\ flck' \in [File -> Seq(Lock)] /\ \A g \in File \ {f} : flck'[g] = flck[g]
      /\ Len(flck'[f]) = Len(flck[f]) /\ DOMAIN flck'[f] = DOMAIN flck[f]
      /\ sleeplcks' \in [Proc -> Entry \cup {NoSleep}]
      /\ \A q \in Proc \ {p} : sleeplcks'[q] = sleeplcks[q]
      /\ Sleepers' = Sleepers \cup {p}
      /\ refcnt' = [refcnt EXCEPT ![f] = others + 1]
      /\ fids' = fids \cup {f}
  BY <1>s DEF Slept
<1>1. /\ n \in Nat /\ others \in Nat /\ Cardinality(Sleepers \ {p}) \in Nat
      /\ IsFiniteSet(Sleepers \ {p})
      /\ Cardinality(Cells(flck)) \in Nat /\ flck[f] \in Seq(Lock) /\ Proper(flck[f])
  BY AsksIs
<1>2. /\ flck \in [File -> Seq(Lock)] /\ \A g \in File : Proper(flck[g])
      /\ fids \subseteq File /\ Cardinality(fids) <= Fils
      /\ refcnt \in [File -> Nat] /\ f \in File /\ p \in Proc /\ Fils \in Nat /\ Recs \in Nat
      /\ f \in fids \/ Cardinality(fids) < Fils
      /\ others = Cardinality(Users(f) \ {p})
      /\ n = Recs - (Cardinality(Cells(flck)) + Cardinality(Sleepers \ {p}))
  BY LockAssumption DEF IndInv, Typed, Asks
<1>3. \A g \in File : Proper(flck'[g])
  <2>1. Proper(flck'[f])
    BY <1>0, <1>1, <1>a DEF Proper
  <2> QED BY <1>0, <1>2, <2>1
<1>4. fids' \subseteq File /\ Cardinality(fids') <= Fils
  <2>1. IsFiniteSet(fids) /\ Cardinality(fids) \in Nat
    <3>1. IsFiniteSet(fids)
      BY <1>2, LockAssumption, FS_Subset
    <3> QED BY <3>1, FS_CardinalityType
  <2>2. Cardinality(fids') = IF f \in fids THEN Cardinality(fids) ELSE Cardinality(fids) + 1
    BY <1>0, <2>1, FS_AddElement
  <2> QED BY <1>0, <1>2, <2>1, <2>2
<1>5. refcnt' \in [File -> Nat] /\ refcnt'[f] = others + 1 /\ \A g \in File \ {f} : refcnt'[g] = refcnt[g]
  BY <1>0, <1>1, <1>2
<1>6. Cardinality(Cells(flck')) + Cardinality(Sleepers') <= Recs
  <2>1. Cardinality(Cells(flck')) = Cardinality(Cells(flck))
    <3>1. Cardinality(Cells(flck')) = Cardinality(Cells(flck)) - Len(flck[f]) + Len(flck'[f])
      BY <1>0, <1>2, CellsChange
    <3>2. Len(flck[f]) \in Nat
      BY <1>1
    <3> QED BY <1>0, <1>1, <3>1, <3>2
  <2>2. Cardinality(Sleepers') = Cardinality(Sleepers \ {p}) + 1
    <3>1. Sleepers' = (Sleepers \ {p}) \cup {p}
      BY <1>0
    <3>2. Cardinality((Sleepers \ {p}) \cup {p}) = Cardinality(Sleepers \ {p}) + 1
      BY <1>1, FS_AddElement
    <3> QED BY <3>1, <3>2
  <2> QED BY <1>0, <1>1, <1>2, <2>1, <2>2
<1>7. Typed'
  BY <1>0, <1>3, <1>4, <1>5, <1>6 DEF Typed, Cells
<1>8. Counted'
  <2>1. ASSUME NEW g \in File, g # f
        PROVE  /\ refcnt'[g] = Cardinality(Users(g)')
               /\ g \in fids' <=> (flck'[g] # <<>> \/ refcnt'[g] > 0)
    <3>1. refcnt'[g] = refcnt[g] /\ flck'[g] = flck[g] /\ (g \in fids' <=> g \in fids)
      BY <1>0, <1>5, <2>1
    <3>2. Users(g)' = Users(g)
      <4>1. p \notin Users(g)
        BY <2>1 DEF Asks, Users
      <4>2. p \notin Users(g)'
        BY <1>0, <1>b, <2>1 DEF Users
      <4>3. \A q : q # p => (q \in Users(g)' <=> q \in Users(g))
        BY <1>0, SleepersFinite DEF Users
      <4> QED BY <4>1, <4>2, <4>3
    <3> QED BY <3>1, <3>2 DEF IndInv, Counted
  <2>2. refcnt'[f] = Cardinality(Users(f)')
    <3>1. Users(f)' = (Users(f) \ {p}) \cup {p}
      <4>1. p \in Users(f)'
        BY <1>0, <1>b DEF Users
      <4>2. \A q : q # p => (q \in Users(f)' <=> q \in Users(f))
        BY <1>0, SleepersFinite DEF Users
      <4> QED BY <4>1, <4>2
    <3>2. IsFiniteSet(Users(f) \ {p})
      <4>1. (Users(f) \ {p}) \in SUBSET (Sleepers \ {p})
        BY DEF Users
      <4> QED BY <1>1, <4>1, FS_Subset
    <3>3. Cardinality((Users(f) \ {p}) \cup {p}) = Cardinality(Users(f) \ {p}) + 1
      BY <3>2, FS_AddElement
    <3> QED BY <1>2, <1>5, <3>1, <3>3
  <2>3. f \in fids' /\ refcnt'[f] > 0
    BY <1>0, <1>1, <1>5
  <2> QED BY <2>1, <2>2, <2>3 DEF Counted
<1> QED BY <1>7, <1>8

Quiet(p) == \A g \in File : \A i \in DOMAIN flck[g] : p \notin flck[g][i].waits

LEMMA SleepsSleeping ==
    ASSUME IndInv, NEW p, NEW f, NEW others, NEW n, NEW ld \in Request,
           Asks(p, f, others, n), Sleeps(p, f, ld, others, n), Quiet(p)
    PROVE  Sleeping'
<1>s. PICK b \in DOMAIN flck[f] : Slept(p, f, b, ld, others, n)
  BY SleepsIs
<1>0. /\ Conflict(flck[f][b], p, ld)
      /\ \A g \in File \ {f} : flck'[g] = flck[g]
      /\ DOMAIN flck'[f] = DOMAIN flck[f]
      /\ \A i \in DOMAIN flck[f] :
            /\ flck'[f][i].start = flck[f][i].start /\ flck'[f][i].end = flck[f][i].end
            /\ flck'[f][i].type = flck[f][i].type /\ flck'[f][i].pid = flck[f][i].pid
            /\ flck'[f][i].waits = IF i = b THEN flck[f][i].waits \cup {p} ELSE flck[f][i].waits
      /\ sleeplcks'[p] = [file |-> f, ld |-> ld, blkpid |-> flck[f][b].pid]
      /\ \A q \in Proc \ {p} : sleeplcks'[q] = sleeplcks[q]
      /\ Sleepers' = Sleepers \cup {p}
  BY <1>s DEF Slept
<1>1. f \in File /\ p \in Proc /\ Sleepers \subseteq Proc /\ Sleeping
  BY SleepersFinite DEF Asks, IndInv
<1>2. ASSUME NEW g \in File, NEW i \in DOMAIN flck'[g], NEW q \in flck'[g][i].waits
      PROVE  /\ q \in Sleepers' /\ sleeplcks'[q].file = g
             /\ sleeplcks'[q].blkpid = flck'[g][i].pid
             /\ Conflict(flck'[g][i], q, sleeplcks'[q].ld)
  <2>1. i \in DOMAIN flck[g]
    BY <1>0, <1>2
  <2>2. CASE q # p
    <3>1. q \in flck[g][i].waits
      BY <1>0, <1>2, <2>1, <2>2, ZenonT(40)
    <3>2. Waiting(flck[g][i], q, g)
      BY <1>1, <2>1, <3>1 DEF Sleeping
    <3>3. /\ flck'[g][i].start = flck[g][i].start /\ flck'[g][i].end = flck[g][i].end
          /\ flck'[g][i].type = flck[g][i].type /\ flck'[g][i].pid = flck[g][i].pid
      BY <1>0, <2>1
    <3>4. q \in Sleepers' /\ sleeplcks'[q] = sleeplcks[q]
      BY <1>0, <1>1, <2>2, <3>2 DEF Waiting
    <3> QED BY <3>2, <3>3, <3>4 DEF Waiting, Conflict
  <2>3. CASE q = p
    <3>1. g = f /\ i = b
      <4>1. p \notin flck[g][i].waits
        BY <2>1 DEF Quiet
      <4>2. q \in flck'[g][i].waits
        BY <1>2
      <4>3. g = f
        BY <1>0, <2>3, <4>1, <4>2
      <4>4. flck'[f][i].waits = IF i = b THEN flck[f][i].waits \cup {p} ELSE flck[f][i].waits
        BY <1>0, <2>1, <4>3
      <4> QED BY <2>3, <4>1, <4>2, <4>3, <4>4
    <3>2. sleeplcks'[p].file = f /\ sleeplcks'[p].blkpid = flck[f][b].pid /\ sleeplcks'[p].ld = ld
      BY <1>0
    <3>3. /\ flck'[f][b].start = flck[f][b].start /\ flck'[f][b].end = flck[f][b].end
          /\ flck'[f][b].type = flck[f][b].type /\ flck'[f][b].pid = flck[f][b].pid
      BY <1>0
    <3>4. p \in Sleepers' /\ Conflict(flck'[f][b], p, ld)
      BY <1>0, <3>3 DEF Conflict
    <3> QED BY <2>3, <3>1, <3>2, <3>3, <3>4
  <2> QED BY <2>2, <2>3
<1> QED BY <1>2 DEF Sleeping, Waiting, Conflict

(* The search of deadflck() is right: whoever waits for whom it follows by *)
(* the pids in the records.                                                *)
LEMMA SleepsNoDeadlock ==
    ASSUME IndInv, NEW p, NEW f, NEW others, NEW n, NEW ld \in Request,
           Asks(p, f, others, n), Sleeps(p, f, ld, others, n), Quiet(p)
    PROVE  NoDeadlock'
<1>s. PICK b \in DOMAIN flck[f] : Slept(p, f, b, ld, others, n)
  BY SleepsIs
<1> DEFINE l == flck[f][b]
           N == Cardinality(Proc)
<1>0. /\ ~Deadflck(p, l)
      /\ \A g \in File \ {f} : flck'[g] = flck[g]
      /\ DOMAIN flck'[f] = DOMAIN flck[f]
      /\ \A i \in DOMAIN flck[f] :
            /\ flck'[f][i].pid = flck[f][i].pid
            /\ flck'[f][i].waits = IF i = b THEN flck[f][i].waits \cup {p} ELSE flck[f][i].waits
      /\ Sleepers' = Sleepers \cup {p}
  BY <1>s DEF Slept
<1>1. /\ f \in File /\ p \in Proc /\ Sleepers \subseteq Proc /\ Sleeping /\ NoDeadlock
      /\ l \in Lock /\ N \in Nat
  <2>1. flck[f] \in Seq(Lock)
    BY AsksIs
  <2>2. l \in Lock
    BY <2>1
  <2> QED BY <2>2, SleepersFinite, LockAssumption, FS_CardinalityType DEF Asks, IndInv
<1> HIDE DEF l, N
<1>2. PICK hop : /\ \A k \in 0 .. N : hop[k] \in Proc
                 /\ hop[0] = l.pid
                 /\ \A k \in 1 .. N : hop[k] = BlockedOn(hop[k - 1])
                 /\ Deadflck(p, l) <=> \E k \in 0 .. N : hop[k] = p
  BY <1>1, DeadflckIs DEF N
<1>3. \A k \in 0 .. N : hop[k] # p
  BY <1>0, <1>2
<1>4. ASSUME NEW q, NEW r, WaitsFor(q, r)' 
      PROVE  /\ q = p => r = l.pid
             /\ q # p => WaitsFor(q, r) /\ q \in Sleepers /\ r = BlockedOn(q)
  <2>a. PICK g \in File : \E i \in DOMAIN flck'[g] : q \in flck'[g][i].waits /\ flck'[g][i].pid = r
    BY <1>4 DEF WaitsFor
  <2>1. PICK i \in DOMAIN flck'[g] : q \in flck'[g][i].waits /\ flck'[g][i].pid = r
    BY <2>a
  <2>2. i \in DOMAIN flck[g] /\ flck'[g][i].pid = flck[g][i].pid
    BY <1>0, <2>1
  <2>3. CASE q # p
    <3>1. q \in flck[g][i].waits
      BY <1>0, <2>1, <2>2, <2>3
    <3>2. WaitsFor(q, r)
      BY <2>1, <2>2, <3>1 DEF WaitsFor
    <3>3. Waiting(flck[g][i], q, g)
      BY <1>1, <2>2, <3>1 DEF Sleeping
    <3>4. q \in Sleepers /\ BlockedOn(q) = flck[g][i].pid
      BY <3>3 DEF Waiting, BlockedOn
    <3> QED BY <2>1, <2>2, <2>3, <3>2, <3>4
  <2>4. CASE q = p
    <3>1. p \notin flck[g][i].waits
      BY <2>2 DEF Quiet
    <3>2. g = f
      BY <1>0, <2>1, <2>4, <3>1
    <3>3. i = b
      BY <1>0, <2>1, <2>2, <2>4, <3>1, <3>2
    <3> QED BY <2>1, <2>2, <2>4, <3>2, <3>3 DEF l
  <2> QED BY <2>3, <2>4
<1>5. SUFFICES ASSUME NEW S \in (SUBSET Sleepers') \ {{}},
                      \A q \in S : \E r \in S : WaitsFor(q, r)'
               PROVE  FALSE
  BY DEF NoDeadlock
<1>6. p \in S
  <2>1. SUFFICES ASSUME p \notin S PROVE FALSE
    OBVIOUS
  <2>2. S \in (SUBSET Sleepers) \ {{}}
    BY <1>0, <1>5, <2>1
  <2>3. \A q \in S : \E r \in S : WaitsFor(q, r)
    BY <1>4, <1>5, <2>1
  <2> QED BY <1>1, <2>2, <2>3 DEF NoDeadlock
<1>7. l.pid \in S
  BY <1>4, <1>5, <1>6
<1>8. ASSUME NEW q \in S, q # p
      PROVE  BlockedOn(q) \in S /\ WaitsFor(q, BlockedOn(q)) /\ q \in Sleepers
  <2>1. PICK r \in S : WaitsFor(q, r)'
    BY <1>5
  <2> QED BY <1>4, <1>8, <2>1
<1>9. \A k \in 0 .. N : hop[k] \in S
  <2>1. hop[0] \in S
    BY <1>2, <1>7
  <2>2. ASSUME NEW k \in 1 .. N, hop[k - 1] \in S PROVE hop[k] \in S
    <3>1. k - 1 \in 0 .. N
      BY <1>1
    <3>2. hop[k - 1] # p
      BY <1>3, <3>1
    <3>3. hop[k] = BlockedOn(hop[k - 1])
      BY <1>2
    <3> QED BY <1>8, <2>2, <3>2, <3>3
  <2> QED BY <1>1, <2>1, <2>2, Stepwise
<1>10. \E i, j \in 0 .. N : i < j /\ hop[i] = hop[j]
  <2> DEFINE h == [k \in 0 .. N |-> hop[k]]
  <2>1. h \in [0 .. N -> Proc] /\ \A k \in 0 .. N : h[k] = hop[k]
    BY <1>2
  <2> HIDE DEF h
  <2>2. IsFiniteSet(0 .. N) /\ Cardinality(0 .. N) = N + 1
    <3>1. 0 \in Int /\ N \in Int
      BY <1>1
    <3>2. IsFiniteSet(0 .. N) /\ Cardinality(0 .. N) = IF 0 > N THEN 0 ELSE N - 0 + 1
      BY <3>1, FS_Interval
    <3> QED BY <1>1, <3>2
  <2>3. IsFiniteSet(Proc) /\ Cardinality(Proc) < Cardinality(0 .. N)
    BY <1>1, <2>2, LockAssumption DEF N
  <2> DEFINE I == 0 .. N
  <2>a. h \in [I -> Proc]
    BY <2>1
  <2>b. IsFiniteSet(I)
    BY <2>2
  <2>c. Cardinality(Proc) < Cardinality(I)
    BY <2>3
  <2> HIDE DEF I
  <2>d. \E x, y \in I : x # y /\ h[x] = h[y]
    BY <2>a, <2>b, <2>c, <2>3, FS_PigeonHole
  <2>4. PICK x, y \in 0 .. N : x # y /\ h[x] = h[y]
    BY <2>d DEF I
  <2> QED BY <1>1, <2>1, <2>4
<1>11. PICK i \in 0 .. N, j \in 0 .. N : i < j /\ hop[i] = hop[j]
  BY <1>10
<1> DEFINE T == {hop[k] : k \in i .. j - 1}
<1>12. \A k \in i .. j - 1 : k \in 0 .. N /\ k + 1 \in 1 .. N /\ (k + 1) - 1 = k
  BY <1>1, <1>11
<1>13. T \in (SUBSET Sleepers) \ {{}}
  <2>1. i \in i .. j - 1
    BY <1>11
  <2> QED BY <1>3, <1>8, <1>9, <1>12, <2>1
<1>14. ASSUME NEW k \in i .. j - 1
       PROVE  \E r \in T : WaitsFor(hop[k], r)
  <2>1. WaitsFor(hop[k], BlockedOn(hop[k]))
    BY <1>3, <1>8, <1>9, <1>12
  <2>2. hop[k + 1] = BlockedOn(hop[k])
    BY <1>2, <1>12
  <2>3. hop[k + 1] \in T
    <3>1. CASE k + 1 \in i .. j - 1
      BY <3>1
    <3>2. CASE k + 1 \notin i .. j - 1
      <4>1. k + 1 = j /\ i \in i .. j - 1
        BY <1>11, <3>2
      <4> QED BY <1>11, <4>1
    <3> QED BY <3>1, <3>2
  <2> QED BY <2>1, <2>2, <2>3
<1>15. \A q \in T : \E r \in T : WaitsFor(q, r)
  BY <1>14
<1> HIDE DEF T
<1> QED BY <1>1, <1>13, <1>15 DEF NoDeadlock

LEMMA SleepsStep ==
    ASSUME IndInv, NEW p, NEW f, NEW others, NEW n, NEW ld \in Request,
           Asks(p, f, others, n), Sleeps(p, f, ld, others, n), Quiet(p)
    PROVE  IndInv'
BY SleepsTyped, SleepsSleeping, SleepsNoDeadlock DEF IndInv

LEMMA GrantedStep ==
    ASSUME IndInv, NEW p, NEW f, NEW others, NEW n, NEW ld \in Request,
           Asks(p, f, others, n), Granted(p, f, ld, others, n), Quiet(p)
    PROVE  IndInv'
<1> DEFINE r == Adjust(flck[f], p, ld, n)
           c == r.c
<1>1. /\ n \in Nat /\ flck[f] \in Seq(Lock) /\ Proper(flck[f]) /\ p \in Proc /\ f \in File
  BY AsksIs DEF Asks
<1>2. /\ c \in Seq(Lock) /\ Proper(c) /\ From(c, flck[f])
      /\ r.n \in Nat /\ r.n + Len(c) = n + Len(flck[f])
  BY <1>1, AdjustIs
<1>3. Return(p, f, others, c)
  BY DEF Granted
<1> HIDE DEF r, c
<1>4. Len(c) <= n + Len(flck[f])
  BY <1>1, <1>2
<1>5. Remain(c, flck[f], p)
  BY <1>1, <1>2, FromRemain DEF Quiet
<1> QED BY <1>2, <1>3, <1>4, <1>5, ReturnStep

LEMMA RefusedStep ==
    ASSUME IndInv, NEW p, NEW f, NEW others, NEW n, NEW ld, NEW slpflg,
           Asks(p, f, others, n), Refused(p, f, ld, slpflg, others, n), Quiet(p)
    PROVE  IndInv'
<1>1. /\ n \in Nat /\ flck[f] \in Seq(Lock) /\ Proper(flck[f]) /\ f \in File
      /\ Len(flck[f]) \in Nat
  BY AsksIs DEF Asks
<1>2. Return(p, f, others, flck[f])
  BY DEF Refused
<1>3. Remain(flck[f], flck[f], p)
  BY <1>1 DEF Quiet, Remain
<1>4. Len(flck[f]) <= n + Len(flck[f])
  BY <1>1
<1> QED BY <1>1, <1>2, <1>3, <1>4, ReturnStep

(* The begin of a call.                                                    *)
LEMMA CallAsks ==
    ASSUME IndInv, NEW p \in Proc, NEW f \in File, p \notin Sleepers,
           f \in fids \/ Cardinality(fids) < Fils
    PROVE  Asks(p, f, refcnt[f], Free) /\ Quiet(p)
<1>1. Sleepers \ {p} = Sleepers /\ Users(f) \ {p} = Users(f)
  BY DEF Users
<1>2. Asks(p, f, refcnt[f], Free)
  BY <1>1 DEF Asks, IndInv, Counted, Free, InUse, Cells
<1>3. Quiet(p)
  BY DEF Quiet, IndInv, Sleeping, Waiting
<1> QED BY <1>2, <1>3

(* The end of a sleep.                                                     *)
LEMMA SleepAsks ==
    ASSUME IndInv, NEW p \in Sleepers
    PROVE  /\ Asks(p, sleeplcks[p].file, refcnt[sleeplcks[p].file] - 1, Free + 1)
           /\ sleeplcks[p].ld \in Request
<1> DEFINE f == sleeplcks[p].file
<1>1. p \in Proc /\ f \in File /\ sleeplcks[p].ld \in Request /\ refcnt[f] \in Nat
  <2>1. sleeplcks[p] \in Entry /\ p \in Proc
    BY DEF IndInv, Typed, Sleepers
  <2> QED BY <2>1 DEF Entry, IndInv, Typed
<1>2. p \in Users(f)
  BY DEF Users
<1> HIDE DEF f
<1>3. IsFiniteSet(Users(f)) /\ IsFiniteSet(Sleepers)
  <2>1. Users(f) \in SUBSET Sleepers
    BY DEF Users
  <2> QED BY <2>1, SleepersFinite, FS_Subset
<1>4. /\ Cardinality(Users(f) \ {p}) = Cardinality(Users(f)) - 1
      /\ Cardinality(Sleepers \ {p}) = Cardinality(Sleepers) - 1
  BY <1>2, <1>3, FS_RemoveElement
<1>5. refcnt[f] = Cardinality(Users(f))
  BY <1>1 DEF IndInv, Counted
<1>6. Cardinality(Users(f) \ {p}) \in Nat /\ Cardinality(Sleepers) \in Nat
  <2>1. IsFiniteSet(Users(f) \ {p})
    BY <1>3, FS_RemoveElement
  <2> QED BY <1>3, <2>1, FS_CardinalityType
<1>7. f \in fids
  <2>1. refcnt[f] > 0
    BY <1>1, <1>4, <1>5, <1>6
  <2> QED BY <1>1, <2>1 DEF IndInv, Counted
<1>8. Free + 1 = Recs - (Cardinality(Cells(flck)) + Cardinality(Sleepers \ {p}))
  <2>1. Free = Recs - (Cardinality(Cells(flck)) + Cardinality(Sleepers))
    BY DEF Free, InUse, Cells
  <2>2. Cardinality(Cells(flck)) \in Nat
    BY CellsFinite DEF IndInv, Typed
  <2> QED BY <1>4, <1>6, <2>1, <2>2, LockAssumption
<1>9. refcnt[f] - 1 = Cardinality(Users(f) \ {p})
  BY <1>4, <1>5
<1>10. Asks(p, f, refcnt[f] - 1, Free + 1)
  BY <1>1, <1>7, <1>8, <1>9 DEF Asks, f
<1> QED BY <1>1, <1>10 DEF f

LEMMA InterruptedStep ==
    ASSUME IndInv, NEW p \in Proc, Interrupted(p)
    PROVE  IndInv'
<1> DEFINE f == sleeplcks[p].file
           b == flck[f]
           c == [i \in DOMAIN b |-> [b[i] EXCEPT !.waits = @ \ {p}]]
           others == refcnt[f] - 1
<1>1. p \in Sleepers /\ Return(p, f, others, c)
  BY DEF Interrupted
<1>2. Asks(p, f, others, Free + 1)
  BY <1>1, SleepAsks
<1> DEFINE n == Free + 1
<1> HIDE DEF f, others, n
<1>3. n \in Nat /\ b \in Seq(Lock) /\ Proper(b)
  BY <1>2, AsksIs DEF n
<1> HIDE DEF b
<1>4. ASSUME NEW i \in DOMAIN b
      PROVE  /\ c[i] \in Lock /\ c[i].waits = b[i].waits \ {p} /\ c[i].pid = b[i].pid
             /\ c[i].type = b[i].type /\ c[i].start = b[i].start /\ c[i].end = b[i].end
  <2>1. b[i] \in Lock
    BY <1>3
  <2>2. c[i] = [b[i] EXCEPT !.waits = @ \ {p}]
    OBVIOUS
  <2> HIDE DEF c
  <2> QED BY <2>1, <2>2 DEF Lock
<1>5. c \in Seq(Lock) /\ Len(c) = Len(b) /\ DOMAIN c = DOMAIN b /\ Len(b) \in Nat
  <2>a. DOMAIN b = 1 .. Len(b) /\ Len(b) \in Nat
    BY <1>3
  <2>b. DOMAIN c = DOMAIN b /\ c = [i \in DOMAIN b |-> c[i]]
    OBVIOUS
  <2> HIDE DEF c
  <2>1. \A i \in 1 .. Len(b) : c[i] \in Lock
    BY <1>4, <2>a
  <2>2. DOMAIN c = 1 .. Len(b) /\ DOMAIN b = 1 .. Len(b) /\ Len(b) \in Nat
    BY <2>a, <2>b
  <2>3. c = [i \in 1 .. Len(b) |-> c[i]]
    BY <2>a, <2>b
  <2>4. c \in Seq(Lock)
    BY <2>1, <2>2, <2>3
  <2> QED BY <2>2, <2>4
<1> HIDE DEF c
<1>6. Proper(c)
  BY <1>3, <1>4, <1>5 DEF Proper
<1>7. Remain(c, b, p)
  BY <1>4, <1>5 DEF Remain
<1>8. Len(c) <= n + Len(flck[f])
  BY <1>3, <1>5 DEF b
<1> QED BY <1>1, <1>2, <1>5, <1>6, <1>7, <1>8, ReturnStep DEF b, n

LEMMA CleanlocksStep ==
    ASSUME IndInv, NEW p \in Proc, NEW f \in File, Cleanlocks(p, f)
    PROVE  IndInv'
<1> DEFINE b == flck[f]
           c == Cleaned(b, p)
           others == refcnt[f]
           n == Free
<1>1. p \notin Sleepers /\ f \in fids /\ Return(p, f, others, c)
  BY DEF Cleanlocks
<1>2. Asks(p, f, others, n) /\ Quiet(p)
  BY <1>1, CallAsks
<1> HIDE DEF n, others
<1>3. n \in Nat /\ b \in Seq(Lock) /\ Proper(b)
  BY <1>2, AsksIs
<1>4. \A i \in DOMAIN b : p \notin b[i].waits
  BY <1>2 DEF Quiet
<1> HIDE DEF b
<1>5. Without(c, b, Len(b), p)
  BY <1>3, CleanedIs
<1> HIDE DEF c
<1>6. c \in Seq(Lock) /\ Len(c) <= Len(b) /\ Len(b) \in Nat /\ DOMAIN b = 1 .. Len(b) /\ Len(c) \in Nat
  BY <1>3, <1>5 DEF Without
<1>7. Proper(c) /\ From(c, b)
  BY <1>3, <1>5, <1>6, ZenonT(40) DEF Without, Proper, From
<1>8. Remain(c, b, p)
  BY <1>4, <1>7, FromRemain
<1>9. Len(c) <= n + Len(b)
  BY <1>3, <1>6
<1> QED BY <1>1, <1>2, <1>6, <1>7, <1>8, <1>9, ReturnStep DEF b

LEMMA SetflckStep ==
    ASSUME IndInv, NEW p \in Proc, NEW f \in File, NEW ld \in Request, NEW slpflg,
           Setflck(p, f, ld, slpflg)
    PROVE  IndInv'
<1>1. p \notin Sleepers /\ (f \in fids \/ Cardinality(fids) < Fils)
  BY DEF Setflck
<1>2. Asks(p, f, refcnt[f], Free) /\ Quiet(p)
  BY <1>1, CallAsks
<1>3. CASE Granted(p, f, ld, refcnt[f], Free)
  BY <1>2, <1>3, GrantedStep
<1>4. CASE Refused(p, f, ld, slpflg, refcnt[f], Free)
  BY <1>2, <1>4, RefusedStep
<1>5. CASE Sleeps(p, f, ld, refcnt[f], Free)
  BY <1>2, <1>5, SleepsStep
<1> QED BY <1>3, <1>4, <1>5 DEF Setflck

LEMMA RetryStep ==
    ASSUME IndInv, NEW p \in Proc, Retry(p)
    PROVE  IndInv'
<1> DEFINE f == sleeplcks[p].file
           ld == sleeplcks[p].ld
           others == refcnt[f] - 1
           n == Free + 1
<1>1. /\ p \in Sleepers /\ ~Asleep(p)
      /\ \/ Granted(p, f, ld, others, n)
         \/ Refused(p, f, ld, TRUE, others, n)
         \/ Sleeps(p, f, ld, others, n)
  BY DEF Retry
<1>2. Asks(p, f, others, n) /\ ld \in Request
  BY <1>1, SleepAsks
<1>3. Quiet(p)
  BY <1>1 DEF Quiet, Asleep
<1> HIDE DEF f, ld, others, n
<1>4. CASE Granted(p, f, ld, others, n)
  BY <1>2, <1>3, <1>4, GrantedStep
<1>5. CASE Refused(p, f, ld, TRUE, others, n)
  BY <1>2, <1>3, <1>5, RefusedStep
<1>6. CASE Sleeps(p, f, ld, others, n)
  BY <1>2, <1>3, <1>6, SleepsStep
<1> QED BY <1>1, <1>4, <1>5, <1>6

LEMMA InitInv == Init => IndInv
<1> SUFFICES ASSUME Init PROVE IndInv
  OBVIOUS
<1>1. /\ flck = [f \in File |-> <<>>] /\ fids = {} /\ refcnt = [f \in File |-> 0]
      /\ sleeplcks = [p \in Proc |-> NoSleep]
  BY DEF Init
<1>2. Sleepers = {} /\ Cells(flck) = {} /\ \A f \in File : Users(f) = {}
  BY <1>1 DEF Sleepers, Cells, Users
<1>3. Cardinality({}) = 0
  BY FS_EmptySet
<1>4. flck \in [File -> Seq(Lock)] /\ \A f \in File : Proper(flck[f])
  BY <1>1 DEF Proper
<1>5. Cardinality(fids) <= Fils
  BY <1>1, <1>3, LockAssumption
<1>6. Cardinality(Cells(flck)) + Cardinality(Sleepers) <= Recs
  <2>1. Cardinality(Cells(flck)) = 0 /\ Cardinality(Sleepers) = 0
    BY <1>2, <1>3
  <2> QED BY <2>1, LockAssumption
<1>7. Typed
  BY <1>1, <1>4, <1>5, <1>6 DEF Typed
<1>8. Counted
  <2>1. ASSUME NEW f \in File
        PROVE  refcnt[f] = Cardinality(Users(f)) /\ (f \in fids <=> (flck[f] # <<>> \/ refcnt[f] > 0))
    <3>1. Cardinality(Users(f)) = 0
      BY <1>2, <1>3, Zenon
    <3>2. refcnt[f] = 0 /\ f \notin fids /\ flck[f] = <<>>
      BY <1>1
    <3> QED BY <3>1, <3>2
  <2> QED BY <2>1 DEF Counted
<1>9. Sleeping
  BY <1>1 DEF Sleeping
<1>10. NoDeadlock
  <2>1. (SUBSET Sleepers) \ {{}} = {}
    BY <1>2
  <2> QED BY <2>1 DEF NoDeadlock
<1> QED BY <1>7, <1>8, <1>9, <1>10 DEF IndInv

LEMMA NextInv == IndInv /\ [Next]_vars => IndInv'
<1> SUFFICES ASSUME IndInv, [Next]_vars PROVE IndInv'
  OBVIOUS
<1>1. CASE UNCHANGED vars
  <2>1. /\ flck' = flck /\ fids' = fids /\ refcnt' = refcnt /\ sleeplcks' = sleeplcks
    BY <1>1 DEF vars
  <2>2. Sleepers' = Sleepers
    BY <2>1 DEF Sleepers
  <2>a. Typed'
    BY <2>1, <2>2 DEF IndInv, Typed, Cells
  <2>b. Counted'
    <3>1. ASSUME NEW f \in File PROVE Users(f)' = Users(f)
      BY <2>1, <2>2 DEF Users
    <3> QED BY <2>1, <3>1 DEF IndInv, Counted
  <2>c. Sleeping'
    BY <2>1, <2>2 DEF IndInv, Sleeping, Waiting
  <2>3. Typed' /\ Counted' /\ Sleeping'
    BY <2>a, <2>b, <2>c
  <2>4. \A q, r : WaitsFor(q, r)' <=> WaitsFor(q, r)
    BY <2>1 DEF WaitsFor
  <2>5. NoDeadlock'
    <3>1. NoDeadlock
      BY DEF IndInv
    <3> QED BY <2>2, <2>4, <3>1 DEF NoDeadlock
  <2> QED BY <2>3, <2>5 DEF IndInv
<1>2. CASE Next
  <2>1. PICK p \in Proc :
           \/ \E f \in File : \/ \E ld \in Request, slpflg \in BOOLEAN : Setflck(p, f, ld, slpflg)
                              \/ Cleanlocks(p, f)
           \/ Retry(p)
           \/ Interrupted(p)
    BY <1>2 DEF Next
  <2>2. CASE \E f \in File : \E ld \in Request, slpflg \in BOOLEAN : Setflck(p, f, ld, slpflg)
    BY <2>2, SetflckStep
  <2>3. CASE \E f \in File : Cleanlocks(p, f)
    BY <2>3, CleanlocksStep
  <2>4. CASE Retry(p)
    BY <2>4, RetryStep
  <2>5. CASE Interrupted(p)
    BY <2>5, InterruptedStep
  <2> QED BY <2>1, <2>2, <2>3, <2>4, <2>5
<1> QED BY <1>1, <1>2

(* The invariant holds in every state of the program.                      *)
THEOREM LocksCorrect == Spec => []IndInv
<1>1. Init => IndInv
  BY InitInv
<1>2. IndInv /\ [Next]_vars => IndInv'
  BY NextInv
<1> QED BY <1>1, <1>2, PTL DEF Spec

(* Whoever sleeps for a lock of a file is blocked by the lock it sleeps    *)
(* at: blocked(), flckadj() and delflck() leave nobody asleep in vain.     *)
THEOREM NobodySleepsInVain == Spec => []SleepersBlocked
<1>1. IndInv => SleepersBlocked
  BY DEF IndInv, Sleeping, Waiting, SleepersBlocked
<1> QED BY <1>1, LocksCorrect, PTL

(* However many processes wait for each other's locks, deadflck() keeps    *)
(* them from waiting in a circle.                                          *)
THEOREM NoCircle == Spec => []NoDeadlock
<1>1. IndInv => NoDeadlock
  BY DEF IndInv
<1> QED BY <1>1, LocksCorrect, PTL

(* The records and the headers are counted right: findfid(), allocfid(),   *)
(* freefid() and the free list lose none and give none out twice.          *)
THEOREM HeadersCounted == Spec => []HeadersExact
<1>1. IndInv => HeadersExact
  <2> SUFFICES ASSUME IndInv PROVE HeadersExact
    OBVIOUS
  <2>1. \A f \in File : \A i \in DOMAIN flck[f] :
           flck[f][i] \in Lock /\ flck[f][i].start < flck[f][i].end
    BY DEF IndInv, Typed, Proper
  <2>2. \A p \in Sleepers : sleeplcks[p] \in [file : File, ld : Request, blkpid : Proc]
    BY DEF IndInv, Typed, Sleepers, Entry
  <2>3. Free \in 0 .. Recs
    <3>1. Cardinality(Cells(flck)) \in Nat
      BY CellsFinite DEF IndInv, Typed
    <3>2. Cardinality(Sleepers) \in Nat
      BY SleepersFinite, FS_CardinalityType
    <3>3. Free = Recs - (Cardinality(Cells(flck)) + Cardinality(Sleepers))
      BY DEF Free, InUse, Cells
    <3> QED BY <3>1, <3>2, <3>3, LockAssumption DEF IndInv, Typed
  <2>4. TypeOK
    BY <2>1, <2>2, <2>3 DEF TypeOK, IndInv, Typed
  <2> QED BY <2>4 DEF HeadersExact, IndInv, Counted, Users
<1> QED BY <1>1, LocksCorrect, PTL
-----------------------------------------------------------------------------
(* lockf() asks for nothing but locks for writing. Then the locks of a     *)
(* file follow each other in the chain without a common byte.              *)
WritesOnly == Types = {"write"}

Chain(c) == \A i, j \in DOMAIN c : i < j => c[i].end <= c[j].start

(* Byte b belongs to process q by the lock l; by one of the chain c.       *)
Covers(l, b, q) == l.pid = q /\ l.start <= b /\ b < l.end

Has(c, b, q) == \E i \in DOMAIN c : Covers(c[i], b, q)

(* What a pass makes of a chain.                                           *)
Removed(d, c, i) ==
    /\ d \in Seq(Lock) /\ Len(d) = Len(c) - 1
    /\ \A j \in 1 .. Len(d) : d[j] = IF j < i THEN c[j] ELSE c[j + 1]

Replaced(d, c, i, l) ==
    /\ d \in Seq(Lock) /\ Len(d) = Len(c)
    /\ d[i] = l /\ \A j \in 1 .. Len(d) : j # i => d[j] = c[j]

Inserted(d, c, k, l) ==
    /\ d \in Seq(Lock) /\ Len(d) = Len(c) + 1
    /\ \A j \in 1 .. k : d[j] = c[j]
    /\ d[k + 1] = l
    /\ \A j \in k + 2 .. Len(c) + 1 : d[j] = c[j - 1]

LEMMA LockIs ==
    ASSUME NEW c \in Seq(Lock), NEW i \in DOMAIN c
    PROVE  /\ i \in 1 .. Len(c) /\ Len(c) \in Nat /\ c[i] \in Lock
           /\ c[i].start \in Int /\ c[i].end \in Int /\ c[i].pid \in Proc /\ c[i].type \in Types
<1>1. c[i] \in Lock
  OBVIOUS
<1>2. MAXEND \in Nat
  BY LockAssumption
<1> QED BY <1>1, <1>2 DEF Lock

(* Two locks of a chain have no byte in common.                            *)
LEMMA OneLock ==
    ASSUME NEW c \in Seq(Lock), Chain(c), NEW i \in DOMAIN c, NEW j \in DOMAIN c,
           NEW b \in Int, c[i].start <= b, b < c[i].end, c[j].start <= b, b < c[j].end
    PROVE  i = j
<1>1. /\ i \in Int /\ j \in Int /\ c[i].start \in Int /\ c[i].end \in Int
      /\ c[j].start \in Int /\ c[j].end \in Int
  BY LockIs
<1>2. (i < j => c[i].end <= c[j].start) /\ (j < i => c[j].end <= c[i].start)
  BY DEF Chain
<1> QED BY <1>1, <1>2

LEMMA RemovedIs ==
    ASSUME NEW c \in Seq(Lock), Chain(c), NEW i \in DOMAIN c, NEW d, Removed(d, c, i)
    PROVE  /\ \A j \in DOMAIN d : \E k \in DOMAIN c : /\ d[j] = c[k] /\ k # i
                                                      /\ (j < i => k = j) /\ (j >= i => k = j + 1)
           /\ Chain(d)
           /\ \A b \in Int : \A q : Has(c, b, q) <=> Has(d, b, q) \/ Covers(c[i], b, q)
<1>1. /\ d \in Seq(Lock) /\ Len(d) = Len(c) - 1 /\ DOMAIN c = 1 .. Len(c) /\ Len(c) \in Nat
      /\ DOMAIN d = 1 .. Len(c) - 1 /\ i \in 1 .. Len(c)
  BY DEF Removed
<1>2. ASSUME NEW j \in DOMAIN d
      PROVE  \E k \in DOMAIN c : /\ d[j] = c[k] /\ k # i
                                 /\ (j < i => k = j) /\ (j >= i => k = j + 1)
  <2>1. CASE j < i
    <3>1. d[j] = c[j] /\ j \in DOMAIN c
      BY <1>1, <2>1 DEF Removed
    <3> QED BY <1>1, <2>1, <3>1
  <2>2. CASE ~(j < i)
    <3>1. d[j] = c[j + 1] /\ j + 1 \in DOMAIN c
      BY <1>1, <2>2 DEF Removed
    <3> QED BY <1>1, <2>2, <3>1
  <2> QED BY <2>1, <2>2
<1>3. ASSUME NEW j1 \in DOMAIN d, NEW j2 \in DOMAIN d, j1 < j2
      PROVE  d[j1].end <= d[j2].start
  <2>1. PICK k1 \in DOMAIN c : /\ d[j1] = c[k1] /\ (j1 < i => k1 = j1) /\ (j1 >= i => k1 = j1 + 1)
    BY <1>2
  <2>2. PICK k2 \in DOMAIN c : /\ d[j2] = c[k2] /\ (j2 < i => k2 = j2) /\ (j2 >= i => k2 = j2 + 1)
    BY <1>2
  <2>3. k1 < k2
    BY <1>1, <1>3, <2>1, <2>2
  <2> QED BY <2>1, <2>2, <2>3 DEF Chain
<1>4. ASSUME NEW b \in Int, NEW q, Has(d, b, q) PROVE Has(c, b, q)
  <2>1. PICK j \in DOMAIN d : Covers(d[j], b, q)
    BY <1>4 DEF Has
  <2>2. PICK k \in DOMAIN c : d[j] = c[k]
    BY <1>2
  <2> QED BY <2>1, <2>2 DEF Has
<1>5. ASSUME NEW b \in Int, NEW q, Has(c, b, q), ~Covers(c[i], b, q) PROVE Has(d, b, q)
  <2>1. PICK k \in DOMAIN c : Covers(c[k], b, q)
    BY <1>5 DEF Has
  <2>2. k # i
    BY <1>5, <2>1
  <2>3. CASE k < i
    <3>1. k \in DOMAIN d /\ d[k] = c[k]
      BY <1>1, <2>3 DEF Removed
    <3> QED BY <2>1, <3>1 DEF Has
  <2>4. CASE k > i
    <3>1. k - 1 \in DOMAIN d /\ d[k - 1] = c[k]
      <4>1. k - 1 \in 1 .. Len(d) /\ ~(k - 1 < i) /\ (k - 1) + 1 = k
        BY <1>1, <2>4
      <4> QED BY <1>1, <4>1 DEF Removed
    <3> QED BY <2>1, <3>1 DEF Has
  <2> QED BY <1>1, <2>2, <2>3, <2>4
<1>6. \A b \in Int : \A q : Covers(c[i], b, q) => Has(c, b, q)
  BY DEF Has
<1>7. Chain(d)
  BY <1>3 DEF Chain
<1> QED BY <1>2, <1>4, <1>5, <1>6, <1>7

(* A lock that loses bytes at its ends.                                    *)
LEMMA ReplacedIs ==
    ASSUME NEW c \in Seq(Lock), Chain(c), NEW i \in DOMAIN c, NEW l \in Lock, NEW d,
           Replaced(d, c, i, l), l.pid = c[i].pid, c[i].start <= l.start, l.end <= c[i].end
    PROVE  /\ Chain(d)
           /\ \A b \in Int : \A q : Has(d, b, q) <=> /\ Has(c, b, q)
                                                     /\ ~(Covers(c[i], b, q) /\ ~Covers(l, b, q))
<1>1. /\ d \in Seq(Lock) /\ DOMAIN d = DOMAIN c /\ d[i] = l
      /\ \A j \in DOMAIN c : j # i => d[j] = c[j]
  BY DEF Replaced
<1>2. \A j \in DOMAIN c : /\ c[j].start \in Int /\ c[j].end \in Int
                          /\ d[j].start \in Int /\ d[j].end \in Int
  BY <1>1, LockIs
<1>3. \A j \in DOMAIN c : c[j].start <= d[j].start /\ d[j].end <= c[j].end
  BY <1>1, <1>2
<1>4. ASSUME NEW j1 \in DOMAIN d, NEW j2 \in DOMAIN d, j1 < j2
      PROVE  d[j1].end <= d[j2].start
  <2>1. c[j1].end <= c[j2].start
    BY <1>1, <1>4 DEF Chain
  <2> QED BY <1>1, <1>2, <1>3, <2>1
<1>5. ASSUME NEW b \in Int, NEW q, Has(d, b, q)
      PROVE  Has(c, b, q) /\ ~(Covers(c[i], b, q) /\ ~Covers(l, b, q))
  <2>1. PICK j \in DOMAIN c : Covers(d[j], b, q)
    BY <1>1, <1>5 DEF Has
  <2>2. Covers(c[j], b, q)
    BY <1>1, <1>2, <1>3, <2>1 DEF Covers
  <2>3. ASSUME Covers(c[i], b, q) PROVE Covers(l, b, q)
    <3>1. i = j
      BY <2>2, <2>3, OneLock DEF Covers
    <3> QED BY <1>1, <2>1, <3>1
  <2> QED BY <2>2, <2>3 DEF Has
<1>6. ASSUME NEW b \in Int, NEW q, Has(c, b, q), ~(Covers(c[i], b, q) /\ ~Covers(l, b, q))
      PROVE  Has(d, b, q)
  <2>1. PICK j \in DOMAIN c : Covers(c[j], b, q)
    BY <1>6 DEF Has
  <2>2. Covers(d[j], b, q)
    BY <1>1, <1>6, <2>1
  <2> QED BY <1>1, <2>2 DEF Has
<1>7. Chain(d)
  BY <1>4 DEF Chain
<1> QED BY <1>5, <1>6, <1>7

(* A lock that fits between two.                                           *)
LEMMA InsertedIs ==
    ASSUME NEW c \in Seq(Lock), Chain(c), NEW k \in 0 .. Len(c), NEW l \in Lock, NEW d,
           Inserted(d, c, k, l),
           \A j \in DOMAIN c : j <= k => c[j].end <= l.start,
           \A j \in DOMAIN c : j > k => l.end <= c[j].start
    PROVE  /\ Chain(d)
           /\ \A b \in Int : \A q : Has(d, b, q) <=> Has(c, b, q) \/ Covers(l, b, q)
<1>1. /\ d \in Seq(Lock) /\ Len(d) = Len(c) + 1 /\ DOMAIN c = 1 .. Len(c) /\ Len(c) \in Nat
      /\ DOMAIN d = 1 .. Len(c) + 1 /\ d[k + 1] = l /\ k + 1 \in DOMAIN d
      /\ \A j \in 1 .. k : d[j] = c[j]
      /\ \A j \in k + 2 .. Len(c) + 1 : d[j] = c[j - 1]
  BY DEF Inserted
<1>2. ASSUME NEW j \in DOMAIN d, j # k + 1
      PROVE  \E x \in DOMAIN c : /\ d[j] = c[x]
                                 /\ (j <= k => x = j) /\ (j > k + 1 => x = j - 1)
  <2>1. CASE j <= k
    <3>1. d[j] = c[j] /\ j \in DOMAIN c
      BY <1>1, <2>1
    <3> QED BY <1>1, <2>1, <3>1
  <2>2. CASE j > k + 1
    <3>1. d[j] = c[j - 1] /\ j - 1 \in DOMAIN c
      BY <1>1, <2>2
    <3> QED BY <1>1, <2>2, <3>1
  <2> QED BY <1>1, <1>2, <2>1, <2>2
<1>3. ASSUME NEW j1 \in DOMAIN d, NEW j2 \in DOMAIN d, j1 < j2
      PROVE  d[j1].end <= d[j2].start
  <2>1. CASE j1 = k + 1
    <3>1. PICK x \in DOMAIN c : d[j2] = c[x] /\ (j2 > k + 1 => x = j2 - 1)
      BY <1>1, <1>2, <1>3, <2>1
    <3>2. x > k
      BY <1>1, <1>3, <2>1, <3>1
    <3> QED BY <1>1, <2>1, <3>1, <3>2
  <2>2. CASE j2 = k + 1
    <3>1. PICK x \in DOMAIN c : d[j1] = c[x] /\ (j1 <= k => x = j1)
      BY <1>1, <1>2, <1>3, <2>2
    <3>2. x <= k
      BY <1>1, <1>3, <2>2, <3>1
    <3> QED BY <1>1, <2>2, <3>1, <3>2
  <2>3. CASE j1 # k + 1 /\ j2 # k + 1
    <3>1. PICK x1 \in DOMAIN c : /\ d[j1] = c[x1]
                                 /\ (j1 <= k => x1 = j1) /\ (j1 > k + 1 => x1 = j1 - 1)
      BY <1>2, <2>3
    <3>2. PICK x2 \in DOMAIN c : /\ d[j2] = c[x2]
                                 /\ (j2 <= k => x2 = j2) /\ (j2 > k + 1 => x2 = j2 - 1)
      BY <1>2, <2>3
    <3>3. x1 < x2
      BY <1>1, <1>3, <2>3, <3>1, <3>2
    <3> QED BY <3>1, <3>2, <3>3 DEF Chain
  <2> QED BY <2>1, <2>2, <2>3
<1>4. ASSUME NEW b \in Int, NEW q, Has(d, b, q) PROVE Has(c, b, q) \/ Covers(l, b, q)
  <2>1. PICK j \in DOMAIN d : Covers(d[j], b, q)
    BY <1>4 DEF Has
  <2>2. CASE j = k + 1
    BY <1>1, <2>1, <2>2
  <2>3. CASE j # k + 1
    <3>1. PICK x \in DOMAIN c : d[j] = c[x]
      BY <1>2, <2>3
    <3> QED BY <2>1, <3>1 DEF Has
  <2> QED BY <2>2, <2>3
<1>5. ASSUME NEW b \in Int, NEW q, Has(c, b, q) PROVE Has(d, b, q)
  <2>1. PICK x \in DOMAIN c : Covers(c[x], b, q)
    BY <1>5 DEF Has
  <2>2. CASE x <= k
    <3>1. x \in DOMAIN d /\ d[x] = c[x]
      BY <1>1, <2>2
    <3> QED BY <2>1, <3>1 DEF Has
  <2>3. CASE x > k
    <3>1. x + 1 \in DOMAIN d /\ d[x + 1] = c[x]
      <4>1. x + 1 \in k + 2 .. Len(c) + 1 /\ (x + 1) - 1 = x
        BY <1>1, <2>3
      <4> QED BY <1>1, <4>1
    <3> QED BY <2>1, <3>1 DEF Has
  <2> QED BY <1>1, <2>2, <2>3
<1>6. ASSUME NEW b \in Int, NEW q, Covers(l, b, q) PROVE Has(d, b, q)
  BY <1>1, <1>6 DEF Has
<1>7. Chain(d)
  BY <1>3 DEF Chain
<1> QED BY <1>4, <1>5, <1>6, <1>7
-----------------------------------------------------------------------------
(* What the steps of flckadj() do to its variables.                        *)
LEMMA DropIs ==
    ASSUME NEW st \in State, st.i \in DOMAIN st.c
    PROVE  LET r == Drop(st)
           IN  /\ Removed(r.c, st.c, st.i) /\ r.i = st.i /\ r.ins = st.ins /\ r.ld = st.ld
               /\ r.status = st.status /\ r \in State
<1> DEFINE d == RemoveAt(st.c, st.i)
           n == st.n + 1
<1>1. st.c \in Seq(Lock) /\ st.n \in Nat
  BY DEF State
<1>2. /\ d \in Seq(Lock) /\ Len(d) = Len(st.c) - 1
      /\ \A j \in 1 .. Len(st.c) - 1 : d[j] = IF j < st.i THEN st.c[j] ELSE st.c[j + 1]
  BY <1>1, RemoveAtIs
<1>3. Removed(d, st.c, st.i)
  BY <1>2 DEF Removed
<1>4. Drop(st) = Dropped(st, d, n)
  BY DEF Drop, Dropped
<1>5. d \in Seq(Lock)
  BY <1>2
<1>6. n \in Nat
  BY <1>1
<1> HIDE DEF d, n
<1> QED BY <1>3, <1>4, <1>5, <1>6, PutDrop

LEMMA BackIs ==
    ASSUME NEW st \in State, st.i > 0
    PROVE  LET r == StepBack(st)
           IN  /\ r.c = st.c /\ r.i = st.i /\ r.ins = st.i - 1 /\ r.ld = st.ld
               /\ r.status = st.status /\ r.n = st.n /\ r \in State
<1> DEFINE k == st.i - 1
<1>1. k \in Nat
  BY DEF State
<1>2. StepBack(st) = [st EXCEPT !.ins = k]
  BY DEF StepBack
<1> HIDE DEF k
<1>3. LET r == StepBack(st)
      IN  /\ r.c = st.c /\ r.i = st.i /\ r.ins = k /\ r.ld = st.ld
          /\ r.status = st.status /\ r.n = st.n /\ r \in State
  BY <1>1, <1>2, Put
<1> QED BY <1>3 DEF k

LEMMA StatusIs ==
    ASSUME NEW st \in State, NEW s \in Status
    PROVE  LET r == [st EXCEPT !.status = s]
           IN  /\ r.c = st.c /\ r.i = st.i /\ r.ins = st.ins /\ r.ld = st.ld
               /\ r.status = s /\ r.n = st.n /\ r \in State
BY Put

LEMMA LeaveIs ==
    ASSUME NEW st \in State
    PROVE  LET r == LeaveLoop(st)
           IN  /\ r.c = st.c /\ r.i = st.i /\ r.ins = st.ins /\ r.ld = st.ld
               /\ r.status = "insert" /\ r.n = st.n /\ r \in State
BY StatusIs DEF LeaveLoop, Status

LEMMA AdvanceIs ==
    ASSUME NEW st \in State
    PROVE  LET r == Advance(st)
           IN  /\ r.c = st.c /\ r.i = st.i + 1 /\ r.ins = st.ins /\ r.ld = st.ld
               /\ r.status = st.status /\ r.n = st.n /\ r \in State
<1> DEFINE k == st.i + 1
<1>1. k \in Nat
  BY DEF State
<1>2. Advance(st) = [st EXCEPT !.i = k]
  BY DEF Advance
<1> HIDE DEF k
<1>3. LET r == Advance(st)
      IN  /\ r.c = st.c /\ r.i = k /\ r.ins = st.ins /\ r.ld = st.ld
          /\ r.status = st.status /\ r.n = st.n /\ r \in State
  BY <1>1, <1>2, Put
<1> QED BY <1>3 DEF k

LEMMA PassIs ==
    ASSUME NEW st \in State
    PROVE  LET r == Advance([st EXCEPT !.ins = st.i])
           IN  /\ r.c = st.c /\ r.i = st.i + 1 /\ r.ins = st.i /\ r.ld = st.ld
               /\ r.status = st.status /\ r.n = st.n /\ r \in State
<1> DEFINE k == st.i
           s == [st EXCEPT !.ins = k]
<1>1. k \in Nat
  BY DEF State
<1> HIDE DEF k
<1>2. /\ s.c = st.c /\ s.i = st.i /\ s.ins = k /\ s.ld = st.ld
      /\ s.status = st.status /\ s.n = st.n /\ s \in State
  BY <1>1, Put
<1> HIDE DEF s
<1>3. LET r == Advance(s)
      IN  /\ r.c = s.c /\ r.i = s.i + 1 /\ r.ins = s.ins /\ r.ld = s.ld
          /\ r.status = s.status /\ r.n = s.n /\ r \in State
  BY <1>2, AdvanceIs
<1> QED BY <1>2, <1>3 DEF k, s

(* The range with another end, or another start.                           *)
LEMMA GrowIs ==
    ASSUME NEW st \in State, NEW e \in 0 .. MAXEND
    PROVE  /\ LET r == [st EXCEPT !.ld.end = e]
              IN  /\ r.c = st.c /\ r.i = st.i /\ r.ins = st.ins /\ r.status = st.status
                  /\ r.n = st.n /\ r \in State /\ r.ld.end = e /\ r.ld.start = st.ld.start
                  /\ r.ld.type = st.ld.type
           /\ LET r == [st EXCEPT !.ld.start = e]
              IN  /\ r.c = st.c /\ r.i = st.i /\ r.ins = st.ins /\ r.status = st.status
                  /\ r.n = st.n /\ r \in State /\ r.ld.end = st.ld.end /\ r.ld.start = e
                  /\ r.ld.type = st.ld.type
<1>1. st.ld \in Asked
  BY DEF State
<1>2. ASSUME NEW k \in Asked
      PROVE  LET r == [st EXCEPT !.ld = k]
             IN  /\ r.c = st.c /\ r.i = st.i /\ r.ins = st.ins /\ r.status = st.status
                 /\ r.n = st.n /\ r \in State /\ r.ld = k
  BY Put
<1> DEFINE k1 == [st.ld EXCEPT !.end = e]
           k2 == [st.ld EXCEPT !.start = e]
<1>3. /\ k1 \in Asked /\ k1.end = e /\ k1.start = st.ld.start /\ k1.type = st.ld.type
      /\ k2 \in Asked /\ k2.start = e /\ k2.end = st.ld.end /\ k2.type = st.ld.type
  BY <1>1 DEF Asked
<1>4. [st EXCEPT !.ld.end = e] = [st EXCEPT !.ld = k1] /\ [st EXCEPT !.ld.start = e] = [st EXCEPT !.ld = k2]
  BY DEF State
<1> HIDE DEF k1, k2
<1>5. LET r == [st EXCEPT !.ld = k1]
      IN  /\ r.c = st.c /\ r.i = st.i /\ r.ins = st.ins /\ r.status = st.status
          /\ r.n = st.n /\ r \in State /\ r.ld = k1
  BY <1>2, <1>3
<1>6. LET r == [st EXCEPT !.ld = k2]
      IN  /\ r.c = st.c /\ r.i = st.i /\ r.ins = st.ins /\ r.status = st.status
          /\ r.n = st.n /\ r \in State /\ r.ld = k2
  BY <1>2, <1>3
<1> QED BY <1>3, <1>4, <1>5, <1>6

(* A lock that is cut.                                                     *)
LEMMA CutIs ==
    ASSUME NEW st \in State, st.i \in DOMAIN st.c
    PROVE  LET r == Cut(st)
           IN  /\ \E l \in Lock : /\ Replaced(r.c, st.c, st.i, l)
                                  /\ l.start = st.c[st.i].start /\ l.end = st.ld.start
                                  /\ l.pid = st.c[st.i].pid /\ l.type = st.c[st.i].type
               /\ r.i = st.i /\ r.ins = st.i /\ r.ld = st.ld
               /\ r.status = st.status /\ r.n = st.n /\ r \in State
<1> DEFINE l == [st.c[st.i] EXCEPT !.end = st.ld.start, !.waits = {}]
           d == [st.c EXCEPT ![st.i] = l]
           k == st.i
<1>1. /\ st.c \in Seq(Lock) /\ k \in Nat /\ st.c[st.i] \in Lock /\ st.ld.start \in 0 .. MAXEND
  BY DEF State, Asked
<1>2. /\ l \in Lock /\ l.start = st.c[st.i].start /\ l.end = st.ld.start
      /\ l.pid = st.c[st.i].pid /\ l.type = st.c[st.i].type
  BY <1>1 DEF Lock
<1>3. Cut(st) = Cutting(st, d, k)
  BY <1>1 DEF Cut, Cutting, State, Lock
<1> HIDE DEF l
<1>4. Replaced(d, st.c, st.i, l)
  BY <1>1, <1>2 DEF Replaced
<1>5. d \in Seq(Lock)
  BY <1>4 DEF Replaced
<1>6. k \in Nat /\ k = st.i
  BY <1>1
<1> HIDE DEF d, k
<1>7. LET r == Cut(st)
      IN  /\ r \in State /\ r.c = d /\ r.i = st.i /\ r.ins = k
          /\ r.ld = st.ld /\ r.n = st.n /\ r.status = st.status
  BY <1>3, <1>5, <1>6, PutCut
<1> QED BY <1>2, <1>4, <1>6, <1>7

(* What remains behind the range goes behind the lock at hand.             *)
LEMMA SeverIs ==
    ASSUME NEW st \in State, Chain(st.c), st.i \in DOMAIN st.c, NEW p \in Proc,
           st.ld.start < st.ld.end, st.ld.end < st.c[st.i].end
    PROVE  LET r == Sever(st, p)
           IN  /\ st.n = 0 => r.c = st.c /\ r.status = "failed"
               /\ st.n # 0 =>
                     /\ \E l \in Lock : /\ Inserted(r.c, st.c, st.i, l)
                                        /\ l.start = st.ld.end /\ l.end = st.c[st.i].end
                                        /\ l.pid = p /\ l.type = st.c[st.i].type
                     /\ r.status = "insert"
               /\ r.i = st.i /\ r.ins = st.ins /\ r.ld = st.ld /\ r \in State
<1> DEFINE c == st.c
           i == st.i
           l == NewLock(p, [type |-> c[i].type, start |-> st.ld.end, end |-> c[i].end])
           k == Place(c, i, st.ld.start)
           d == Insert(c, k, l)
<1>1. /\ c \in Seq(Lock) /\ i \in 1 .. Len(c) /\ Len(c) \in Nat /\ c[i] \in Lock /\ st.n \in Nat
      /\ st.ld \in Asked /\ st.ld.start \in Int /\ st.ld.end \in 0 .. MAXEND /\ MAXEND \in Nat
  BY LockAssumption DEF State, Asked
<1>2. CASE st.n = 0
  <2>1. Sever(st, p) = [st EXCEPT !.status = "failed"]
    BY <1>2 DEF Sever
  <2>2. "failed" \in Status
    BY DEF Status
  <2> QED BY <1>2, <2>1, <2>2, StatusIs
<1>3. CASE st.n # 0
  <2>1. /\ l \in Lock /\ l.start = st.ld.end /\ l.end = c[i].end /\ l.pid = p
        /\ l.type = c[i].type
    <3>1. c[i].end \in 0 .. MAXEND /\ c[i].type \in Types
      BY <1>1 DEF Lock
    <3> QED BY <1>1, <3>1 DEF Lock, NewLock
  <2>2. k = i
    <3>1. /\ k \in i .. Len(c)
          /\ \A j \in i .. Len(c) : j <= k /\ j > i => ~(c[j].start >= st.ld.start)
      BY <1>1, PlaceIs
    <3> HIDE DEF k
    <3>2. ASSUME k # i PROVE FALSE
      <4>1. i + 1 \in i .. Len(c) /\ i + 1 <= k /\ i + 1 > i /\ i + 1 \in DOMAIN c
        BY <1>1, <3>1, <3>2
      <4>2. c[i].end <= c[i + 1].start
        BY <4>1 DEF Chain
      <4>3. c[i + 1].start \in Int /\ c[i].end \in Int
        BY <1>1, <4>1, LockIs
      <4>4. c[i + 1].start >= st.ld.start
        BY <1>1, <4>2, <4>3
      <4>5. ~(c[i + 1].start >= st.ld.start)
        BY <3>1, <4>1
      <4> QED BY <4>4, <4>5
    <3> QED BY <3>2
  <2> HIDE DEF l, k
  <2>3. Inserted(d, c, i, l)
    <3>1. i \in 0 .. Len(c)
      BY <1>1
    <3>2. d = Insert(c, i, l)
      BY <2>2
    <3> HIDE DEF d
    <3>3. /\ d \in Seq(Lock) /\ Len(d) = Len(c) + 1
          /\ \A j \in 1 .. i : d[j] = c[j]
          /\ d[i + 1] = l
          /\ \A j \in i + 2 .. Len(c) + 1 : d[j] = c[j - 1]
      BY <1>1, <2>1, <3>1, <3>2, InsertIs
    <3> QED BY <3>3 DEF Inserted
  <2> DEFINE n == st.n - 1
  <2>4. Sever(st, p) = Severed(st, d, n, "insert")
    BY <1>1, <1>3 DEF Sever, Severed, k, l
  <2>5. n \in Nat
    BY <1>1, <1>3
  <2>6. d \in Seq(Lock)
    BY <2>3 DEF Inserted
  <2>8. "insert" \in Status
    BY DEF Status
  <2> HIDE DEF n, d
  <2>9. st \in State
    OBVIOUS
  <2> DEFINE r == Severed(st, d, n, "insert")
  <2>a. /\ r \in State /\ r.c = d /\ r.i = st.i /\ r.ins = st.ins
        /\ r.ld = st.ld /\ r.n = n
    BY <2>5, <2>6, <2>8, <2>9, PutSever
  <2>b. r.status = "insert"
    BY <2>5, <2>6, <2>8, <2>9, PutSever
  <2>10. /\ r \in State /\ r.c = d /\ r.i = st.i /\ r.ins = st.ins
         /\ r.ld = st.ld /\ r.n = n /\ r.status = "insert"
    BY <2>a, <2>b
  <2> HIDE DEF r
  <2>7. Sever(st, p) = r
    BY <2>4 DEF r
  <2> QED BY <1>3, <2>1, <2>3, <2>7, <2>10
<1> QED BY <1>2, <1>3

(* And the lock at hand goes: what remains takes its place.                *)
LEMMA SeverDropIs ==
    ASSUME NEW st \in State, st.i > 0, NEW c \in Seq(Lock), st.i \in DOMAIN c,
           NEW l \in Lock, Inserted(st.c, c, st.i, l),
           NEW s \in {StepOff(st), StepBack(st)}
    PROVE  LET r == Drop(s)
           IN  Replaced(r.c, c, st.i, l) /\ r.status = st.status /\ r.ld = st.ld
<1>1. /\ s.c = st.c /\ s.i = st.i /\ s.ld = st.ld /\ s.status = st.status /\ s \in State
  BY BackIs DEF StepOff
<1>2. /\ st.c \in Seq(Lock) /\ Len(st.c) = Len(c) + 1 /\ Len(c) \in Nat /\ st.i \in 1 .. Len(c)
      /\ \A j \in 1 .. st.i : st.c[j] = c[j]
      /\ st.c[st.i + 1] = l
      /\ \A j \in st.i + 2 .. Len(c) + 1 : st.c[j] = c[j - 1]
  BY DEF Inserted
<1>3. s.i \in DOMAIN s.c
  BY <1>1, <1>2
<1> DEFINE r == Drop(s)
<1>4. Removed(r.c, s.c, s.i) /\ r.ld = s.ld /\ r.status = s.status
  BY <1>1, <1>3, DropIs
<1> HIDE DEF r
<1>5. /\ r.c \in Seq(Lock) /\ Len(r.c) = Len(c)
      /\ \A j \in 1 .. Len(c) : r.c[j] = IF j < st.i THEN st.c[j] ELSE st.c[j + 1]
  BY <1>1, <1>2, <1>4 DEF Removed
<1>6. r.c[st.i] = l
  BY <1>2, <1>5
<1>7. ASSUME NEW j \in 1 .. Len(c), j # st.i PROVE r.c[j] = c[j]
  <2>1. CASE j < st.i
    BY <1>2, <1>5, <2>1
  <2>2. CASE j > st.i
    <3>1. j + 1 \in st.i + 2 .. Len(c) + 1 /\ (j + 1) - 1 = j
      BY <1>2, <2>2
    <3>2. r.c[j] = st.c[j + 1]
      BY <1>2, <1>5, <2>2
    <3> QED BY <1>2, <3>1, <3>2
  <2> QED BY <1>2, <1>7, <2>1, <2>2
<1>8. Replaced(r.c, c, st.i, l)
  BY <1>5, <1>6, <1>7 DEF Replaced
<1> QED BY <1>1, <1>4, <1>8 DEF r

(* Or it is cut, and what remains follows it.                              *)
LEMMA SeverCutIs ==
    ASSUME NEW st \in State, NEW c \in Seq(Lock), st.i \in DOMAIN c,
           NEW l \in Lock, Inserted(st.c, c, st.i, l)
    PROVE  LET r == Cut(st)
           IN  /\ r.status = st.status /\ r.ld = st.ld
               /\ \E k \in Lock : \E d : /\ Replaced(d, c, st.i, k) /\ Inserted(r.c, d, st.i, l)
                                         /\ k.start = c[st.i].start /\ k.end = st.ld.start
                                         /\ k.pid = c[st.i].pid
<1>1. /\ st.c \in Seq(Lock) /\ Len(st.c) = Len(c) + 1 /\ Len(c) \in Nat /\ st.i \in 1 .. Len(c)
      /\ \A j \in 1 .. st.i : st.c[j] = c[j]
      /\ st.c[st.i + 1] = l
      /\ \A j \in st.i + 2 .. Len(c) + 1 : st.c[j] = c[j - 1]
  BY DEF Inserted
<1>2. st.i \in DOMAIN st.c /\ st.c[st.i] = c[st.i]
  BY <1>1, SMTT(30)
<1> DEFINE r == Cut(st)
<1>3. PICK k \in Lock : /\ Replaced(r.c, st.c, st.i, k)
                        /\ k.start = st.c[st.i].start /\ k.end = st.ld.start
                        /\ k.pid = st.c[st.i].pid
  BY <1>2, CutIs
<1>4. r.status = st.status /\ r.ld = st.ld
  BY <1>2, CutIs
<1> HIDE DEF r
<1> DEFINE d == [c EXCEPT ![st.i] = k]
<1>5. /\ d \in Seq(Lock) /\ Len(d) = Len(c) /\ d[st.i] = k
      /\ \A j \in 1 .. Len(c) : j # st.i => d[j] = c[j]
  BY <1>1
<1> HIDE DEF d
<1>6. Replaced(d, c, st.i, k)
  BY <1>5 DEF Replaced
<1>7. /\ r.c \in Seq(Lock) /\ Len(r.c) = Len(c) + 1
      /\ r.c[st.i] = k /\ \A j \in 1 .. Len(c) + 1 : j # st.i => r.c[j] = st.c[j]
  BY <1>1, <1>3 DEF Replaced
<1>8. ASSUME NEW j \in 1 .. st.i PROVE r.c[j] = d[j]
  <2>1. CASE j = st.i
    BY <1>5, <1>7, <2>1
  <2>2. CASE j # st.i
    <3>1. j \in 1 .. Len(c) /\ j \in 1 .. Len(c) + 1
      BY <1>1
    <3> QED BY <1>1, <1>5, <1>7, <2>2, <3>1
  <2> QED BY <2>1, <2>2
<1>9. r.c[st.i + 1] = l
  <2>1. st.i + 1 \in 1 .. Len(c) + 1 /\ st.i + 1 # st.i
    BY <1>1
  <2> QED BY <1>1, <1>7, <2>1
<1>10. ASSUME NEW j \in st.i + 2 .. Len(c) + 1 PROVE r.c[j] = d[j - 1]
  <2>1. j \in 1 .. Len(c) + 1 /\ j # st.i /\ j - 1 \in 1 .. Len(c) /\ j - 1 # st.i
    BY <1>1
  <2> QED BY <1>1, <1>5, <1>7, <2>1
<1>11. Inserted(r.c, d, st.i, l)
  BY <1>5, <1>7, <1>8, <1>9, <1>10 DEF Inserted
<1> QED BY <1>2, <1>3, <1>4, <1>6, <1>11 DEF r
-----------------------------------------------------------------------------
(* The passes of the loop, for a request that changes the types of the     *)
(* locks it meets, and for one that does not.                              *)
LEMMA WalkEnds ==
    ASSUME NEW st, NEW p, st.status # "walk" \/ st.i > Len(st.c)
    PROVE  Walk(st, p) = st
BY DEF Walk

(* The range goes on to the end of the lock at hand, which goes.           *)
Extended(st, l) == [Drop(StepOff(st)) EXCEPT !.ld.end = l.end]

(* The lock at hand is the process's own and meets the range.              *)
Met(st, l, ld, severed) ==
    IF l.type = ld.type /\ ld.start >= l.start /\ ld.end <= l.end
       THEN [st EXCEPT !.status = "done"]
    ELSE IF ld.start = l.start /\ ld.end >= l.end THEN Drop(StepBack(st))
    ELSE IF ld.start < l.start /\ ld.end >= l.end
         THEN IF l.type = ld.type /\ ld.end = l.end
              THEN LeaveLoop(Drop(StepOff(st))) ELSE Drop(StepOff(st))
    ELSE IF ld.start < l.start
         THEN IF l.type = ld.type
              THEN LeaveLoop(Extended(st, l))
              ELSE IF severed.status = "failed" THEN severed
              ELSE Drop(StepOff(severed))
    ELSE IF ld.end < l.end
         THEN IF severed.status = "failed" THEN severed
              ELSE IF ld.start > l.start THEN Cut(severed)
              ELSE Drop(StepBack(severed))
    ELSE IF l.type = ld.type /\ ld.end > l.end
         THEN Drop([StepBack(st) EXCEPT !.ld.start = l.start])
    ELSE Advance(Cut(st))

LEMMA WalkIs ==
    ASSUME NEW st, NEW p, NEW l, l = st.c[st.i],
           st.status = "walk", ~(st.i > Len(st.c)),
           l.start \in Int, l.end \in Int, st.ld.start \in Int, st.ld.end \in Int,
           l.start < l.end, st.ld.start < st.ld.end
    PROVE  /\ l.pid # p =>
                 Walk(st, p) = IF l.start > st.ld.end THEN LeaveLoop(st) ELSE Advance(st)
           /\ l.pid = p /\ st.ld.end < l.start => Walk(st, p) = LeaveLoop(st)
           /\ l.pid = p /\ st.ld.end = l.start /\ l.type = st.ld.type =>
                 Walk(st, p) = LeaveLoop(Extended(st, l))
           /\ l.pid = p /\ st.ld.end = l.start /\ l.type # st.ld.type => Walk(st, p) = LeaveLoop(st)
           /\ l.pid = p /\ st.ld.start > l.end => Walk(st, p) = Advance([st EXCEPT !.ins = st.i])
           /\ l.pid = p /\ l.start < st.ld.end /\ st.ld.start <= l.end =>
                 Walk(st, p) = Met(st, l, st.ld, Sever(st, p))
<1> DEFINE W == Walk(st, p)
           ld == st.ld
           severed == Sever(st, p)
<1>1. ~(st.status # "walk" \/ st.i > Len(st.c))
  OBVIOUS
<1>2. CASE l.pid # p
  BY <1>1, <1>2 DEF Walk
<1>3. CASE l.pid = p /\ ld.end < l.start
  <2>1. W = LeaveLoop(st)
    BY <1>1, <1>3 DEF Walk
  <2>2. ~(ld.end = l.start) /\ ~(ld.start > l.end) /\ ~(l.start < ld.end)
    BY <1>3
  <2> QED BY <1>3, <2>1, <2>2
<1>4. CASE l.pid = p /\ ld.end = l.start
  <2>1. ~(ld.end < l.start) /\ ~(ld.start > l.end) /\ ~(l.start < ld.end)
    BY <1>4
  <2>2. W = LeaveLoop(IF l.type = ld.type THEN Extended(st, l) ELSE st)
    BY <1>1, <1>4, <2>1 DEF Walk, Extended
  <2> QED BY <1>4, <2>1, <2>2
<1>5. CASE l.pid = p /\ ld.start > l.end
  <2>1. ~(ld.end < l.start) /\ ~(ld.end = l.start) /\ ~(ld.start <= l.end)
    BY <1>5
  <2>2. W = Advance([st EXCEPT !.ins = st.i])
    BY <1>1, <1>5, <2>1 DEF Walk
  <2> QED BY <1>5, <2>1, <2>2
<1>6. CASE l.pid = p /\ l.start < ld.end /\ ld.start <= l.end
  <2>1. ~(ld.end < l.start) /\ ~(ld.end = l.start) /\ ~(ld.start > l.end)
    BY <1>6
  <2>2. W = Met(st, l, ld, severed)
    BY <1>1, <1>6, <2>1, Zenon DEF Walk, Met, Extended
  <2> QED BY <1>6, <2>1, <2>2
<1> QED BY <1>2, <1>3, <1>4, <1>5, <1>6

LEMMA OffIs ==
    ASSUME NEW st \in State, st.i > 0
    PROVE  LET r == StepOff(st)
           IN  /\ r.c = st.c /\ r.i = st.i /\ r.ins = (IF st.ins = st.i THEN st.i - 1 ELSE st.ins)
               /\ r.ld = st.ld /\ r.status = st.status /\ r.n = st.n /\ r \in State
BY BackIs DEF StepOff

(* The lock at hand, l, becomes part of the range.                         *)
Joins(st, r, l) ==
    /\ Removed(r.c, st.c, st.i) /\ r.i = st.i /\ r.ld.type = st.ld.type
    /\ l.start <= st.ld.end /\ st.ld.start <= l.end
    /\ r.ld.start = IF l.start <= st.ld.start THEN l.start ELSE st.ld.start
    /\ r.ld.end = IF l.end <= st.ld.end THEN st.ld.end ELSE l.end
    /\ r.ins = IF l.start <= st.ld.start \/ st.ins = st.i THEN st.i - 1 ELSE st.ins
    /\ r.status = "walk" \/ (r.status = "insert" /\ st.ld.end <= l.end)

LEMMA JoinsIs ==
    ASSUME NEW st \in State, st.i \in DOMAIN st.c, st.status = "walk",
           NEW l, l = st.c[st.i], l.start < l.end,
           st.ld.start < st.ld.end, l.start <= st.ld.end, st.ld.start <= l.end
    PROVE  /\ l.start = st.ld.start /\ l.end <= st.ld.end => Joins(st, Drop(StepBack(st)), l)
           /\ st.ld.start < l.start /\ l.end <= st.ld.end => Joins(st, Drop(StepOff(st)), l)
           /\ st.ld.start < l.start /\ l.end = st.ld.end =>
                 Joins(st, LeaveLoop(Drop(StepOff(st))), l)
           /\ st.ld.start < l.start /\ st.ld.end < l.end =>
                 Joins(st, LeaveLoop(Extended(st, l)), l)
           /\ l.start < st.ld.start /\ l.end < st.ld.end =>
                 Joins(st, Drop([StepBack(st) EXCEPT !.ld.start = l.start]), l)
<1>1. /\ st.c \in Seq(Lock) /\ st.i \in Nat /\ st.ins \in Nat /\ l \in Lock
      /\ l.start \in 0 .. MAXEND /\ l.end \in 0 .. MAXEND /\ MAXEND \in Nat
      /\ st.ld.start \in Int /\ st.ld.end \in Int /\ st.i > 0
  <2>1. st.c \in Seq(Lock) /\ st.ld \in Asked /\ st.i \in Nat /\ st.ins \in Nat
    BY DEF State
  <2>2. l \in Lock /\ MAXEND \in Nat /\ st.i > 0
    BY <2>1, LockAssumption
  <2> QED BY <2>1, <2>2 DEF Lock, Asked
<1> DEFINE off == StepOff(st)
           back == StepBack(st)
           doff == Drop(off)
           dback == Drop(back)
<1>2. /\ off.c = st.c /\ off.i = st.i /\ off.ins = (IF st.ins = st.i THEN st.i - 1 ELSE st.ins)
      /\ off.ld = st.ld /\ off.status = st.status /\ off \in State
  BY <1>1, OffIs
<1>3. /\ back.c = st.c /\ back.i = st.i /\ back.ins = st.i - 1
      /\ back.ld = st.ld /\ back.status = st.status /\ back \in State
  BY <1>1, BackIs
<1> HIDE DEF off, back
<1>4. /\ Removed(doff.c, st.c, st.i) /\ doff.i = st.i /\ doff.ins = off.ins /\ doff.ld = st.ld
      /\ doff.status = "walk" /\ doff \in State
  BY <1>2, DropIs
<1>5. /\ Removed(dback.c, st.c, st.i) /\ dback.i = st.i /\ dback.ins = st.i - 1 /\ dback.ld = st.ld
      /\ dback.status = "walk" /\ dback \in State
  BY <1>3, DropIs
<1> HIDE DEF doff, dback
<1>6. ASSUME l.start = st.ld.start, l.end <= st.ld.end PROVE Joins(st, dback, l)
  BY <1>1, <1>5, <1>6 DEF Joins
<1>7. ASSUME st.ld.start < l.start, l.end <= st.ld.end PROVE Joins(st, doff, l)
  BY <1>1, <1>2, <1>4, <1>7 DEF Joins
<1>8. ASSUME st.ld.start < l.start, l.end = st.ld.end PROVE Joins(st, LeaveLoop(doff), l)
  <2> DEFINE r == LeaveLoop(doff)
  <2>1. /\ r.c = doff.c /\ r.i = doff.i /\ r.ins = doff.ins /\ r.ld = doff.ld
        /\ r.status = "insert"
    BY <1>4, LeaveIs
  <2> HIDE DEF r
  <2>2. Joins(st, r, l)
    BY <1>1, <1>2, <1>4, <1>8, <2>1 DEF Joins
  <2> QED BY <2>2 DEF r
<1>9. ASSUME st.ld.start < l.start, st.ld.end < l.end
      PROVE  Joins(st, LeaveLoop(Extended(st, l)), l)
  <2> DEFINE s == [doff EXCEPT !.ld.end = l.end]
             r == LeaveLoop(s)
  <2>1. /\ s.c = doff.c /\ s.i = doff.i /\ s.ins = doff.ins /\ s \in State
        /\ s.ld.end = l.end /\ s.ld.start = doff.ld.start /\ s.ld.type = doff.ld.type
    BY <1>1, <1>4, GrowIs, ZenonT(40)
  <2> HIDE DEF s
  <2>2. /\ r.c = s.c /\ r.i = s.i /\ r.ins = s.ins /\ r.ld = s.ld /\ r.status = "insert"
    BY <2>1, LeaveIs
  <2> HIDE DEF r
  <2>3. Joins(st, r, l)
    BY <1>1, <1>2, <1>4, <1>9, <2>1, <2>2 DEF Joins
  <2>4. Extended(st, l) = s
    BY DEF Extended, s, doff, off
  <2> QED BY <2>3, <2>4 DEF r
<1>10. ASSUME l.start < st.ld.start, l.end < st.ld.end
       PROVE  Joins(st, Drop([back EXCEPT !.ld.start = l.start]), l)
  <2> DEFINE s == [back EXCEPT !.ld.start = l.start]
             r == Drop(s)
  <2>1. /\ s.c = st.c /\ s.i = st.i /\ s.ins = st.i - 1 /\ s \in State /\ s.status = "walk"
        /\ s.ld.end = st.ld.end /\ s.ld.start = l.start /\ s.ld.type = st.ld.type
    <3>1. l.start \in 0 .. MAXEND
      BY <1>1
    <3>2. back \in State
      BY <1>3
    <3>3. /\ s.c = back.c /\ s.i = back.i /\ s.ins = back.ins /\ s.status = back.status
          /\ s \in State /\ s.ld.end = back.ld.end /\ s.ld.start = l.start
          /\ s.ld.type = back.ld.type
      BY <3>1, <3>2, GrowIs, ZenonT(40)
    <3> HIDE DEF s
    <3> QED BY <1>3, <3>3
  <2> HIDE DEF s
  <2>2. /\ Removed(r.c, s.c, s.i) /\ r.i = s.i /\ r.ins = s.ins /\ r.ld = s.ld
        /\ r.status = s.status
    BY <2>1, DropIs
  <2> HIDE DEF r
  <2>3. Joins(st, r, l)
    BY <1>1, <1>10, <2>1, <2>2 DEF Joins
  <2> QED BY <2>3 DEF r, s
<1> QED BY <1>6, <1>7, <1>8, <1>9, <1>10 DEF off, back, doff, dback

(* A pass for a request that changes nothing of the types it meets.        *)
LEMMA LockWalk ==
    ASSUME NEW st \in State, st.i \in DOMAIN st.c, st.status = "walk", NEW p,
           NEW l, l = st.c[st.i], l.start < l.end, l.type = st.ld.type,
           st.ld.start < st.ld.end
    PROVE  LET W == Walk(st, p)
           IN  \/ W = LeaveLoop(st) /\ l.start > st.ld.end
               \/ W = Advance(st) /\ l.pid # p
               \/ W = Advance([st EXCEPT !.ins = st.i]) /\ l.pid = p /\ l.end < st.ld.start
               \/ /\ W = [st EXCEPT !.status = "done"]
                  /\ l.pid = p /\ l.start <= st.ld.start /\ st.ld.end <= l.end
               \/ Joins(st, W, l) /\ l.pid = p
<1> DEFINE ld == st.ld
           W == Walk(st, p)
           severed == Sever(st, p)
<1>1. /\ l.start \in Int /\ l.end \in Int /\ MAXEND \in Nat
      /\ ld.start \in Int /\ ld.end \in Int /\ ~(st.i > Len(st.c))
  <2>1. st.c \in Seq(Lock) /\ st.ld \in Asked
    BY DEF State
  <2>2. l \in Lock /\ MAXEND \in Nat
    BY <2>1, LockAssumption
  <2>3. ~(st.i > Len(st.c))
    BY <2>1
  <2> QED BY <2>1, <2>2, <2>3, SMTT(30) DEF Lock, Asked
<1>2. /\ l.pid # p => W = IF l.start > ld.end THEN LeaveLoop(st) ELSE Advance(st)
      /\ l.pid = p /\ ld.end < l.start => W = LeaveLoop(st)
      /\ l.pid = p /\ ld.end = l.start => W = LeaveLoop(Extended(st, l))
      /\ l.pid = p /\ ld.start > l.end => W = Advance([st EXCEPT !.ins = st.i])
      /\ l.pid = p /\ l.start < ld.end /\ ld.start <= l.end => W = Met(st, l, ld, severed)
  <2>1. l.pid # p => W = IF l.start > ld.end THEN LeaveLoop(st) ELSE Advance(st)
    BY <1>1, WalkIs
  <2>2. l.pid = p /\ ld.end < l.start => W = LeaveLoop(st)
    BY <1>1, WalkIs
  <2>3. ASSUME l.pid = p, ld.end = l.start PROVE W = LeaveLoop(Extended(st, l))
    <3>1. ~(st.status # "walk" \/ st.i > Len(st.c)) /\ ~(l.pid # p) /\ ~(ld.end < l.start)
      BY <1>1, <2>3
    <3>2. l = st.c[st.i] /\ l.type = ld.type
      OBVIOUS
    <3> HIDE DEF ld
    <3>3. W = LeaveLoop([Drop(StepOff(st)) EXCEPT !.ld.end = l.end])
      BY <2>3, <3>1, <3>2, Zenon DEF Walk, ld
    <3> QED BY <3>3 DEF Extended
  <2>4. l.pid = p /\ ld.start > l.end => W = Advance([st EXCEPT !.ins = st.i])
    BY <1>1, WalkIs
  <2>5. l.pid = p /\ l.start < ld.end /\ ld.start <= l.end => W = Met(st, l, ld, severed)
    BY <1>1, WalkIs
  <2> QED BY <2>1, <2>2, <2>3, <2>4, <2>5
<1>3. ASSUME l.start <= ld.end, ld.start <= l.end
      PROVE  /\ l.start = ld.start /\ l.end <= ld.end => Joins(st, Drop(StepBack(st)), l)
             /\ ld.start < l.start /\ l.end <= ld.end => Joins(st, Drop(StepOff(st)), l)
             /\ ld.start < l.start /\ l.end = ld.end =>
                   Joins(st, LeaveLoop(Drop(StepOff(st))), l)
             /\ ld.start < l.start /\ ld.end < l.end =>
                   Joins(st, LeaveLoop(Extended(st, l)), l)
             /\ l.start < ld.start /\ l.end < ld.end =>
                   Joins(st, Drop([StepBack(st) EXCEPT !.ld.start = l.start]), l)
  BY <1>3, JoinsIs
<1> SUFFICES \/ W = LeaveLoop(st) /\ l.start > ld.end
             \/ W = Advance(st) /\ l.pid # p
             \/ W = Advance([st EXCEPT !.ins = st.i]) /\ l.pid = p /\ l.end < ld.start
             \/ /\ W = [st EXCEPT !.status = "done"]
                /\ l.pid = p /\ l.start <= ld.start /\ ld.end <= l.end
             \/ Joins(st, W, l) /\ l.pid = p
  OBVIOUS
<1>0. l.type = ld.type /\ ld.start < ld.end
  OBVIOUS
<1> HIDE DEF W, severed, ld
<1>4. CASE l.pid # p
  BY <1>2, <1>4
<1>5. CASE l.pid = p /\ ld.end <= l.start
  BY <1>0, <1>1, <1>2, <1>3, <1>5
<1>6. CASE l.pid = p /\ ld.start > l.end
  BY <1>1, <1>2, <1>6
<1>7. CASE l.pid = p /\ l.start < ld.end /\ ld.start <= l.end
  <2>1. W = IF ld.start >= l.start /\ ld.end <= l.end
               THEN [st EXCEPT !.status = "done"]
            ELSE IF ld.start = l.start /\ ld.end >= l.end THEN Drop(StepBack(st))
            ELSE IF ld.start < l.start /\ ld.end >= l.end
                 THEN IF ld.end = l.end
                      THEN LeaveLoop(Drop(StepOff(st))) ELSE Drop(StepOff(st))
            ELSE IF ld.start < l.start
                 THEN LeaveLoop(Extended(st, l))
            ELSE IF ld.end < l.end
                 THEN IF severed.status = "failed" THEN severed
                      ELSE IF ld.start > l.start THEN Cut(severed)
                      ELSE Drop(StepBack(severed))
            ELSE IF ld.end > l.end
                 THEN Drop([StepBack(st) EXCEPT !.ld.start = l.start])
            ELSE Advance(Cut(st))
    BY <1>0, <1>2, <1>7, Zenon DEF Met
  <2>2. CASE l.start = ld.start
    BY <1>1, <1>3, <1>7, <2>1, <2>2
  <2>3. CASE ld.start < l.start
    BY <1>1, <1>3, <1>7, <2>1, <2>3
  <2>4. CASE l.start < ld.start
    BY <1>1, <1>3, <1>7, <2>1, <2>4
  <2> QED BY <1>1, <2>2, <2>3, <2>4
<1> QED BY <1>1, <1>4, <1>5, <1>6, <1>7
-----------------------------------------------------------------------------
(* A request to lock: the locks that belong to others keep off its range,  *)
(* the process's own become part of it.                                    *)
Apart(l, ld) == l.end <= ld.start \/ l.start >= ld.end

Within(ld, b) == ld.start <= b /\ b < ld.end

Foreign(st, p) == \A j \in DOMAIN st.c : st.c[j].pid # p => Apart(st.c[j], st.ld)

Passed(st) == st.status = "walk" => \A j \in DOMAIN st.c : j < st.i => Apart(st.c[j], st.ld)

Found(st, p) ==
    /\ st.status = "insert" => \A j \in DOMAIN st.c : Apart(st.c[j], st.ld)
    /\ st.status = "done" => \E j \in DOMAIN st.c : /\ st.c[j].pid = p
                                                    /\ st.c[j].start <= st.ld.start
                                                    /\ st.ld.end <= st.c[j].end

(* The place of the new lock is behind the lock insrtp.                    *)
Behind(st) ==
    /\ st.ins > 0 => st.c[st.ins].start < st.ld.start
    /\ st.ins = 0 => \A j \in DOMAIN st.c : st.c[j].start >= st.ld.start

(* The locks and the range are the bytes that were locked and asked for.   *)
Merged(st, c0, ld0, p) ==
    \A b \in Int : \A q : Has(st.c, b, q) \/ (q = p /\ Within(st.ld, b)) <=>
                          Has(c0, b, q) \/ (q = p /\ Within(ld0, b))

Kept(c, c0) == c = c0 \/ Len(c) < Len(c0)

Locking(st, c0, ld0, p) ==
    /\ st.ld.type = "write" /\ st.status # "failed"
    /\ Chain(st.c) /\ Kept(st.c, c0)
    /\ Foreign(st, p) /\ Passed(st) /\ Found(st, p) /\ Behind(st)
    /\ Merged(st, c0, ld0, p)

LEMMA StateIs ==
    ASSUME NEW st \in State
    PROVE  /\ st.c \in Seq(Lock) /\ Len(st.c) \in Nat /\ DOMAIN st.c = 1 .. Len(st.c)
           /\ st.i \in Nat /\ st.ins \in Nat /\ st.n \in Nat /\ st.ld \in Asked
           /\ st.ld.start \in Int /\ st.ld.end \in Int /\ st.status \in Status
           /\ \A j \in DOMAIN st.c : /\ st.c[j].start \in Int /\ st.c[j].end \in Int
                                     /\ st.c[j] \in Lock
<1>1. /\ st.c \in Seq(Lock) /\ st.i \in Nat /\ st.ins \in Nat /\ st.n \in Nat /\ st.ld \in Asked
      /\ st.status \in Status /\ MAXEND \in Nat
  BY LockAssumption DEF State
<1>2. st.ld.start \in Int /\ st.ld.end \in Int
  BY <1>1 DEF Asked
<1>3. \A j \in DOMAIN st.c : st.c[j].start \in Int /\ st.c[j].end \in Int /\ st.c[j] \in Lock
  BY <1>1, LockIs
<1> QED BY <1>1, <1>2, <1>3

(* The lock at hand becomes part of the range.                             *)
LEMMA JoinsLocking ==
    ASSUME NEW c0 \in Seq(Lock), NEW ld0, NEW p, NEW st \in State, NEW r \in State,
           Locking(st, c0, ld0, p), st.status = "walk", Proper(st.c), st.ins <= st.i,
           st.i \in DOMAIN st.c, st.c[st.i].pid = p, Joins(st, r, st.c[st.i])
    PROVE  Locking(r, c0, ld0, p)
<1> DEFINE i == st.i
           l == st.c[st.i]
           ld == st.ld
<1>1. /\ st.c \in Seq(Lock) /\ Len(st.c) \in Nat /\ DOMAIN st.c = 1 .. Len(st.c)
      /\ i \in Nat /\ st.ins \in Nat /\ ld.start \in Int /\ ld.end \in Int
      /\ \A j \in DOMAIN st.c : /\ st.c[j].start \in Int /\ st.c[j].end \in Int
                                /\ st.c[j].start < st.c[j].end
  BY StateIs DEF Proper
<1>2. /\ l.start \in Int /\ l.end \in Int /\ l.start < l.end /\ i \in 1 .. Len(st.c)
  BY <1>1
<1>3. /\ Removed(r.c, st.c, i) /\ r.i = i /\ r.ld.type = ld.type
      /\ l.start <= ld.end /\ ld.start <= l.end
      /\ r.ld.start = IF l.start <= ld.start THEN l.start ELSE ld.start
      /\ r.ld.end = IF l.end <= ld.end THEN ld.end ELSE l.end
      /\ r.ins = IF l.start <= ld.start \/ st.ins = i THEN i - 1 ELSE st.ins
      /\ r.status = "walk" \/ (r.status = "insert" /\ ld.end <= l.end)
  BY DEF Joins
<1>4. Chain(st.c)
  BY DEF Locking
<1>5. /\ \A j \in DOMAIN r.c : \E k \in DOMAIN st.c : /\ r.c[j] = st.c[k] /\ k # i
                                                      /\ (j < i => k = j) /\ (j >= i => k = j + 1)
      /\ Chain(r.c)
      /\ \A b \in Int : \A q : Has(st.c, b, q) <=> Has(r.c, b, q) \/ Covers(l, b, q)
  BY <1>1, <1>3, <1>4, RemovedIs
<1>6. /\ Len(r.c) = Len(st.c) - 1 /\ DOMAIN r.c = 1 .. Len(r.c) /\ Len(c0) \in Nat
  BY <1>3 DEF Removed
<1>7. \A k \in DOMAIN st.c : (k < i => st.c[k].end <= l.start) /\ (k > i => l.end <= st.c[k].start)
  BY <1>1, <1>4 DEF Chain
<1>8. l.pid = p
  OBVIOUS
<1> HIDE DEF i, l, ld
<1>9. ASSUME NEW k \in DOMAIN st.c, k # i, Apart(st.c[k], ld)
      PROVE  Apart(st.c[k], r.ld)
  <2>1. (st.c[k].end <= l.start) \/ (l.end <= st.c[k].start)
    BY <1>1, <1>7, <1>9
  <2>2. st.c[k].end <= ld.start \/ st.c[k].start >= ld.end
    BY <1>9 DEF Apart
  <2>3. st.c[k].end <= r.ld.start \/ st.c[k].start >= r.ld.end
    BY <1>1, <1>2, <1>3, <2>1, <2>2, SMTT(30)
  <2> QED BY <2>3 DEF Apart
<1>10. Kept(r.c, c0)
  <2>1. Kept(st.c, c0)
    BY DEF Locking
  <2> QED BY <1>1, <1>6, <2>1 DEF Kept
<1>11. Foreign(r, p)
  <2>1. ASSUME NEW j \in DOMAIN r.c, r.c[j].pid # p PROVE Apart(r.c[j], r.ld)
    <3>1. PICK k \in DOMAIN st.c : r.c[j] = st.c[k] /\ k # i
      BY <1>5
    <3>2. Apart(st.c[k], ld)
      BY <2>1, <3>1 DEF Locking, Foreign, ld
    <3> QED BY <1>9, <3>1, <3>2
  <2> QED BY <2>1 DEF Foreign
<1>12. ASSUME NEW j \in DOMAIN r.c, j < i PROVE Apart(r.c[j], r.ld)
  <2>1. PICK k \in DOMAIN st.c : r.c[j] = st.c[k] /\ k # i /\ k = j
    BY <1>5, <1>12
  <2>2. Apart(st.c[k], ld)
    BY <1>12, <2>1 DEF Locking, Passed, ld, i
  <2> QED BY <1>9, <2>1, <2>2
<1>13. Passed(r)
  BY <1>3, <1>12 DEF Passed
<1>14. Found(r, p)
  <2>1. ASSUME r.status = "insert", NEW j \in DOMAIN r.c, ~(j < i) PROVE Apart(r.c[j], r.ld)
    <3>1. PICK k \in DOMAIN st.c : r.c[j] = st.c[k] /\ k = j + 1
      BY <1>1, <1>5, <1>6, <2>1, SMTT(30)
    <3>a. j \in Int /\ k > i
      BY <1>1, <1>6, <2>1, <3>1
    <3>2. l.end <= st.c[k].start
      BY <1>7, <3>a
    <3>3. ld.end <= l.end
      BY <1>3, <2>1
    <3>4. r.ld.end = l.end
      BY <1>1, <1>2, <1>3, <3>3
    <3> QED BY <1>1, <1>2, <3>1, <3>2, <3>4 DEF Apart
  <2> QED BY <1>3, <1>12, <2>1 DEF Found
<1>15. Behind(r)
  <2>1. CASE l.start <= ld.start
    <3>1. r.ins = i - 1 /\ r.ld.start = l.start
      BY <1>3, <2>1
    <3>2. ASSUME r.ins > 0 PROVE r.c[r.ins].start < r.ld.start
      <4>1. r.ins \in DOMAIN r.c /\ r.ins < i
        BY <1>2, <1>6, <3>1, <3>2
      <4>2. PICK k \in DOMAIN st.c : r.c[r.ins] = st.c[k] /\ k = r.ins
        BY <1>5, <4>1
      <4>3. k < i /\ k \in DOMAIN st.c
        BY <4>1, <4>2
      <4>4. st.c[k].end <= l.start
        BY <1>7, <4>3
      <4>b. st.c[k].start \in Int /\ st.c[k].end \in Int /\ st.c[k].start < st.c[k].end
        BY <1>1, <4>3
      <4>c. l.start \in Int
        BY <1>2
      <4>5. st.c[k].start < l.start
        BY <4>4, <4>b, <4>c
      <4> QED BY <3>1, <4>2, <4>5
    <3>3. ASSUME r.ins = 0, NEW j \in DOMAIN r.c PROVE r.c[j].start >= r.ld.start
      <4>1. j >= i
        BY <1>1, <1>6, <3>1, <3>3
      <4>2. PICK k \in DOMAIN st.c : r.c[j] = st.c[k] /\ k = j + 1
        BY <1>5, <4>1
      <4>a. k > i
        BY <1>1, <1>6, <4>1, <4>2
      <4>3. l.end <= st.c[k].start
        BY <1>7, <4>a
      <4> QED BY <1>1, <1>2, <3>1, <4>2, <4>3, SMTT(30)
    <3> QED BY <3>2, <3>3 DEF Behind
  <2>2. CASE ~(l.start <= ld.start)
    <3>1. Behind(st)
      BY DEF Locking
    <3>2. ASSUME st.ins = i PROVE FALSE
      <4>1. st.ins > 0
        BY <1>2, <3>2
      <4>2. st.c[st.ins].start < st.ld.start
        BY <3>1, <4>1 DEF Behind
      <4>3. l.start < ld.start
        BY <3>2, <4>2 DEF l, ld, i
      <4> QED BY <1>1, <1>2, <2>2, <4>3
    <3>3. r.ins = st.ins /\ r.ld.start = ld.start /\ st.ins < i
      BY <1>1, <1>3, <2>2, <3>2 DEF i
    <3>4. ASSUME r.ins > 0 PROVE r.c[r.ins].start < r.ld.start
      <4>1. r.ins \in DOMAIN r.c
        BY <1>1, <1>2, <1>6, <3>3, <3>4
      <4>2. PICK k \in DOMAIN st.c : r.c[r.ins] = st.c[k] /\ k = r.ins
        BY <1>5, <3>3, <4>1
      <4>3. st.c[st.ins].start < st.ld.start
        BY <3>1, <3>3, <3>4 DEF Behind
      <4> QED BY <3>3, <4>2, <4>3 DEF ld
    <3>5. ASSUME r.ins = 0, NEW j \in DOMAIN r.c PROVE r.c[j].start >= r.ld.start
      <4>1. PICK k \in DOMAIN st.c : r.c[j] = st.c[k]
        BY <1>5
      <4>2. st.ins = 0
        BY <3>3, <3>5
      <4>3. st.c[k].start >= st.ld.start
        BY <3>1, <4>2 DEF Behind
      <4> QED BY <3>3, <4>1, <4>3 DEF ld
    <3> QED BY <3>4, <3>5 DEF Behind
  <2> QED BY <2>1, <2>2
<1>16. Merged(r, c0, ld0, p)
  <2>1. ASSUME NEW b \in Int, NEW q
        PROVE  Has(r.c, b, q) \/ (q = p /\ Within(r.ld, b)) <=>
               Has(c0, b, q) \/ (q = p /\ Within(ld0, b))
    <3>1. Has(st.c, b, q) \/ (q = p /\ Within(ld, b)) <=> Has(c0, b, q) \/ (q = p /\ Within(ld0, b))
      BY DEF Locking, Merged, ld
    <3>2. Has(st.c, b, q) <=> Has(r.c, b, q) \/ Covers(l, b, q)
      BY <1>5
    <3>3. Within(r.ld, b) <=> Within(ld, b) \/ (l.start <= b /\ b < l.end)
      BY <1>1, <1>2, <1>3 DEF Within
    <3>4. Covers(l, b, q) <=> q = p /\ l.start <= b /\ b < l.end
      BY <1>8 DEF Covers
    <3> QED BY <3>1, <3>2, <3>3, <3>4
  <2> QED BY <2>1 DEF Merged
<1>17. r.ld.type = "write" /\ r.status # "failed"
  BY <1>3 DEF Locking, ld
<1> QED BY <1>5, <1>10, <1>11, <1>13, <1>14, <1>15, <1>16, <1>17 DEF Locking
(* A pass that does not end the loop brings it closer to the end.          *)
Ended(st) == st.status # "walk" \/ st.i > Len(st.c)

Nearer(st, r) == r.status = "walk" => Len(r.c) - r.i < Len(st.c) - st.i

LEMMA Ends ==
    ASSUME NEW c \in Seq(Lock), NEW p, NEW insrt \in 0 .. Len(c), NEW ld, NEW n, NEW X,
           X \subseteq State, Start(c, insrt, ld, n) \in X,
           \A st \in X : Walk(st, p) \in X /\ (~Ended(st) => Nearer(st, Walk(st, p)))
    PROVE  \E st \in X : Ended(st) /\ Flckadj(c, p, insrt, ld, n) = Finish(st, p)
<1> DEFINE N == Len(c)
           s == Start(c, insrt, ld, n)
<1>1. N \in Nat /\ s.c = c /\ s.i \in Nat /\ s.i >= 1
  BY DEF Start
<1>2. PICK f : /\ f[0] = s
               /\ \A k \in 1 .. N : f[k] = Walk(f[k - 1], p)
               /\ \A k \in 0 .. N : f[k] \in X
               /\ Flckadj(c, p, insrt, ld, n) = Finish(f[N], p)
  BY <1>1, LoopIs
<1>3. Len(s.c) = N
  BY <1>1
<1> HIDE DEF N, s
<1> DEFINE Near(k, st) == Ended(st) \/ k + Len(st.c) - st.i + 1 <= N
           Y == {y \in (0 .. N) \X X : Near(y[1], y[2])}
           g == [k \in 0 .. N |-> <<k, f[k]>>]
<1>4. g[0] \in Y
  <2>1. Near(0, f[0])
    BY <1>1, <1>2, <1>3
  <2>2. 0 \in 0 .. N /\ f[0] \in X /\ g[0] = <<0, f[0]>>
    BY <1>1, <1>2
  <2> HIDE DEF Near, g
  <2> QED BY <2>1, <2>2
<1>5. ASSUME NEW k \in 1 .. N, g[k - 1] \in Y PROVE g[k] \in Y
  <2>1. /\ k \in 0 .. N /\ k - 1 \in 0 .. N /\ g[k] = <<k, f[k]>> /\ g[k - 1] = <<k - 1, f[k - 1]>>
        /\ f[k] = Walk(f[k - 1], p) /\ f[k] \in X /\ f[k - 1] \in X
    BY <1>1, <1>2
  <2>2. Near(k - 1, f[k - 1])
    <3> HIDE DEF Near, g
    <3> QED BY <1>5, <2>1
  <2>3. Near(k, f[k])
    <3>1. CASE Ended(f[k - 1])
      <4>1. f[k] = f[k - 1]
        BY <2>1, <3>1, WalkEnds DEF Ended
      <4> QED BY <3>1, <4>1
    <3>2. CASE ~Ended(f[k - 1])
      <4>1. Nearer(f[k - 1], f[k])
        BY <2>1, <3>2
      <4>2. f[k] \in State /\ f[k - 1] \in State
        BY <2>1
      <4>3. /\ Len(f[k].c) \in Nat /\ f[k].i \in Nat
            /\ Len(f[k - 1].c) \in Nat /\ f[k - 1].i \in Nat
        BY <4>2, StateIs
      <4>4. (k - 1) + Len(f[k - 1].c) - f[k - 1].i + 1 <= N
        BY <2>2, <3>2
      <4>5. f[k].status # "walk" \/ Len(f[k].c) - f[k].i < Len(f[k - 1].c) - f[k - 1].i
        BY <4>1 DEF Nearer
      <4> HIDE DEF N, g
      <4>6. ASSUME f[k].status = "walk" PROVE k + Len(f[k].c) - f[k].i + 1 <= N
        <5>1. N \in Nat /\ k \in Int
          BY <1>1
        <5>2. Len(f[k].c) - f[k].i < Len(f[k - 1].c) - f[k - 1].i
          BY <4>5, <4>6
        <5>3. PICK a, b, x, y : /\ a = Len(f[k].c) /\ b = f[k].i
                                /\ x = Len(f[k - 1].c) /\ y = f[k - 1].i
          OBVIOUS
        <5>4. a \in Nat /\ b \in Nat /\ x \in Nat /\ y \in Nat
          BY <4>3, <5>3
        <5>5. (k - 1) + x - y + 1 <= N /\ a - b < x - y
          BY <4>4, <5>2, <5>3
        <5>6. k + a - b + 1 <= N
          BY <5>1, <5>4, <5>5
        <5> QED BY <5>3, <5>6
      <4> QED BY <4>6 DEF Ended
    <3> QED BY <3>1, <3>2
  <2> HIDE DEF Near, g
  <2> QED BY <2>1, <2>3
<1>6. g[N] \in Y
  <2> HIDE DEF g, Y
  <2>1. \A k \in 0 .. N : g[k] \in Y
    BY <1>1, <1>4, <1>5, Stepwise
  <2> QED BY <1>1, <2>1
<1>7. f[N] \in X /\ Near(N, f[N])
  <2>1. g[N] = <<N, f[N]>> /\ f[N] \in X
    BY <1>1, <1>2
  <2> HIDE DEF Near, g
  <2> QED BY <1>6, <2>1
<1>8. Ended(f[N])
  <2>1. Len(f[N].c) \in Nat /\ f[N].i \in Nat
    BY <1>7, StateIs
  <2> QED BY <1>1, <1>7, <2>1 DEF Ended
<1> QED BY <1>2, <1>7, <1>8 DEF s

(* A pass that leaves the chain and the range as they are.                 *)
LEMMA StillLocking ==
    ASSUME NEW c0, NEW ld0, NEW p, NEW st, NEW r, Locking(st, c0, ld0, p),
           r.c = st.c, r.ld = st.ld, r.status # "failed", Passed(r), Found(r, p), Behind(r)
    PROVE  Locking(r, c0, ld0, p)
BY DEF Locking, Foreign, Merged

LEMMA LockingStep ==
    ASSUME WritesOnly, NEW c0 \in Seq(Lock), NEW ld0, NEW p \in Proc, NEW m,
           NEW st \in Loop(c0, m), Locking(st, c0, ld0, p), ~Ended(st)
    PROVE  Locking(Walk(st, p), c0, ld0, p) /\ Nearer(st, Walk(st, p))
<1> DEFINE i == st.i
           l == st.c[st.i]
           ld == st.ld
           W == Walk(st, p)
<1>1. /\ st \in State /\ st.status = "walk" /\ Proper(st.c) /\ st.ins <= st.i /\ 1 <= st.i
      /\ ld.start < ld.end /\ st.i <= Len(st.c) /\ W \in State
  <2>1. st \in State /\ st.i \in Nat /\ Len(st.c) \in Nat
    BY StateIs DEF Loop
  <2>2. W \in State
    BY WalkLoop DEF Loop
  <2> QED BY <2>1, <2>2 DEF Loop, Ended
<1>2. /\ st.c \in Seq(Lock) /\ Len(st.c) \in Nat /\ DOMAIN st.c = 1 .. Len(st.c)
      /\ i \in Nat /\ ld.start \in Int /\ ld.end \in Int
      /\ \A j \in DOMAIN st.c : /\ st.c[j].start \in Int /\ st.c[j].end \in Int
                                /\ st.c[j].start < st.c[j].end
  BY <1>1, StateIs DEF Proper
<1>3. /\ i \in DOMAIN st.c /\ l \in Lock /\ l.start \in Int /\ l.end \in Int /\ l.start < l.end
  BY <1>1, <1>2
<1>4. l.type = ld.type
  <2>1. l.type = "write"
    BY <1>3 DEF WritesOnly, Lock
  <2> QED BY <2>1 DEF Locking
<1>5. \/ W = LeaveLoop(st) /\ l.start > ld.end
      \/ W = Advance(st) /\ l.pid # p
      \/ W = Advance([st EXCEPT !.ins = st.i]) /\ l.pid = p /\ l.end < ld.start
      \/ /\ W = [st EXCEPT !.status = "done"]
         /\ l.pid = p /\ l.start <= ld.start /\ ld.end <= l.end
      \/ Joins(st, W, l) /\ l.pid = p
  BY <1>1, <1>3, <1>4, LockWalk
<1>6. \A k \in DOMAIN st.c : k > i => l.end <= st.c[k].start
  BY <1>2, <1>3 DEF Locking, Chain
<1>7. Passed(st) /\ Found(st, p) /\ Behind(st) /\ Foreign(st, p)
  BY DEF Locking
<1>8. \A j \in DOMAIN st.c : j < i => Apart(st.c[j], ld)
  BY <1>1, <1>7 DEF Passed
<1> HIDE DEF W, l, ld, i
<1>9. CASE W = LeaveLoop(st) /\ l.start > ld.end
  <2>1. W.c = st.c /\ W.ins = st.ins /\ W.ld = ld /\ W.status = "insert"
    BY <1>1, <1>9, LeaveIs DEF ld
  <2>2. ASSUME NEW j \in DOMAIN st.c PROVE Apart(st.c[j], ld)
    <3>1. CASE j < i
      BY <1>8, <3>1
    <3>2. CASE j = i
      BY <1>2, <1>3, <1>9, <3>2 DEF Apart, l, i
    <3>3. CASE j > i
      <4>1. l.end <= st.c[j].start
        BY <1>6, <3>3
      <4>2. st.c[j].start \in Int /\ l.start < l.end /\ l.start \in Int /\ l.end \in Int
        BY <1>2, <1>3
      <4>a. ld.end \in Int
        BY <1>2
      <4>b. l.start > ld.end
        BY <1>9
      <4>3. st.c[j].start >= ld.end
        BY <4>1, <4>2, <4>a, <4>b
      <4> QED BY <4>3 DEF Apart
    <3> QED BY <1>2, <3>1, <3>2, <3>3
  <2>3. Passed(W) /\ Found(W, p)
    BY <2>1, <2>2 DEF Passed, Found
  <2>4. Behind(W)
    BY <1>7, <2>1 DEF Behind, ld
  <2>5. Locking(W, c0, ld0, p)
    BY <2>1, <2>3, <2>4, StillLocking DEF ld
  <2>6. Nearer(st, W)
    BY <2>1 DEF Nearer
  <2> QED BY <2>5, <2>6 DEF W
<1>10. CASE W = Advance(st) /\ l.pid # p
  <2>1. W.c = st.c /\ W.i = i + 1 /\ W.ins = st.ins /\ W.ld = ld /\ W.status = "walk"
    BY <1>1, <1>10, AdvanceIs DEF ld, i
  <2>2. Apart(l, ld)
    BY <1>3, <1>7, <1>10 DEF Foreign, l, i, ld
  <2>3. ASSUME NEW j \in DOMAIN st.c, j < i + 1 PROVE Apart(st.c[j], ld)
    <3>1. j < i \/ j = i
      BY <1>2, <2>3
    <3> QED BY <1>8, <2>2, <3>1 DEF l, i
  <2>4. Passed(W) /\ Found(W, p)
    BY <2>1, <2>3 DEF Passed, Found
  <2>5. Behind(W)
    BY <1>7, <2>1 DEF Behind, ld
  <2>6. Locking(W, c0, ld0, p)
    BY <2>1, <2>4, <2>5, StillLocking DEF ld
  <2>7. Nearer(st, W)
    BY <1>2, <2>1 DEF Nearer, i
  <2> QED BY <2>6, <2>7 DEF W
<1>11. CASE W = Advance([st EXCEPT !.ins = st.i]) /\ l.pid = p /\ l.end < ld.start
  <2>1. W.c = st.c /\ W.i = i + 1 /\ W.ins = i /\ W.ld = ld /\ W.status = "walk"
    BY <1>1, <1>11, PassIs DEF ld, i
  <2>2. Apart(l, ld)
    BY <1>2, <1>3, <1>11 DEF Apart
  <2>3. ASSUME NEW j \in DOMAIN st.c, j < i + 1 PROVE Apart(st.c[j], ld)
    <3>1. j < i \/ j = i
      BY <1>2, <2>3
    <3> QED BY <1>8, <2>2, <3>1 DEF l, i
  <2>4. Passed(W) /\ Found(W, p)
    BY <2>1, <2>3 DEF Passed, Found
  <2>5. Behind(W)
    <3>1. l.start < ld.start
      BY <1>2, <1>3, <1>11
    <3>2. i > 0
      BY <1>1, <1>2 DEF i
    <3>3. W.c[W.ins].start < W.ld.start
      BY <2>1, <3>1 DEF l, i
    <3>4. W.ins # 0
      BY <1>2, <2>1, <3>2
    <3> QED BY <3>3, <3>4 DEF Behind
  <2>6. Locking(W, c0, ld0, p)
    BY <2>1, <2>4, <2>5, StillLocking DEF ld
  <2>7. Nearer(st, W)
    BY <1>2, <2>1 DEF Nearer, i
  <2> QED BY <2>6, <2>7 DEF W
<1>12. CASE /\ W = [st EXCEPT !.status = "done"]
            /\ l.pid = p /\ l.start <= ld.start /\ ld.end <= l.end
  <2>0. "done" \in Status
    BY DEF Status
  <2>1. W.c = st.c /\ W.ins = st.ins /\ W.ld = ld /\ W.status = "done"
    BY <1>1, <1>12, <2>0, StatusIs DEF ld
  <2>2. Passed(W)
    BY <2>1 DEF Passed
  <2>3. Found(W, p)
    BY <1>3, <1>12, <2>1 DEF Found, l, i
  <2>4. Behind(W)
    BY <1>7, <2>1 DEF Behind, ld
  <2>5. Locking(W, c0, ld0, p)
    BY <2>1, <2>2, <2>3, <2>4, StillLocking DEF ld
  <2>6. Nearer(st, W)
    BY <2>1 DEF Nearer
  <2> QED BY <2>5, <2>6 DEF W
<1>13. CASE Joins(st, W, l) /\ l.pid = p
  <2>1. Locking(W, c0, ld0, p)
    BY <1>1, <1>3, <1>13, JoinsLocking DEF l, i
  <2>2. Len(W.c) = Len(st.c) - 1 /\ W.i = st.i
    BY <1>13 DEF Joins, Removed
  <2>3. Nearer(st, W)
    BY <1>2, <2>2 DEF Nearer, i
  <2> QED BY <2>1, <2>3 DEF W
<1> QED BY <1>5, <1>9, <1>10, <1>11, <1>12, <1>13
(* What flckadj() begins with.                                             *)
LEMMA StartLoop ==
    ASSUME NEW c \in Seq(Lock), Proper(c), NEW insrt \in 0 .. Len(c),
           NEW ld \in Asked, ld.start < ld.end, NEW n \in Nat
    PROVE  Start(c, insrt, ld, n) \in Loop(c, n + Len(c))
<1> DEFINE s == Start(c, insrt, ld, n)
           m == n + Len(c)
<1>1. Len(c) \in Nat /\ insrt \in Nat
  OBVIOUS
<1>2. s \in State
  BY <1>1 DEF State, Start, Status
<1>3. /\ s.c = c /\ s.i = (IF insrt = 0 THEN 1 ELSE insrt) /\ s.ins = insrt
      /\ s.ld = ld /\ s.n = n
  BY DEF Start
<1>4. From(c, c)
  BY DEF From
<1> HIDE DEF s
<1>5. m = n + Len(c)
  OBVIOUS
<1> HIDE DEF m
<1>6. s \in Loop(c, m)
  BY <1>1, <1>2, <1>3, <1>4, <1>5 DEF Loop
<1> QED BY <1>6 DEF s, m

(* A request that nothing blocks keeps off the locks of others.            *)
LEMMA NotBlocked ==
    ASSUME WritesOnly, NEW c \in Seq(Lock), Chain(c), Proper(c), NEW p, NEW ld \in Asked,
           ld.type = "write", Blocked(c, p, ld) = 0, NEW j \in DOMAIN c, c[j].pid # p
    PROVE  Apart(c[j], ld)
<1> DEFINE S == {i \in DOMAIN c : /\ Conflict(c[i], p, ld)
                                  /\ \A x \in SearchEnd(c, p, ld) .. i - 1 : c[x].start <= ld.end}
<1>1. S \subseteq Nat /\ 0 \notin S /\ Blocked(c, p, ld) = FirstOf(S, 0)
  BY DEF Blocked
<1>2. j \notin S
  <2> HIDE DEF S
  <2>1. ASSUME S # {} PROVE FALSE
    <3>1. FirstOf(S, 0) \in S
      BY <1>1, <2>1, FirstIs
    <3> QED BY <1>1, <3>1
  <2> QED BY <2>1
<1>3. /\ c[j].start \in Int /\ c[j].end \in Int /\ c[j].type = "write" /\ c[j].start < c[j].end
      /\ ld.start \in Int /\ ld.end \in Int /\ j \in 1 .. Len(c) /\ Len(c) \in Nat
  <2>1. MAXEND \in Nat
    BY LockAssumption
  <2>2. ld.start \in Int /\ ld.end \in Int
    BY <2>1 DEF Asked
  <2> QED BY <2>2, LockIs DEF WritesOnly, Proper
<1>4. ASSUME ~Apart(c[j], ld) PROVE FALSE
  <2>1. ld.start < c[j].end /\ ld.end > c[j].start
    BY <1>3, <1>4 DEF Apart
  <2>2. Conflict(c[j], p, ld)
    BY <1>3, <2>1 DEF Conflict
  <2>3. SearchEnd(c, p, ld) \in Nat /\ SearchEnd(c, p, ld) >= 1
    BY SearchEndIs
  <2>4. ASSUME NEW x \in SearchEnd(c, p, ld) .. j - 1 PROVE c[x].start <= ld.end
    <3>1. x \in DOMAIN c /\ x < j
      BY <1>3, <2>3
    <3>2. c[x].end <= c[j].start
      BY <3>1 DEF Chain
    <3>3. c[x].start \in Int /\ c[x].end \in Int /\ c[x].start < c[x].end
      BY <3>1, LockIs DEF Proper
    <3>4. c[j].start \in Int /\ ld.end \in Int
      BY <1>3
    <3>5. ld.end > c[j].start
      BY <2>1
    <3> QED BY <3>2, <3>3, <3>4, <3>5
  <2> QED BY <1>2, <2>2, <2>4
<1> QED BY <1>4

(* blocked() tells from where the place of the new lock is to be found.    *)
LEMMA StartLocking ==
    ASSUME WritesOnly, NEW c \in Seq(Lock), Chain(c), Proper(c), NEW p, NEW ld \in Asked,
           ld.type = "write", ld.start < ld.end, Blocked(c, p, ld) = 0, NEW n
    PROVE  Locking(Start(c, Insrt(c, p, ld), ld, n), c, ld, p)
<1> DEFINE k == Insrt(c, p, ld)
           e == SearchEnd(c, p, ld)
           st == Start(c, k, ld, n)
           Stops(j) == c[j].start >= ld.start \/ (c[j].pid = p /\ Touches(c[j], ld))
<1>1. /\ st.c = c /\ st.i = (IF k = 0 THEN 1 ELSE k) /\ st.ins = k /\ st.ld = ld
      /\ st.status = "walk"
  BY DEF Start
<1>2. /\ e \in 1 .. Len(c) + 1
      /\ \A j \in 1 .. Len(c) : j < e => ~Stops(j)
  BY SearchEndIs
<1>3. k = IF e \in DOMAIN c /\ c[e].start < ld.start THEN e ELSE e - 1
  BY DEF Insrt
<1>4. Len(c) \in Nat /\ DOMAIN c = 1 .. Len(c) /\ ld.start \in Int /\ ld.end \in Int
  <2>1. MAXEND \in Nat
    BY LockAssumption
  <2> QED BY <2>1 DEF Asked
<1>5. \A j \in DOMAIN c : c[j].start \in Int /\ c[j].end \in Int /\ c[j].start < c[j].end
  BY LockIs DEF Proper
<1> HIDE DEF k, e, st
<1>6. k \in 0 .. Len(c)
  BY <1>2, <1>3, <1>4
<1>7. ASSUME k > 0 PROVE k \in DOMAIN c /\ c[k].start < ld.start
  <2>1. k \in DOMAIN c
    BY <1>4, <1>6, <1>7
  <2>2. CASE e \in DOMAIN c /\ c[e].start < ld.start
    BY <1>3, <2>1, <2>2
  <2>3. CASE ~(e \in DOMAIN c /\ c[e].start < ld.start)
    <3>1. k = e - 1 /\ k < e
      BY <1>2, <1>3, <1>4, <2>3
    <3>2. ~(c[k].start >= ld.start)
      BY <1>2, <1>4, <2>1, <3>1
    <3>3. c[k].start \in Int
      BY <1>5, <2>1
    <3> QED BY <1>4, <2>1, <3>2, <3>3
  <2> QED BY <2>2, <2>3
<1>8. ASSUME k = 0, NEW j \in DOMAIN c PROVE c[j].start >= ld.start
  <2>1. e = 1 /\ ~(e \in DOMAIN c /\ c[e].start < ld.start)
    BY <1>2, <1>3, <1>4, <1>8
  <2>2. 1 \in DOMAIN c /\ c[1].start \in Int /\ c[1].end \in Int /\ c[1].start < c[1].end
    BY <1>4, <1>5
  <2>3. c[1].start >= ld.start
    BY <1>4, <2>1, <2>2
  <2>4. CASE j = 1
    BY <2>3, <2>4
  <2>5. CASE j # 1
    <3>1. 1 < j
      BY <1>4, <2>5
    <3>2. c[1].end <= c[j].start
      BY <2>2, <3>1 DEF Chain
    <3>3. c[j].start \in Int /\ ld.start \in Int
      BY <1>4, <1>5
    <3> QED BY <2>2, <2>3, <3>2, <3>3
  <2> QED BY <2>4, <2>5
<1>9. ASSUME NEW j \in DOMAIN c, j < st.i PROVE Apart(c[j], ld)
  <2>1. k > 0 /\ j < k
    BY <1>1, <1>4, <1>6, <1>9
  <2>2. k \in DOMAIN c /\ c[k].start < ld.start
    BY <1>7, <2>1
  <2>3. c[j].end <= c[k].start
    BY <2>1, <2>2 DEF Chain
  <2>4. c[j].end \in Int /\ c[k].start \in Int /\ ld.start \in Int
    BY <1>4, <1>5, <2>2
  <2>5. c[j].end <= ld.start
    BY <2>2, <2>3, <2>4
  <2> QED BY <2>5 DEF Apart
<1>10. Passed(st)
  BY <1>1, <1>9 DEF Passed
<1>11. Found(st, p)
  BY <1>1 DEF Found
<1>12. Behind(st)
  BY <1>1, <1>7, <1>8 DEF Behind
<1>13. Foreign(st, p)
  BY <1>1, NotBlocked DEF Foreign
<1>14. Merged(st, c, ld, p) /\ Kept(st.c, c)
  BY <1>1 DEF Merged, Kept
<1>15. Chain(st.c) /\ st.ld.type = "write" /\ st.status # "failed"
  BY <1>1
<1>16. Locking(st, c, ld, p)
  BY <1>10, <1>11, <1>12, <1>13, <1>14, <1>15 DEF Locking
<1> QED BY <1>16 DEF st, k

(* What a request to lock that nothing blocks makes of the chain c.        *)
Grown(r, c, p, ld) ==
    /\ r.status \in {"done", "failed"} /\ Chain(r.c)
    /\ r.status = "done" =>
          \A b \in Int : \A q : Has(r.c, b, q) <=> Has(c, b, q) \/ (q = p /\ Within(ld, b))
    /\ r.status = "failed" => r.c = c

(* And the new lock gets its place.                                       *)
LEMMA FinishLocking ==
    ASSUME NEW c0 \in Seq(Lock), NEW ld0, NEW p \in Proc, NEW n, n \in Nat,
           NEW st \in Loop(c0, n + Len(c0)), Locking(st, c0, ld0, p), Ended(st)
    PROVE  Grown(Finish(st, p), c0, p, ld0)
<1> DEFINE ld == st.ld
           r == Finish(st, p)
<1>1. /\ st \in State /\ Proper(st.c) /\ st.ins <= Len(st.c) /\ ld.start < ld.end
      /\ st.n + Len(st.c) = n + Len(c0)
  BY DEF Loop
<1>2. /\ st.c \in Seq(Lock) /\ Len(st.c) \in Nat /\ DOMAIN st.c = 1 .. Len(st.c)
      /\ st.n \in Nat /\ st.ins \in Nat /\ st.i \in Nat /\ ld \in Asked
      /\ ld.start \in Int /\ ld.end \in Int /\ st.status \in Status
      /\ \A j \in DOMAIN st.c : /\ st.c[j].start \in Int /\ st.c[j].end \in Int
                                /\ st.c[j].start < st.c[j].end
  BY <1>1, StateIs DEF Proper
<1>3. /\ ld.type = "write" /\ st.status # "failed" /\ Chain(st.c) /\ Kept(st.c, c0)
      /\ Passed(st) /\ Found(st, p) /\ Behind(st)
  BY DEF Locking
<1>4. \A b \in Int : \A q : Has(st.c, b, q) \/ (q = p /\ Within(ld, b)) <=>
                            Has(c0, b, q) \/ (q = p /\ Within(ld0, b))
  BY DEF Locking, Merged
<1> SUFFICES /\ r.status \in {"done", "failed"} /\ Chain(r.c)
             /\ r.status = "done" =>
                     \A b \in Int : \A q : Has(r.c, b, q) <=> Has(c0, b, q) \/ (q = p /\ Within(ld0, b))
             /\ r.status = "failed" => r.c = c0
  BY DEF Grown
<1>5. CASE st.status = "done"
  <2>1. r = st
    BY <1>5 DEF Finish
  <2>2. PICK j \in DOMAIN st.c : /\ st.c[j].pid = p
                                 /\ st.c[j].start <= ld.start /\ ld.end <= st.c[j].end
    BY <1>3, <1>5 DEF Found
  <2>3. ASSUME NEW b \in Int, Within(ld, b) PROVE Has(st.c, b, p)
    <3>1. ld.start <= b /\ b < ld.end
      BY <2>3 DEF Within
    <3>2. ld.start \in Int /\ ld.end \in Int /\ st.c[j].start \in Int /\ st.c[j].end \in Int
      BY <1>2
    <3>3. st.c[j].start <= b /\ b < st.c[j].end
      BY <2>2, <3>1, <3>2
    <3> QED BY <2>2, <3>3 DEF Has, Covers
  <2>4. \A b \in Int : \A q : Has(st.c, b, q) <=> Has(c0, b, q) \/ (q = p /\ Within(ld0, b))
    BY <1>4, <2>3
  <2> HIDE DEF r
  <2> QED BY <1>3, <1>5, <2>1, <2>4
<1>6. CASE st.status # "done" /\ st.n = 0
  <2>1. r = [st EXCEPT !.status = "failed"]
    BY <1>3, <1>6 DEF Finish
  <2>2. "failed" \in Status
    BY DEF Status
  <2>3. r.c = st.c /\ r.status = "failed"
    BY <1>1, <2>1, <2>2, StatusIs
  <2>4. st.c = c0
    <3>1. Len(c0) \in Nat /\ ~(Len(st.c) < Len(c0))
      BY <1>1, <1>2, <1>6
    <3> QED BY <1>3, <3>1 DEF Kept
  <2> HIDE DEF r
  <2> QED BY <1>3, <2>3, <2>4
<1>7. CASE st.status # "done" /\ st.n # 0
  <2> DEFINE l == NewLock(p, ld)
             k == IF st.ins = 0 THEN 0 ELSE Place(st.c, st.ins, ld.start)
             d == Insert(st.c, k, l)
             m == st.n - 1
  <2>1. r = [st EXCEPT !.status = "done", !.n = m, !.c = d]
    BY <1>3, <1>7 DEF Finish
  <2>2. l \in Lock /\ l.start = ld.start /\ l.end = ld.end /\ l.pid = p
    BY <1>2, <1>3 DEF NewLock, Lock, Asked
  <2>3. ASSUME NEW j \in DOMAIN st.c PROVE Apart(st.c[j], ld)
    <3>1. CASE st.status = "insert"
      BY <1>3, <3>1 DEF Found
    <3>2. CASE st.status # "insert"
      <4>1. st.status = "walk" /\ j < st.i
        BY <1>2, <1>3, <1>7, <3>2 DEF Ended, Status
      <4> QED BY <1>3, <4>1 DEF Passed
    <3> QED BY <3>1, <3>2
  <2>4. /\ k \in 0 .. Len(st.c)
        /\ \A j \in DOMAIN st.c : j <= k => st.c[j].start < ld.start
        /\ \A j \in DOMAIN st.c : j > k => st.c[j].start >= ld.start
    <3>1. CASE st.ins = 0
      <4>1. k = 0
        BY <3>1
      <4> HIDE DEF k
      <4> QED BY <1>2, <1>3, <3>1, <4>1 DEF Behind
    <3>2. CASE st.ins # 0
      <4>1. st.ins \in 1 .. Len(st.c) /\ st.ins \in DOMAIN st.c
        BY <1>1, <1>2, <3>2
      <4>2. st.c[st.ins].start < ld.start /\ st.c[st.ins].start \in Int
        BY <1>2, <1>3, <3>2, <4>1 DEF Behind
      <4>3. /\ k \in st.ins .. Len(st.c)
            /\ \A j \in st.ins .. Len(st.c) : j <= k /\ j > st.ins => ~(st.c[j].start >= ld.start)
            /\ k < Len(st.c) /\ ~(st.c[st.ins].start >= ld.start) => st.c[k + 1].start >= ld.start
        BY <1>2, <3>2, <4>1, PlaceIs
      <4> HIDE DEF k, ld
      <4>4. k \in 0 .. Len(st.c) /\ k \in Int
        BY <1>2, <4>1, <4>3
      <4>5. ASSUME NEW j \in DOMAIN st.c, j <= k PROVE st.c[j].start < ld.start
        <5>0. st.c[j].start \in Int /\ st.c[j].end \in Int /\ st.c[j].start < st.c[j].end /\ ld.start \in Int
          BY <1>2
        <5>1. CASE j < st.ins
          <6>1. st.c[j].end <= st.c[st.ins].start
            BY <1>3, <4>1, <5>1 DEF Chain
          <6> QED BY <4>2, <5>0, <6>1
        <5>2. CASE j = st.ins
          BY <4>2, <5>2
        <5>3. CASE j > st.ins
          <6>1. j \in st.ins .. Len(st.c)
            BY <1>2, <5>3
          <6>2. ~(st.c[j].start >= ld.start)
            BY <4>3, <4>5, <5>3, <6>1
          <6> QED BY <5>0, <6>2
        <5>4. j < st.ins \/ j = st.ins \/ j > st.ins
          BY <1>2
        <5> QED BY <5>1, <5>2, <5>3, <5>4
      <4>6. ASSUME NEW j \in DOMAIN st.c, j > k PROVE st.c[j].start >= ld.start
        <5>1. k < Len(st.c) /\ k + 1 \in DOMAIN st.c /\ k + 1 <= j
          BY <1>2, <4>4, <4>6
        <5>2. st.c[k + 1].start >= ld.start
          <6>1. ld.start \in Int
            BY <1>2
          <6>2. ~(st.c[st.ins].start >= ld.start)
            BY <4>2, <6>1
          <6> QED BY <4>3, <5>1, <6>2
        <5>3. CASE j = k + 1
          BY <5>2, <5>3
        <5>4. CASE j # k + 1
          <6>1. k + 1 < j
            BY <1>2, <4>4, <5>1, <5>4
          <6>2. st.c[k + 1].end <= st.c[j].start
            BY <1>3, <5>1, <6>1 DEF Chain
          <6>3. /\ st.c[j].start \in Int /\ st.c[k + 1].start \in Int /\ st.c[k + 1].end \in Int
                /\ st.c[k + 1].start < st.c[k + 1].end
            BY <1>2, <5>1
          <6>4. ld.start \in Int
            BY <1>2
          <6> QED BY <5>2, <6>2, <6>3, <6>4
        <5> QED BY <5>3, <5>4
      <4> QED BY <4>4, <4>5, <4>6
    <3> QED BY <3>1, <3>2
  <2> HIDE DEF l, k
  <2>5. Inserted(d, st.c, k, l)
    BY <1>2, <2>2, <2>4, InsertIs DEF Inserted
  <2>6. ASSUME NEW j \in DOMAIN st.c, j <= k PROVE st.c[j].end <= l.start
    <3>1. st.c[j].start < ld.start /\ Apart(st.c[j], ld)
      BY <2>3, <2>4, <2>6
    <3>2. /\ st.c[j].start \in Int /\ st.c[j].end \in Int /\ ld.start \in Int /\ ld.end \in Int
          /\ ld.start < ld.end
      BY <1>1, <1>2
    <3>3. st.c[j].end <= ld.start
      BY <3>1, <3>2 DEF Apart
    <3> QED BY <2>2, <3>3
  <2>7. ASSUME NEW j \in DOMAIN st.c, j > k PROVE l.end <= st.c[j].start
    <3>1. st.c[j].start >= ld.start /\ Apart(st.c[j], ld)
      BY <2>3, <2>4, <2>7
    <3>2. /\ st.c[j].start \in Int /\ st.c[j].end \in Int /\ ld.start \in Int /\ ld.end \in Int
          /\ ld.start < ld.end /\ st.c[j].start < st.c[j].end
      BY <1>1, <1>2
    <3>3. st.c[j].start >= ld.end
      BY <3>1, <3>2 DEF Apart
    <3> QED BY <2>2, <3>2, <3>3
  <2>8. Chain(d) /\ \A b \in Int : \A q : Has(d, b, q) <=> Has(st.c, b, q) \/ Covers(l, b, q)
    <3> HIDE DEF d
    <3> QED BY <1>2, <1>3, <2>2, <2>4, <2>5, <2>6, <2>7, InsertedIs
  <2>9. \A b \in Int : \A q : Covers(l, b, q) <=> q = p /\ Within(ld, b)
    BY <2>2 DEF Covers, Within
  <2>10. r.c = d /\ r.status = "done"
    BY <1>1, <2>1 DEF State
  <2>11. \A b \in Int : \A q : Has(d, b, q) <=> Has(c0, b, q) \/ (q = p /\ Within(ld0, b))
    <3> HIDE DEF d
    <3> QED BY <1>4, <2>8, <2>9
  <2> HIDE DEF r, d
  <2> QED BY <2>8, <2>10, <2>11
<1> QED BY <1>5, <1>6, <1>7

LEMMA LockingIs ==
    ASSUME WritesOnly, NEW c \in Seq(Lock), Chain(c), Proper(c), NEW p \in Proc,
           NEW ld \in Asked, ld.type = "write", ld.start < ld.end, Blocked(c, p, ld) = 0,
           NEW n \in Nat
    PROVE  Grown(Adjust(c, p, ld, n), c, p, ld)
<1> DEFINE k == Insrt(c, p, ld)
           s == Start(c, k, ld, n)
           m == n + Len(c)
           X == {st \in Loop(c, m) : Locking(st, c, ld, p)}
<1>1. Adjust(c, p, ld, n) = Flckadj(c, p, k, ld, n)
  BY DEF Adjust
<1>2. k \in 0 .. Len(c) /\ Len(c) \in Nat
  BY InsrtIs
<1>3. s \in Loop(c, m)
  BY <1>2, StartLoop
<1>4. Locking(s, c, ld, p)
  BY StartLocking
<1> HIDE DEF k, s, m
<1>5. X \subseteq State /\ s \in X
  BY <1>3, <1>4 DEF Loop
<1>6. ASSUME NEW st \in X
      PROVE  Walk(st, p) \in X /\ (~Ended(st) => Nearer(st, Walk(st, p)))
  <2>1. st \in Loop(c, m) /\ Locking(st, c, ld, p)
    OBVIOUS
  <2>2. Walk(st, p) \in Loop(c, m)
    BY <2>1, WalkLoop
  <2>3. CASE Ended(st)
    BY <2>1, <2>3, WalkEnds DEF Ended
  <2>4. CASE ~Ended(st)
    BY <2>1, <2>2, <2>4, LockingStep
  <2> QED BY <2>3, <2>4
<1> HIDE DEF X
<1>7. PICK st \in X : Ended(st) /\ Flckadj(c, p, k, ld, n) = Finish(st, p)
  BY <1>2, <1>5, <1>6, Ends DEF s
<1>8. st \in Loop(c, n + Len(c)) /\ Locking(st, c, ld, p)
  BY <1>7 DEF X, m
<1>9. n \in Nat
  OBVIOUS
<1>10. Grown(Finish(st, p), c, p, ld)
  BY <1>8, <1>9, <1>7, FinishLocking
<1> QED BY <1>1, <1>7, <1>10
-----------------------------------------------------------------------------
(* A request to unlock: from the start of its range on the locks of the    *)
(* process lose their bytes.                                               *)
Freed(d, c, p, ld, e) ==
    \A b \in Int : \A q : Has(d, b, q) <=> Has(c, b, q) /\ ~(q = p /\ ld.start <= b /\ b < e)

(* What a pass does to the lock at hand, l.                                *)
Taken(st, r, l) == /\ r.status = "walk" /\ r.i = st.i /\ Removed(r.c, st.c, st.i)
                   /\ st.ld.start <= l.start /\ l.end <= st.ld.end

Trimmed(st, r, l) == /\ r.status = "walk" /\ r.i = st.i + 1
                     /\ l.start < st.ld.start /\ st.ld.start <= l.end /\ l.end <= st.ld.end
                     /\ \E k \in Lock : /\ Replaced(r.c, st.c, st.i, k) /\ k.pid = l.pid
                                        /\ k.start = l.start /\ k.end = st.ld.start

Beheaded(st, r, l) == /\ r.status = "insert"
                      /\ st.ld.start <= l.start /\ l.start < st.ld.end /\ st.ld.end < l.end
                      /\ \E k \in Lock : /\ Replaced(r.c, st.c, st.i, k) /\ k.pid = l.pid
                                         /\ k.start = st.ld.end /\ k.end = l.end

Halved(st, r, l) ==
    /\ r.status = "insert" /\ l.start < st.ld.start /\ st.ld.end < l.end
    /\ \E k \in Lock, h \in Lock : \E d :
          /\ Replaced(d, st.c, st.i, k) /\ Inserted(r.c, d, st.i, h)
          /\ k.start = l.start /\ k.end = st.ld.start /\ k.pid = l.pid
          /\ h.start = st.ld.end /\ h.end = l.end /\ h.pid = l.pid

Releases(st, r, l) ==
    /\ r.ld = st.ld
    /\ \/ Taken(st, r, l)
       \/ Trimmed(st, r, l)
       \/ Beheaded(st, r, l)
       \/ Halved(st, r, l)
       \/ r.status = "failed" /\ r.c = st.c

(* The lock at hand ends behind the range.                                 *)
LEMMA SeveredReleases ==
    ASSUME NEW st \in State, Chain(st.c), st.i \in DOMAIN st.c, NEW p \in Proc,
           NEW l, l = st.c[st.i], l.pid = p, l.start < l.end,
           st.ld.start < st.ld.end, l.start < st.ld.end, st.ld.end < l.end
    PROVE  LET severed == Sever(st, p)
           IN  /\ severed.status = "failed" => Releases(st, severed, l)
               /\ severed.status # "failed" =>
                     /\ st.ld.start <= l.start => /\ Releases(st, Drop(StepOff(severed)), l)
                                                  /\ Releases(st, Drop(StepBack(severed)), l)
                     /\ l.start < st.ld.start => Releases(st, Cut(severed), l)
<1> DEFINE v == Sever(st, p)
<1>1. /\ st.n = 0 => v.c = st.c /\ v.status = "failed"
      /\ st.n # 0 =>
            /\ \E h \in Lock : /\ Inserted(v.c, st.c, st.i, h)
                               /\ h.start = st.ld.end /\ h.end = l.end
                               /\ h.pid = p /\ h.type = l.type
            /\ v.status = "insert"
      /\ v.i = st.i /\ v.ins = st.ins /\ v.ld = st.ld /\ v \in State
  BY SeverIs
<1>2. st.c \in Seq(Lock) /\ st.i > 0
  BY StateIs
<1> HIDE DEF v
<1>3. ASSUME v.status = "failed" PROVE Releases(st, v, l)
  <2>1. v.c = st.c
    BY <1>1, <1>3
  <2> QED BY <1>1, <1>3, <2>1 DEF Releases
<1>4. CASE v.status # "failed"
  <2>1. v.status = "insert"
    BY <1>1, <1>4
  <2>2. PICK h \in Lock : /\ Inserted(v.c, st.c, st.i, h)
                          /\ h.start = st.ld.end /\ h.end = l.end /\ h.pid = p
    BY <1>1, <1>4
  <2>3. v.i = st.i /\ v.ld = st.ld
    BY <1>1
  <2>4. ASSUME st.ld.start <= l.start, NEW s \in {StepOff(v), StepBack(v)}
        PROVE  Releases(st, Drop(s), l)
    <3> DEFINE r == Drop(s)
    <3>1. Inserted(v.c, st.c, v.i, h) /\ v.i \in DOMAIN st.c /\ v.i > 0
      BY <1>2, <2>2, <2>3
    <3>2. v \in State
      BY <1>1
    <3>3. Replaced(r.c, st.c, v.i, h) /\ r.status = v.status /\ r.ld = v.ld
      BY <1>2, <2>4, <3>1, <3>2, SeverDropIs
    <3> HIDE DEF r
    <3>4. Beheaded(st, r, l)
      BY <2>1, <2>2, <2>3, <2>4, <3>3 DEF Beheaded
    <3> QED BY <2>3, <3>3, <3>4 DEF Releases, r
  <2>5. ASSUME l.start < st.ld.start PROVE Releases(st, Cut(v), l)
    <3> DEFINE r == Cut(v)
    <3>1. Inserted(v.c, st.c, v.i, h) /\ v.i \in DOMAIN st.c
      BY <1>2, <2>2, <2>3
    <3>2. v \in State
      BY <1>1
    <3>3. r.status = v.status /\ r.ld = v.ld
      BY <1>2, <3>1, <3>2, SeverCutIs
    <3>4. PICK k, d : /\ k \in Lock /\ Replaced(d, st.c, v.i, k) /\ Inserted(r.c, d, v.i, h)
                      /\ k.start = st.c[v.i].start /\ k.end = v.ld.start
                      /\ k.pid = st.c[v.i].pid
      BY <1>2, <3>1, <3>2, SeverCutIs
    <3> HIDE DEF r
    <3>5. Halved(st, r, l)
      <4>1. /\ Replaced(d, st.c, st.i, k) /\ Inserted(r.c, d, st.i, h)
            /\ k.start = l.start /\ k.end = st.ld.start /\ k.pid = l.pid
            /\ h.start = st.ld.end /\ h.end = l.end /\ h.pid = l.pid
        BY <2>2, <2>3, <3>4
      <4>2. r.status = "insert" /\ l.start < st.ld.start /\ st.ld.end < l.end
        BY <2>1, <2>5, <3>3
      <4> QED BY <3>4, <4>1, <4>2 DEF Halved
    <3> QED BY <2>3, <3>3, <3>5 DEF Releases, r
  <2> QED BY <1>4, <2>4, <2>5 DEF v
<1> QED BY <1>3, <1>4 DEF v

LEMMA UnlockWalk ==
    ASSUME NEW st \in State, Chain(st.c), st.i \in DOMAIN st.c, st.status = "walk", NEW p \in Proc,
           NEW l, l = st.c[st.i], l.start < l.end, l.type # st.ld.type,
           st.ld.start < st.ld.end
    PROVE  LET W == Walk(st, p)
           IN  \/ W = LeaveLoop(st) /\ l.start >= st.ld.end
               \/ W = Advance(st) /\ l.pid # p
               \/ W = Advance([st EXCEPT !.ins = st.i]) /\ l.pid = p /\ l.end < st.ld.start
               \/ Releases(st, W, l) /\ l.pid = p
<1> DEFINE ld == st.ld
           W == Walk(st, p)
           severed == Sever(st, p)
<1>0. l.type # ld.type /\ ld.start < ld.end /\ l.start < l.end /\ st.i \in DOMAIN st.c
  OBVIOUS
<1>1. /\ l.start \in Int /\ l.end \in Int /\ MAXEND \in Nat
      /\ ld.start \in Int /\ ld.end \in Int /\ ~(st.i > Len(st.c)) /\ st.i > 0
  <2>1. st.c \in Seq(Lock) /\ st.ld \in Asked
    BY DEF State
  <2>2. l \in Lock /\ MAXEND \in Nat
    BY <2>1, LockAssumption
  <2>3. ~(st.i > Len(st.c)) /\ st.i > 0
    BY <2>1
  <2> QED BY <2>1, <2>2, <2>3 DEF Lock, Asked
<1>2. l.pid # p => W = IF l.start > ld.end THEN LeaveLoop(st) ELSE Advance(st)
  BY <1>1, WalkIs
<1>3. l.pid = p /\ ld.end < l.start => W = LeaveLoop(st)
  BY <1>1, WalkIs
<1>4. l.pid = p /\ ld.end = l.start /\ l.type # ld.type => W = LeaveLoop(st)
  BY <1>1, WalkIs
<1>5. l.pid = p /\ ld.start > l.end => W = Advance([st EXCEPT !.ins = st.i])
  BY <1>1, WalkIs
<1>6. l.pid = p /\ l.start < ld.end /\ ld.start <= l.end => W = Met(st, l, ld, severed)
  BY <1>1, WalkIs
<1>7. ASSUME l.pid = p, l.start < ld.end, ld.end < l.end
      PROVE  /\ severed.status = "failed" => Releases(st, severed, l)
             /\ severed.status # "failed" =>
                   /\ ld.start <= l.start => /\ Releases(st, Drop(StepOff(severed)), l)
                                             /\ Releases(st, Drop(StepBack(severed)), l)
                   /\ l.start < ld.start => Releases(st, Cut(severed), l)
  BY <1>7, SeveredReleases
<1>8. ASSUME ld.start <= l.start, l.end <= ld.end, NEW s \in {StepOff(st), StepBack(st)}
      PROVE  Releases(st, Drop(s), l)
  <2> DEFINE r == Drop(s)
  <2>1. /\ s.c = st.c /\ s.i = st.i /\ s.ld = st.ld /\ s.status = st.status /\ s \in State
    BY <1>1, <1>8, BackIs, OffIs
  <2>2. Removed(r.c, s.c, s.i) /\ r.i = s.i /\ r.ld = s.ld /\ r.status = s.status
    BY <2>1, DropIs
  <2> HIDE DEF r
  <2>3. Taken(st, r, l)
    BY <1>8, <2>1, <2>2 DEF Taken
  <2> QED BY <2>1, <2>2, <2>3 DEF Releases, r
<1>9. ASSUME l.start < ld.start, ld.start <= l.end, l.end <= ld.end PROVE Releases(st, Advance(Cut(st)), l)
  <2> DEFINE t == Cut(st)
             r == Advance(t)
  <2>1. /\ t.i = st.i /\ t.ld = st.ld /\ t.status = st.status /\ t \in State
        /\ \E k \in Lock : /\ Replaced(t.c, st.c, st.i, k)
                           /\ k.start = st.c[st.i].start /\ k.end = st.ld.start
                           /\ k.pid = st.c[st.i].pid /\ k.type = st.c[st.i].type
    BY CutIs
  <2> HIDE DEF t
  <2>2. r.c = t.c /\ r.i = t.i + 1 /\ r.ld = t.ld /\ r.status = t.status
    BY <2>1, AdvanceIs
  <2> HIDE DEF r
  <2>3. Trimmed(st, r, l)
    BY <1>9, <2>1, <2>2 DEF Trimmed
  <2> QED BY <2>1, <2>2, <2>3 DEF Releases, r, t
<1> SUFFICES \/ W = LeaveLoop(st) /\ l.start >= ld.end
             \/ W = Advance(st) /\ l.pid # p
             \/ W = Advance([st EXCEPT !.ins = st.i]) /\ l.pid = p /\ l.end < ld.start
             \/ Releases(st, W, l) /\ l.pid = p
  OBVIOUS
<1> HIDE DEF W, severed, ld
<1>10. CASE l.pid # p
  BY <1>1, <1>2, <1>10
<1>11. CASE l.pid = p /\ ld.end <= l.start
  BY <1>0, <1>1, <1>3, <1>4, <1>11
<1>12. CASE l.pid = p /\ ld.start > l.end
  BY <1>1, <1>5, <1>12
<1>13. CASE l.pid = p /\ l.start < ld.end /\ ld.start <= l.end
  <2>1. W = IF ld.start = l.start /\ ld.end >= l.end THEN Drop(StepBack(st))
            ELSE IF ld.start < l.start /\ ld.end >= l.end THEN Drop(StepOff(st))
            ELSE IF ld.start < l.start
                 THEN IF severed.status = "failed" THEN severed
                      ELSE Drop(StepOff(severed))
            ELSE IF ld.end < l.end
                 THEN IF severed.status = "failed" THEN severed
                      ELSE IF ld.start > l.start THEN Cut(severed)
                      ELSE Drop(StepBack(severed))
            ELSE Advance(Cut(st))
    BY <1>0, <1>6, <1>13, Zenon DEF Met
  <2>2. CASE l.start = ld.start
    BY <1>1, <1>7, <1>8, <1>13, <2>1, <2>2
  <2>3. CASE ld.start < l.start
    BY <1>1, <1>7, <1>8, <1>13, <2>1, <2>3
  <2>4. CASE l.start < ld.start
    BY <1>1, <1>7, <1>9, <1>13, <2>1, <2>4
  <2> QED BY <1>1, <2>2, <2>3, <2>4
<1> QED BY <1>1, <1>10, <1>11, <1>12, <1>13
(* The process has bytes of the range only from the lock at hand on; those *)
(* that it had before are free.                                            *)
Before(c, p, ld, i) == \A j \in DOMAIN c : c[j].pid = p /\ j < i => c[j].end <= ld.start

Clear(c, p, ld) == \A j \in DOMAIN c : c[j].pid = p => Apart(c[j], ld)

Unlocking(st, c0, ld0, p) ==
    /\ st.ld = ld0 /\ ld0.type = "unlock" /\ st.status # "done"
    /\ Chain(st.c)
    /\ st.status = "walk" => Before(st.c, p, ld0, st.i)
    /\ st.status = "insert" => Clear(st.c, p, ld0)
    /\ \E e \in ld0.start .. ld0.end : Freed(st.c, c0, p, ld0, e)

(* A lock loses its part of the range, and those before it had none.       *)
LEMMA FreedIs ==
    ASSUME NEW c \in Seq(Lock), Chain(c), NEW d, NEW p, NEW ld \in Asked, NEW i \in DOMAIN c,
           c[i].pid = p, Before(c, p, ld, i), NEW e \in Int, e <= c[i].end,
           \A b \in Int : \A q :
               Has(d, b, q) <=> Has(c, b, q) /\ ~(Covers(c[i], b, q) /\ ld.start <= b /\ b < e)
    PROVE  Freed(d, c, p, ld, e)
<1> SUFFICES ASSUME NEW b \in Int, Has(c, b, p), ld.start <= b, b < e
             PROVE  Covers(c[i], b, p)
  BY DEF Freed, Covers
<1>1. PICK k \in DOMAIN c : Covers(c[k], b, p)
  BY DEF Has
<1>2. /\ c[k].start \in Int /\ c[k].end \in Int /\ c[i].end \in Int /\ k \in Int /\ i \in Int
      /\ c[i].start \in Int
  BY LockIs
<1>3. ld.start \in Int
  BY LockAssumption DEF Asked
<1>4. c[k].start <= b /\ b < c[k].end /\ c[k].pid = p
  BY <1>1 DEF Covers
<1>5. CASE k < i
  <2>1. c[k].end <= ld.start
    BY <1>4, <1>5 DEF Before
  <2> QED BY <1>2, <1>3, <1>4, <2>1
<1>6. CASE k > i
  <2>1. c[i].end <= c[k].start
    BY <1>6 DEF Chain
  <2>2. b < e /\ e <= c[i].end
    OBVIOUS
  <2> QED BY <1>2, <1>4, <2>1, <2>2
<1>7. CASE k = i
  BY <1>1, <1>7
<1> QED BY <1>2, <1>5, <1>6, <1>7

LEMMA FreedMore ==
    ASSUME NEW c0, NEW c, NEW d, NEW p, NEW ld \in Asked,
           NEW e1 \in ld.start .. ld.end, NEW e2 \in ld.start .. ld.end,
           Freed(c, c0, p, ld, e1), Freed(d, c, p, ld, e2)
    PROVE  \E e \in ld.start .. ld.end : Freed(d, c0, p, ld, e)
<1>1. ld.start \in Int /\ ld.end \in Int
  BY LockAssumption DEF Asked
<1>2. PICK e \in ld.start .. ld.end : \A b \in Int : b < e <=> b < e1 \/ b < e2
  <2>1. CASE e1 <= e2
    <3>1. \A b \in Int : b < e2 <=> b < e1 \/ b < e2
      BY <1>1, <2>1
    <3> QED BY <3>1
  <2>2. CASE ~(e1 <= e2)
    <3>1. \A b \in Int : b < e1 <=> b < e1 \/ b < e2
      BY <1>1, <2>2
    <3> QED BY <3>1
  <2> QED BY <2>1, <2>2
<1>3. Freed(d, c0, p, ld, e)
  BY <1>2 DEF Freed
<1> QED BY <1>3

(* What a pass that takes something away leaves.                           *)
LEMMA ReleasesIs ==
    ASSUME NEW st \in State, Chain(st.c), Proper(st.c), st.i \in DOMAIN st.c, NEW p,
           NEW l, l = st.c[st.i], l.pid = p, st.ld.start < st.ld.end,
           Before(st.c, p, st.ld, st.i), NEW r, r \in State, Releases(st, r, l)
    PROVE  /\ Chain(r.c)
           /\ r.status = "walk" => Before(r.c, p, st.ld, r.i)
           /\ r.status = "insert" => Clear(r.c, p, st.ld)
           /\ \E e \in st.ld.start .. st.ld.end : Freed(r.c, st.c, p, st.ld, e)
           /\ r.status # "done" /\ Nearer(st, r)
<1> DEFINE c == st.c
           i == st.i
           ld == st.ld
<1>1. /\ c \in Seq(Lock) /\ Len(c) \in Nat /\ DOMAIN c = 1 .. Len(c) /\ i \in Nat
      /\ ld.start \in Int /\ ld.end \in Int /\ ld \in Asked /\ ld.start < ld.end
      /\ \A j \in DOMAIN c : c[j].start \in Int /\ c[j].end \in Int /\ c[j].start < c[j].end
  BY StateIs DEF Proper
<1>2. /\ i \in DOMAIN c /\ l = c[i] /\ l.start \in Int /\ l.end \in Int /\ l.start < l.end
      /\ l.pid = p /\ Chain(c) /\ Before(c, p, ld, i)
  BY <1>1
<1>3. r.c \in Seq(Lock) /\ Len(r.c) \in Nat /\ DOMAIN r.c = 1 .. Len(r.c) /\ r.i \in Nat
  BY StateIs
<1>4. \/ Taken(st, r, l) \/ Trimmed(st, r, l) \/ Beheaded(st, r, l) \/ Halved(st, r, l)
      \/ r.status = "failed" /\ r.c = c
  BY DEF Releases
<1>5. \A k \in DOMAIN c : (k < i => c[k].end <= l.start) /\ (k > i => l.end <= c[k].start)
  BY <1>2 DEF Chain
<1> SUFFICES /\ Chain(r.c)
             /\ r.status = "walk" => Before(r.c, p, ld, r.i)
             /\ r.status = "insert" => Clear(r.c, p, ld)
             /\ \E e \in ld.start .. ld.end : Freed(r.c, c, p, ld, e)
             /\ r.status # "done" /\ Nearer(st, r)
  OBVIOUS
<1>6. CASE Taken(st, r, l)
  <2>1. /\ r.status = "walk" /\ r.i = i /\ Removed(r.c, c, i)
        /\ ld.start <= l.start /\ l.end <= ld.end
    BY <1>6 DEF Taken
  <2> HIDE DEF c, i, ld
  <2>2. /\ \A j \in DOMAIN r.c : \E k \in DOMAIN c : /\ r.c[j] = c[k] /\ k # i
                                                     /\ (j < i => k = j) /\ (j >= i => k = j + 1)
        /\ Chain(r.c)
        /\ \A b \in Int : \A q : Has(c, b, q) <=> Has(r.c, b, q) \/ Covers(c[i], b, q)
    <3>1. c \in Seq(Lock)
      BY <1>1
    <3>2. Chain(c)
      BY <1>2
    <3>3. i \in DOMAIN c
      BY <1>2
    <3>4. Removed(r.c, c, i)
      BY <2>1
    <3> QED BY <3>1, <3>2, <3>3, <3>4, RemovedIs
  <2>3. ASSUME NEW j \in DOMAIN r.c, r.c[j].pid = p, j < i PROVE r.c[j].end <= ld.start
    <3>1. PICK k \in DOMAIN c : r.c[j] = c[k] /\ k = j
      BY <2>2, <2>3
    <3> QED BY <1>2, <2>3, <3>1 DEF Before
  <2>4. ASSUME NEW b \in Int, NEW q, Covers(c[i], b, q)
        PROVE  ~Has(r.c, b, q) /\ ld.start <= b /\ b < l.end
    <3>1. l.start <= b /\ b < l.end
      BY <1>2, <2>4 DEF Covers
    <3>2. ld.start <= b
      BY <1>1, <1>2, <2>1, <3>1
    <3>3. ASSUME Has(r.c, b, q) PROVE FALSE
      <4>1. PICK j \in DOMAIN r.c : Covers(r.c[j], b, q)
        BY <3>3 DEF Has
      <4>2. PICK k \in DOMAIN c : r.c[j] = c[k] /\ k # i
        BY <2>2
      <4> QED BY <1>1, <1>2, <2>4, <4>1, <4>2, OneLock DEF Covers
    <3> QED BY <3>1, <3>2, <3>3
  <2>5. \A b \in Int : \A q :
            Has(r.c, b, q) <=> Has(c, b, q) /\ ~(Covers(c[i], b, q) /\ ld.start <= b /\ b < l.end)
    BY <2>2, <2>4
  <2>6. Freed(r.c, c, p, ld, l.end)
    <3>1. l.end \in Int /\ l.end <= c[i].end
      BY <1>2
    <3>2. c \in Seq(Lock) /\ ld \in Asked /\ i \in DOMAIN c /\ c[i].pid = p /\ Chain(c)
          /\ Before(c, p, ld, i)
      BY <1>1, <1>2
    <3> QED BY <2>5, <3>1, <3>2, FreedIs
  <2>7. l.end \in ld.start .. ld.end
    BY <1>1, <1>2, <2>1
  <2>8. Before(r.c, p, ld, r.i)
    BY <2>1, <2>3 DEF Before
  <2>9. Nearer(st, r)
    BY <1>1, <2>1 DEF Nearer, Removed, c, i
  <2> QED BY <2>1, <2>2, <2>6, <2>7, <2>8, <2>9
<1>7. CASE Trimmed(st, r, l)
  <2>1. r.status = "walk" /\ r.i = i + 1 /\ l.start < ld.start /\ ld.start <= l.end /\ l.end <= ld.end
    BY <1>7 DEF Trimmed
  <2>2. PICK k \in Lock : /\ Replaced(r.c, c, i, k) /\ k.pid = l.pid
                          /\ k.start = l.start /\ k.end = ld.start
    BY <1>7 DEF Trimmed
  <2> HIDE DEF c, i, ld
  <2>3. k.pid = c[i].pid /\ c[i].start <= k.start /\ k.end <= c[i].end
    BY <1>2, <2>1, <2>2
  <2>4. /\ Chain(r.c)
        /\ \A b \in Int : \A q : Has(r.c, b, q) <=> /\ Has(c, b, q)
                                                    /\ ~(Covers(c[i], b, q) /\ ~Covers(k, b, q))
    BY <1>1, <1>2, <2>2, <2>3, ReplacedIs, SMTT(30)
  <2>5. ASSUME NEW b \in Int, NEW q
        PROVE  (Covers(c[i], b, q) /\ ~Covers(k, b, q)) <=>
               (Covers(c[i], b, q) /\ ld.start <= b /\ b < l.end)
    BY <1>1, <1>2, <2>1, <2>2 DEF Covers
  <2>6. Freed(r.c, c, p, ld, l.end)
    <3>1. l.end \in Int /\ l.end <= c[i].end
      BY <1>2
    <3>2. c \in Seq(Lock) /\ ld \in Asked /\ i \in DOMAIN c /\ c[i].pid = p /\ Chain(c)
          /\ Before(c, p, ld, i)
      BY <1>1, <1>2
    <3>3. \A b \in Int : \A q :
            Has(r.c, b, q) <=> Has(c, b, q) /\ ~(Covers(c[i], b, q) /\ ld.start <= b /\ b < l.end)
      BY <2>4, <2>5
    <3> QED BY <3>1, <3>2, <3>3, FreedIs
  <2>7. l.end \in ld.start .. ld.end
    BY <1>1, <1>2, <2>1
  <2>8. Before(r.c, p, ld, r.i)
    <3>1. ASSUME NEW j \in DOMAIN r.c, r.c[j].pid = p, j < i + 1 PROVE r.c[j].end <= ld.start
      <4>1. CASE j = i
        <5>1. r.c[j].end = ld.start
          BY <2>2, <4>1 DEF Replaced
        <5> QED BY <1>1, <5>1
      <4>2. CASE j # i
        <5>1. j < i /\ j \in DOMAIN c /\ r.c[j] = c[j]
          BY <1>1, <1>3, <2>2, <3>1, <4>2 DEF Replaced
        <5> QED BY <1>2, <3>1, <5>1 DEF Before
      <4> QED BY <4>1, <4>2
    <3> QED BY <2>1, <3>1 DEF Before
  <2>9. Nearer(st, r)
    BY <1>1, <2>1, <2>2 DEF Nearer, Replaced, c, i
  <2> QED BY <2>1, <2>4, <2>6, <2>7, <2>8, <2>9
<1>8. CASE Beheaded(st, r, l)
  <2>1. r.status = "insert" /\ ld.start <= l.start /\ l.start < ld.end /\ ld.end < l.end
    BY <1>8 DEF Beheaded
  <2>2. PICK k \in Lock : /\ Replaced(r.c, c, i, k) /\ k.pid = l.pid
                          /\ k.start = ld.end /\ k.end = l.end
    BY <1>8 DEF Beheaded
  <2> HIDE DEF c, i, ld
  <2>3. k.pid = c[i].pid /\ c[i].start <= k.start /\ k.end <= c[i].end
    BY <1>1, <1>2, <2>1, <2>2
  <2>4. /\ Chain(r.c)
        /\ \A b \in Int : \A q : Has(r.c, b, q) <=> /\ Has(c, b, q)
                                                    /\ ~(Covers(c[i], b, q) /\ ~Covers(k, b, q))
    BY <1>1, <1>2, <2>2, <2>3, ReplacedIs, SMTT(30)
  <2>5. ASSUME NEW b \in Int, NEW q
        PROVE  (Covers(c[i], b, q) /\ ~Covers(k, b, q)) <=>
               (Covers(c[i], b, q) /\ ld.start <= b /\ b < ld.end)
    BY <1>1, <1>2, <2>1, <2>2 DEF Covers
  <2>6. Freed(r.c, c, p, ld, ld.end)
    <3>1. ld.end \in Int /\ ld.end <= c[i].end
      BY <1>1, <1>2, <2>1
    <3>2. c \in Seq(Lock) /\ ld \in Asked /\ i \in DOMAIN c /\ c[i].pid = p /\ Chain(c)
          /\ Before(c, p, ld, i)
      BY <1>1, <1>2
    <3>3. \A b \in Int : \A q :
            Has(r.c, b, q) <=> Has(c, b, q) /\ ~(Covers(c[i], b, q) /\ ld.start <= b /\ b < ld.end)
      BY <2>4, <2>5
    <3> QED BY <3>1, <3>2, <3>3, FreedIs
  <2>7. ld.end \in ld.start .. ld.end
    BY <1>1
  <2>8. Clear(r.c, p, ld)
    <3>1. ASSUME NEW j \in DOMAIN r.c, r.c[j].pid = p PROVE Apart(r.c[j], ld)
      <4>0. j \in DOMAIN c /\ j \in Int /\ i \in Int
        BY <1>1, <2>2 DEF Replaced
      <4>1. CASE j = i
        <5>1. r.c[j].start = ld.end
          BY <2>2, <4>1 DEF Replaced
        <5> QED BY <1>1, <5>1 DEF Apart
      <4>2. CASE j < i
        <5>1. r.c[j] = c[j]
          BY <2>2, <4>0, <4>2 DEF Replaced
        <5> QED BY <1>2, <3>1, <4>0, <4>2, <5>1 DEF Before, Apart
      <4>3. CASE j > i
        <5>1. r.c[j] = c[j] /\ l.end <= c[j].start
          BY <1>5, <2>2, <4>0, <4>3 DEF Replaced, c, i
        <5>2. c[j].start \in Int /\ ld.end \in Int
          BY <1>1, <4>0
        <5>3. c[j].start >= ld.end
          BY <1>2, <2>1, <5>1, <5>2
        <5> QED BY <5>1, <5>3 DEF Apart
      <4> QED BY <4>0, <4>1, <4>2, <4>3
    <3> QED BY <3>1 DEF Clear
  <2>9. Nearer(st, r)
    BY <2>1 DEF Nearer
  <2> QED BY <2>1, <2>4, <2>6, <2>7, <2>8, <2>9
<1>9. CASE Halved(st, r, l)
  <2>1. r.status = "insert" /\ l.start < ld.start /\ ld.end < l.end
    BY <1>9 DEF Halved
  <2>2. PICK k, h, d :
          /\ k \in Lock /\ h \in Lock
          /\ Replaced(d, c, i, k) /\ Inserted(r.c, d, i, h)
          /\ k.start = l.start /\ k.end = ld.start /\ k.pid = l.pid
          /\ h.start = ld.end /\ h.end = l.end /\ h.pid = l.pid
    BY <1>9 DEF Halved
  <2> HIDE DEF c, i, ld
  <2>3. k.pid = c[i].pid /\ c[i].start <= k.start /\ k.end <= c[i].end
    BY <1>1, <1>2, <2>1, <2>2
  <2>4. /\ Chain(d)
        /\ \A b \in Int : \A q : Has(d, b, q) <=> /\ Has(c, b, q)
                                                  /\ ~(Covers(c[i], b, q) /\ ~Covers(k, b, q))
    BY <1>1, <1>2, <2>2, <2>3, ReplacedIs
  <2>5. /\ d \in Seq(Lock) /\ DOMAIN d = DOMAIN c /\ Len(d) = Len(c) /\ d[i] = k
        /\ \A j \in DOMAIN c : j # i => d[j] = c[j]
    BY <1>1, <2>2 DEF Replaced
  <2>6. ASSUME NEW j \in DOMAIN d, j <= i PROVE d[j].end <= h.start
    <3>1. CASE j = i
      BY <1>1, <2>2, <2>5, <3>1
    <3>2. CASE j # i
      <4>1. j < i /\ j \in DOMAIN c /\ d[j] = c[j]
        BY <1>1, <2>5, <2>6, <3>2
      <4>2. c[j].end <= l.start
        BY <1>5, <4>1 DEF c, i
      <4>3. c[j].end \in Int /\ ld.start \in Int /\ ld.end \in Int /\ ld.start < ld.end
        BY <1>1, <4>1
      <4>4. c[j].end <= ld.end
        BY <1>2, <2>1, <4>2, <4>3
      <4> QED BY <2>2, <4>1, <4>4
    <3> QED BY <3>1, <3>2
  <2>7. ASSUME NEW j \in DOMAIN d, j > i PROVE h.end <= d[j].start
    <3>1. j \in DOMAIN c /\ d[j] = c[j]
      BY <1>1, <2>5, <2>7
    <3>2. l.end <= c[j].start
      BY <1>5, <2>7, <3>1 DEF c, i
    <3> QED BY <2>2, <3>1, <3>2
  <2>8. Chain(r.c) /\ \A b \in Int : \A q : Has(r.c, b, q) <=> Has(d, b, q) \/ Covers(h, b, q)
    <3>1. i \in 0 .. Len(d)
      BY <1>1, <1>2, <2>5
    <3>2. d \in Seq(Lock)
      BY <2>5
    <3>3. Chain(d)
      BY <2>4
    <3>4. Inserted(r.c, d, i, h)
      BY <2>2
    <3>5. \A j \in DOMAIN d : j <= i => d[j].end <= h.start
      BY <2>6
    <3>6. \A j \in DOMAIN d : j > i => h.end <= d[j].start
      BY <2>7
    <3> QED BY <2>2, <3>1, <3>2, <3>3, <3>4, <3>5, <3>6, InsertedIs
  <2>9. ASSUME NEW b \in Int, NEW q
        PROVE  /\ Covers(c[i], b, q) => ((Covers(k, b, q) \/ Covers(h, b, q)) <=>
                                         ~(ld.start <= b /\ b < ld.end))
               /\ Covers(h, b, q) => Covers(c[i], b, q)
    BY <1>1, <1>2, <2>1, <2>2 DEF Covers
  <2>10. \A b \in Int : \A q : Covers(c[i], b, q) => Has(c, b, q)
    BY <1>2 DEF Has
  <2>11. \A b \in Int : \A q :
            Has(r.c, b, q) <=> Has(c, b, q) /\ ~(Covers(c[i], b, q) /\ ld.start <= b /\ b < ld.end)
    BY <2>4, <2>8, <2>9, <2>10
  <2>12. Freed(r.c, c, p, ld, ld.end)
    <3>1. ld.end \in Int /\ ld.end <= c[i].end
      BY <1>1, <1>2, <2>1
    <3>2. c \in Seq(Lock) /\ ld \in Asked /\ i \in DOMAIN c /\ c[i].pid = p /\ Chain(c)
          /\ Before(c, p, ld, i)
      BY <1>1, <1>2
    <3> QED BY <2>11, <3>1, <3>2, FreedIs
  <2>13. ld.end \in ld.start .. ld.end
    BY <1>1
  <2>14. Clear(r.c, p, ld)
    <3>1. ASSUME NEW j \in DOMAIN d, d[j].pid = p PROVE Apart(d[j], ld)
      <4>0. j \in DOMAIN c /\ j \in Int /\ i \in Int
        BY <1>1, <2>5
      <4>1. CASE j = i
        <5>1. d[j].end = ld.start
          BY <2>2, <2>5, <4>1
        <5> QED BY <1>1, <5>1 DEF Apart
      <4>2. CASE j < i
        <5>1. d[j] = c[j]
          BY <2>5, <4>0, <4>2
        <5> QED BY <1>2, <3>1, <4>0, <4>2, <5>1 DEF Before, Apart
      <4>3. CASE j > i
        <5>1. d[j] = c[j] /\ h.end <= d[j].start /\ h.end = l.end
          BY <2>2, <2>5, <2>7, <4>0, <4>3
        <5>2. c[j].start \in Int /\ ld.end \in Int
          BY <1>1, <4>0
        <5>3. c[j].start >= ld.end
          BY <1>2, <2>1, <5>1, <5>2
        <5> QED BY <5>1, <5>3 DEF Apart
      <4> QED BY <4>0, <4>1, <4>2, <4>3
    <3>2. Apart(h, ld)
      BY <1>1, <2>2 DEF Apart
    <3>3. ASSUME NEW j \in DOMAIN r.c, r.c[j].pid = p PROVE Apart(r.c[j], ld)
      <4>1. /\ j \in 1 .. Len(d) + 1 /\ Len(d) \in Nat /\ DOMAIN d = 1 .. Len(d)
            /\ i \in 1 .. Len(d)
        BY <1>1, <1>2, <1>3, <2>2, <2>5 DEF Inserted
      <4>2. CASE j <= i
        <5>1. j \in 1 .. i /\ j \in DOMAIN d
          BY <4>1, <4>2
        <5>2. r.c[j] = d[j]
          BY <2>2, <5>1 DEF Inserted
        <5> QED BY <3>1, <3>3, <5>1, <5>2
      <4>3. CASE j = i + 1
        BY <2>2, <3>2, <4>3 DEF Inserted
      <4>4. CASE j > i + 1
        <5>1. j \in i + 2 .. Len(d) + 1 /\ j - 1 \in DOMAIN d
          BY <4>1, <4>4
        <5>2. r.c[j] = d[j - 1]
          BY <2>2, <5>1 DEF Inserted
        <5> QED BY <3>1, <3>3, <5>1, <5>2
      <4> QED BY <4>1, <4>2, <4>3, <4>4
    <3> QED BY <3>3 DEF Clear
  <2>15. Nearer(st, r)
    BY <2>1 DEF Nearer
  <2> QED BY <2>1, <2>8, <2>12, <2>13, <2>14, <2>15
<1>10. CASE r.status = "failed" /\ r.c = c
  <2>1. Freed(r.c, c, p, ld, ld.start) /\ ld.start \in ld.start .. ld.end
    <3>1. \A b \in Int : ~(ld.start <= b /\ b < ld.start)
      BY <1>1
    <3> QED BY <1>1, <1>10, <3>1 DEF Freed
  <2>2. Nearer(st, r)
    BY <1>10 DEF Nearer
  <2> QED BY <1>2, <1>10, <2>1, <2>2
<1> QED BY <1>4, <1>6, <1>7, <1>8, <1>9, <1>10
LEMMA UnlockingStep ==
    ASSUME WritesOnly, NEW c0 \in Seq(Lock), NEW ld0, NEW p \in Proc, NEW m,
           NEW st \in Loop(c0, m), Unlocking(st, c0, ld0, p), ~Ended(st)
    PROVE  Unlocking(Walk(st, p), c0, ld0, p) /\ Nearer(st, Walk(st, p))
<1> DEFINE i == st.i
           l == st.c[st.i]
           ld == st.ld
           W == Walk(st, p)
<1>1. /\ st \in State /\ st.status = "walk" /\ Proper(st.c) /\ 1 <= st.i
      /\ ld.start < ld.end /\ st.i <= Len(st.c) /\ W \in State
  <2>1. st \in State /\ st.i \in Nat /\ Len(st.c) \in Nat
    BY StateIs DEF Loop
  <2>2. W \in State
    BY WalkLoop DEF Loop
  <2> QED BY <2>1, <2>2 DEF Loop, Ended
<1>2. /\ st.c \in Seq(Lock) /\ Len(st.c) \in Nat /\ DOMAIN st.c = 1 .. Len(st.c)
      /\ i \in Nat /\ ld.start \in Int /\ ld.end \in Int
      /\ \A j \in DOMAIN st.c : /\ st.c[j].start \in Int /\ st.c[j].end \in Int
                                /\ st.c[j].start < st.c[j].end
  BY <1>1, StateIs DEF Proper
<1>3. /\ i \in DOMAIN st.c /\ l \in Lock /\ l.start \in Int /\ l.end \in Int /\ l.start < l.end
  BY <1>1, <1>2
<1>4. /\ ld = ld0 /\ ld.type = "unlock" /\ Chain(st.c) /\ Before(st.c, p, ld, i)
  BY <1>1 DEF Unlocking
<1>a. PICK e0 \in ld.start .. ld.end : Freed(st.c, c0, p, ld, e0)
  BY DEF Unlocking
<1>5. l.type # ld.type
  <2>1. l.type = "write"
    BY <1>3 DEF WritesOnly, Lock
  <2> QED BY <1>4, <2>1
<1>6. \/ W = LeaveLoop(st) /\ l.start >= ld.end
      \/ W = Advance(st) /\ l.pid # p
      \/ W = Advance([st EXCEPT !.ins = st.i]) /\ l.pid = p /\ l.end < ld.start
      \/ Releases(st, W, l) /\ l.pid = p
  BY <1>1, <1>3, <1>4, <1>5, UnlockWalk
<1>7. \A k \in DOMAIN st.c : k > i => l.end <= st.c[k].start
  BY <1>2, <1>3, <1>4 DEF Chain
<1> HIDE DEF W, l, ld, i
<1>8. CASE W = LeaveLoop(st) /\ l.start >= ld.end
  <2>1. W.c = st.c /\ W.ld = ld /\ W.status = "insert"
    BY <1>1, <1>8, LeaveIs DEF ld
  <2>2. ASSUME NEW j \in DOMAIN st.c, st.c[j].pid = p PROVE Apart(st.c[j], ld)
    <3>1. CASE j < i
      BY <1>4, <2>2, <3>1 DEF Before, Apart
    <3>2. CASE j = i
      BY <1>8, <3>2 DEF Apart, l, i
    <3>3. CASE j > i
      <4>1. l.end <= st.c[j].start
        BY <1>7, <3>3
      <4>2. st.c[j].start \in Int /\ l.start < l.end /\ l.start \in Int /\ l.end \in Int
        BY <1>2, <1>3
      <4>3. ld.end \in Int /\ l.start >= ld.end
        BY <1>2, <1>8
      <4>4. st.c[j].start >= ld.end
        BY <4>1, <4>2, <4>3
      <4> QED BY <4>4 DEF Apart
    <3> QED BY <1>2, <3>1, <3>2, <3>3
  <2>3. Clear(W.c, p, ld)
    BY <2>1, <2>2 DEF Clear
  <2>4. Freed(W.c, c0, p, ld, e0)
    BY <1>a, <2>1
  <2>5. Unlocking(W, c0, ld0, p)
    BY <1>4, <2>1, <2>3, <2>4 DEF Unlocking
  <2>6. Nearer(st, W)
    BY <2>1 DEF Nearer
  <2> QED BY <2>5, <2>6 DEF W
<1>9. CASE W = Advance(st) /\ l.pid # p
  <2>1. W.c = st.c /\ W.i = i + 1 /\ W.ld = ld /\ W.status = "walk"
    BY <1>1, <1>9, AdvanceIs DEF ld, i
  <2>2. Before(W.c, p, ld, W.i)
    <3>1. ASSUME NEW j \in DOMAIN st.c, st.c[j].pid = p, j < i + 1 PROVE st.c[j].end <= ld.start
      <4>1. j # i
        BY <1>9, <3>1 DEF l, i
      <4>2. j < i
        BY <1>2, <3>1, <4>1
      <4> QED BY <1>4, <3>1, <4>2 DEF Before
    <3> QED BY <2>1, <3>1 DEF Before
  <2>3. Freed(W.c, c0, p, ld, e0)
    BY <1>a, <2>1
  <2>4. Unlocking(W, c0, ld0, p)
    BY <1>4, <2>1, <2>2, <2>3 DEF Unlocking
  <2>5. Nearer(st, W)
    BY <1>2, <2>1 DEF Nearer, i
  <2> QED BY <2>4, <2>5 DEF W
<1>10. CASE W = Advance([st EXCEPT !.ins = st.i]) /\ l.pid = p /\ l.end < ld.start
  <2>1. W.c = st.c /\ W.i = i + 1 /\ W.ld = ld /\ W.status = "walk"
    BY <1>1, <1>10, PassIs DEF ld, i
  <2>2. Before(W.c, p, ld, W.i)
    <3>1. ASSUME NEW j \in DOMAIN st.c, st.c[j].pid = p, j < i + 1 PROVE st.c[j].end <= ld.start
      <4>1. CASE j = i
        <5>1. st.c[j].end = l.end
          BY <4>1 DEF l, i
        <5> QED BY <1>2, <1>3, <1>10, <5>1
      <4>2. CASE j # i
        <5>1. j < i
          BY <1>2, <3>1, <4>2
        <5> QED BY <1>4, <3>1, <5>1 DEF Before
      <4> QED BY <4>1, <4>2
    <3> QED BY <2>1, <3>1 DEF Before
  <2>3. Freed(W.c, c0, p, ld, e0)
    BY <1>a, <2>1
  <2>4. Unlocking(W, c0, ld0, p)
    BY <1>4, <2>1, <2>2, <2>3 DEF Unlocking
  <2>5. Nearer(st, W)
    BY <1>2, <2>1 DEF Nearer, i
  <2> QED BY <2>4, <2>5 DEF W
<1>11. CASE Releases(st, W, l) /\ l.pid = p
  <2>1. /\ Chain(W.c)
        /\ W.status = "walk" => Before(W.c, p, ld, W.i)
        /\ W.status = "insert" => Clear(W.c, p, ld)
        /\ \E e \in ld.start .. ld.end : Freed(W.c, st.c, p, ld, e)
        /\ W.status # "done" /\ Nearer(st, W)
    BY <1>1, <1>3, <1>4, <1>11, ReleasesIs DEF l, i, ld
  <2>2. PICK e \in ld.start .. ld.end : Freed(W.c, st.c, p, ld, e)
    BY <2>1
  <2>3. ld \in Asked
    BY <1>1, StateIs DEF ld
  <2>4. \E x \in ld.start .. ld.end : Freed(W.c, c0, p, ld, x)
    BY <1>a, <2>2, <2>3, FreedMore
  <2>5. W.ld = ld
    BY <1>11 DEF Releases, ld
  <2>6. Unlocking(W, c0, ld0, p)
    BY <1>4, <2>1, <2>4, <2>5 DEF Unlocking
  <2> QED BY <2>1, <2>6 DEF W
<1> QED BY <1>6, <1>8, <1>9, <1>10, <1>11

(* What a request to unlock makes of the chain c.                          *)
Shrunk(r, c, p, ld) ==
    /\ r.status \in {"done", "failed"} /\ Chain(r.c)
    /\ r.status = "done" => Freed(r.c, c, p, ld, ld.end)
    /\ r.status = "failed" => \E e \in ld.start .. ld.end : Freed(r.c, c, p, ld, e)

LEMMA FinishUnlocking ==
    ASSUME NEW c0 \in Seq(Lock), NEW ld0, NEW p, NEW m,
           NEW st \in Loop(c0, m), Unlocking(st, c0, ld0, p), Ended(st)
    PROVE  Shrunk(Finish(st, p), c0, p, ld0)
<1>1. /\ st \in State /\ st.ld = ld0 /\ ld0.type = "unlock" /\ st.status # "done" /\ Chain(st.c)
      /\ st.status = "walk" => Before(st.c, p, ld0, st.i)
      /\ st.status = "insert" => Clear(st.c, p, ld0)
      /\ Proper(st.c)
  BY DEF Unlocking, Loop
<1>2. PICK e \in ld0.start .. ld0.end : Freed(st.c, c0, p, ld0, e)
  BY DEF Unlocking
<1>3. CASE st.status = "failed"
  <2>1. Finish(st, p) = st
    BY <1>3 DEF Finish
  <2> QED BY <1>1, <1>2, <1>3, <2>1 DEF Shrunk
<1>4. CASE st.status # "failed"
  <2> DEFINE r == Finish(st, p)
  <2>1. r = [st EXCEPT !.status = "done"]
    BY <1>1, <1>4 DEF Finish
  <2>2. "done" \in Status
    BY DEF Status
  <2>3. r.c = st.c /\ r.status = "done"
    BY <1>1, <2>1, <2>2, StatusIs
  <2> HIDE DEF r
  <2>4. /\ st.c \in Seq(Lock) /\ DOMAIN st.c = 1 .. Len(st.c) /\ st.i \in Nat /\ st.status \in Status
        /\ Len(st.c) \in Nat
        /\ ld0.start \in Int /\ ld0.end \in Int
    BY <1>1, StateIs
  <2>5. ASSUME NEW j \in DOMAIN st.c, st.c[j].pid = p PROVE Apart(st.c[j], ld0)
    <3>1. CASE st.status = "walk"
      <4>1. j < st.i
        BY <2>4, <3>1 DEF Ended
      <4> QED BY <1>1, <2>5, <3>1, <4>1 DEF Before, Apart
    <3>2. CASE st.status # "walk"
      <4>1. st.status = "insert"
        BY <1>1, <1>4, <2>4, <3>2 DEF Status
      <4> QED BY <1>1, <2>5, <4>1 DEF Clear
    <3> QED BY <3>1, <3>2
  <2>6. ASSUME NEW b \in Int, Has(st.c, b, p), ld0.start <= b, b < ld0.end PROVE FALSE
    <3>1. PICK j \in DOMAIN st.c : Covers(st.c[j], b, p)
      BY <2>6 DEF Has
    <3>2. st.c[j].start \in Int /\ st.c[j].end \in Int
      BY <2>4, LockIs
    <3>3. st.c[j].start <= b /\ b < st.c[j].end /\ st.c[j].pid = p
      BY <3>1 DEF Covers
    <3>4. st.c[j].end <= ld0.start \/ st.c[j].start >= ld0.end
      BY <2>5, <3>3 DEF Apart
    <3>5. ld0.start <= b /\ b < ld0.end /\ ld0.start \in Int /\ ld0.end \in Int
      BY <2>4, <2>6
    <3> QED BY <3>2, <3>3, <3>4, <3>5
  <2>7. \A b \in Int : b < e => b < ld0.end
    BY <1>2, <2>4
  <2>8. Freed(st.c, c0, p, ld0, ld0.end)
    <3>1. ASSUME NEW b \in Int, NEW q
          PROVE  Has(st.c, b, q) <=> Has(c0, b, q) /\ ~(q = p /\ ld0.start <= b /\ b < ld0.end)
      BY <1>2, <2>6, <2>7 DEF Freed
    <3> QED BY <3>1 DEF Freed
  <2> QED BY <1>1, <2>3, <2>8 DEF Shrunk, r
<1> QED BY <1>3, <1>4

LEMMA UnlockingIs ==
    ASSUME WritesOnly, NEW c \in Seq(Lock), Chain(c), Proper(c), NEW p \in Proc,
           NEW ld \in Asked, ld.type = "unlock", ld.start < ld.end, NEW n \in Nat
    PROVE  Shrunk(Adjust(c, p, ld, n), c, p, ld)
<1> DEFINE k == IF c = <<>> THEN 0 ELSE 1
           s == Start(c, k, ld, n)
           m == n + Len(c)
           X == {st \in Loop(c, m) : Unlocking(st, c, ld, p)}
<1>1. Adjust(c, p, ld, n) = Flckadj(c, p, k, ld, n)
  BY DEF Adjust
<1>2. k \in 0 .. Len(c) /\ Len(c) \in Nat
  <2>1. Len(c) \in Nat /\ (c # <<>> => Len(c) > 0)
    OBVIOUS
  <2> QED BY <2>1
<1>3. s \in Loop(c, m)
  BY <1>2, StartLoop
<1>4. Unlocking(s, c, ld, p)
  <2>1. s.c = c /\ s.ld = ld /\ s.status = "walk" /\ s.i = 1
    BY DEF Start
  <2>2. ld.start \in Int /\ ld.end \in Int
    BY LockAssumption DEF Asked
  <2>3. Freed(c, c, p, ld, ld.start) /\ ld.start \in ld.start .. ld.end
    <3>1. \A b \in Int : ~(ld.start <= b /\ b < ld.start)
      BY <2>2
    <3> QED BY <2>2, <3>1 DEF Freed
  <2>4. Before(c, p, ld, 1)
    <3>1. \A j \in DOMAIN c : ~(j < 1)
      BY <1>2
    <3> QED BY <3>1 DEF Before
  <2> HIDE DEF s
  <2> QED BY <2>1, <2>3, <2>4 DEF Unlocking
<1> HIDE DEF k, s, m
<1>5. X \subseteq State /\ s \in X
  BY <1>3, <1>4 DEF Loop
<1>6. ASSUME NEW st \in X
      PROVE  Walk(st, p) \in X /\ (~Ended(st) => Nearer(st, Walk(st, p)))
  <2>1. st \in Loop(c, m) /\ Unlocking(st, c, ld, p)
    OBVIOUS
  <2>2. Walk(st, p) \in Loop(c, m)
    BY <2>1, WalkLoop
  <2>3. CASE Ended(st)
    BY <2>1, <2>3, WalkEnds DEF Ended
  <2>4. CASE ~Ended(st)
    BY <2>1, <2>2, <2>4, UnlockingStep
  <2> QED BY <2>3, <2>4
<1> HIDE DEF X
<1>7. PICK st \in X : Ended(st) /\ Flckadj(c, p, k, ld, n) = Finish(st, p)
  BY <1>2, <1>5, <1>6, Ends DEF s
<1>8. st \in Loop(c, m) /\ Unlocking(st, c, ld, p)
  BY <1>7 DEF X
<1>9. Shrunk(Finish(st, p), c, p, ld)
  BY <1>7, <1>8, FinishUnlocking
<1> QED BY <1>1, <1>7, <1>9
-----------------------------------------------------------------------------
(* The bytes of a chain as Held and Changed count them.                    *)
LEMMA HeldIs ==
    ASSUME WritesOnly, NEW c \in Seq(Lock), NEW h
    PROVE  h \in Held(c) <=> \E b \in Int : \E q : h = <<b, q, "write">> /\ Has(c, b, q)
<1>1. ASSUME NEW i \in DOMAIN c
      PROVE  /\ c[i].type = "write" /\ c[i].start \in Int /\ c[i].end \in Int
             /\ \A b \in Int : b \in c[i].start .. c[i].end - 1 <=> c[i].start <= b /\ b < c[i].end
  BY LockIs DEF WritesOnly
<1>2. ASSUME h \in Held(c) PROVE \E b \in Int : \E q : h = <<b, q, "write">> /\ Has(c, b, q)
  <2>1. PICK i \in DOMAIN c : h \in {<<b, c[i].pid, c[i].type>> : b \in c[i].start .. c[i].end - 1}
    BY <1>2 DEF Held
  <2>2. PICK b \in c[i].start .. c[i].end - 1 : h = <<b, c[i].pid, c[i].type>>
    BY <2>1
  <2>3. b \in Int /\ Covers(c[i], b, c[i].pid)
    BY <1>1 DEF Covers
  <2>4. h = <<b, c[i].pid, "write">> /\ Has(c, b, c[i].pid)
    BY <1>1, <2>2, <2>3 DEF Has
  <2> QED BY <2>3, <2>4
<1>3. ASSUME NEW b \in Int, NEW q, h = <<b, q, "write">>, Has(c, b, q) PROVE h \in Held(c)
  <2>1. PICK i \in DOMAIN c : Covers(c[i], b, q)
    BY <1>3 DEF Has
  <2>2. b \in c[i].start .. c[i].end - 1 /\ c[i].pid = q /\ c[i].type = "write"
    BY <1>1, <2>1 DEF Covers
  <2>3. h \in {<<x, c[i].pid, c[i].type>> : x \in c[i].start .. c[i].end - 1}
    BY <1>3, <2>2
  <2> QED BY <2>3 DEF Held
<1> QED BY <1>2, <1>3

LEMMA ChangedIs ==
    ASSUME WritesOnly, NEW c \in Seq(Lock), NEW p, NEW ld \in Asked, NEW h
    PROVE  h \in Changed(Held(c), p, ld) <=>
              \E b \in Int : \E q : /\ h = <<b, q, "write">>
                                    /\ \/ Has(c, b, q) /\ ~(q = p /\ Within(ld, b))
                                       \/ ld.type # "unlock" /\ q = p /\ Within(ld, b)
<1> DEFINE bytes == ld.start .. ld.end - 1
           old == {x \in Held(c) : ~(x[1] \in bytes /\ x[2] = p)}
           new == IF ld.type = "unlock" THEN {} ELSE bytes \X {p} \X {ld.type}
<1>1. /\ ld.start \in Int /\ ld.end \in Int /\ (ld.type # "unlock" => ld.type = "write")
      /\ \A b \in Int : b \in bytes <=> Within(ld, b)
  <2>1. ld.start \in Int /\ ld.end \in Int /\ ld.type \in {"write", "unlock"}
    BY LockAssumption DEF Asked, WritesOnly
  <2> QED BY <2>1 DEF Within
<1>2. Changed(Held(c), p, ld) = old \cup new
  BY DEF Changed
<1>3. h \in old <=> \E b \in Int : \E q : /\ h = <<b, q, "write">>
                                          /\ Has(c, b, q) /\ ~(q = p /\ Within(ld, b))
  <2>1. h \in Held(c) <=> \E b \in Int : \E q : h = <<b, q, "write">> /\ Has(c, b, q)
    BY HeldIs
  <2>2. ASSUME NEW b \in Int, NEW q, h = <<b, q, "write">>
        PROVE  (h[1] \in bytes /\ h[2] = p) <=> q = p /\ Within(ld, b)
    BY <1>1, <2>2
  <2> HIDE DEF bytes
  <2>3. h \in old <=> h \in Held(c) /\ ~(h[1] \in bytes /\ h[2] = p)
    OBVIOUS
  <2> HIDE DEF old
  <2>4. ASSUME h \in old PROVE \E b \in Int : \E q : /\ h = <<b, q, "write">>
                                                     /\ Has(c, b, q) /\ ~(q = p /\ Within(ld, b))
    <3>1. PICK b, q : b \in Int /\ h = <<b, q, "write">> /\ Has(c, b, q)
      BY <2>1, <2>3, <2>4
    <3>2. ~(q = p /\ Within(ld, b))
      BY <2>2, <2>3, <2>4, <3>1
    <3> QED BY <3>1, <3>2
  <2>5. ASSUME NEW b \in Int, NEW q, h = <<b, q, "write">>, Has(c, b, q), ~(q = p /\ Within(ld, b))
        PROVE  h \in old
    <3>1. h \in Held(c)
      BY <2>1, <2>5
    <3> QED BY <2>2, <2>3, <2>5, <3>1
  <2> QED BY <2>4, <2>5
<1>4. h \in new <=> \E b \in Int : \E q : /\ h = <<b, q, "write">>
                                          /\ ld.type # "unlock" /\ q = p /\ Within(ld, b)
  <2>1. CASE ld.type = "unlock"
    <3>1. h \notin new
      BY <2>1
    <3> HIDE DEF new
    <3> QED BY <2>1, <3>1
  <2>2. CASE ld.type # "unlock"
    <3>1. new = bytes \X {p} \X {"write"}
      BY <1>1, <2>2
    <3>2. h \in new <=> \E b \in bytes : h = <<b, p, "write">>
      BY <3>1
    <3>3. bytes \subseteq Int
      BY <1>1
    <3> HIDE DEF new, bytes
    <3>4. (\E b \in bytes : h = <<b, p, "write">>) <=>
          (\E b \in Int : \E q : /\ h = <<b, q, "write">>
                                 /\ ld.type # "unlock" /\ q = p /\ Within(ld, b))
      BY <1>1, <2>2, <3>3
    <3> QED BY <3>2, <3>4
  <2> QED BY <2>1, <2>2
<1> HIDE DEF old, new
<1>5. h \in Changed(Held(c), p, ld) <=> h \in old \/ h \in new
  BY <1>2
<1> QED BY <1>3, <1>4, <1>5

Chains == \A f \in File : Chain(flck[f])

(* What a call that is not blocked changes.                                *)
LEMMA GrownChanges ==
    ASSUME WritesOnly, NEW c \in Seq(Lock), NEW p, NEW ld \in Asked, ld.type # "unlock",
           NEW r, r.c \in Seq(Lock), Grown(r, c, p, ld)
    PROVE  /\ r.status = "done" => Held(r.c) = Changed(Held(c), p, ld)
           /\ r.status # "done" => r.c = c
<1>1. ASSUME r.status = "done", NEW h PROVE h \in Held(r.c) <=> h \in Changed(Held(c), p, ld)
  <2>1. \A b \in Int : \A q : Has(r.c, b, q) <=> Has(c, b, q) \/ (q = p /\ Within(ld, b))
    BY <1>1 DEF Grown
  <2>2. h \in Held(r.c) <=> \E b \in Int : \E q : h = <<b, q, "write">> /\ Has(r.c, b, q)
    BY HeldIs
  <2>3. h \in Changed(Held(c), p, ld) <=>
              \E b \in Int : \E q : /\ h = <<b, q, "write">>
                                    /\ \/ Has(c, b, q) /\ ~(q = p /\ Within(ld, b))
                                       \/ ld.type # "unlock" /\ q = p /\ Within(ld, b)
    BY ChangedIs
  <2> QED BY <2>1, <2>2, <2>3
<1>2. r.status # "done" => r.c = c
  BY DEF Grown
<1> QED BY <1>1, <1>2

LEMMA ShrunkChanges ==
    ASSUME WritesOnly, NEW c \in Seq(Lock), NEW p, NEW ld \in Asked,
           NEW r, r.c \in Seq(Lock), Shrunk(r, c, p, ld), ld.type = "unlock"
    PROVE  /\ r.status = "done" => Held(r.c) = Changed(Held(c), p, ld)
           /\ r.status # "done" => /\ Held(r.c) \subseteq Held(c)
                                   /\ Changed(Held(c), p, ld) \subseteq Held(r.c)
<1>1. ASSUME NEW h
      PROVE  /\ h \in Held(r.c) <=> \E b \in Int : \E q : h = <<b, q, "write">> /\ Has(r.c, b, q)
             /\ h \in Held(c) <=> \E b \in Int : \E q : h = <<b, q, "write">> /\ Has(c, b, q)
             /\ h \in Changed(Held(c), p, ld) <=>
                   \E b \in Int : \E q : /\ h = <<b, q, "write">>
                                         /\ Has(c, b, q) /\ ~(q = p /\ Within(ld, b))
  <2>1. h \in Changed(Held(c), p, ld) <=>
              \E b \in Int : \E q : /\ h = <<b, q, "write">>
                                    /\ \/ Has(c, b, q) /\ ~(q = p /\ Within(ld, b))
                                       \/ ld.type # "unlock" /\ q = p /\ Within(ld, b)
    BY ChangedIs
  <2>2. h \in Held(r.c) <=> \E b \in Int : \E q : h = <<b, q, "write">> /\ Has(r.c, b, q)
    BY HeldIs
  <2>3. h \in Held(c) <=> \E b \in Int : \E q : h = <<b, q, "write">> /\ Has(c, b, q)
    BY HeldIs
  <2>4. ASSUME NEW b \in Int, NEW q
        PROVE  (\/ Has(c, b, q) /\ ~(q = p /\ Within(ld, b))
                \/ ld.type # "unlock" /\ q = p /\ Within(ld, b))
               <=> Has(c, b, q) /\ ~(q = p /\ Within(ld, b))
    OBVIOUS
  <2>5. h \in Changed(Held(c), p, ld) <=>
              \E b \in Int : \E q : /\ h = <<b, q, "write">>
                                    /\ Has(c, b, q) /\ ~(q = p /\ Within(ld, b))
    BY <2>1, <2>4
  <2> QED BY <2>2, <2>3, <2>5
<1>2. CASE r.status = "done"
  <2>1. \A b \in Int : \A q : Has(r.c, b, q) <=> Has(c, b, q) /\ ~(q = p /\ Within(ld, b))
    BY <1>2 DEF Shrunk, Freed, Within
  <2>2. ASSUME NEW h PROVE h \in Held(r.c) <=> h \in Changed(Held(c), p, ld)
    BY <1>1, <2>1
  <2> QED BY <1>2, <2>2
<1>3. CASE r.status # "done"
  <2>1. r.status = "failed"
    BY <1>3 DEF Shrunk
  <2>2. PICK e \in ld.start .. ld.end : Freed(r.c, c, p, ld, e)
    BY <2>1 DEF Shrunk
  <2>3. ld.start \in Int /\ ld.end \in Int
    BY LockAssumption DEF Asked
  <2>4. \A b \in Int : b < e => b < ld.end
    BY <2>3
  <2>5. \A b \in Int : \A q : /\ Has(r.c, b, q) => Has(c, b, q)
                              /\ Has(c, b, q) /\ ~(q = p /\ Within(ld, b)) => Has(r.c, b, q)
    BY <2>2, <2>4 DEF Freed, Within
  <2>6. ASSUME NEW h, h \in Held(r.c) PROVE h \in Held(c)
    BY <1>1, <2>5, <2>6
  <2>7. ASSUME NEW h, h \in Changed(Held(c), p, ld) PROVE h \in Held(r.c)
    BY <1>1, <2>5, <2>7
  <2> QED BY <1>3, <2>6, <2>7
<1> QED BY <1>2, <1>3

LEMMA FewerChanged ==
    ASSUME NEW old, NEW p, NEW ld
    PROVE  Changed(old, p, [ld EXCEPT !.type = "unlock"]) \subseteq old
BY DEF Changed

LEMMA ChangesAre == ASSUME WritesOnly, IndInv, Chains PROVE ChangesExact
<1> SUFFICES ASSUME NEW p \in Proc, NEW f \in File, NEW ld \in Request,
                    ld.type = "unlock" \/ Blocked(flck[f], p, ld) = 0
             PROVE  LET r == Adjust(flck[f], p, ld, Free)
                        old == Held(flck[f])
                    IN  IF r.status = "done" THEN Held(r.c) = Changed(old, p, ld)
                        ELSE /\ Held(r.c) \subseteq old
                             /\ Changed(old, p, [ld EXCEPT !.type = "unlock"]) \subseteq Held(r.c)
  BY Zenon DEF ChangesExact
<1> DEFINE c == flck[f]
           n == Free
           r == Adjust(c, p, ld, n)
<1>1. c \in Seq(Lock) /\ Proper(c) /\ Chain(c)
  BY DEF IndInv, Typed, Chains
<1>2. ld \in Asked /\ ld.start < ld.end
  BY RequestIs
<1>3. n \in Nat
  <2>1. Cardinality(Cells(flck)) \in Nat
    BY CellsFinite DEF IndInv, Typed
  <2>2. Cardinality(Sleepers) \in Nat
    BY SleepersFinite, FS_CardinalityType
  <2>3. Free = Recs - (Cardinality(Cells(flck)) + Cardinality(Sleepers))
    BY DEF Free, InUse, Cells
  <2> QED BY <2>1, <2>2, <2>3, LockAssumption DEF IndInv, Typed
<1> HIDE DEF c, n
<1>4. r.c \in Seq(Lock)
  BY <1>1, <1>3, AdjustIs
<1>5. CASE ld.type = "unlock"
  <2>1. Shrunk(r, c, p, ld)
    BY <1>1, <1>2, <1>3, <1>5, UnlockingIs
  <2>2. [ld EXCEPT !.type = "unlock"] = ld
    BY <1>2, <1>5 DEF Asked
  <2> HIDE DEF r
  <2>3. /\ r.status = "done" => Held(r.c) = Changed(Held(c), p, ld)
        /\ r.status # "done" => /\ Held(r.c) \subseteq Held(c)
                                /\ Changed(Held(c), p, ld) \subseteq Held(r.c)
    BY <1>1, <1>2, <1>4, <1>5, <2>1, ShrunkChanges
  <2> QED BY <2>2, <2>3 DEF r, c, n
<1>6. CASE ld.type # "unlock"
  <2>1. ld.type = "write"
    BY <1>2, <1>6 DEF Asked, WritesOnly
  <2>2. Blocked(c, p, ld) = 0
    BY <1>6 DEF c
  <2>3. Grown(r, c, p, ld)
    BY <1>1, <1>2, <1>3, <2>1, <2>2, LockingIs
  <2> HIDE DEF r
  <2>4. /\ r.status = "done" => Held(r.c) = Changed(Held(c), p, ld)
        /\ r.status # "done" => r.c = c
    BY <1>1, <1>2, <1>4, <1>6, <2>3, GrownChanges
  <2>5. Changed(Held(c), p, [ld EXCEPT !.type = "unlock"]) \subseteq Held(c)
    BY FewerChanged
  <2> QED BY <2>4, <2>5 DEF r, c, n
<1> QED BY <1>5, <1>6
-----------------------------------------------------------------------------
(* What a step of process p does to the chain of one file.                 *)
Effect(c, d, p) ==
    \/ \A b \in Int : \A q : Has(d, b, q) <=> Has(c, b, q)
    \/ \E ld \in Asked :
          /\ ld.start < ld.end /\ \A j \in DOMAIN c : c[j].pid # p => Apart(c[j], ld)
          /\ \A b \in Int : \A q : Has(d, b, q) <=> Has(c, b, q) \/ (q = p /\ Within(ld, b))
    \/ \E ld \in Asked, e \in Int :
          ld.start < e /\ e <= ld.end /\ Freed(d, c, p, ld, e)

Touched(p, f, d) ==
    /\ p \in Proc /\ f \in File /\ flck' \in [File -> Seq(Lock)] /\ flck'[f] = d
    /\ \A g \in File \ {f} : flck'[g] = flck[g]
    /\ Chain(d) /\ Effect(flck[f], d, p)

LEMMA ReturnTouches ==
    ASSUME IndInv, NEW p \in Proc, NEW f \in File, NEW others, NEW d \in Seq(Lock),
           Return(p, f, others, d), Chain(d), Effect(flck[f], d, p)
    PROVE  Touched(p, f, d)
<1>1. flck \in [File -> Seq(Lock)] /\ flck' = [flck EXCEPT ![f] = d]
  BY DEF IndInv, Typed, Return
<1>2. flck' \in [File -> Seq(Lock)] /\ flck'[f] = d /\ \A g \in File \ {f} : flck'[g] = flck[g]
  BY <1>1
<1> QED BY <1>2 DEF Touched

LEMMA GrantedTouches ==
    ASSUME WritesOnly, IndInv, Chains, NEW p, NEW f, NEW others, NEW n, NEW ld \in Request,
           Asks(p, f, others, n), Granted(p, f, ld, others, n)
    PROVE  \E d : Touched(p, f, d)
<1> DEFINE c == flck[f]
           r == Adjust(c, p, ld, n)
           d == r.c
<1>1. /\ n \in Nat /\ c \in Seq(Lock) /\ Proper(c) /\ p \in Proc /\ f \in File /\ Chain(c)
  BY AsksIs DEF Asks, Chains
<1>2. ld \in Asked /\ ld.start < ld.end
  BY RequestIs
<1>3. (ld.type = "unlock" \/ Blocked(c, p, ld) = 0) /\ Return(p, f, others, d)
  BY DEF Granted
<1> HIDE DEF c
<1>4. d \in Seq(Lock)
  BY <1>1, AdjustIs
<1>5. Chain(d) /\ Effect(c, d, p)
  <2>1. CASE ld.type = "unlock"
    <3>1. Shrunk(r, c, p, ld)
      BY <1>1, <1>2, <2>1, UnlockingIs
    <3> HIDE DEF r
    <3>2. Chain(d)
      BY <3>1 DEF Shrunk
    <3>3. PICK e \in ld.start .. ld.end : Freed(d, c, p, ld, e)
      <4>1. ld.end \in ld.start .. ld.end
        BY <1>2, LockAssumption DEF Asked
      <4> QED BY <3>1, <4>1 DEF Shrunk
    <3>4. ld.start \in Int /\ ld.end \in Int
      BY LockAssumption, <1>2 DEF Asked
    <3>5. CASE e = ld.start
      <4>1. \A b \in Int : ~(ld.start <= b /\ b < e)
        BY <3>4, <3>5
      <4>2. \A b \in Int : \A q : Has(d, b, q) <=> Has(c, b, q)
        BY <3>3, <4>1 DEF Freed
      <4> QED BY <3>2, <4>2 DEF Effect
    <3>6. CASE e # ld.start
      <4>1. e \in Int /\ ld.start < e /\ e <= ld.end
        BY <3>4, <3>6
      <4> HIDE DEF d
      <4> QED BY <1>2, <3>2, <3>3, <4>1 DEF Effect
    <3> QED BY <3>5, <3>6
  <2>2. CASE ld.type # "unlock"
    <3>1. ld.type = "write"
      BY <1>2, <2>2 DEF Asked, WritesOnly
    <3>2. Blocked(c, p, ld) = 0
      BY <1>3, <2>2
    <3>3. Grown(r, c, p, ld)
      BY <1>1, <1>2, <3>1, <3>2, LockingIs
    <3> HIDE DEF r
    <3>4. Chain(d)
      BY <3>3 DEF Grown
    <3>5. \A j \in DOMAIN c : c[j].pid # p => Apart(c[j], ld)
      BY <1>1, <1>2, <3>1, <3>2, NotBlocked
    <3>6. CASE r.status = "done"
      <4>1. \A b \in Int : \A q : Has(d, b, q) <=> Has(c, b, q) \/ (q = p /\ Within(ld, b))
        BY <3>3, <3>6 DEF Grown
      <4> HIDE DEF d
      <4> QED BY <1>2, <3>4, <3>5, <4>1 DEF Effect
    <3>7. CASE r.status # "done"
      <4>1. d = c
        BY <3>3, <3>7 DEF Grown
      <4> HIDE DEF d
      <4> QED BY <3>4, <4>1 DEF Effect
    <3> QED BY <3>6, <3>7
  <2> QED BY <2>1, <2>2
<1> HIDE DEF d
<1>6. Touched(p, f, d)
  BY <1>1, <1>3, <1>4, <1>5, ReturnTouches DEF c
<1> QED BY <1>6

(* A chain with the same locks but for those who sleep at them.            *)
LEMMA SameLocks ==
    ASSUME NEW c, NEW d, NEW p, Chain(c), DOMAIN d = DOMAIN c,
           \A i \in DOMAIN c : d[i].start = c[i].start /\ d[i].end = c[i].end /\ d[i].pid = c[i].pid
    PROVE  Chain(d) /\ Effect(c, d, p)
<1>1. Chain(d)
  BY DEF Chain
<1>2. \A b \in Int : \A q : Has(d, b, q) <=> Has(c, b, q)
  BY DEF Has, Covers
<1> QED BY <1>1, <1>2 DEF Effect

LEMMA RefusedTouches ==
    ASSUME IndInv, Chains, NEW p, NEW f, NEW ld, NEW slpflg, NEW others, NEW n,
           Asks(p, f, others, n), Refused(p, f, ld, slpflg, others, n)
    PROVE  \E d : Touched(p, f, d)
<1>1. flck[f] \in Seq(Lock) /\ p \in Proc /\ f \in File /\ Chain(flck[f])
  BY AsksIs DEF Asks, Chains
<1>2. Return(p, f, others, flck[f])
  BY DEF Refused
<1>3. Effect(flck[f], flck[f], p)
  BY DEF Effect
<1> QED BY <1>1, <1>2, <1>3, ReturnTouches

LEMMA SleepsTouches ==
    ASSUME IndInv, Chains, NEW p, NEW f, NEW ld \in Request, NEW others, NEW n,
           Asks(p, f, others, n), Sleeps(p, f, ld, others, n)
    PROVE  \E d : Touched(p, f, d)
<1>1. flck[f] \in Seq(Lock) /\ p \in Proc /\ f \in File /\ Chain(flck[f])
  BY AsksIs DEF Asks, Chains
<1>2. PICK b \in DOMAIN flck[f] : Slept(p, f, b, ld, others, n)
  BY SleepsIs
<1> DEFINE d == flck'[f]
<1>3. /\ flck' \in [File -> Seq(Lock)] /\ \A g \in File \ {f} : flck'[g] = flck[g]
      /\ DOMAIN d = DOMAIN flck[f]
      /\ \A i \in DOMAIN flck[f] : /\ d[i].start = flck[f][i].start /\ d[i].end = flck[f][i].end
                                   /\ d[i].pid = flck[f][i].pid
  BY <1>2 DEF Slept
<1>4. Chain(d) /\ Effect(flck[f], d, p)
  <2> HIDE DEF d
  <2> QED BY <1>1, <1>3, SameLocks
<1>5. Touched(p, f, d)
  BY <1>1, <1>3, <1>4 DEF Touched
<1> QED BY <1>5

LEMMA InterruptedTouches ==
    ASSUME IndInv, Chains, NEW p \in Proc, Interrupted(p)
    PROVE  \E f, d : Touched(p, f, d)
<1> DEFINE f == sleeplcks[p].file
           b == flck[f]
           c == [i \in DOMAIN b |-> [b[i] EXCEPT !.waits = @ \ {p}]]
           others == refcnt[f] - 1
<1>1. p \in Sleepers /\ Return(p, f, others, c)
  BY DEF Interrupted
<1>2. Asks(p, f, others, Free + 1)
  BY <1>1, SleepAsks
<1> HIDE DEF f, others
<1>3. b \in Seq(Lock) /\ f \in File /\ Chain(b)
  BY <1>2, AsksIs DEF Asks, Chains
<1> HIDE DEF b
<1>4. ASSUME NEW i \in DOMAIN b
      PROVE  /\ c[i] \in Lock /\ c[i].pid = b[i].pid
             /\ c[i].start = b[i].start /\ c[i].end = b[i].end
  <2>1. b[i] \in Lock
    BY <1>3
  <2>2. c[i] = [b[i] EXCEPT !.waits = @ \ {p}]
    OBVIOUS
  <2> HIDE DEF c
  <2> QED BY <2>1, <2>2 DEF Lock
<1>5. c \in Seq(Lock) /\ DOMAIN c = DOMAIN b
  <2>a. DOMAIN b = 1 .. Len(b) /\ Len(b) \in Nat
    BY <1>3
  <2>b. DOMAIN c = DOMAIN b /\ c = [i \in DOMAIN b |-> c[i]]
    OBVIOUS
  <2> HIDE DEF c
  <2>1. \A i \in 1 .. Len(b) : c[i] \in Lock
    BY <1>4, <2>a
  <2>2. c = [i \in 1 .. Len(b) |-> c[i]]
    BY <2>a, <2>b
  <2>3. c \in Seq(Lock)
    BY <2>1, <2>2, <2>a
  <2> QED BY <2>3, <2>b
<1> HIDE DEF c
<1>6. Chain(c) /\ Effect(b, c, p)
  BY <1>3, <1>4, <1>5, SameLocks
<1>7. Touched(p, f, c)
  BY <1>1, <1>3, <1>5, <1>6, ReturnTouches DEF b
<1> QED BY <1>7

(* cleanlocks() frees all the bytes of the process.                        *)
LEMMA CleanlocksTouches ==
    ASSUME IndInv, Chains, NEW p \in Proc, NEW f \in File, Cleanlocks(p, f)
    PROVE  \E d : Touched(p, f, d)
<1> DEFINE b == flck[f]
           c == Cleaned(b, p)
           others == refcnt[f]
           all == [type |-> "unlock", start |-> 0, end |-> MAXEND]
<1>1. Return(p, f, others, c)
  BY DEF Cleanlocks
<1>2. b \in Seq(Lock) /\ Chain(b)
  BY DEF IndInv, Typed, Chains
<1> HIDE DEF b, others
<1>3. Without(c, b, Len(b), p)
  BY <1>2, CleanedIs
<1> HIDE DEF c
<1>4. /\ c \in Seq(Lock) /\ DOMAIN b = 1 .. Len(b)
      /\ \A j \in DOMAIN c : \E i \in DOMAIN b : c[j] = b[i] /\ b[i].pid # p
      /\ \A i \in DOMAIN b : b[i].pid # p => \E j \in DOMAIN c : c[j] = b[i]
      /\ \A j1, j2 \in DOMAIN c : j1 < j2 =>
            \E i1, i2 \in DOMAIN b : i1 < i2 /\ c[j1] = b[i1] /\ c[j2] = b[i2]
  <2>1. DOMAIN b = 1 .. Len(b)
    BY <1>2
  <2>2. /\ c \in Seq(Lock)
        /\ \A j \in DOMAIN c : \E i \in 1 .. Len(b) : c[j] = b[i] /\ b[i].pid # p
        /\ \A i \in 1 .. Len(b) : b[i].pid # p => \E j \in DOMAIN c : c[j] = b[i]
        /\ \A j1, j2 \in DOMAIN c : j1 < j2 =>
              \E i1, i2 \in 1 .. Len(b) : i1 < i2 /\ c[j1] = b[i1] /\ c[j2] = b[i2]
    BY <1>3, Zenon DEF Without
  <2>3. ASSUME NEW j \in DOMAIN c PROVE \E i \in DOMAIN b : c[j] = b[i] /\ b[i].pid # p
    BY <2>1, <2>2
  <2>4. ASSUME NEW i \in DOMAIN b, b[i].pid # p PROVE \E j \in DOMAIN c : c[j] = b[i]
    BY <2>1, <2>2, <2>4
  <2>5. ASSUME NEW j1 \in DOMAIN c, NEW j2 \in DOMAIN c, j1 < j2
        PROVE  \E i1, i2 \in DOMAIN b : i1 < i2 /\ c[j1] = b[i1] /\ c[j2] = b[i2]
    <3>1. PICK i1 \in 1 .. Len(b), i2 \in 1 .. Len(b) : i1 < i2 /\ c[j1] = b[i1] /\ c[j2] = b[i2]
      BY <2>2, <2>5
    <3> QED BY <2>1, <3>1
  <2> QED BY <2>1, <2>2, <2>3, <2>4, <2>5
<1>5. Chain(c)
  <2>1. ASSUME NEW j1 \in DOMAIN c, NEW j2 \in DOMAIN c, j1 < j2 PROVE c[j1].end <= c[j2].start
    <3>1. PICK i1 \in DOMAIN b, i2 \in DOMAIN b : i1 < i2 /\ c[j1] = b[i1] /\ c[j2] = b[i2]
      BY <1>4, <2>1
    <3>2. b[i1].end <= b[i2].start
      BY <1>2, <3>1 DEF Chain
    <3> QED BY <3>1, <3>2
  <2> QED BY <2>1 DEF Chain
<1>6. all \in Asked /\ all.start = 0 /\ all.end = MAXEND
  BY LockAssumption DEF Asked
<1>7. Freed(c, b, p, all, MAXEND)
  <2>1. ASSUME NEW x \in Int, NEW q, Has(c, x, q)
        PROVE  Has(b, x, q) /\ q # p
    <3>1. PICK j \in DOMAIN c : Covers(c[j], x, q)
      BY <2>1 DEF Has
    <3>2. PICK i \in DOMAIN b : c[j] = b[i] /\ b[i].pid # p
      BY <1>4
    <3>3. Covers(b[i], x, q)
      BY <3>1, <3>2
    <3>4. q # p
      BY <3>2, <3>3 DEF Covers
    <3> QED BY <3>3, <3>4 DEF Has
  <2>2. ASSUME NEW x \in Int, NEW q, Has(b, x, q)
        PROVE  0 <= x /\ x < MAXEND /\ (q # p => Has(c, x, q))
    <3>1. PICK i \in DOMAIN b : Covers(b[i], x, q)
      BY <2>2 DEF Has
    <3>2. b[i].start \in 0 .. MAXEND /\ b[i].end \in 0 .. MAXEND /\ MAXEND \in Nat
      <4>1. b[i] \in Lock
        BY <1>2
      <4> QED BY <4>1, LockAssumption DEF Lock
    <3>3. 0 <= x /\ x < MAXEND
      BY <3>1, <3>2 DEF Covers
    <3>4. ASSUME q # p PROVE Has(c, x, q)
      <4>1. b[i].pid # p
        BY <3>1, <3>4 DEF Covers
      <4>2. PICK j \in DOMAIN c : c[j] = b[i]
        BY <1>4, <4>1
      <4> QED BY <3>1, <4>2 DEF Has
    <3> QED BY <3>3, <3>4
  <2> HIDE DEF all
  <2> QED BY <1>6, <2>1, <2>2 DEF Freed
<1>8. Effect(b, c, p)
  <2>1. MAXEND \in Int /\ 0 < MAXEND /\ MAXEND <= MAXEND
    BY LockAssumption
  <2> HIDE DEF all
  <2> QED BY <1>6, <1>7, <2>1 DEF Effect
<1>9. Touched(p, f, c)
  BY <1>1, <1>4, <1>5, <1>8, ReturnTouches DEF b
<1> QED BY <1>9

LEMMA NextTouches ==
    ASSUME WritesOnly, IndInv, Chains, Next
    PROVE  \E p, f, d : Touched(p, f, d)
<1>1. PICK p \in Proc :
           \/ \E f \in File : \/ \E ld \in Request, slpflg \in BOOLEAN : Setflck(p, f, ld, slpflg)
                              \/ Cleanlocks(p, f)
           \/ Retry(p)
           \/ Interrupted(p)
  BY DEF Next
<1>2. ASSUME NEW f, NEW ld \in Request, NEW slpflg, NEW others, NEW n, Asks(p, f, others, n),
             \/ Granted(p, f, ld, others, n)
             \/ Refused(p, f, ld, slpflg, others, n)
             \/ Sleeps(p, f, ld, others, n)
      PROVE  \E d : Touched(p, f, d)
  BY <1>2, GrantedTouches, RefusedTouches, SleepsTouches
<1>3. ASSUME NEW f \in File, NEW ld \in Request, NEW slpflg, Setflck(p, f, ld, slpflg)
      PROVE  \E d : Touched(p, f, d)
  <2>1. p \notin Sleepers /\ (f \in fids \/ Cardinality(fids) < Fils)
    BY <1>3 DEF Setflck
  <2>2. Asks(p, f, refcnt[f], Free)
    BY <2>1, CallAsks
  <2>3. \/ Granted(p, f, ld, refcnt[f], Free)
        \/ Refused(p, f, ld, slpflg, refcnt[f], Free)
        \/ Sleeps(p, f, ld, refcnt[f], Free)
    BY <1>3 DEF Setflck
  <2> QED BY <1>2, <2>2, <2>3
<1>4. ASSUME Retry(p) PROVE \E f, d : Touched(p, f, d)
  <2> DEFINE f == sleeplcks[p].file
             ld == sleeplcks[p].ld
             others == refcnt[f] - 1
             n == Free + 1
  <2>1. /\ p \in Sleepers
        /\ \/ Granted(p, f, ld, others, n)
           \/ Refused(p, f, ld, TRUE, others, n)
           \/ Sleeps(p, f, ld, others, n)
    BY <1>4 DEF Retry
  <2>2. Asks(p, f, others, n) /\ ld \in Request
    BY <2>1, SleepAsks
  <2> HIDE DEF f, ld, others, n
  <2>3. \E d : Touched(p, f, d)
    BY <1>2, <2>1, <2>2
  <2> QED BY <2>3
<1>5. CASE \E f \in File : \E ld \in Request, slpflg \in BOOLEAN : Setflck(p, f, ld, slpflg)
  BY <1>3, <1>5
<1>6. CASE \E f \in File : Cleanlocks(p, f)
  BY <1>6, CleanlocksTouches
<1>7. CASE Retry(p)
  BY <1>4, <1>7
<1>8. CASE Interrupted(p)
  BY <1>8, InterruptedTouches
<1> QED BY <1>1, <1>5, <1>6, <1>7, <1>8
LEMMA ChainsNext ==
    ASSUME WritesOnly, IndInv, Chains, [Next]_vars
    PROVE  Chains'
<1>1. CASE UNCHANGED vars
  BY <1>1 DEF vars, Chains
<1>2. CASE Next
  <2>1. PICK p, f, d : Touched(p, f, d)
    BY <1>2, NextTouches
  <2>2. ASSUME NEW g \in File PROVE Chain(flck'[g])
    <3>1. CASE g = f
      BY <2>1, <3>1 DEF Touched
    <3>2. CASE g # f
      BY <2>1, <3>2 DEF Touched, Chains
    <3> QED BY <3>1, <3>2
  <2> QED BY <2>2 DEF Chains
<1> QED BY <1>1, <1>2

(* The table of the chains ch.                                             *)
TableOf(ch) == UNION {{<<f, h[1], h[2], h[3]>> : h \in Held(ch[f])} : f \in File}

LEMMA TableIs ==
    ASSUME WritesOnly, NEW ch \in [File -> Seq(Lock)], NEW x
    PROVE  x \in TableOf(ch) <=>
              \E f \in File, b \in Int : \E q : x = <<f, b, q, "write">> /\ Has(ch[f], b, q)
<1>1. ASSUME x \in TableOf(ch)
      PROVE  \E f \in File, b \in Int : \E q : x = <<f, b, q, "write">> /\ Has(ch[f], b, q)
  <2>1. PICK f \in File : x \in {<<f, h[1], h[2], h[3]>> : h \in Held(ch[f])}
    BY <1>1 DEF TableOf
  <2>2. PICK h \in Held(ch[f]) : x = <<f, h[1], h[2], h[3]>>
    BY <2>1
  <2>3. ch[f] \in Seq(Lock)
    OBVIOUS
  <2>4. PICK b, q : b \in Int /\ h = <<b, q, "write">> /\ Has(ch[f], b, q)
    BY <2>3, HeldIs
  <2>5. x = <<f, b, q, "write">>
    BY <2>2, <2>4
  <2> QED BY <2>4, <2>5
<1>2. ASSUME NEW f \in File, NEW b \in Int, NEW q, x = <<f, b, q, "write">>, Has(ch[f], b, q)
      PROVE  x \in TableOf(ch)
  <2> DEFINE h == <<b, q, "write">>
  <2>1. ch[f] \in Seq(Lock)
    OBVIOUS
  <2>2. h \in Held(ch[f])
    BY <1>2, <2>1, HeldIs
  <2>3. x = <<f, h[1], h[2], h[3]>>
    BY <1>2
  <2> HIDE DEF h
  <2>4. x \in {<<f, y[1], y[2], y[3]>> : y \in Held(ch[f])}
    BY <2>2, <2>3
  <2> QED BY <2>4 DEF TableOf
<1> QED BY <1>1, <1>2

(* The bytes of a range as an interval of the table.                       *)
LEMMA IntervalIs ==
    ASSUME NEW s \in 0 .. MAXEND, NEW e \in 0 .. MAXEND, s < e
    PROVE  s .. e - 1 \in Table!Interval
<1>1. /\ s \in Table!Byte /\ e - 1 \in Table!Byte /\ s .. e - 1 # {}
  <2>1. s \in s .. e - 1
    BY LockAssumption
  <2> QED BY <2>1, LockAssumption DEF Table!Byte
<1> QED BY <1>1 DEF Table!Interval

LEMMA TouchedTable ==
    ASSUME WritesOnly, flck \in [File -> Seq(Lock)], NEW p, NEW f, NEW d, Touched(p, f, d)
    PROVE  Table!TableNext \/ HeldTable' = HeldTable
<1> DEFINE c == flck[f]
           old == HeldTable
           new == HeldTable'
<1>1. /\ p \in Proc /\ f \in File /\ flck' \in [File -> Seq(Lock)] /\ flck'[f] = d
      /\ \A g \in File \ {f} : flck'[g] = flck[g]
      /\ Chain(d) /\ Effect(c, d, p) /\ c \in Seq(Lock)
  BY DEF Touched
<1>2. old = TableOf(flck) /\ new = TableOf(flck')
  BY DEF HeldTable, TableOf
<1>3. ASSUME NEW x
      PROVE  /\ x \in old <=> \E g \in File, b \in Int : \E q :
                                  x = <<g, b, q, "write">> /\ Has(flck[g], b, q)
             /\ x \in new <=> \E g \in File, b \in Int : \E q :
                                  x = <<g, b, q, "write">> /\ Has(flck'[g], b, q)
  <2>1. x \in TableOf(flck) <=> \E g \in File, b \in Int : \E q :
                                  x = <<g, b, q, "write">> /\ Has(flck[g], b, q)
    BY TableIs
  <2>2. x \in TableOf(flck') <=> \E g \in File, b \in Int : \E q :
                                  x = <<g, b, q, "write">> /\ Has(flck'[g], b, q)
    BY <1>1, TableIs
  <2> QED BY <1>2, <2>1, <2>2
<1> HIDE DEF old, new
<1>4. ASSUME NEW g \in File, g # f PROVE flck'[g] = flck[g]
  BY <1>1, <1>4
<1>5. CASE \A b \in Int : \A q : Has(d, b, q) <=> Has(c, b, q)
  <2>1. ASSUME NEW g \in File, NEW b \in Int, NEW q PROVE Has(flck'[g], b, q) <=> Has(flck[g], b, q)
    <3>1. CASE g = f
      BY <1>1, <1>5, <3>1
    <3>2. CASE g # f
      BY <1>4, <3>2
    <3> QED BY <3>1, <3>2
  <2>2. ASSUME NEW x PROVE x \in new <=> x \in old
    BY <1>3, <2>1
  <2> QED BY <2>2 DEF old, new
<1>6. ASSUME NEW ld \in Asked, ld.start < ld.end,
             \A j \in DOMAIN c : c[j].pid # p => Apart(c[j], ld),
             \A b \in Int : \A q : Has(d, b, q) <=> Has(c, b, q) \/ (q = p /\ Within(ld, b))
      PROVE  Table!TableNext
  <2> DEFINE S == ld.start .. ld.end - 1
  <2>1. /\ ld.start \in 0 .. MAXEND /\ ld.end \in 0 .. MAXEND /\ MAXEND \in Nat
    BY LockAssumption DEF Asked
  <2>2. S \in Table!Interval /\ S \subseteq Int
    BY <1>6, <2>1, IntervalIs
  <2>3. ASSUME NEW b \in Int PROVE b \in S <=> Within(ld, b)
    BY <2>1 DEF Within
  <2> HIDE DEF S
  <2>4. ASSUME NEW h \in old, h[1] = f, h[2] \in S, h[3] # p PROVE FALSE
    <3>1. PICK g, b, q : g \in File /\ b \in Int /\ h = <<g, b, q, "write">> /\ Has(flck[g], b, q)
      BY <1>3
    <3>2. g = f /\ b \in S /\ q # p
      BY <2>4, <3>1
    <3>3. PICK j \in DOMAIN c : Covers(c[j], b, q)
      BY <3>1, <3>2 DEF Has
    <3>4. Apart(c[j], ld) /\ Within(ld, b)
      BY <1>6, <2>3, <3>1, <3>2, <3>3 DEF Covers
    <3>5. c[j].start \in Int /\ c[j].end \in Int /\ ld.start \in Int /\ ld.end \in Int
      BY <1>1, <2>1, LockIs
    <3> QED BY <3>1, <3>3, <3>4, <3>5 DEF Covers, Apart, Within
  <2>5. ~Table!Conflicting(p, f, S, "write")
    BY <2>4 DEF Table!Conflicting, old
  <2>6. ASSUME NEW x
        PROVE  x \in new <=> \/ x \in old /\ ~(x[1] = f /\ x[2] \in S /\ x[3] = p)
                             \/ x \in {f} \X S \X {p} \X {"write"}
    <3>1. x \in {f} \X S \X {p} \X {"write"} <=> \E b \in S : x = <<f, b, p, "write">>
      OBVIOUS
    <3>2. ASSUME x \in new
          PROVE  \/ x \in old /\ ~(x[1] = f /\ x[2] \in S /\ x[3] = p)
                 \/ \E b \in S : x = <<f, b, p, "write">>
      <4>1. PICK g, b, q : g \in File /\ b \in Int /\ x = <<g, b, q, "write">> /\ Has(flck'[g], b, q)
        BY <1>3, <3>2
      <4>2. x[1] = g /\ x[2] = b /\ x[3] = q
        BY <4>1
      <4>3. CASE g # f
        <5>1. x \in old
          BY <1>3, <1>4, <4>1, <4>3
        <5> QED BY <4>2, <4>3, <5>1
      <4>4. CASE g = f /\ q = p /\ b \in S
        BY <4>1, <4>4
      <4>5. CASE g = f /\ ~(q = p /\ b \in S)
        <5>1. Has(d, b, q)
          BY <1>1, <4>1, <4>5
        <5>2. Has(flck[g], b, q)
          BY <1>6, <2>3, <4>1, <4>5, <5>1
        <5>3. x \in old
          BY <1>3, <4>1, <5>2
        <5> QED BY <4>2, <4>5, <5>3
      <4> QED BY <4>3, <4>4, <4>5
    <3>3. ASSUME x \in old PROVE x \in new
      <4>1. PICK g, b, q : g \in File /\ b \in Int /\ x = <<g, b, q, "write">> /\ Has(flck[g], b, q)
        BY <1>3, <3>3
      <4>2. Has(flck'[g], b, q)
        <5>1. CASE g = f
          BY <1>1, <1>6, <4>1, <5>1
        <5>2. CASE g # f
          BY <1>4, <4>1, <5>2
        <5> QED BY <5>1, <5>2
      <4> QED BY <1>3, <4>1, <4>2
    <3>4. ASSUME NEW b \in S, x = <<f, b, p, "write">> PROVE x \in new
      <4>1. b \in Int /\ Has(flck'[f], b, p)
        BY <1>1, <1>6, <2>2, <2>3
      <4> QED BY <1>1, <1>3, <3>4, <4>1
    <3> QED BY <3>1, <3>2, <3>3, <3>4
  <2>7. new = (old \ Table!Own(p, f, S)) \cup ({f} \X S \X {p} \X {"write"})
    <3>1. ASSUME NEW x PROVE x \in Table!Own(p, f, S) <=> x \in old /\ x[1] = f /\ x[2] \in S /\ x[3] = p
      BY DEF Table!Own, old
    <3> QED BY <2>6, <3>1
  <2>8. Table!Lock(p, f, S, "write")
    BY <2>5, <2>7 DEF Table!Lock, old, new
  <2> QED BY <1>1, <2>2, <2>8 DEF Table!TableNext
<1>7. ASSUME NEW ld \in Asked, NEW e \in Int, ld.start < e, e <= ld.end, Freed(d, c, p, ld, e)
      PROVE  Table!TableNext
  <2> DEFINE S == ld.start .. e - 1
  <2>1. ld.start \in 0 .. MAXEND /\ e \in 0 .. MAXEND /\ MAXEND \in Nat
    <3>1. ld.start \in 0 .. MAXEND /\ ld.end \in 0 .. MAXEND /\ MAXEND \in Nat
      BY LockAssumption DEF Asked
    <3> QED BY <1>7, <3>1
  <2>2. S \in Table!Interval
    BY <1>7, <2>1, IntervalIs
  <2>3. ASSUME NEW b \in Int PROVE b \in S <=> ld.start <= b /\ b < e
    BY <2>1
  <2> HIDE DEF S
  <2>4. ASSUME NEW b \in Int, NEW q PROVE Has(d, b, q) <=> Has(c, b, q) /\ ~(q = p /\ b \in S)
    BY <1>7, <2>3 DEF Freed
  <2>5. ASSUME NEW x
        PROVE  x \in new <=> x \in old /\ ~(x[1] = f /\ x[2] \in S /\ x[3] = p)
    <3>1. ASSUME x \in new PROVE x \in old /\ ~(x[1] = f /\ x[2] \in S /\ x[3] = p)
      <4>1. PICK g, b, q : g \in File /\ b \in Int /\ x = <<g, b, q, "write">> /\ Has(flck'[g], b, q)
        BY <1>3, <3>1
      <4>2. x[1] = g /\ x[2] = b /\ x[3] = q
        BY <4>1
      <4>3. Has(flck[g], b, q) /\ ~(g = f /\ b \in S /\ q = p)
        <5>1. CASE g = f
          BY <1>1, <2>4, <4>1, <5>1
        <5>2. CASE g # f
          BY <1>4, <4>1, <5>2
        <5> QED BY <5>1, <5>2
      <4>4. x \in old
        BY <1>3, <4>1, <4>3
      <4> QED BY <4>2, <4>3, <4>4
    <3>2. ASSUME x \in old, ~(x[1] = f /\ x[2] \in S /\ x[3] = p) PROVE x \in new
      <4>1. PICK g, b, q : g \in File /\ b \in Int /\ x = <<g, b, q, "write">> /\ Has(flck[g], b, q)
        BY <1>3, <3>2
      <4>2. ~(g = f /\ b \in S /\ q = p)
        BY <3>2, <4>1
      <4>3. Has(flck'[g], b, q)
        <5>1. CASE g = f
          BY <1>1, <2>4, <4>1, <4>2, <5>1
        <5>2. CASE g # f
          BY <1>4, <4>1, <5>2
        <5> QED BY <5>1, <5>2
      <4> QED BY <1>3, <4>1, <4>3
    <3> QED BY <3>1, <3>2
  <2>6. new = old \ Table!Own(p, f, S)
    <3>1. ASSUME NEW x PROVE x \in Table!Own(p, f, S) <=> x \in old /\ x[1] = f /\ x[2] \in S /\ x[3] = p
      BY DEF Table!Own, old
    <3> QED BY <2>5, <3>1
  <2>7. Table!Unlock(p, f, S)
    BY <2>6 DEF Table!Unlock, old, new
  <2> QED BY <1>1, <2>2, <2>7 DEF Table!TableNext
<1> QED BY <1>1, <1>5, <1>6, <1>7 DEF Effect

LEMMA NextTable ==
    ASSUME WritesOnly, IndInv, Chains, [Next]_vars
    PROVE  [Table!TableNext]_HeldTable
<1>1. CASE UNCHANGED vars
  <2>1. flck' = flck
    BY <1>1 DEF vars
  <2>2. HeldTable' = HeldTable
    BY <2>1 DEF HeldTable
  <2> QED BY <2>2
<1>2. CASE Next
  <2>1. PICK p, f, d : Touched(p, f, d)
    BY <1>2, NextTouches
  <2>2. flck \in [File -> Seq(Lock)]
    BY DEF IndInv, Typed
  <2> QED BY <2>1, <2>2, TouchedTable
<1> QED BY <1>1, <1>2

(* As long as all locks are for writing, the locks of a file follow each   *)
(* other in the chain without a common byte.                               *)
THEOREM ChainsInOrder == ASSUME WritesOnly PROVE Spec => []Chains
<1>1. Init => Chains
  BY DEF Init, Chains, Chain
<1>2. IndInv /\ Chains /\ [Next]_vars => Chains'
  BY ChainsNext
<1> QED BY <1>1, <1>2, LocksCorrect, PTL DEF Spec

(* No byte of a file has two owners.                                       *)
THEOREM NoCommonByte == ASSUME WritesOnly PROVE Spec => []NoConflict
<1>1. Chains /\ IndInv => NoConflict
  <2> SUFFICES ASSUME Chains, IndInv, NEW f \in File, NEW i \in DOMAIN flck[f],
                      NEW j \in DOMAIN flck[f]
               PROVE  ~Conflict(flck[f][i], flck[f][j].pid, flck[f][j])
    BY DEF NoConflict
  <2>1. flck[f] \in Seq(Lock) /\ Chain(flck[f])
    BY DEF IndInv, Typed, Chains
  <2> DEFINE c == flck[f]
  <2> HIDE DEF c
  <2>2. /\ i \in Int /\ j \in Int /\ c[i].start \in Int /\ c[i].end \in Int
        /\ c[j].start \in Int /\ c[j].end \in Int
    BY <2>1, LockIs DEF c
  <2>3. (i < j => c[i].end <= c[j].start) /\ (j < i => c[j].end <= c[i].start)
    BY <2>1 DEF Chain, c
  <2>4. ~Conflict(c[i], c[j].pid, c[j])
    BY <2>2, <2>3 DEF Conflict
  <2> QED BY <2>4 DEF c
<1> QED BY <1>1, ChainsInOrder, LocksCorrect, PTL

(* A request that is not blocked changes the bytes of its range and no     *)
(* others, whatever flckadj() has to cut, join and sever for it; one that  *)
(* runs out of records leaves the process without some of these bytes.     *)
THEOREM RequestsExact == ASSUME WritesOnly PROVE Spec => []ChangesExact
<1>1. IndInv /\ Chains => ChangesExact
  BY ChangesAre
<1> QED BY <1>1, ChainsInOrder, LocksCorrect, PTL

(* The chains are a table that says who has which byte: each step of       *)
(* record locking locks or unlocks bytes of one process in LockTable, or   *)
(* leaves the table as it is.                                              *)
THEOREM ChainsAreATable == ASSUME WritesOnly PROVE Spec => ImplementsTable
<1>1. Init => Table!TableInit
  <2> SUFFICES ASSUME Init PROVE HeldTable = {}
    BY DEF Table!TableInit
  <2>1. ASSUME NEW f \in File PROVE Held(flck[f]) = {}
    BY DEF Init, Held
  <2> QED BY <2>1 DEF HeldTable
<1>2. IndInv /\ Chains /\ [Next]_vars => [Table!TableNext]_HeldTable
  BY NextTable
<1> QED BY <1>1, <1>2, ChainsInOrder, LocksCorrect, PTL DEF Spec, ImplementsTable, Table!TableSpec
=============================================================================
