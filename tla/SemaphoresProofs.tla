-------------------------- MODULE SemaphoresProofs --------------------------
(***************************************************************************)
(* Proofs about Semaphores: for any number of processes and sets and any   *)
(* lists of operations, undo structures and entries are accounted for and  *)
(* no wakeup is lost, and lists are done as a whole or not at all, as      *)
(* SemaphoreSets promises; and when no list waits for zero of a semaphore  *)
(* that it has changed, nobody sleeps whose list could be done.            *)
(***************************************************************************)
EXTENDS Semaphores, FiniteSetTheorems, TLAPS

Lemmas == INSTANCE ListLemmas

Key == Id \X Num
Amount == -SEMAEM .. SEMAEM

(* The undo entries of a process. *)
Entries ==
    {f \in UNION {[D -> Int] : D \in SUBSET Key} :
        /\ IsFiniteSet(DOMAIN f) /\ Cardinality(DOMAIN f) <= SEMUME
        /\ \A e \in DOMAIN f : f[e] \in Amount /\ f[e] # 0}

(* The record that a run of a list works on.                               *)
Work == [val : [Num -> Int], has : BOOLEAN, ent : Entries, free : Int,
         status : {"done", "grow", "zero", "failed"}, done : Nat,
         raised : SUBSET Num, zeroed : SUBSET Num]

(* Its undo structure is the process's own or one of the free ones, n in   *)
(* all, and its entries have keys in K.                                    *)
One(b) == IF b THEN 1 ELSE 0
Sound(u, K, n) ==
    /\ u \in Work /\ DOMAIN u.ent \subseteq K
    /\ u.free >= 0 /\ u.free + One(u.has) = n
    /\ u.ent # <<>> => u.has
-----------------------------------------------------------------------------
LEMMA InEntries ==
    ASSUME NEW f
    PROVE  f \in Entries <=>
               /\ f = [e \in DOMAIN f |-> f[e]] /\ DOMAIN f \subseteq Key
               /\ IsFiniteSet(DOMAIN f) /\ Cardinality(DOMAIN f) <= SEMUME
               /\ \A e \in DOMAIN f : f[e] \in Amount /\ f[e] # 0
<1>1. ASSUME f \in Entries PROVE f = [e \in DOMAIN f |-> f[e]] /\ DOMAIN f \subseteq Key
  <2>1. PICK D \in SUBSET Key : f \in [D -> Int]
    BY <1>1 DEF Entries
  <2> QED BY <2>1
<1>2. ASSUME f = [e \in DOMAIN f |-> f[e]], DOMAIN f \subseteq Key,
             \A e \in DOMAIN f : f[e] \in Amount
      PROVE  f \in UNION {[D -> Int] : D \in SUBSET Key}
  <2>1. \A e \in DOMAIN f : f[e] \in Int
    BY <1>2, SemAssumption DEF Amount
  <2>2. f \in [DOMAIN f -> Int]
    BY <1>2, <2>1
  <2> QED BY <1>2, <2>2
<1> QED BY <1>1, <1>2 DEF Entries

(* An entry is changed, removed, or put where there is room for it.        *)
LEMMA WithEntryIs ==
    ASSUME NEW ent \in Entries, NEW key \in Key, NEW x \in Amount,
           key \in DOMAIN ent \/ Cardinality(DOMAIN ent) < SEMUME
    PROVE  /\ WithEntry(ent, key, x) \in Entries
           /\ DOMAIN WithEntry(ent, key, x) \subseteq DOMAIN ent \cup {key}
<1>0. /\ ent = [e \in DOMAIN ent |-> ent[e]] /\ DOMAIN ent \subseteq Key
      /\ IsFiniteSet(DOMAIN ent) /\ Cardinality(DOMAIN ent) <= SEMUME
      /\ \A e \in DOMAIN ent : ent[e] \in Amount /\ ent[e] # 0
  BY InEntries
<1>1. CASE x = 0
  <2> DEFINE f == [e \in DOMAIN ent \ {key} |-> ent[e]]
  <2>1. WithEntry(ent, key, x) = f
    BY <1>1 DEF WithEntry
  <2>2. /\ DOMAIN f = DOMAIN ent \ {key} /\ f = [e \in DOMAIN f |-> f[e]]
        /\ \A e \in DOMAIN f : f[e] = ent[e]
    OBVIOUS
  <2>3. IsFiniteSet(DOMAIN f) /\ Cardinality(DOMAIN f) <= Cardinality(DOMAIN ent)
    BY <1>0, <2>2, FS_Subset
  <2>4. Cardinality(DOMAIN f) \in Nat /\ Cardinality(DOMAIN ent) \in Nat /\ SEMUME \in Nat
    BY <1>0, <2>3, FS_CardinalityType, SemAssumption
  <2> HIDE DEF f
  <2>5. f \in Entries
    BY <1>0, <2>2, <2>3, <2>4, InEntries
  <2> QED BY <2>1, <2>2, <2>5
<1>2. CASE x # 0
  <2> DEFINE f == [e \in DOMAIN ent \cup {key} |-> IF e = key THEN x ELSE ent[e]]
  <2>1. WithEntry(ent, key, x) = f
    BY <1>2 DEF WithEntry
  <2>2. /\ DOMAIN f = DOMAIN ent \cup {key} /\ f = [e \in DOMAIN f |-> f[e]]
        /\ \A e \in DOMAIN f : f[e] = x \/ (e \in DOMAIN ent /\ f[e] = ent[e])
    OBVIOUS
  <2>3. IsFiniteSet(DOMAIN f) /\ Cardinality(DOMAIN f) <= SEMUME
    <3>1. Cardinality(DOMAIN ent) \in Nat /\ SEMUME \in Nat
      BY <1>0, FS_CardinalityType, SemAssumption
    <3>2. CASE key \in DOMAIN ent
      <4>1. DOMAIN f = DOMAIN ent
        BY <2>2, <3>2
      <4> QED BY <1>0, <4>1
    <3>3. CASE key \notin DOMAIN ent
      <4>1. /\ IsFiniteSet(DOMAIN ent \cup {key})
            /\ Cardinality(DOMAIN ent \cup {key}) = Cardinality(DOMAIN ent) + 1
        BY <1>0, <3>3, FS_AddElement
      <4>2. DOMAIN f = DOMAIN ent \cup {key} /\ Cardinality(DOMAIN ent) < SEMUME
        BY <2>2, <3>3
      <4> HIDE DEF f
      <4> QED BY <3>1, <4>1, <4>2
    <3> QED BY <3>2, <3>3
  <2> HIDE DEF f
  <2>5. f \in Entries
    BY <1>0, <1>2, <2>2, <2>3, InEntries
  <2> QED BY <2>1, <2>2, <2>5
<1> QED BY <1>1, <1>2

LEMMA Failed ==
    ASSUME NEW u \in Work, NEW w, w = [u EXCEPT !.status = "failed"]
    PROVE  /\ w \in Work /\ w.status = "failed" /\ w.val = u.val /\ w.has = u.has
           /\ w.ent = u.ent /\ w.free = u.free /\ w.done = u.done
           /\ w.raised = u.raised /\ w.zeroed = u.zeroed
BY DEF Work

(* What is to be added to the semaphore of a key at exit.                  *)
Ent(f, e) == IF e \in DOMAIN f THEN f[e] ELSE 0

(* semaoe() keeps account of structures and entries, and leaves the values *)
(* alone. If it fails the entries are as before.                           *)
Entered(u, w, key, x) ==
    /\ u.has => w.has
    /\ w.status # "failed" => /\ w.has /\ Abs(x) <= SEMAEM
                              /\ w.ent = WithEntry(u.ent, key, Ent(u.ent, key) - x)
    /\ w.status = "failed" /\ u.status # "failed" => w.ent = u.ent
SameValues(u, w) ==
    /\ w.val = u.val /\ w.done = u.done /\ w.raised = u.raised /\ w.zeroed = u.zeroed
    /\ w.status \in {u.status, "failed"}

LEMMA SemaoeIs ==
    ASSUME NEW K, K \subseteq Key, NEW n, NEW u, Sound(u, K, n), NEW x \in Int, NEW key \in K,
           NEW w, w = Semaoe(u, x, key)
    PROVE  Sound(w, K, n) /\ SameValues(u, w) /\ Entered(u, w, key, x)
<1> DEFINE new == Entry(u, key) - x
           full == key \notin DOMAIN u.ent /\ Cardinality(DOMAIN u.ent) >= SEMUME
<1>0. /\ u \in Work /\ DOMAIN u.ent \subseteq K /\ u.free >= 0 /\ u.free + One(u.has) = n
      /\ u.ent # <<>> => u.has
      /\ u.ent \in Entries /\ SEMAEM \in Nat /\ SEMUME \in Nat
      /\ u.has \in BOOLEAN /\ u.free \in Int
  BY SemAssumption DEF Sound, Work
<1>1. CASE Abs(x) > SEMAEM \/ (~u.has /\ u.free = 0)
  <2>1. w = [u EXCEPT !.status = "failed"]
    BY <1>1 DEF Semaoe
  <2> QED BY <1>0, <2>1, Failed DEF Sound, SameValues, Entered
<1>2. CASE ~(Abs(x) > SEMAEM \/ (~u.has /\ u.free = 0))
  <2>0. PICK free : free = IF u.has THEN u.free ELSE u.free - 1
    OBVIOUS
  <2>1. free \in Int /\ free >= 0 /\ free + 1 = n
    BY <1>0, <1>2, <2>0 DEF One
  <2>2. PICK got : got = [u EXCEPT !.has = TRUE, !.free = free]
    OBVIOUS
  <2>3. /\ got \in Work /\ got.has = TRUE /\ got.ent = u.ent /\ got.val = u.val
        /\ got.done = u.done /\ got.raised = u.raised /\ got.zeroed = u.zeroed
        /\ got.status = u.status /\ got.free = free
    BY <1>0, <2>1, <2>2 DEF Work
  <2>4. w = IF full \/ Abs(new) > SEMAEM THEN [got EXCEPT !.status = "failed"]
            ELSE [got EXCEPT !.ent = WithEntry(@, key, new)]
    <3>1. got = [u EXCEPT !.has = TRUE, !.free = IF u.has THEN @ ELSE @ - 1]
      BY <2>0, <2>2
    <3> QED BY <1>2, <3>1 DEF Semaoe
  <2>5. CASE full \/ Abs(new) > SEMAEM
    <3>1. w = [got EXCEPT !.status = "failed"]
      BY <2>4, <2>5
    <3>2. /\ w \in Work /\ w.status = "failed" /\ w.val = u.val /\ w.has = TRUE
          /\ w.ent = u.ent /\ w.free = free /\ w.done = u.done
          /\ w.raised = u.raised /\ w.zeroed = u.zeroed
      BY <2>3, <3>1, Failed
    <3>3. Sound(w, K, n) /\ SameValues(u, w)
      BY <1>0, <2>1, <3>2 DEF Sound, One, SameValues
    <3>4. Entered(u, w, key, x)
      BY <3>2 DEF Entered
    <3> QED BY <3>3, <3>4
  <2>6. CASE ~(full \/ Abs(new) > SEMAEM)
    <3>1. w = [got EXCEPT !.ent = WithEntry(u.ent, key, new)]
      BY <2>3, <2>4, <2>6
    <3>2. new \in Amount
      <4>1. Entry(u, key) \in Int
        BY <1>0, InEntries DEF Entry, Amount
      <4> QED BY <1>0, <2>6, <4>1 DEF Abs, Amount
    <3>3. Cardinality(DOMAIN u.ent) \in Nat
      BY <1>0, InEntries, FS_CardinalityType
    <3>4. WithEntry(u.ent, key, new) \in Entries /\ DOMAIN WithEntry(u.ent, key, new) \subseteq K
      BY <1>0, <2>6, <3>2, <3>3, WithEntryIs
    <3>5. /\ w \in Work /\ w.status = u.status /\ w.val = u.val /\ w.has = TRUE
          /\ w.ent = WithEntry(u.ent, key, new) /\ w.free = free /\ w.done = u.done
          /\ w.raised = u.raised /\ w.zeroed = u.zeroed
      BY <2>3, <3>1, <3>4 DEF Work
    <3>6. Sound(w, K, n) /\ SameValues(u, w)
      BY <2>1, <3>4, <3>5 DEF Sound, One, SameValues
    <3>7. w.ent = WithEntry(u.ent, key, Ent(u.ent, key) - x) /\ Abs(x) <= SEMAEM
      <4>1. Abs(x) \in Int
        BY DEF Abs
      <4>2. Entry(u, key) = Ent(u.ent, key)
        BY DEF Entry, Ent
      <4> QED BY <1>0, <1>2, <3>5, <4>1, <4>2
    <3>8. Entered(u, w, key, x)
      BY <3>5, <3>7 DEF Entered
    <3> QED BY <3>6, <3>8
  <2> QED BY <2>5, <2>6
<1> QED BY <1>1, <1>2
-----------------------------------------------------------------------------
(* The recursive functions over a list are what they say: a run of it,     *)
RunTo(f, u, list, id, n) ==
    f = [i \in 0 .. n |-> IF i = 0 THEN u ELSE Advance(f[i - 1], list[i], id)]

LEMMA RunsExist ==
    ASSUME NEW u, NEW list, NEW id
    PROVE  \A n \in Nat : \E f : RunTo(f, u, list, id, n)
<1> DEFINE T == {n \in Nat :
                    \E f : f = [i \in 0 .. n |-> IF i = 0 THEN u ELSE Advance(f[i - 1], list[i], id)]}
<1>1. 0 \in T
  <2> DEFINE f == [i \in 0 .. 0 |-> u]
  <2>1. f = [i \in 0 .. 0 |-> IF i = 0 THEN u ELSE Advance(f[i - 1], list[i], id)]
    OBVIOUS
  <2> QED BY <2>1
<1>2. ASSUME NEW n \in Nat, n \in T PROVE n + 1 \in T
  <2>1. PICK f : f = [i \in 0 .. n |-> IF i = 0 THEN u ELSE Advance(f[i - 1], list[i], id)]
    BY <1>2
  <2> DEFINE g == [i \in 0 .. n + 1 |-> IF i = n + 1 THEN Advance(f[n], list[(n + 1)], id) ELSE f[i]]
  <2>2. g = [i \in 0 .. n + 1 |-> IF i = 0 THEN u ELSE Advance(g[i - 1], list[i], id)]
    <3>1. ASSUME NEW j \in 0 .. n + 1
          PROVE  g[j] = IF j = 0 THEN u ELSE Advance(g[j - 1], list[j], id)
      <4>1. CASE j = n + 1
        <5>1. g[j] = Advance(f[n], list[j], id) /\ j - 1 = n /\ g[n] = f[n] /\ j # 0
          BY <4>1
        <5> QED BY <5>1, Zenon
      <4>2. CASE j # n + 1
        <5>1. f[j] = IF j = 0 THEN u ELSE Advance(f[j - 1], list[j], id)
          BY <2>1, <4>2
        <5>2. j # 0 => j - 1 \in 0 .. n + 1 /\ j - 1 # n + 1
          BY <4>2
        <5>3. g[j] = f[j] /\ (j # 0 => g[j - 1] = f[j - 1])
          BY <4>2, <5>2
        <5> QED BY <5>1, <5>3, Zenon
      <4> QED BY <4>1, <4>2
    <3> HIDE DEF g
    <3>2. g = [j \in 0 .. n + 1 |-> g[j]]
      BY DEF g
    <3> QED BY <3>1, <3>2
  <2> HIDE DEF g
  <2>3. \E h : h = [i \in 0 .. n + 1 |-> IF i = 0 THEN u ELSE Advance(h[i - 1], list[i], id)]
    BY <2>2, Zenon
  <2> QED BY <2>3
<1> HIDE DEF T
<1>3. Nat \subseteq T
  BY <1>1, <1>2, Lemmas!Induction
<1> QED BY <1>3 DEF T, RunTo

LEMMA RunsAre ==
    ASSUME NEW u, NEW list, NEW id, Len(list) \in Nat,
           NEW r, r = Runs(u, list, id)
    PROVE  /\ r[0] = u
           /\ \A i \in 1 .. Len(list) : r[i] = Advance(r[i - 1], list[i], id)
<1> DEFINE s == CHOOSE f : f = [i \in 0 .. Len(list) |-> IF i = 0 THEN u ELSE Advance(f[i - 1], list[i], id)]
<1>0. Len(list) \in Nat
  OBVIOUS
<1>1. s = [i \in 0 .. Len(list) |-> IF i = 0 THEN u ELSE Advance(s[i - 1], list[i], id)]
  <2>1. \E f : RunTo(f, u, list, id, Len(list))
    BY <1>0, RunsExist
  <2> QED BY <2>1, Zenon DEF RunTo
<1>2. Runs(u, list, id) = s
  BY Zenon DEF Runs
<1> HIDE DEF s
<1> QED BY <1>0, <1>1, <1>2

(* the way back,                                                           *)
UndoTo(f, u, list, id, m, n) ==
    f = [i \in 0 .. n |-> IF i = 0 THEN u ELSE UndoOne(f[i - 1], list[m + 1 - i], id)]

LEMMA UndoesExist ==
    ASSUME NEW u, NEW list, NEW id, NEW m
    PROVE  \A n \in Nat : \E f : UndoTo(f, u, list, id, m, n)
<1> DEFINE T == {n \in Nat :
                    \E f : f = [i \in 0 .. n |-> IF i = 0 THEN u ELSE UndoOne(f[i - 1], list[m + 1 - i], id)]}
<1>1. 0 \in T
  <2> DEFINE f == [i \in 0 .. 0 |-> u]
  <2>1. f = [i \in 0 .. 0 |-> IF i = 0 THEN u ELSE UndoOne(f[i - 1], list[m + 1 - i], id)]
    OBVIOUS
  <2> QED BY <2>1
<1>2. ASSUME NEW n \in Nat, n \in T PROVE n + 1 \in T
  <2>1. PICK f : f = [i \in 0 .. n |-> IF i = 0 THEN u ELSE UndoOne(f[i - 1], list[m + 1 - i], id)]
    BY <1>2
  <2> DEFINE g == [i \in 0 .. n + 1 |-> IF i = n + 1 THEN UndoOne(f[n], list[m + 1 - (n + 1)], id) ELSE f[i]]
  <2>2. g = [i \in 0 .. n + 1 |-> IF i = 0 THEN u ELSE UndoOne(g[i - 1], list[m + 1 - i], id)]
    <3>1. ASSUME NEW j \in 0 .. n + 1
          PROVE  g[j] = IF j = 0 THEN u ELSE UndoOne(g[j - 1], list[m + 1 - j], id)
      <4>1. CASE j = n + 1
        <5>1. g[j] = UndoOne(f[n], list[m + 1 - j], id) /\ j - 1 = n /\ g[n] = f[n] /\ j # 0
          BY <4>1
        <5> QED BY <5>1, Zenon
      <4>2. CASE j # n + 1
        <5>1. f[j] = IF j = 0 THEN u ELSE UndoOne(f[j - 1], list[m + 1 - j], id)
          BY <2>1, <4>2
        <5>2. j # 0 => j - 1 \in 0 .. n + 1 /\ j - 1 # n + 1
          BY <4>2
        <5>3. g[j] = f[j] /\ (j # 0 => g[j - 1] = f[j - 1])
          BY <4>2, <5>2
        <5> QED BY <5>1, <5>3, Zenon
      <4> QED BY <4>1, <4>2
    <3> HIDE DEF g
    <3>2. g = [j \in 0 .. n + 1 |-> g[j]]
      BY DEF g
    <3> QED BY <3>1, <3>2
  <2> HIDE DEF g
  <2>3. \E h : h = [i \in 0 .. n + 1 |-> IF i = 0 THEN u ELSE UndoOne(h[i - 1], list[m + 1 - i], id)]
    BY <2>2, Zenon
  <2> QED BY <2>3
<1> HIDE DEF T
<1>3. Nat \subseteq T
  BY <1>1, <1>2, Lemmas!Induction
<1> QED BY <1>3 DEF T, UndoTo

UndoSteps(r, u, list, m, id) ==
    /\ r[0] = u
    /\ \A i \in 1 .. m : r[i] = UndoOne(r[i - 1], list[m + 1 - i], id)

LEMMA UndoesAre ==
    ASSUME NEW u, NEW list, NEW id, NEW m, m \in Nat,
           NEW r, r = Undoes(u, list, m, id)
    PROVE  UndoSteps(r, u, list, m, id)
<1> DEFINE s == CHOOSE f : f = [i \in 0 .. m |-> IF i = 0 THEN u ELSE UndoOne(f[i - 1], list[m + 1 - i], id)]
<1>0. m \in Nat
  OBVIOUS
<1>1. s = [i \in 0 .. m |-> IF i = 0 THEN u ELSE UndoOne(s[i - 1], list[m + 1 - i], id)]
  <2>1. \E f : UndoTo(f, u, list, id, m, m)
    BY <1>0, UndoesExist
  <2> QED BY <2>1, Zenon DEF UndoTo
<1>2. Undoes(u, list, m, id) = s
  BY Zenon DEF Undoes
<1> HIDE DEF s
<1> QED BY <1>0, <1>1, <1>2 DEF UndoSteps

(* and the sums of the first numbers of a list.                            *)
SumTo(f, g, n) == f = [i \in 0 .. n |-> IF i = 0 THEN 0 ELSE f[i - 1] + g[i]]

LEMMA SumsExist ==
    ASSUME NEW g
    PROVE  \A n \in Nat : \E f : SumTo(f, g, n)
<1> DEFINE T == {n \in Nat :
                    \E f : f = [i \in 0 .. n |-> IF i = 0 THEN 0 ELSE f[i - 1] + g[i]]}
<1>1. 0 \in T
  <2> DEFINE f == [i \in 0 .. 0 |-> 0]
  <2>1. f = [i \in 0 .. 0 |-> IF i = 0 THEN 0 ELSE f[i - 1] + g[i]]
    OBVIOUS
  <2> QED BY <2>1
<1>2. ASSUME NEW n \in Nat, n \in T PROVE n + 1 \in T
  <2>1. PICK f : f = [i \in 0 .. n |-> IF i = 0 THEN 0 ELSE f[i - 1] + g[i]]
    BY <1>2
  <2> DEFINE h == [i \in 0 .. n + 1 |-> IF i = n + 1 THEN f[n] + g[(n + 1)] ELSE f[i]]
  <2>2. h = [i \in 0 .. n + 1 |-> IF i = 0 THEN 0 ELSE h[i - 1] + g[i]]
    <3>1. ASSUME NEW j \in 0 .. n + 1
          PROVE  h[j] = IF j = 0 THEN 0 ELSE h[j - 1] + g[j]
      <4>1. CASE j = n + 1
        <5>1. h[j] = f[n] + g[j] /\ j - 1 = n /\ h[n] = f[n] /\ j # 0
          BY <4>1
        <5> QED BY <5>1, Zenon
      <4>2. CASE j # n + 1
        <5>1. f[j] = IF j = 0 THEN 0 ELSE f[j - 1] + g[j]
          BY <2>1, <4>2
        <5>2. j # 0 => j - 1 \in 0 .. n + 1 /\ j - 1 # n + 1
          BY <4>2
        <5>3. h[j] = f[j] /\ (j # 0 => h[j - 1] = f[j - 1])
          BY <4>2, <5>2
        <5> QED BY <5>1, <5>3, Zenon
      <4> QED BY <4>1, <4>2
    <3> HIDE DEF h
    <3>2. h = [j \in 0 .. n + 1 |-> h[j]]
      BY DEF h
    <3> QED BY <3>1, <3>2
  <2> HIDE DEF h
  <2>3. \E e : e = [i \in 0 .. n + 1 |-> IF i = 0 THEN 0 ELSE e[i - 1] + g[i]]
    BY <2>2, Zenon
  <2> QED BY <2>3
<1> HIDE DEF T
<1>3. Nat \subseteq T
  BY <1>1, <1>2, Lemmas!Induction
<1> QED BY <1>3 DEF T, SumTo

LEMMA SumsAre ==
    ASSUME NEW g, Len(g) \in Nat, NEW r, r = Promise!Sums(g)
    PROVE  /\ r[0] = 0
           /\ \A i \in 1 .. Len(g) : r[i] = r[i - 1] + g[i]
<1> DEFINE s == CHOOSE f : f = [i \in 0 .. Len(g) |-> IF i = 0 THEN 0 ELSE f[i - 1] + g[i]]
<1>0. Len(g) \in Nat
  OBVIOUS
<1>1. s = [i \in 0 .. Len(g) |-> IF i = 0 THEN 0 ELSE s[i - 1] + g[i]]
  <2>1. \E f : SumTo(f, g, Len(g))
    BY <1>0, SumsExist
  <2> QED BY <2>1, Zenon DEF SumTo
<1>2. Promise!Sums(g) = s
  BY Zenon DEF Promise!Sums
<1> HIDE DEF s
<1> QED BY <1>0, <1>1, <1>2

(* What the first operations of a list add to semaphore `num', and what of *)
(* it is to be undone.                                                     *)
LEMMA AddedIs ==
    ASSUME NEW list, NEW num, Len(list) \in Nat,
           NEW r, r = Promise!Added(list, num)
    PROVE  /\ r[0] = 0
           /\ \A i \in 1 .. Len(list) : r[i] = r[i - 1] + Promise!Adds(list[i], num)
<1>1. PICK g : g = [i \in 1 .. Len(list) |-> Promise!Adds(list[i], num)]
  OBVIOUS
<1>2. Len(g) = Len(list) /\ \A i \in 1 .. Len(list) : g[i] = Promise!Adds(list[i], num)
  BY <1>1
<1>3. r = Promise!Sums(g) /\ Len(g) \in Nat
  BY <1>1, <1>2 DEF Promise!Added
<1>4. r[0] = 0 /\ \A i \in 1 .. Len(g) : r[i] = r[i - 1] + g[i]
  BY <1>3, SumsAre
<1> QED BY <1>2, <1>4

LEMMA OwedIs ==
    ASSUME NEW list, NEW num, Len(list) \in Nat,
           NEW r, r = Promise!Owed(list, num)
    PROVE  /\ r[0] = 0
           /\ \A i \in 1 .. Len(list) : r[i] = r[i - 1] + Promise!Owes(list[i], num)
<1>1. PICK g : g = [i \in 1 .. Len(list) |-> Promise!Owes(list[i], num)]
  OBVIOUS
<1>2. Len(g) = Len(list) /\ \A i \in 1 .. Len(list) : g[i] = Promise!Owes(list[i], num)
  BY <1>1
<1>3. r = Promise!Sums(g) /\ Len(g) \in Nat
  BY <1>1, <1>2 DEF Promise!Owed
<1>4. r[0] = 0 /\ \A i \in 1 .. Len(g) : r[i] = r[i - 1] + g[i]
  BY <1>3, SumsAre
<1> QED BY <1>2, <1>4

-----------------------------------------------------------------------------
Value == 0 .. SEMVMX

(* What an operation that is done changes, and why one is not.             *)
Noted(u, op, id, w) ==
    /\ u.has => w.has
    /\ op.undo /\ op.op # 0 =>
          /\ w.has /\ Abs(op.op) <= SEMAEM
          /\ w.ent = WithEntry(u.ent, <<id, op.num>>, Ent(u.ent, <<id, op.num>>) - op.op)
    /\ ~(op.undo /\ op.op # 0) => w.ent = u.ent
Done(u, op, id, w) ==
    /\ Noted(u, op, id, w)
    /\ w.status = "done" /\ w.done = u.done + 1 /\ w.val \in [Num -> Value]
    /\ \A k \in Num : w.val[k] = u.val[k] + Promise!Adds(op, k)
    /\ op.op = 0 => u.val[op.num] = 0
    /\ u.raised \subseteq w.raised /\ u.zeroed \subseteq w.zeroed
    /\ op.op > 0 => op.num \in w.raised
    /\ op.op < 0 /\ w.val[op.num] = 0 => op.num \in w.zeroed
Stuck(status, v, op) ==
    \/ status = "grow" /\ op.op < 0 /\ v + op.op < 0
    \/ status = "zero" /\ op.op = 0 /\ v # 0
Idle(u, w) == /\ w.done = u.done /\ w.ent = u.ent
              /\ u.has => w.has
Stopped(u, op, w) ==
    /\ Idle(u, w)
    /\ w.status # "done" /\ w.val = u.val /\ w.done = u.done
    /\ w.raised = u.raised /\ w.zeroed = u.zeroed
    /\ w.status = "failed" \/ Stuck(w.status, u.val[op.num], op)

LEMMA WaitIs ==
    ASSUME NEW K, NEW n, NEW u, Sound(u, K, n), NEW op \in Op, NEW status \in {"grow", "zero"},
           Stuck(status, u.val[op.num], op), NEW w, w = Wait(u, op, status)
    PROVE  Sound(w, K, n) /\ Stopped(u, op, w)
<1>1. PICK t \in {"failed", status} : w = [u EXCEPT !.status = t]
  BY DEF Wait
<1>2. /\ w \in Work /\ w.status = t /\ w.val = u.val /\ w.has = u.has
      /\ w.ent = u.ent /\ w.free = u.free /\ w.done = u.done
      /\ w.raised = u.raised /\ w.zeroed = u.zeroed
  BY <1>1 DEF Sound, Work
<1> QED BY <1>1, <1>2 DEF Sound, Stopped, Idle

With(a, v, d, r, z) == [a EXCEPT !.val = v, !.done = d, !.raised = r, !.zeroed = z]

LEMMA Changed ==
    ASSUME NEW a \in Work, NEW v \in [Num -> Int], NEW d \in Nat, NEW r \in SUBSET Num,
           NEW z \in SUBSET Num,
           NEW w, w = With(a, v, d, r, z)
    PROVE  /\ w \in Work /\ w.status = a.status /\ w.val = v /\ w.has = a.has /\ w.ent = a.ent
           /\ w.free = a.free /\ w.done = d /\ w.raised = r /\ w.zeroed = z
<1>1. PICK b : b = [a EXCEPT !.val = v]
  OBVIOUS
<1>2. /\ b \in Work /\ b.status = a.status /\ b.val = v /\ b.has = a.has /\ b.ent = a.ent
      /\ b.free = a.free
  BY <1>1 DEF Work
<1>3. PICK c : c = [b EXCEPT !.done = d]
  OBVIOUS
<1>4. /\ c \in Work /\ c.status = a.status /\ c.val = v /\ c.has = a.has /\ c.ent = a.ent
      /\ c.free = a.free /\ c.done = d
  BY <1>2, <1>3 DEF Work
<1>5. PICK e : e = [c EXCEPT !.raised = r]
  OBVIOUS
<1>6. /\ e \in Work /\ e.status = a.status /\ e.val = v /\ e.has = a.has /\ e.ent = a.ent
      /\ e.free = a.free /\ e.done = d /\ e.raised = r
  BY <1>4, <1>5 DEF Work
<1>7. w = [e EXCEPT !.zeroed = z]
  BY <1>1, <1>3, <1>5, Zenon DEF With
<1> QED BY <1>6, <1>7 DEF Work

LEMMA DoIs ==
    ASSUME NEW K, K \subseteq Key, NEW n, NEW u, Sound(u, K, n), u.status = "done",
           u.val \in [Num -> Value], NEW op \in Op, NEW id, <<id, op.num>> \in K,
           op.op = 0 => u.val[op.num] = 0, u.val[op.num] + op.op \in Value,
           NEW w, w = Do(u, op, u.val[op.num], id)
    PROVE  Sound(w, K, n) /\ (Done(u, op, id, w) \/ Stopped(u, op, w))
<1>0. /\ op.num \in Num /\ op.op \in Int /\ SEMVMX \in Nat /\ u.val[op.num] \in Int
      /\ \A k \in Num : u.val[k] \in Int
  BY SemAssumption DEF Op, Value
<1>1. PICK a : a = Undoable(u, op, id)
  OBVIOUS
<1>2. /\ Sound(a, K, n) /\ a.val = u.val /\ a.done = u.done
      /\ a.raised = u.raised /\ a.zeroed = u.zeroed /\ a.status \in {"done", "failed"}
      /\ a.status = "done" => Noted(u, op, id, a)
      /\ a.status = "failed" => a.ent = u.ent /\ (u.has => a.has)
  <2>1. CASE op.undo /\ op.op # 0
    <3>0. PICK key \in K, x \in Int : key = <<id, op.num>> /\ x = op.op
      BY <1>0
    <3>1. a = Semaoe(u, x, key)
      BY <1>1, <2>1, <3>0 DEF Undoable
    <3>2. Sound(a, K, n) /\ SameValues(u, a) /\ Entered(u, a, key, x)
      BY <3>1, SemaoeIs
    <3>3. a.status = "done" => Noted(u, op, id, a)
      BY <2>1, <3>0, <3>2 DEF Entered, Noted
    <3> QED BY <3>2, <3>3 DEF SameValues, Entered
  <2>2. CASE ~(op.undo /\ op.op # 0)
    <3>1. a = u
      BY <1>1, <2>2 DEF Undoable
    <3> QED BY <2>2, <3>1 DEF Noted
  <2> QED BY <2>1, <2>2
<1>3. CASE a.status = "failed"
  <2>1. w = a
    BY <1>1, <1>3 DEF Do
  <2> QED BY <1>2, <1>3, <2>1 DEF Stopped, Idle
<1>4. CASE a.status = "done"
  <2> DEFINE r == a.raised \cup (IF op.op > 0 THEN {op.num} ELSE {})
             z == a.zeroed \cup (IF op.op < 0 /\ u.val[op.num] + op.op = 0 THEN {op.num} ELSE {})
  <2>1. w = [a EXCEPT !.val[op.num] = u.val[op.num] + op.op, !.done = @ + 1,
                      !.raised = r, !.zeroed = z]
    BY <1>1, <1>4 DEF Do
  <2>2. r \in SUBSET Num /\ z \in SUBSET Num
    BY <1>0, <1>2 DEF Sound, Work
  <2>3. /\ u.raised \subseteq r /\ u.zeroed \subseteq z
        /\ op.op > 0 => op.num \in r
        /\ op.op < 0 /\ u.val[op.num] + op.op = 0 => op.num \in z
    BY <1>2
  <2> HIDE DEF r, z
  <2>4. PICK v : v = [u.val EXCEPT ![op.num] = u.val[op.num] + op.op]
    OBVIOUS
  <2>5. /\ v \in [Num -> Value] /\ v \in [Num -> Int] /\ v[op.num] = u.val[op.num] + op.op
        /\ \A k \in Num : k # op.num => v[k] = u.val[k]
    <3>1. v \in [Num -> Value] /\ v[op.num] = u.val[op.num] + op.op
      BY <1>0, <2>4
    <3>2. \A k \in Num : k # op.num => v[k] = u.val[k]
      BY <1>0, <2>4
    <3>3. v \in [Num -> Int]
      BY <3>1, <1>0 DEF Value
    <3> QED BY <3>1, <3>2, <3>3
  <2>6. w = [a EXCEPT !.val = v, !.done = @ + 1, !.raised = r, !.zeroed = z]
    BY <1>2, <2>1, <2>4
  <2>7. /\ w \in Work /\ w.status = "done" /\ w.val = v /\ w.has = a.has /\ w.ent = a.ent
        /\ w.free = a.free /\ w.done = u.done + 1 /\ w.raised = r /\ w.zeroed = z
    <3>1. a \in Work /\ a.done = u.done /\ u.done \in Nat
      BY <1>2 DEF Sound, Work
    <3>2. PICK d : d = u.done + 1
      OBVIOUS
    <3>3. w = With(a, v, d, r, z) /\ d \in Nat
      BY <2>6, <3>1, <3>2 DEF With
    <3>4. /\ w \in Work /\ w.status = a.status /\ w.val = v /\ w.has = a.has /\ w.ent = a.ent
          /\ w.free = a.free /\ w.done = d /\ w.raised = r /\ w.zeroed = z
      BY <2>2, <2>5, <3>1, <3>3, Changed
    <3> QED BY <1>4, <3>2, <3>4
  <2>8. Sound(w, K, n)
    BY <1>2, <2>7 DEF Sound
  <2>9. \A k \in Num : v[k] = u.val[k] + Promise!Adds(op, k)
    BY <1>0, <2>5 DEF Promise!Adds
  <2>10. Noted(u, op, id, w)
    BY <1>2, <1>4, <2>7 DEF Noted
  <2> QED BY <2>3, <2>5, <2>7, <2>8, <2>9, <2>10 DEF Done
<1> QED BY <1>2, <1>3, <1>4

(* An operation of a list is done or stops the list.                       *)
LEMMA OperateIs ==
    ASSUME NEW K, K \subseteq Key, NEW n, NEW u, Sound(u, K, n), u.status = "done",
           u.val \in [Num -> Value], NEW op \in Op, NEW id, <<id, op.num>> \in K,
           NEW w, w = Operate(u, op, id)
    PROVE  Sound(w, K, n) /\ (Done(u, op, id, w) \/ Stopped(u, op, w))
<1>0. op.num \in Num /\ op.op \in Int /\ SEMVMX \in Nat /\ u.val[op.num] \in Value
      /\ u.val[op.num] \in Nat /\ u.val[op.num] <= SEMVMX /\ u \in Work
  BY SemAssumption DEF Op, Value, Sound
<1> DEFINE v == u.val[op.num]
<1>1. CASE op.op > 0 /\ v + op.op > SEMVMX
  <2>1. w = [u EXCEPT !.status = "failed"]
    BY <1>0, <1>1 DEF Operate
  <2> QED BY <1>0, <2>1, Failed DEF Sound, Stopped, Idle
<1>2. CASE op.op < 0 /\ v + op.op < 0
  <2>1. w = Wait(u, op, "grow")
    BY <1>0, <1>2 DEF Operate
  <2> QED BY <1>2, <2>1, WaitIs DEF Stuck
<1>3. CASE op.op = 0 /\ v # 0
  <2>1. w = Wait(u, op, "zero")
    BY <1>0, <1>3 DEF Operate
  <2> QED BY <1>3, <2>1, WaitIs DEF Stuck
<1>4. CASE /\ ~(op.op > 0 /\ v + op.op > SEMVMX) /\ ~(op.op < 0 /\ v + op.op < 0)
           /\ ~(op.op = 0 /\ v # 0)
  <2>1. w = Do(u, op, v, id)
    BY <1>0, <1>4 DEF Operate
  <2>2. v + op.op \in Value /\ (op.op = 0 => v = 0)
    BY <1>0, <1>4 DEF Value
  <2> QED BY <2>1, <2>2, DoIs
<1> QED BY <1>1, <1>2, <1>3, <1>4

LEMMA AddedInt ==
    ASSUME NEW list, NEW num, Len(list) \in Nat, \A i \in 1 .. Len(list) : list[i] \in Op
    PROVE  \A i \in 0 .. Len(list) : Promise!Added(list, num)[i] \in Int
<1> DEFINE r == Promise!Added(list, num)
           T == {i \in Nat : i <= Len(list) => r[i] \in Int}
<1>1. /\ r[0] = 0
      /\ \A i \in 1 .. Len(list) : r[i] = r[i - 1] + Promise!Adds(list[i], num)
  BY AddedIs
<1> HIDE DEF r
<1>2. 0 \in T
  BY <1>1
<1>3. ASSUME NEW i \in Nat, i \in T PROVE i + 1 \in T
  <2> SUFFICES ASSUME i + 1 <= Len(list) PROVE r[i + 1] \in Int
    OBVIOUS
  <2>1. r[i] \in Int /\ i + 1 \in 1 .. Len(list) /\ (i + 1) - 1 = i
    BY <1>3
  <2>2. Promise!Adds(list[i + 1], num) \in Int
    BY <2>1 DEF Promise!Adds, Op
  <2>3. r[i + 1] = r[i] + Promise!Adds(list[i + 1], num)
    BY <1>1, <2>1
  <2> QED BY <2>1, <2>2, <2>3
<1> HIDE DEF T
<1>4. Nat \subseteq T
  BY <1>2, <1>3, Lemmas!Induction
<1> QED BY <1>4 DEF T, r
-----------------------------------------------------------------------------
Keyed(list, id, K) == \A i \in 1 .. Len(list) : list[i] \in Op /\ <<id, list[i].num>> \in K

Fresh(u) == /\ u.val \in [Num -> Value] /\ u.status = "done" /\ u.done = 0

(* How the record is after i operations of a list: operations are done up  *)
(* to the first that is stuck; who sees a value that has grown, or that    *)
(* has become zero, is woken up.                                           *)
After(u, list, i, w) ==
    /\ w.val \in [Num -> Value] /\ w.done \in 0 .. i
    /\ w.status = "done" => w.done = i
    /\ w.status \in {"grow", "zero"} =>
          /\ w.done < Len(list)
          /\ Stuck(w.status, w.val[list[w.done + 1].num], list[w.done + 1])
    /\ \A k \in Num : /\ w.val[k] = u.val[k] + Promise!Added(list, k)[w.done]
                      /\ w.val[k] > u.val[k] => k \in w.raised
                      /\ w.val[k] = 0 /\ u.val[k] # 0 => k \in w.zeroed

LEMMA AfterStart ==
    ASSUME NEW u, Fresh(u), NEW list, Len(list) \in Nat
    PROVE  After(u, list, 0, u)
<1>1. \A k \in Num : u.val[k] \in Int /\ Promise!Added(list, k)[0] = 0
  BY AddedIs, SemAssumption DEF Fresh, Value
<1> QED BY <1>1 DEF After, Fresh

LEMMA AfterStep ==
    ASSUME NEW K, K \subseteq Key, NEW n, NEW u, u.val \in [Num -> Value],
           NEW list, Len(list) \in Nat, NEW id, Keyed(list, id, K),
           NEW i \in Nat, i + 1 <= Len(list), NEW v, Sound(v, K, n), After(u, list, i, v),
           NEW w, w = Advance(v, list[i + 1], id)
    PROVE  /\ Sound(w, K, n) /\ After(u, list, i + 1, w)
           /\ v.status # "done" => w.status # "done"
           /\ w.status = "done" => Done(v, list[i + 1], id, w)
           /\ w.status # "done" => Idle(v, w)
<1>0. /\ i + 1 \in 1 .. Len(list) /\ list[i + 1] \in Op /\ <<id, list[i + 1].num>> \in K
      /\ v.val \in [Num -> Value] /\ v.done \in 0 .. i
  BY DEF Keyed, After
<1>1. CASE v.status # "done"
  <2>1. w = v
    BY <1>1 DEF Advance
  <2> QED BY <1>1, <2>1 DEF After, Idle
<1>2. CASE v.status = "done"
  <2>1. PICK op \in Op : op = list[i + 1] /\ <<id, op.num>> \in K
    BY <1>0
  <2>2. v.done = i /\ (i + 1) - 1 = i
    BY <1>2 DEF After
  <2>3. w = Operate(v, op, id)
    BY <1>2, <2>1 DEF Advance
  <2>4. Sound(w, K, n) /\ (Done(v, op, id, w) \/ Stopped(v, op, w))
    BY <1>0, <1>2, <2>1, <2>3, OperateIs
  <2>5. CASE Done(v, op, id, w)
    <3>1. /\ w.status = "done" /\ w.done = i + 1 /\ w.val \in [Num -> Value]
          /\ \A k \in Num : w.val[k] = v.val[k] + Promise!Adds(op, k)
          /\ v.raised \subseteq w.raised /\ v.zeroed \subseteq w.zeroed
          /\ op.op > 0 => op.num \in w.raised
          /\ op.op < 0 /\ w.val[op.num] = 0 => op.num \in w.zeroed
      BY <2>2, <2>5 DEF Done
    <3>2. ASSUME NEW k \in Num
          PROVE  /\ w.val[k] = u.val[k] + Promise!Added(list, k)[w.done]
                 /\ w.val[k] > u.val[k] => k \in w.raised
                 /\ w.val[k] = 0 /\ u.val[k] # 0 => k \in w.zeroed
      <4>1. /\ w.val[k] \in Int /\ v.val[k] \in Int /\ u.val[k] \in Int
            /\ u.val[k] >= 0 /\ v.val[k] >= 0 /\ op.op \in Int /\ Promise!Adds(op, k) \in Int
        BY <1>0, <3>1, SemAssumption, SMTT(30) DEF Value, Op, Promise!Adds
      <4>2. /\ v.val[k] = u.val[k] + Promise!Added(list, k)[i]
            /\ v.val[k] > u.val[k] => k \in v.raised
            /\ v.val[k] = 0 /\ u.val[k] # 0 => k \in v.zeroed
        BY <2>2 DEF After
      <4>3. Promise!Added(list, k)[i + 1] = Promise!Added(list, k)[i] + Promise!Adds(op, k)
        BY <1>0, <2>1, <2>2, AddedIs
      <4>4. PICK a \in Int, b \in Int : a = Promise!Added(list, k)[i] /\ b = Promise!Adds(op, k)
        <5>1. i \in 0 .. Len(list)
          OBVIOUS
        <5>2. \A j \in 1 .. Len(list) : list[j] \in Op
          BY DEF Keyed
        <5>3. Promise!Added(list, k)[i] \in Int
          BY <5>1, <5>2, AddedInt
        <5> QED BY <4>1, <5>3
      <4>5. w.val[k] = u.val[k] + Promise!Added(list, k)[w.done]
        BY <3>1, <4>1, <4>2, <4>3, <4>4, SMTT(30)
      <4>6. w.val[k] = v.val[k] + Promise!Adds(op, k)
        BY <3>1
      <4>7. CASE op.num = k
        <5>1. w.val[k] = v.val[k] + op.op
          BY <4>6, <4>7 DEF Promise!Adds
        <5> QED BY <3>1, <4>1, <4>2, <4>5, <4>7, <5>1
      <4>8. CASE op.num # k
        <5>1. w.val[k] = v.val[k]
          BY <4>1, <4>6, <4>8 DEF Promise!Adds
        <5> QED BY <3>1, <4>2, <4>5, <5>1
      <4> QED BY <4>7, <4>8
    <3> QED BY <1>2, <2>1, <2>4, <2>5, <3>1, <3>2 DEF After
  <2>6. CASE Stopped(v, op, w)
    <3>1. /\ w.status # "done" /\ w.val = v.val /\ w.done = i
          /\ w.raised = v.raised /\ w.zeroed = v.zeroed
          /\ w.status = "failed" \/ Stuck(w.status, v.val[op.num], op)
          /\ Idle(v, w)
      BY <2>2, <2>6 DEF Stopped
    <3>2. /\ w.done < Len(list) /\ w.done + 1 = i + 1 /\ w.done \in 0 .. i + 1
      BY <1>0, <3>1
    <3>3. w.status \in {"grow", "zero"} => Stuck(w.status, w.val[list[w.done + 1].num], list[w.done + 1])
      BY <2>1, <3>1, <3>2
    <3> QED BY <1>2, <2>2, <2>4, <3>1, <3>2, <3>3 DEF After
  <2> QED BY <2>4, <2>5, <2>6
<1> QED BY <1>1, <1>2

(* Every stage of a run.                                                   *)
LEMMA RunIs ==
    ASSUME NEW K, K \subseteq Key, NEW n, NEW u, Sound(u, K, n), Fresh(u),
           NEW list, Len(list) \in Nat, NEW id, Keyed(list, id, K),
           NEW r, r = Runs(u, list, id)
    PROVE  /\ \A i \in 0 .. Len(list) : Sound(r[i], K, n) /\ After(u, list, i, r[i])
           /\ \A i \in Nat : i + 1 <= Len(list) =>
                 /\ r[i].status # "done" => r[i + 1].status # "done"
                 /\ r[i + 1].status = "done" => Done(r[i], list[i + 1], id, r[i + 1])
                 /\ r[i + 1].status # "done" => Idle(r[i], r[i + 1])
<1> DEFINE T == {i \in Nat : i <= Len(list) => Sound(r[i], K, n) /\ After(u, list, i, r[i])}
<1>1. /\ r[0] = u
      /\ \A i \in 1 .. Len(list) : r[i] = Advance(r[i - 1], list[i], id)
  BY RunsAre
<1>2. 0 \in T
  BY <1>1, AfterStart
<1>3. ASSUME NEW i \in Nat, i + 1 <= Len(list) PROVE r[i + 1] = Advance(r[i], list[i + 1], id)
  <2>1. i + 1 \in 1 .. Len(list) /\ (i + 1) - 1 = i
    BY <1>3
  <2> QED BY <1>1, <2>1
<1>4. u.val \in [Num -> Value]
  BY DEF Fresh
<1>5. ASSUME NEW i \in Nat, i \in T PROVE i + 1 \in T
  <2> SUFFICES ASSUME i + 1 <= Len(list)
               PROVE  Sound(r[i + 1], K, n) /\ After(u, list, i + 1, r[i + 1])
    OBVIOUS
  <2>1. Sound(r[i], K, n) /\ After(u, list, i, r[i])
    BY <1>5
  <2> QED BY <1>3, <1>4, <2>1, AfterStep
<1> HIDE DEF T
<1>6. Nat \subseteq T
  BY <1>2, <1>5, Lemmas!Induction
<1>7. \A i \in Nat : i <= Len(list) => Sound(r[i], K, n) /\ After(u, list, i, r[i])
  BY <1>6 DEF T
<1>8. ASSUME NEW i \in Nat, i + 1 <= Len(list)
      PROVE  /\ r[i].status # "done" => r[i + 1].status # "done"
             /\ r[i + 1].status = "done" => Done(r[i], list[i + 1], id, r[i + 1])
             /\ r[i + 1].status # "done" => Idle(r[i], r[i + 1])
  <2>1. i <= Len(list)
    BY <1>8
  <2>2. Sound(r[i], K, n) /\ After(u, list, i, r[i])
    BY <1>7, <2>1
  <2> QED BY <1>3, <1>4, <1>8, <2>2, AfterStep
<1> QED BY <1>7, <1>8

(* When the whole list is done, every stage of it is, and none of its      *)
(* operations was stuck.                                                   *)
Whole(w) == w.status = "done"

LEMMA DoneStages ==
    ASSUME NEW K, K \subseteq Key, NEW n, NEW u, Sound(u, K, n), Fresh(u),
           NEW list, Len(list) \in Nat, NEW id, Keyed(list, id, K),
           NEW r, r = Runs(u, list, id), r[Len(list)].status = "done"
    PROVE  /\ \A i \in 0 .. Len(list) : Whole(r[i]) /\ Sound(r[i], K, n)
           /\ \A i \in Nat : i + 1 <= Len(list) => Done(r[i], list[i + 1], id, r[i + 1])
<1>1. /\ \A i \in 0 .. Len(list) : Sound(r[i], K, n) /\ After(u, list, i, r[i])
      /\ \A i \in Nat : i + 1 <= Len(list) =>
            /\ r[i].status # "done" => r[i + 1].status # "done"
            /\ r[i + 1].status = "done" => Done(r[i], list[i + 1], id, r[i + 1])
  BY RunIs
<1>2. ASSUME NEW i \in Nat, i <= Len(list) PROVE r[i].status = "done"
  <2> DEFINE T == {j \in Nat : i + j <= Len(list) => r[i + j].status # "done"}
  <2> SUFFICES ASSUME r[i].status # "done" PROVE FALSE
    OBVIOUS
  <2>1. 0 \in T
    OBVIOUS
  <2>2. ASSUME NEW j \in Nat, j \in T PROVE j + 1 \in T
    <3> SUFFICES ASSUME i + (j + 1) <= Len(list) PROVE r[i + (j + 1)].status # "done"
      OBVIOUS
    <3>1. PICK h \in Nat : h = i + j
      OBVIOUS
    <3>2. h + 1 = i + (j + 1) /\ h + 1 <= Len(list) /\ r[h].status # "done"
      BY <2>2, <3>1
    <3> QED BY <1>1, <3>2
  <2> HIDE DEF T
  <2>3. Nat \subseteq T
    BY <2>1, <2>2, Lemmas!Induction
  <2>4. PICK j \in Nat : i + j = Len(list)
    <3>1. PICK len \in Nat : len = Len(list)
      OBVIOUS
    <3>2. len - i \in Nat /\ i + (len - i) = len
      BY <1>2, <3>1
    <3> QED BY <3>1, <3>2
  <2>5. r[Len(list)].status # "done"
    BY <2>3, <2>4 DEF T
  <2> QED BY <2>5
<1>3. ASSUME NEW i \in 0 .. Len(list)
      PROVE  Whole(r[i]) /\ Sound(r[i], K, n)
  <2>1. i \in Nat /\ i <= Len(list)
    OBVIOUS
  <2> QED BY <1>1, <1>2, <2>1 DEF Whole
<1>4. ASSUME NEW i \in Nat, i + 1 <= Len(list) PROVE Done(r[i], list[i + 1], id, r[i + 1])
  BY <1>1, <1>2, <1>4
<1> QED BY <1>3, <1>4

LEMMA DoneRun ==
    ASSUME NEW K, K \subseteq Key, NEW n, NEW u, Sound(u, K, n), Fresh(u),
           NEW list, Len(list) \in Nat, NEW id, Keyed(list, id, K),
           Runs(u, list, id)[Len(list)].status = "done",
           NEW m \in 1 .. Len(list), NEW num, num = list[m].num
    PROVE  /\ Promise!Allowed(list[m], u.val[num] + Promise!Added(list, num)[m - 1])
           /\ \A status : ~Stuck(status, u.val[num] + Promise!Added(list, num)[m - 1], list[m])
<1>1. PICK r : r = Runs(u, list, id)
  OBVIOUS
<1>2. \A i \in 0 .. Len(list) : Sound(r[i], K, n) /\ After(u, list, i, r[i])
  BY <1>1, RunIs
<1>3. /\ \A i \in 0 .. Len(list) : r[i].status = "done"
      /\ \A i \in Nat : i + 1 <= Len(list) => Done(r[i], list[i + 1], id, r[i + 1])
  <2>1. r[Len(list)].status = "done"
    BY <1>1
  <2>2. \A i \in Nat : i + 1 <= Len(list) => Done(r[i], list[i + 1], id, r[i + 1])
    BY <1>1, <2>1, DoneStages
  <2>3. \A i \in 0 .. Len(list) : Whole(r[i])
    BY <1>1, <2>1, DoneStages
  <2> QED BY <2>2, <2>3 DEF Whole
<1>4. PICK h \in Nat : h + 1 = m
  <2>1. m - 1 \in Nat /\ (m - 1) + 1 = m
    OBVIOUS
  <2> QED BY <2>1
<1>5. /\ h + 1 <= Len(list) /\ h + 1 \in 0 .. Len(list)
      /\ h <= Len(list) /\ h \in 0 .. Len(list) /\ m - 1 = h
  BY <1>4
<1>6. PICK v, w : v = r[h] /\ w = r[h + 1]
  OBVIOUS
<1>7. v.status = "done" /\ w.status = "done"
  BY <1>3, <1>5, <1>6
<1>8. Done(v, list[m], id, w) /\ After(u, list, h, v)
  <2>1. Done(r[h], list[h + 1], id, r[h + 1])
    BY <1>3, <1>5
  <2> QED BY <1>2, <1>4, <1>5, <1>6, <2>1
<1>9. num \in Num /\ list[m].op \in Int
  BY DEF Keyed, Op
<1>10. v.val[num] = u.val[num] + Promise!Added(list, num)[h] /\ v.val[num] \in Int
  BY <1>7, <1>8, <1>9, SemAssumption DEF After, Value
<1>11. /\ w.val[num] = v.val[num] + Promise!Adds(list[m], num) /\ w.val[num] \in Value
       /\ w.val[num] >= 0
       /\ list[m].op = 0 => v.val[num] = 0
  BY <1>8, <1>9, SemAssumption DEF Done, Value
<1>12. w.val[num] = v.val[num] + list[m].op
  BY <1>11 DEF Promise!Adds
<1>13. Promise!Allowed(list[m], v.val[num])
  BY <1>11, <1>12 DEF Promise!Allowed, Promise!Value, Value
<1> QED BY <1>5, <1>9, <1>10, <1>11, <1>12, <1>13 DEF Stuck

(* semundo() gives back the values, and keeps account.                     *)
Lower(u, w, op) == \A k \in Num : w.val[k] = u.val[k] - Promise!Adds(op, k)
Lowered(u, w, list, m) == \A k \in Num : w.val[k] = u.val[k] - Promise!Added(list, k)[m]

LEMMA UndoOneIs ==
    ASSUME NEW K, K \subseteq Key, NEW n, NEW u, Sound(u, K, n), NEW op \in Op,
           NEW id, <<id, op.num>> \in K, NEW w, w = UndoOne(u, op, id)
    PROVE  Sound(w, K, n) /\ Lower(u, w, op)
<1>0. op.num \in Num /\ op.op \in Int
  BY DEF Op
<1>1. PICK a : a = IF op.undo /\ op.op # 0 THEN Semaoe(u, -op.op, <<id, op.num>>) ELSE u
  OBVIOUS
<1>2. Sound(a, K, n) /\ a.val = u.val
  <2>1. CASE op.undo /\ op.op # 0
    <3>0. PICK key \in K, x \in Int : key = <<id, op.num>> /\ x = -op.op
      BY <1>0
    <3>1. a = Semaoe(u, x, key)
      BY <1>1, <2>1, <3>0
    <3>2. Sound(a, K, n) /\ SameValues(u, a)
      BY <3>1, SemaoeIs
    <3> QED BY <3>2 DEF SameValues
  <2>2. CASE ~(op.undo /\ op.op # 0)
    BY <1>1, <2>2
  <2> QED BY <2>1, <2>2
<1>3. PICK v : v = [a.val EXCEPT ![op.num] = @ - op.op]
  OBVIOUS
<1>4. a \in Work /\ a.val \in [Num -> Int]
  BY <1>2 DEF Sound, Work
<1>5. /\ v \in [Num -> Int] /\ v[op.num] = a.val[op.num] - op.op
      /\ \A k \in Num : k # op.num => v[k] = a.val[k]
  BY <1>0, <1>3, <1>4
<1>6. w = [a EXCEPT !.val = v]
  BY <1>1, <1>3 DEF UndoOne
<1>7. /\ w \in Work /\ w.val = v /\ w.has = a.has /\ w.ent = a.ent /\ w.free = a.free
  BY <1>4, <1>5, <1>6 DEF Work
<1>8. Sound(w, K, n)
  BY <1>2, <1>7 DEF Sound
<1>9. \A k \in Num : w.val[k] = u.val[k] - Promise!Adds(op, k)
  BY <1>0, <1>2, <1>4, <1>5, <1>7 DEF Promise!Adds
<1> QED BY <1>8, <1>9 DEF Lower

LEMMA UndoesIs ==
    ASSUME NEW K, K \subseteq Key, NEW n, NEW u, Sound(u, K, n),
           NEW list, Len(list) \in Nat, NEW id, Keyed(list, id, K), NEW m \in 0 .. Len(list),
           NEW r, r = Undoes(u, list, m, id)
    PROVE  Sound(r[m], K, n) /\ Lowered(u, r[m], list, m)
<1> DEFINE P(i) == /\ Sound(r[i], K, n)
                   /\ \A k \in Num : r[i].val[k] = u.val[k] - (Promise!Added(list, k)[m] - Promise!Added(list, k)[m - i])
           T == {i \in Nat : i <= m => P(i)}
<1>0. m \in Nat /\ Len(list) \in Nat
  OBVIOUS
<1>1. /\ r[0] = u
      /\ \A i \in 1 .. m : r[i] = UndoOne(r[i - 1], list[m + 1 - i], id)
  <2>1. UndoSteps(r, u, list, m, id)
    BY <1>0, UndoesAre
  <2> QED BY <2>1 DEF UndoSteps
<1>2. \A k \in Num : /\ \A i \in 0 .. Len(list) : Promise!Added(list, k)[i] \in Int
                     /\ Promise!Added(list, k)[0] = 0
                     /\ \A i \in 1 .. Len(list) : Promise!Added(list, k)[i] = Promise!Added(list, k)[i - 1] + Promise!Adds(list[i], k)
  <2> TAKE k \in Num
  <2>1. \A j \in 1 .. Len(list) : list[j] \in Op
    BY DEF Keyed
  <2>2. PICK s : s = Promise!Added(list, k)
    OBVIOUS
  <2>3. \A i \in 0 .. Len(list) : s[i] \in Int
    BY <2>1, <2>2, AddedInt
  <2>4. /\ s[0] = 0
        /\ \A i \in 1 .. Len(list) : s[i] = s[i - 1] + Promise!Adds(list[i], k)
    BY <2>2, AddedIs
  <2> QED BY <2>2, <2>3, <2>4
<1>3. \A k \in Num : u.val[k] \in Int
  BY DEF Sound, Work
<1>4. 0 \in T
  <2>1. \A k \in Num : Promise!Added(list, k)[m] \in Int /\ Promise!Added(list, k)[m - 0] = Promise!Added(list, k)[m]
    BY <1>0, <1>2
  <2>2. \A k \in Num : u.val[k] = u.val[k] - (Promise!Added(list, k)[m] - Promise!Added(list, k)[m - 0])
    BY <1>3, <2>1
  <2> QED BY <1>1, <2>2
<1>5. ASSUME NEW i \in Nat, i \in T PROVE i + 1 \in T
  <2> SUFFICES ASSUME i + 1 <= m PROVE P(i + 1)
    OBVIOUS
  <2>1. P(i)
    BY <1>0, <1>5
  <2>2. PICK h \in 1 .. Len(list) : h = m - i
    <3>1. m - i \in 1 .. Len(list)
      BY <1>0
    <3> QED BY <3>1
  <2>3. m - (i + 1) = h - 1 /\ m + 1 - (i + 1) = h /\ i + 1 \in 1 .. m /\ (i + 1) - 1 = i
    BY <1>0, <2>2
  <2>4. r[i + 1] = UndoOne(r[i], list[h], id)
    BY <1>1, <2>3
  <2>5. PICK op \in Op : op = list[h] /\ <<id, op.num>> \in K
    <3>1. list[h] \in Op /\ <<id, list[h].num>> \in K
      BY DEF Keyed
    <3> QED BY <3>1
  <2>6. PICK v, w : v = r[i] /\ w = r[i + 1]
    OBVIOUS
  <2>7. Sound(w, K, n) /\ \A k \in Num : w.val[k] = v.val[k] - Promise!Adds(op, k)
    <3>1. w = UndoOne(v, op, id) /\ Sound(v, K, n)
      BY <2>1, <2>4, <2>5, <2>6
    <3>2. Sound(w, K, n) /\ Lower(v, w, op)
      BY <2>5, <3>1, UndoOneIs
    <3> QED BY <3>2 DEF Lower
  <2>8. ASSUME NEW k \in Num
        PROVE  w.val[k] = u.val[k] - (Promise!Added(list, k)[m] - Promise!Added(list, k)[m - (i + 1)])
    <3>1. PICK s : s = Promise!Added(list, k)
      OBVIOUS
    <3>2. s[m] \in Int /\ s[h] \in Int /\ s[h - 1] \in Int
      <4>1. h - 1 \in 0 .. Len(list) /\ h \in 0 .. Len(list)
        BY <1>0
      <4> QED BY <1>2, <3>1, <4>1
    <3>3. s[h] = s[h - 1] + Promise!Adds(op, k)
      BY <1>2, <2>5, <3>1
    <3>4. v.val[k] = u.val[k] - (s[m] - s[h])
      BY <2>1, <2>2, <2>6, <3>1
    <3>5. w.val[k] = v.val[k] - Promise!Adds(op, k) /\ u.val[k] \in Int
      BY <1>3, <2>7
    <3>6. Promise!Adds(op, k) \in Int
      BY DEF Promise!Adds, Op
    <3>7. PICK a \in Int, b \in Int, d \in Int, e \in Int :
              a = s[m] /\ b = s[h] /\ d = s[h - 1] /\ e = Promise!Adds(op, k)
      BY <3>2, <3>6
    <3>8. b = d + e /\ v.val[k] = u.val[k] - (a - b) /\ w.val[k] = v.val[k] - e
      BY <3>3, <3>4, <3>5, <3>7
    <3>9. w.val[k] = u.val[k] - (a - d)
      BY <3>5, <3>8
    <3>10. w.val[k] = u.val[k] - (s[m] - s[h - 1])
      BY <3>7, <3>9
    <3> QED BY <2>3, <3>1, <3>10
  <2> QED BY <2>6, <2>7, <2>8
<1> HIDE DEF T, P
<1>6. Nat \subseteq T
  BY <1>4, <1>5, Lemmas!Induction
<1>7. P(m)
  BY <1>0, <1>6 DEF T
<1>8. \A k \in Num : /\ Promise!Added(list, k)[m] \in Int /\ Promise!Added(list, k)[m - m] = 0
  BY <1>0, <1>2
<1> QED BY <1>3, <1>7, <1>8 DEF P, Lowered

Restored(u, w) == w.val = u.val

LEMMA SemundoIs ==
    ASSUME NEW K, K \subseteq Key, NEW n, NEW u, Fresh(u),
           NEW c, Len(c.list) \in Nat, Keyed(c.list, c.id, K),
           NEW v, Sound(v, K, n), After(u, c.list, Len(c.list), v),
           NEW w, w = Semundo(v, c)
    PROVE  Sound(w, K, n) /\ Restored(u, w)
<1>1. PICK list, id : list = c.list /\ id = c.id
  OBVIOUS
<1>2. Len(list) \in Nat /\ Keyed(list, id, K) /\ After(u, list, Len(list), v)
  BY <1>1
<1>3. PICK m \in 0 .. Len(list) : m = v.done
  BY <1>2 DEF After
<1>4. PICK r : r = Undoes(v, list, m, id)
  OBVIOUS
<1>5. w = r[m]
  BY <1>1, <1>3, <1>4 DEF Semundo
<1>6. Sound(r[m], K, n) /\ \A k \in Num : r[m].val[k] = v.val[k] - Promise!Added(list, k)[m]
  <2>1. Len(list) \in Nat /\ Keyed(list, id, K)
    BY <1>2
  <2>2. Sound(r[m], K, n) /\ Lowered(v, r[m], list, m)
    BY <1>4, <2>1, UndoesIs
  <2> QED BY <2>2 DEF Lowered
<1>7. \A j \in 1 .. Len(list) : list[j] \in Op
  BY <1>2 DEF Keyed
<1>8. ASSUME NEW k \in Num PROVE w.val[k] = u.val[k]
  <2>1. Promise!Added(list, k)[m] \in Int
    BY <1>2, <1>7, AddedInt
  <2>2. u.val[k] \in Int
    BY SemAssumption DEF Fresh, Value
  <2>3. v.val[k] = u.val[k] + Promise!Added(list, k)[m]
    BY <1>2, <1>3 DEF After
  <2> QED BY <1>5, <1>6, <2>1, <2>2, <2>3
<1>9. w.val \in [Num -> Int] /\ u.val \in [Num -> Value]
  BY <1>5, <1>6 DEF Sound, Work, Fresh
<1>10. w.val = u.val
  BY <1>8, <1>9
<1> QED BY <1>5, <1>6, <1>10 DEF Restored

-----------------------------------------------------------------------------
CallRec == [id : Id, list : Lists, chan : Chan]

Types ==
    /\ alloc \in [Slot -> BOOLEAN] /\ seq \in [Slot -> 0 .. MaxSeq]
    /\ semval \in [Slot -> [Num -> Value]]
    /\ semcnt \in [Chan -> Nat]
    /\ sem_undo \in [Proc -> BOOLEAN] /\ un_ent \in [Proc -> Entries] /\ nfree \in Nat
    /\ call \in [Proc -> CallRec \cup {NoCall}]
    /\ wchan \in [Proc -> Chan \cup {Awake}]
    /\ sig \in [Proc -> BOOLEAN]

(* Undo structures and entries are accounted for.                          *)
Users == {p \in Proc : sem_undo[p]}
ValidKeys == {e \in Key : Valid(e[1])}
Undos ==
    /\ IsFiniteSet(Users) /\ nfree + Cardinality(Users) = SEMMNU
    /\ \A p \in Proc : /\ un_ent[p] # <<>> => sem_undo[p]
                       /\ DOMAIN un_ent[p] \subseteq ValidKeys

(* A process sleeps at the channel of its call, which counts it.           *)
Sleeper(p) ==
    /\ call[p] = NoCall => wchan[p] = Awake /\ ~sig[p]
    /\ wchan[p] # Awake => /\ call[p].chan = wchan[p] /\ wchan[p][2] = call[p].id[1]
                           /\ Valid(call[p].id) /\ semcnt[wchan[p]] > 0

Inv == Types /\ Undos /\ \A p \in Proc : Sleeper(p)

LEMMA IdIs ==
    ASSUME Types, NEW id \in Id
    PROVE  id[1] \in Slot /\ id[2] \in 0 .. MaxSeq /\ id = <<id[1], id[2]>>
BY DEF Id

LEMMA ChanIs ==
    ASSUME NEW c \in Chan
    PROVE  /\ c = <<c[1], c[2], c[3]>> /\ c[1] \in {"grow", "zero"} /\ c[2] \in Slot
           /\ c[3] \in Num /\ c # Awake
<1>1. PICK k \in {"grow", "zero"}, s \in Slot, n \in Num : c = <<k, s, n>>
  BY DEF Chan
<1>2. <<k, s, n>> # <<>>
  OBVIOUS
<1> QED BY <1>1, <1>2 DEF Awake

LEMMA ListIs ==
    ASSUME NEW list \in Lists
    PROVE  /\ Len(list) \in Nat /\ \A i \in 1 .. Len(list) : list[i] \in Op
<1>1. list \in Seq(Op)
  BY SemAssumption
<1> QED BY <1>1

(* A call that begins or looks again is of a set that exists.              *)
LEMMA AttemptIs ==
    ASSUME Inv, NEW p \in Proc, NEW c \in Attempts(p)
    PROVE  /\ c.id \in Id /\ c.list \in Lists /\ Valid(c.id) /\ wchan[p] = Awake
           /\ c.id[1] \in Slot
<1>1. CASE call[p] = NoCall
  <2>1. c \in {[id |-> IdOf(s), list |-> l] : s \in {t \in Slot : alloc[t]}, l \in Lists}
    BY <1>1 DEF Attempts
  <2>2. PICK s \in Slot, l \in Lists : alloc[s] /\ c = [id |-> IdOf(s), list |-> l]
    BY <2>1
  <2>3. c.id = <<s, seq[s]>> /\ c.list = l
    BY <2>2 DEF IdOf
  <2>4. seq[s] \in 0 .. MaxSeq
    BY DEF Inv, Types
  <2>5. c.id \in Id /\ c.id[1] = s /\ c.id[2] = seq[s]
    BY <2>3, <2>4 DEF Id
  <2> QED BY <1>1, <2>2, <2>3, <2>5 DEF Inv, Sleeper, Valid
<1>2. CASE call[p] # NoCall
  <2>1. c \in IF wchan[p] = Awake /\ ~sig[p] /\ Valid(call[p].id)
              THEN {[id |-> call[p].id, list |-> call[p].list]} ELSE {}
    BY <1>2 DEF Attempts
  <2>2. wchan[p] = Awake /\ Valid(call[p].id) /\ c = [id |-> call[p].id, list |-> call[p].list]
    BY <2>1
  <2>3. call[p] \in CallRec
    BY <1>2 DEF Inv, Types
  <2>4. c.id = call[p].id /\ c.list = call[p].list /\ call[p].id \in Id /\ call[p].list \in Lists
    BY <2>2, <2>3 DEF CallRec
  <2> QED BY <2>2, <2>4, IdIs DEF Inv
<1> QED BY <1>1, <1>2

(* Its run keeps account of undo structures and entries.                   *)
Own(p) == nfree + One(sem_undo[p])

LEMMA RunKeeps ==
    ASSUME Inv, NEW p \in Proc, NEW c, c.id \in Id, c.list \in Lists, Valid(c.id),
           NEW u, u = Run(p, c)
    PROVE  /\ Sound(u, ValidKeys, Own(p)) /\ Fresh(Start(p, c.id[1]))
           /\ After(Start(p, c.id[1]), c.list, Len(c.list), u)
           /\ Keyed(c.list, c.id, ValidKeys)
           /\ Sound(Start(p, c.id[1]), ValidKeys, Own(p))
<1>1. PICK s \in Slot : s = c.id[1]
  BY IdIs DEF Inv
<1>2. PICK list \in Lists, id \in Id : list = c.list /\ id = c.id
  OBVIOUS
<1>3. PICK v : v = Start(p, s)
  OBVIOUS
<1>4. /\ v = [val |-> semval[s], has |-> sem_undo[p], ent |-> un_ent[p], free |-> nfree,
              status |-> "done", done |-> 0, raised |-> {}, zeroed |-> {}]
      /\ semval[s] \in [Num -> Value] /\ sem_undo[p] \in BOOLEAN /\ un_ent[p] \in Entries
      /\ nfree \in Nat
  BY <1>3 DEF Start, Inv, Types
<1>5. semval[s] \in [Num -> Int]
  BY <1>4, SemAssumption DEF Value
<1>6. v \in Work /\ v.val = semval[s] /\ v.has = sem_undo[p] /\ v.ent = un_ent[p]
      /\ v.free = nfree /\ v.status = "done" /\ v.done = 0
  BY <1>4, <1>5 DEF Work
<1>7. Sound(v, ValidKeys, Own(p))
  BY <1>4, <1>6 DEF Sound, Own, Inv, Undos
<1>8. Fresh(v)
  BY <1>4, <1>6 DEF Fresh
<1>9. Len(list) \in Nat /\ Keyed(list, id, ValidKeys)
  <2>1. Len(list) \in Nat /\ \A i \in 1 .. Len(list) : list[i] \in Op
    BY ListIs
  <2>2. ASSUME NEW i \in 1 .. Len(list) PROVE <<id, list[i].num>> \in ValidKeys
    <3>1. list[i].num \in Num
      BY <2>1 DEF Op
    <3> QED BY <1>2, <3>1 DEF ValidKeys, Key
  <2> QED BY <2>1, <2>2 DEF Keyed
<1>10. PICK r : r = Runs(v, list, id)
  OBVIOUS
<1>11. u = r[Len(list)]
  BY <1>1, <1>2, <1>3, <1>10 DEF Run
<1>12. \A i \in 0 .. Len(list) : Sound(r[i], ValidKeys, Own(p)) /\ After(v, list, i, r[i])
  <2>1. ValidKeys \subseteq Key
    BY DEF ValidKeys
  <2> QED BY <1>7, <1>8, <1>9, <1>10, <2>1, RunIs
<1>13. Len(list) \in 0 .. Len(list)
  BY <1>9
<1> QED BY <1>1, <1>2, <1>3, <1>7, <1>8, <1>9, <1>11, <1>12, <1>13

Account == /\ semval \in [Slot -> [Num -> Value]]
           /\ sem_undo \in [Proc -> BOOLEAN] /\ un_ent \in [Proc -> Entries] /\ nfree \in Nat

(* A structure that p takes or gives back is one less or one more in use.  *)
Counted(S, T, b, p) ==
    /\ IsFiniteSet(T) /\ Cardinality(S) \in Nat /\ Cardinality(T) \in Nat
    /\ Cardinality(T) = Cardinality(S) + One(b) - One(p \in S)

LEMMA UsersChange ==
    ASSUME NEW S, IsFiniteSet(S), NEW p, NEW b \in BOOLEAN, NEW T,
           T = IF b THEN S \cup {p} ELSE S \ {p}
    PROVE  Counted(S, T, b, p)
<1>0. Cardinality(S) \in Nat
  BY FS_CardinalityType
<1>1. CASE b /\ p \notin S
  <2>1. T = S \cup {p}
    BY <1>1
  <2>2. IsFiniteSet(T) /\ Cardinality(T) = Cardinality(S) + 1
    BY <1>1, <2>1, FS_AddElement
  <2>3. One(b) = 1 /\ One(p \in S) = 0
    BY <1>1, Zenon DEF One
  <2> QED BY <1>0, <2>2, <2>3 DEF Counted
<1>2. CASE ~b /\ p \in S
  <2>1. T = S \ {p}
    BY <1>2
  <2>2. IsFiniteSet(T) /\ Cardinality(T) = Cardinality(S) - 1
    BY <1>2, <2>1, FS_RemoveElement
  <2>3. One(b) = 0 /\ One(p \in S) = 1
    BY <1>2, Zenon DEF One
  <2>4. Cardinality(T) \in Nat
    BY <2>2, FS_CardinalityType
  <2> QED BY <1>0, <2>2, <2>3, <2>4 DEF Counted
<1>3. CASE b <=> p \in S
  <2>1. T = S
    BY <1>3
  <2>3. One(b) \in {0, 1}
    BY DEF One
  <2>5. One(b) = One(p \in S)
    <3>1. CASE b
      BY <1>3, <3>1, Zenon DEF One
    <3>2. CASE ~b
      BY <1>3, <3>2, Zenon DEF One
    <3> QED BY <3>1, <3>2
  <2> QED BY <1>0, <2>1, <2>3, <2>5 DEF Counted
<1> QED BY <1>1, <1>2, <1>3

LEMMA KeepIs ==
    ASSUME Inv, NEW p \in Proc, NEW w, Sound(w, ValidKeys, Own(p)), w.val \in [Num -> Value],
           NEW s \in Slot, Keep(p, w, s), UNCHANGED setVars
    PROVE  Account' /\ Undos'
<1>1. /\ w.has \in BOOLEAN /\ w.ent \in Entries /\ w.free \in Nat
      /\ w.free + One(w.has) = nfree + One(sem_undo[p])
      /\ DOMAIN w.ent \subseteq ValidKeys /\ (w.ent # <<>> => w.has)
  BY DEF Sound, Work, Own
<1>2. /\ semval' = [semval EXCEPT ![s] = w.val] /\ sem_undo' = [sem_undo EXCEPT ![p] = w.has]
      /\ un_ent' = [un_ent EXCEPT ![p] = w.ent] /\ nfree' = w.free
  BY DEF Keep
<1>3. Account
  BY DEF Inv, Types, Account
<1>4. Account'
  BY <1>1, <1>2, <1>3 DEF Account
<1>5. ValidKeys' = ValidKeys
  BY DEF ValidKeys, Valid, setVars
<1>6. ASSUME NEW q \in Proc
      PROVE  (un_ent'[q] # <<>> => sem_undo'[q]) /\ DOMAIN un_ent'[q] \subseteq ValidKeys
  <2>1. (un_ent[q] # <<>> => sem_undo[q]) /\ DOMAIN un_ent[q] \subseteq ValidKeys
    BY DEF Inv, Undos
  <2>2. CASE q = p
    <3>1. un_ent'[q] = w.ent /\ sem_undo'[q] = w.has
      BY <1>2, <1>3, <2>2 DEF Account
    <3> QED BY <1>1, <3>1
  <2>3. CASE q # p
    <3>1. un_ent'[q] = un_ent[q] /\ sem_undo'[q] = sem_undo[q]
      BY <1>2, <1>3, <2>3 DEF Account
    <3> QED BY <2>1, <3>1
  <2> QED BY <2>2, <2>3
<1>7. Users' = IF w.has THEN Users \cup {p} ELSE Users \ {p}
  <2>1. \A q \in Proc : sem_undo'[q] <=> IF q = p THEN w.has ELSE sem_undo[q]
    BY <1>1, <1>2, <1>3, Zenon DEF Account
  <2>2. Users' = {q \in Proc : sem_undo'[q]}
    BY DEF Users
  <2>3. CASE w.has
    <3>1. \A q : q \in Users' <=> q \in Users \cup {p}
      BY <2>1, <2>2, <2>3 DEF Users
    <3> QED BY <2>3, <3>1
  <2>4. CASE ~w.has
    <3>1. \A q : q \in Users' <=> q \in Users \ {p}
      BY <2>1, <2>2, <2>4 DEF Users
    <3> QED BY <2>4, <3>1
  <2> QED BY <2>3, <2>4
<1>8. IsFiniteSet(Users) /\ nfree + Cardinality(Users) = SEMMNU /\ nfree \in Nat
  BY <1>3 DEF Inv, Undos, Account
<1>9. PICK T : T = Users'
  OBVIOUS
<1>10. /\ IsFiniteSet(T) /\ Cardinality(Users) \in Nat /\ Cardinality(T) \in Nat
       /\ Cardinality(T) = Cardinality(Users) + One(w.has) - One(p \in Users)
  <2>1. PICK b \in BOOLEAN : b = w.has
    BY <1>1
  <2>2. PICK S : S = Users
    OBVIOUS
  <2>3. T = IF b THEN S \cup {p} ELSE S \ {p}
    BY <1>7, <1>9, <2>1, <2>2
  <2>4. IsFiniteSet(S)
    BY <1>8, <2>2
  <2>5. Counted(S, T, b, p)
    BY <2>3, <2>4, UsersChange, Zenon
  <2> QED BY <2>1, <2>2, <2>5, Zenon DEF Counted
<1>11. One(p \in Users) = One(sem_undo[p])
  <2>1. p \in Users <=> sem_undo[p]
    BY DEF Users
  <2>2. CASE sem_undo[p]
    BY <2>1, <2>2, Zenon DEF One
  <2>3. CASE ~sem_undo[p]
    BY <2>1, <2>3, Zenon DEF One
  <2> QED BY <2>2, <2>3
<1>12. One(w.has) \in {0, 1} /\ One(sem_undo[p]) \in {0, 1}
  BY DEF One
<1>13. w.free + Cardinality(T) = SEMMNU
  BY <1>1, <1>8, <1>10, <1>11, <1>12
<1> QED BY <1>2, <1>4, <1>5, <1>6, <1>9, <1>10, <1>13 DEF Undos

-----------------------------------------------------------------------------
(* What becomes of q when those who sleep at the channels in C are woken   *)
(* up: if it still sleeps it is as before, and not at one of them.         *)
Stays(q, C) ==
    wchan'[q] # Awake =>
        /\ wchan'[q] = wchan[q] /\ wchan[q] \notin C /\ semcnt'[wchan[q]] > 0
        /\ call'[q] = call[q]
SleepTypes == semcnt \in [Chan -> Nat] /\ wchan \in [Proc -> Chan \cup {Awake}]

LEMMA AnnounceIs ==
    ASSUME Inv, NEW C, Announce(C)
    PROVE  /\ SleepTypes'
           /\ \A q \in Proc : /\ wchan[q] = Awake => wchan'[q] = Awake
                              /\ wchan'[q] # Awake => /\ wchan'[q] = wchan[q] /\ wchan[q] \notin C
                                                      /\ semcnt'[wchan[q]] > 0
<1>0. /\ semcnt \in [Chan -> Nat] /\ wchan \in [Proc -> Chan \cup {Awake}]
      /\ \A q \in Proc : wchan[q] # Awake => semcnt[wchan[q]] > 0
  BY DEF Inv, Types, Sleeper
<1>1. /\ semcnt' = [c \in Chan |-> IF c \in C THEN 0 ELSE semcnt[c]]
      /\ wchan' = [q \in Proc |-> IF wchan[q] \in C /\ semcnt[wchan[q]] > 0 THEN Awake ELSE wchan[q]]
  BY DEF Announce, Wakeup
<1>2. SleepTypes'
  BY <1>0, <1>1 DEF SleepTypes
<1>3. ASSUME NEW q \in Proc
      PROVE  /\ wchan[q] = Awake => wchan'[q] = Awake
             /\ wchan'[q] # Awake => /\ wchan'[q] = wchan[q] /\ wchan[q] \notin C
                                     /\ semcnt'[wchan[q]] > 0
  <2>1. wchan'[q] = IF wchan[q] \in C /\ semcnt[wchan[q]] > 0 THEN Awake ELSE wchan[q]
    BY <1>1
  <2>2. wchan[q] # Awake => wchan[q] \in Chan
    BY <1>0
  <2> QED BY <1>0, <1>1, <2>1, <2>2
<1> QED BY <1>2, <1>3

ValidNext(id) == alloc'[id[1]] /\ seq'[id[1]] = id[2]

LEMMA StaysSleeper ==
    ASSUME Inv, NEW q \in Proc, NEW C, Stays(q, C), wchan'[q] # Awake,
           Valid(call[q].id) => ValidNext(call[q].id)
    PROVE  Sleeper(q)' /\ call'[q] = call[q] /\ call[q] # NoCall
<1>1. /\ wchan'[q] = wchan[q] /\ semcnt'[wchan[q]] > 0 /\ call'[q] = call[q]
  BY DEF Stays
<1>2. /\ call[q] # NoCall /\ call[q].chan = wchan[q] /\ wchan[q][2] = call[q].id[1]
      /\ Valid(call[q].id)
  BY <1>1 DEF Inv, Sleeper
<1> QED BY <1>1, <1>2 DEF Sleeper, Valid, ValidNext

(* No list waits for zero of a semaphore after an operation that changes   *)
(* it.                                                                     *)
ZeroFirst ==
    \A list \in Lists : \A i, j \in DOMAIN list :
        i < j /\ list[i].num = list[j].num /\ list[j].op = 0 => list[i].op = 0

LEMMA ZeroAdded ==
    ASSUME ZeroFirst, NEW list \in Lists, NEW m \in 1 .. Len(list), list[m].op = 0,
           NEW num, num = list[m].num
    PROVE  Promise!Added(list, num)[m - 1] = 0
<1> DEFINE r == Promise!Added(list, num)
           T == {i \in Nat : i < m => r[i] = 0}
<1>0. /\ Len(list) \in Nat /\ DOMAIN list = 1 .. Len(list)
  <2>1. list \in Seq(Op)
    BY SemAssumption
  <2> QED BY <2>1
<1>1. /\ r[0] = 0
      /\ \A i \in 1 .. Len(list) : r[i] = r[i - 1] + Promise!Adds(list[i], num)
  BY <1>0, AddedIs
<1> HIDE DEF r
<1>2. 0 \in T
  BY <1>1
<1>3. ASSUME NEW i \in Nat, i \in T PROVE i + 1 \in T
  <2> SUFFICES ASSUME i + 1 < m PROVE r[i + 1] = 0
    OBVIOUS
  <2>1. r[i] = 0 /\ i + 1 \in 1 .. Len(list) /\ (i + 1) - 1 = i /\ m \in 1 .. Len(list)
    BY <1>0, <1>3
  <2>2. list[i + 1].num = num => list[i + 1].op = 0
    BY <1>0, <2>1 DEF ZeroFirst
  <2>3. Promise!Adds(list[i + 1], num) = 0
    BY <2>2 DEF Promise!Adds
  <2>4. r[i + 1] = r[i] + Promise!Adds(list[i + 1], num)
    BY <1>1, <2>1
  <2> QED BY <2>1, <2>3, <2>4
<1> HIDE DEF T
<1>4. Nat \subseteq T
  BY <1>2, <1>3, Lemmas!Induction
<1>5. m - 1 \in Nat /\ m - 1 < m
  OBVIOUS
<1> QED BY <1>4, <1>5 DEF T, r

(* An operation of q's list is stuck now: it waits for that semaphore.     *)
BlockedAt(list, chan, v) ==
    \E m \in 1 .. Len(list) :
        /\ list[m].num = chan[3]
        /\ Stuck(chan[1], v + Promise!Added(list, chan[3])[m - 1], list[m])
Blocked(q) == BlockedAt(call[q].list, wchan[q], semval[wchan[q][2]][wchan[q][3]])

(* Every value that grows or becomes zero is told at a channel in C.       *)
TellsOf(C, s, k) ==
    /\ semval'[s][k] > semval[s][k] => <<"grow", s, k>> \in C
    /\ semval'[s][k] = 0 /\ semval[s][k] # 0 => <<"zero", s, k>> \in C
Tells(C) == \A s \in Slot : \A k \in Num : TellsOf(C, s, k)

LEMMA StaysBlocked ==
    ASSUME Inv, ZeroFirst, NEW q \in Proc, NEW C, Stays(q, C), wchan'[q] # Awake,
           Blocked(q), Tells(C), semval' \in [Slot -> [Num -> Value]]
    PROVE  Blocked(q)'
<1>1. /\ wchan'[q] = wchan[q] /\ wchan[q] \notin C /\ call'[q] = call[q]
  BY DEF Stays
<1>2. PICK c \in Chan : c = wchan[q]
  BY <1>1 DEF Inv, Types
<1>3. /\ c = <<c[1], c[2], c[3]>> /\ c[1] \in {"grow", "zero"} /\ c[2] \in Slot /\ c[3] \in Num
  BY ChanIs
<1>4. call[q] # NoCall /\ call[q] \in CallRec \cup {NoCall}
  BY <1>1 DEF Inv, Sleeper, Types
<1>5. PICK list \in Lists : list = call[q].list
  BY <1>4 DEF CallRec
<1>6. PICK v \in Int, w \in Int : v = semval[c[2]][c[3]] /\ w = semval'[c[2]][c[3]]
  <2>1. semval[c[2]][c[3]] \in Value /\ semval'[c[2]][c[3]] \in Value
    BY <1>3 DEF Inv, Types
  <2> QED BY <2>1, SemAssumption DEF Value
<1>7. BlockedAt(list, c, v)
  BY <1>2, <1>5, <1>6 DEF Blocked
<1>8. PICK m \in 1 .. Len(list) :
         /\ list[m].num = c[3]
         /\ Stuck(c[1], v + Promise!Added(list, c[3])[m - 1], list[m])
  BY <1>7 DEF BlockedAt
<1>9. /\ w > v => <<"grow", c[2], c[3]>> \in C
      /\ w = 0 /\ v # 0 => <<"zero", c[2], c[3]>> \in C
  BY <1>3, <1>6 DEF Tells, TellsOf
<1>10. Len(list) \in Nat /\ list[m] \in Op /\ list[m].op \in Int
  BY ListIs DEF Op
<1>11. PICK d \in Int : d = Promise!Added(list, c[3])[m - 1]
  <2>1. m - 1 \in 0 .. Len(list)
    BY <1>10
  <2>2. Len(list) \in Nat /\ \A i \in 1 .. Len(list) : list[i] \in Op
    BY ListIs
  <2>3. \A i \in 0 .. Len(list) : Promise!Added(list, c[3])[i] \in Int
    BY <2>2, AddedInt
  <2> QED BY <2>1, <2>3
<1>12. Stuck(c[1], w + d, list[m])
  <2>1. CASE c[1] = "grow"
    <3>1. w <= v
      BY <1>1, <1>2, <1>3, <1>9, <2>1
    <3> QED BY <1>8, <1>10, <1>11, <2>1, <3>1, SMTT(30) DEF Stuck
  <2>2. CASE c[1] = "zero"
    <3>1. list[m].op = 0 /\ v + d # 0
      BY <1>8, <1>11, <2>2 DEF Stuck
    <3>2. d = 0
      BY <1>8, <1>11, <3>1, ZeroAdded
    <3>3. w # 0
      BY <1>1, <1>2, <1>3, <1>9, <2>2, <3>1, <3>2
    <3> QED BY <2>2, <3>1, <3>2, <3>3 DEF Stuck
  <2> QED BY <1>3, <2>1, <2>2
<1>13. BlockedAt(list, c, w)
  BY <1>8, <1>11, <1>12 DEF BlockedAt
<1> QED BY <1>1, <1>2, <1>5, <1>6, <1>13 DEF Blocked

(* Then its list cannot be done.                                           *)
LEMMA BlockedIs ==
    ASSUME Inv, NEW q \in Proc, wchan[q] # Awake, Blocked(q)
    PROVE  Run(q, call[q]).status # "done"
<1> SUFFICES ASSUME Run(q, call[q]).status = "done" PROVE FALSE
  OBVIOUS
<1>1. /\ call[q] \in CallRec \cup {NoCall} /\ call[q] # NoCall /\ wchan[q] \in Chan
      /\ wchan[q][2] = call[q].id[1] /\ Valid(call[q].id)
  BY DEF Inv, Types, Sleeper
<1>2. PICK c : c = call[q]
  OBVIOUS
<1>3. c.id \in Id /\ c.list \in Lists /\ Valid(c.id)
  BY <1>1, <1>2 DEF CallRec
<1>4. PICK list \in Lists, id \in Id, h \in Chan : list = c.list /\ id = c.id /\ h = wchan[q]
  BY <1>1, <1>3
<1>5. PICK u : u = Start(q, id[1])
  OBVIOUS
<1>6. /\ Fresh(u) /\ Keyed(list, id, ValidKeys) /\ Sound(u, ValidKeys, Own(q))
  BY <1>3, <1>4, <1>5, RunKeeps
<1>7. Len(list) \in Nat /\ ValidKeys \subseteq Key
  BY ListIs DEF ValidKeys
<1>8. Runs(u, list, id)[Len(list)].status = "done"
  BY <1>2, <1>4, <1>5 DEF Run
<1>9. u.val = semval[h[2]]
  BY <1>1, <1>2, <1>4, <1>5 DEF Start
<1>10. PICK m \in 1 .. Len(list) :
         /\ list[m].num = h[3]
         /\ Stuck(h[1], u.val[h[3]] + Promise!Added(list, h[3])[m - 1], list[m])
  BY <1>2, <1>4, <1>9 DEF Blocked, BlockedAt
<1>11. PICK num, status : num = h[3] /\ status = h[1]
  OBVIOUS
<1>12. ~Stuck(status, u.val[num] + Promise!Added(list, num)[m - 1], list[m])
  BY <1>6, <1>7, <1>8, <1>10, <1>11, DoneRun
<1> QED BY <1>10, <1>11, <1>12

-----------------------------------------------------------------------------
Blocks == \A q \in Proc : wchan[q] # Awake => Blocked(q)

(* A step of p that wakes up those who sleep at the channels in C.         *)
Step(p, C) ==
    /\ Types' /\ Undos' /\ Tells(C)
    /\ \A q \in Proc : q # p =>
          /\ Stays(q, C) /\ call'[q] = call[q] /\ sig'[q] = sig[q]
          /\ wchan[q] = Awake => wchan'[q] = Awake
          /\ wchan'[q] # Awake /\ Valid(call[q].id) => ValidNext(call[q].id)
    /\ Sleeper(p)'
    /\ wchan'[p] # Awake => Blocked(p)'

LEMMA StepKeeps ==
    ASSUME Inv, NEW p \in Proc, NEW C, Step(p, C)
    PROVE  Inv' /\ (ZeroFirst /\ Blocks => Blocks')
<1>1. ASSUME NEW q \in Proc PROVE Sleeper(q)'
  <2>1. CASE q = p
    BY <2>1 DEF Step
  <2>2. CASE q # p /\ wchan'[q] # Awake
    <3>1. Stays(q, C) /\ (Valid(call[q].id) => ValidNext(call[q].id))
      BY <2>2 DEF Step
    <3> QED BY <2>2, <3>1, StaysSleeper
  <2>3. CASE q # p /\ wchan'[q] = Awake
    <3>1. call'[q] = call[q] /\ sig'[q] = sig[q]
      BY <2>3 DEF Step
    <3>2. call[q] = NoCall => ~sig[q]
      BY DEF Inv, Sleeper
    <3> QED BY <2>3, <3>1, <3>2 DEF Sleeper
  <2> QED BY <2>1, <2>2, <2>3
<1>2. Inv'
  BY <1>1 DEF Inv, Step
<1>3. ASSUME ZeroFirst, Blocks, NEW q \in Proc, wchan'[q] # Awake PROVE Blocked(q)'
  <2>1. CASE q = p
    BY <1>3, <2>1 DEF Step
  <2>2. CASE q # p
    <3>1. Stays(q, C) /\ Tells(C) /\ wchan[q] # Awake
      BY <1>3, <2>2 DEF Step
    <3>2. semval' \in [Slot -> [Num -> Value]]
      BY DEF Step, Types
    <3>3. Blocked(q)
      BY <1>3, <3>1 DEF Blocks
    <3> QED BY <1>3, <3>1, <3>2, <3>3, StaysBlocked
  <2> QED BY <2>1, <2>2
<1>4. ZeroFirst /\ Blocks => Blocks'
  BY <1>3 DEF Blocks
<1> QED BY <1>2, <1>4

(* The channels of a run tell what it changed.                             *)
LEMMA ChannelsTell ==
    ASSUME Inv, NEW p \in Proc, NEW s \in Slot, NEW list, NEW u,
           After(Start(p, s), list, Len(list), u),
           semval' = [semval EXCEPT ![s] = u.val]
    PROVE  Tells(Channels(u, s))
<1>1. Start(p, s).val = semval[s]
  BY DEF Start
<1>2. semval \in [Slot -> [Num -> Value]]
  BY DEF Inv, Types
<1>3. ASSUME NEW t \in Slot, NEW k \in Num PROVE TellsOf(Channels(u, s), t, k)
  <2>1. CASE t = s
    <3>1. semval'[t] = u.val
      BY <1>2, <2>1
    <3>2. /\ u.val[k] > semval[s][k] => k \in u.raised
          /\ u.val[k] = 0 /\ semval[s][k] # 0 => k \in u.zeroed
      BY <1>1 DEF After
    <3>3. /\ k \in u.raised => <<"grow", s, k>> \in Channels(u, s)
          /\ k \in u.zeroed => <<"zero", s, k>> \in Channels(u, s)
      BY DEF Channels
    <3> QED BY <2>1, <3>1, <3>2, <3>3 DEF TellsOf
  <2>2. CASE t # s
    <3>1. semval'[t] = semval[t] /\ semval[t][k] \in Int
      BY <1>2, <2>2, SemAssumption DEF Value
    <3> QED BY <3>1 DEF TellsOf
  <2> QED BY <2>1, <2>2
<1> QED BY <1>3 DEF Tells

LEMMA SameTells ==
    ASSUME Inv, NEW C, semval' = semval
    PROVE  Tells(C)
<1>1. ASSUME NEW s \in Slot, NEW k \in Num PROVE semval[s][k] \in Int
  BY SemAssumption DEF Inv, Types, Value
<1>2. ASSUME NEW s \in Slot, NEW k \in Num PROVE TellsOf(C, s, k)
  BY <1>1 DEF TellsOf
<1> QED BY <1>2 DEF Tells

(* The step of a call that is over.                                        *)
LEMMA LeaveStep ==
    ASSUME Inv, NEW p \in Proc, wchan[p] = Awake, NEW C, Announce(C), Leave(p),
           Account', Undos', UNCHANGED setVars, Tells(C)
    PROVE  Step(p, C)
<1>1. /\ SleepTypes'
      /\ \A q \in Proc : /\ wchan[q] = Awake => wchan'[q] = Awake
                         /\ wchan'[q] # Awake => /\ wchan'[q] = wchan[q] /\ wchan[q] \notin C
                                                 /\ semcnt'[wchan[q]] > 0
  BY AnnounceIs
<1>2. /\ call \in [Proc -> CallRec \cup {NoCall}] /\ sig \in [Proc -> BOOLEAN]
      /\ call' = [call EXCEPT ![p] = NoCall] /\ sig' = [sig EXCEPT ![p] = FALSE]
  BY DEF Inv, Types, Leave
<1>3. /\ call' \in [Proc -> CallRec \cup {NoCall}] /\ sig' \in [Proc -> BOOLEAN]
      /\ call'[p] = NoCall /\ sig'[p] = FALSE
  BY <1>2
<1>4. \A q \in Proc : q # p => call'[q] = call[q] /\ sig'[q] = sig[q]
  BY <1>2
<1>5. Types'
  BY <1>1, <1>3 DEF Types, Inv, Account, SleepTypes, setVars
<1>6. \A q \in Proc : q # p => Stays(q, C)
  BY <1>1, <1>4 DEF Stays
<1>7. \A q \in Proc : Valid(call[q].id) => ValidNext(call[q].id)
  BY DEF Valid, ValidNext, setVars
<1>8. wchan'[p] = Awake
  BY <1>1
<1>9. Sleeper(p)'
  BY <1>3, <1>8 DEF Sleeper
<1> QED BY <1>1, <1>4, <1>5, <1>6, <1>7, <1>8, <1>9 DEF Step

LEMMA SemopDoneStep ==
    ASSUME Inv, NEW p \in Proc, SemopDone(p)
    PROVE  \E C : Step(p, C)
<1>1. PICK c \in Attempts(p) :
         /\ Run(p, c).status = "done"
         /\ Keep(p, Run(p, c), c.id[1])
         /\ Announce(Channels(Run(p, c), c.id[1]))
         /\ Leave(p)
         /\ UNCHANGED setVars
  BY DEF SemopDone
<1>2. PICK u, s : u = Run(p, c) /\ s = c.id[1]
  OBVIOUS
<1>3. /\ c.id \in Id /\ c.list \in Lists /\ Valid(c.id) /\ wchan[p] = Awake /\ s \in Slot
  BY <1>2, AttemptIs
<1>4. Sound(u, ValidKeys, Own(p)) /\ After(Start(p, s), c.list, Len(c.list), u)
  BY <1>2, <1>3, RunKeeps
<1>5. u.val \in [Num -> Value]
  BY <1>4 DEF After
<1>6. Keep(p, u, s) /\ Announce(Channels(u, s)) /\ Leave(p) /\ UNCHANGED setVars
  BY <1>1, <1>2
<1>7. Account' /\ Undos'
  BY <1>3, <1>4, <1>5, <1>6, KeepIs
<1>8. Tells(Channels(u, s))
  <2>1. semval' = [semval EXCEPT ![s] = u.val]
    BY <1>6 DEF Keep
  <2> QED BY <1>3, <1>4, <2>1, ChannelsTell
<1> QED BY <1>3, <1>6, <1>7, <1>8, LeaveStep

(* What is kept of a list that waits or fails: the values are as before.   *)
LEMMA UndoneIs ==
    ASSUME Inv, NEW p \in Proc, NEW c \in Attempts(p), NEW s, s = c.id[1],
           Keep(p, Semundo(Run(p, c), c), s), UNCHANGED setVars
    PROVE  Account' /\ Undos' /\ semval' = semval
<1>1. PICK u : u = Run(p, c)
  OBVIOUS
<1>2. /\ c.id \in Id /\ c.list \in Lists /\ Valid(c.id) /\ wchan[p] = Awake /\ s \in Slot
  BY AttemptIs
<1>3. PICK w : w = Semundo(u, c)
  OBVIOUS
<1>4. /\ Sound(u, ValidKeys, Own(p)) /\ Fresh(Start(p, s))
      /\ After(Start(p, s), c.list, Len(c.list), u)
      /\ Keyed(c.list, c.id, ValidKeys)
  BY <1>1, <1>2, RunKeeps
<1>5. Sound(w, ValidKeys, Own(p)) /\ w.val = Start(p, s).val
  <2>1. Len(c.list) \in Nat /\ ValidKeys \subseteq Key
    BY <1>2, ListIs DEF ValidKeys
  <2>2. PICK v, n, K : v = Start(p, s) /\ n = Own(p) /\ K = ValidKeys
    OBVIOUS
  <2>3. K \subseteq Key /\ Fresh(v) /\ Sound(u, K, n) /\ After(v, c.list, Len(c.list), u) /\ Keyed(c.list, c.id, K)
    BY <1>4, <2>1, <2>2
  <2>4. Sound(w, K, n) /\ Restored(v, w)
    BY <1>3, <2>1, <2>3, SemundoIs
  <2> QED BY <2>2, <2>4 DEF Restored
<1>6. Start(p, s).val = semval[s]
  BY DEF Start
<1>7. semval \in [Slot -> [Num -> Value]]
  BY DEF Inv, Types
<1>8. Keep(p, w, s) /\ w.val = semval[s] /\ w.val \in [Num -> Value]
  BY <1>1, <1>2, <1>3, <1>5, <1>6, <1>7
<1>9. semval' = [semval EXCEPT ![s] = semval[s]]
  BY <1>8 DEF Keep
<1>10. semval' = semval
  BY <1>7, <1>9
<1> QED BY <1>2, <1>5, <1>8, <1>10, KeepIs

LEMMA SemopFailsStep ==
    ASSUME Inv, NEW p \in Proc, SemopFails(p)
    PROVE  \E C : Step(p, C)
<1>1. PICK c \in Attempts(p) :
         /\ Keep(p, Semundo(Run(p, c), c), c.id[1])
         /\ Announce(Channels(Run(p, c), c.id[1]))
         /\ Leave(p)
         /\ UNCHANGED setVars
  BY DEF SemopFails
<1>2. PICK C, s : C = Channels(Run(p, c), c.id[1]) /\ s = c.id[1]
  OBVIOUS
<1>3. Account' /\ Undos' /\ semval' = semval
  BY <1>1, <1>2, UndoneIs
<1>4. wchan[p] = Awake
  BY AttemptIs
<1>5. Tells(C)
  BY <1>3, SameTells
<1>6. Announce(C) /\ Leave(p) /\ UNCHANGED setVars
  BY <1>1, <1>2
<1> QED BY <1>3, <1>4, <1>5, <1>6, LeaveStep

(* A process that has to wait sleeps at the channel of the operation that  *)
(* is stuck, and is counted there.                                         *)
LEMMA SemopWaitsStep ==
    ASSUME Inv, NEW p \in Proc, SemopWaits(p)
    PROVE  \E C : Step(p, C)
<1>1. PICK c \in Attempts(p) :
         LET u == Run(p, c)
             s == c.id[1]
             chan == <<u.status, s, c.list[u.done + 1].num>>
         IN  /\ u.status \in {"grow", "zero"}
             /\ Keep(p, Semundo(u, c), s)
             /\ semcnt' = [d \in Chan |-> (IF d \in Channels(u, s) THEN 0 ELSE semcnt[d])
                                          + (IF d = chan THEN 1 ELSE 0)]
             /\ wchan' = [Wakeup(Channels(u, s)) EXCEPT ![p] = chan]
             /\ call' = [call EXCEPT ![p] = [id |-> c.id, list |-> c.list, chan |-> chan]]
             /\ UNCHANGED <<setVars, sig>>
  BY DEF SemopWaits
<1>2. PICK u, s, chan : u = Run(p, c) /\ s = c.id[1] /\ chan = <<u.status, s, c.list[u.done + 1].num>>
  <2> DEFINE u0 == Run(p, c)
  <2> QED OBVIOUS
<1>3. PICK C : C = Channels(u, s)
  OBVIOUS
<1>4. PICK list, id : list = c.list /\ id = c.id
  OBVIOUS
<1>5. /\ u.status \in {"grow", "zero"} /\ Keep(p, Semundo(Run(p, c), c), s)
      /\ semcnt' = [d \in Chan |-> (IF d \in C THEN 0 ELSE semcnt[d]) + (IF d = chan THEN 1 ELSE 0)]
      /\ wchan' = [Wakeup(C) EXCEPT ![p] = chan]
      /\ call' = [call EXCEPT ![p] = [id |-> id, list |-> list, chan |-> chan]]
      /\ UNCHANGED setVars /\ sig' = sig
  BY <1>1, <1>2, <1>3, <1>4, Zenon
<1>6. Account' /\ Undos' /\ semval' = semval
  BY <1>2, <1>5, UndoneIs
<1>7. id \in Id /\ list \in Lists /\ Valid(id) /\ wchan[p] = Awake /\ s \in Slot /\ s = id[1]
  BY <1>2, <1>4, AttemptIs
<1>8. PICK v : v = Start(p, s)
  OBVIOUS
<1>9. After(v, list, Len(list), u)
  BY <1>2, <1>4, <1>7, <1>8, RunKeeps
<1>10. /\ Len(list) \in Nat /\ u.done \in 0 .. Len(list) /\ u.done < Len(list)
       /\ u.done + 1 \in 1 .. Len(list)
       /\ Stuck(u.status, u.val[list[u.done + 1].num], list[u.done + 1])
  BY <1>5, <1>7, <1>9, ListIs DEF After
<1>11. PICK num : num = list[u.done + 1].num
  OBVIOUS
<1>12. num \in Num
  BY <1>7, <1>10, <1>11, ListIs DEF Op
<1>13. chan = <<u.status, s, num>> /\ chan \in Chan /\ chan[1] = u.status /\ chan[2] = s /\ chan[3] = num
  BY <1>2, <1>4, <1>5, <1>7, <1>11, <1>12 DEF Chan
<1>14. u.val[num] = semval[s][num] + Promise!Added(list, num)[u.done]
  <2>1. v.val = semval[s]
    BY <1>8 DEF Start
  <2> QED BY <1>9, <1>12, <2>1 DEF After
<1>15. BlockedAt(list, chan, semval[s][num])
  <2>1. PICK m \in 1 .. Len(list) : m = u.done + 1 /\ m - 1 = u.done
    BY <1>10
  <2>2. Stuck(u.status, semval[s][num] + Promise!Added(list, num)[m - 1], list[m])
    BY <1>10, <1>11, <1>14, <2>1
  <2> QED BY <1>11, <1>13, <2>1, <2>2 DEF BlockedAt
<1>16. /\ semcnt \in [Chan -> Nat] /\ wchan \in [Proc -> Chan \cup {Awake}]
       /\ call \in [Proc -> CallRec \cup {NoCall}] /\ sig \in [Proc -> BOOLEAN]
       /\ \A q \in Proc : wchan[q] # Awake => semcnt[wchan[q]] > 0
  BY DEF Inv, Types, Sleeper
<1>17. PICK r : r = [id |-> id, list |-> list, chan |-> chan]
  OBVIOUS
<1>18. r \in CallRec /\ r # NoCall /\ r.id = id /\ r.list = list /\ r.chan = chan
  BY <1>7, <1>13, <1>17 DEF CallRec, NoCall
<1>19. /\ call' \in [Proc -> CallRec \cup {NoCall}] /\ call'[p] = r
       /\ \A q \in Proc : q # p => call'[q] = call[q]
  BY <1>5, <1>16, <1>17, <1>18
<1>20. /\ Wakeup(C) \in [Proc -> Chan \cup {Awake}]
       /\ \A q \in Proc : Wakeup(C)[q] # Awake => wchan[q] \notin C /\ Wakeup(C)[q] = wchan[q]
       /\ \A q \in Proc : wchan[q] = Awake => Wakeup(C)[q] = Awake
  BY <1>16 DEF Wakeup
<1>21. PICK W : W = Wakeup(C)
  OBVIOUS
<1>22. /\ wchan' \in [Proc -> Chan \cup {Awake}] /\ wchan'[p] = chan
       /\ \A q \in Proc : q # p => wchan'[q] = W[q]
  BY <1>5, <1>13, <1>20, <1>21
<1>23. /\ semcnt' \in [Chan -> Nat] /\ semcnt'[chan] > 0
       /\ \A d \in Chan : d \notin C => semcnt'[d] >= semcnt[d]
  <2>1. ASSUME NEW d \in Chan
        PROVE  /\ semcnt'[d] \in Nat /\ (d = chan => semcnt'[d] > 0)
               /\ (d \notin C => semcnt'[d] >= semcnt[d])
    <3>1. semcnt'[d] = (IF d \in C THEN 0 ELSE semcnt[d]) + (IF d = chan THEN 1 ELSE 0)
      BY <1>5
    <3>2. semcnt[d] \in Nat
      BY <1>16
    <3> QED BY <3>1, <3>2
  <2>2. semcnt' = [d \in Chan |-> semcnt'[d]]
    BY <1>5
  <2> QED BY <1>13, <2>1, <2>2
<1>24. ASSUME NEW q \in Proc, q # p
       PROVE  Stays(q, C) /\ (wchan[q] = Awake => wchan'[q] = Awake)
  <2>1. wchan'[q] = W[q] /\ call'[q] = call[q]
    BY <1>19, <1>22, <1>24
  <2>2. /\ W[q] # Awake => wchan[q] \notin C /\ W[q] = wchan[q]
        /\ wchan[q] = Awake => W[q] = Awake
    BY <1>20, <1>21
  <2>3. wchan[q] # Awake => semcnt[wchan[q]] > 0 /\ wchan[q] \in Chan
    BY <1>16
  <2>4. wchan'[q] # Awake => semcnt'[wchan[q]] > 0
    <3> SUFFICES ASSUME wchan'[q] # Awake PROVE semcnt'[wchan[q]] > 0
      OBVIOUS
    <3>1. PICK d \in Chan : d = wchan[q]
      BY <2>1, <2>2, <2>3
    <3>2. semcnt'[d] >= semcnt[d] /\ semcnt[d] > 0 /\ semcnt'[d] \in Nat /\ semcnt[d] \in Nat
      BY <1>16, <1>23, <2>1, <2>2, <2>3, <3>1
    <3> QED BY <3>1, <3>2
  <2> QED BY <2>1, <2>2, <2>4 DEF Stays
<1>25. Types'
  BY <1>5, <1>6, <1>16, <1>19, <1>22, <1>23 DEF Types, Inv, Account, setVars
<1>26. \A q \in Proc : Valid(call[q].id) => ValidNext(call[q].id)
  BY <1>5 DEF Valid, ValidNext, setVars
<1>27. Sleeper(p)'
  <2>1. Valid(id)'
    BY <1>5, <1>7 DEF Valid, setVars
  <2>2. call'[p].chan = wchan'[p] /\ wchan'[p][2] = call'[p].id[1] /\ semcnt'[wchan'[p]] > 0
    BY <1>7, <1>13, <1>18, <1>19, <1>22, <1>23
  <2>3. alloc'[call'[p].id[1]] /\ seq'[call'[p].id[1]] = call'[p].id[2]
    BY <1>18, <1>19, <2>1 DEF Valid
  <2> QED BY <1>18, <1>19, <2>2, <2>3 DEF Sleeper, Valid
<1>28. Blocked(p)'
  <2>1. /\ call'[p].list = list /\ wchan'[p] = chan
        /\ semval'[wchan'[p][2]][wchan'[p][3]] = semval[s][num]
    BY <1>6, <1>13, <1>18, <1>19, <1>22
  <2> QED BY <1>15, <2>1 DEF Blocked
<1>29. Tells(C)
  BY <1>6, SameTells
<1>30. \A q \in Proc : sig'[q] = sig[q]
  BY <1>5
<1> QED BY <1>6, <1>19, <1>24, <1>25, <1>26, <1>27, <1>28, <1>29, <1>30 DEF Step

(* What a step that leaves values, structures and entries alone preserves. *)
LEMMA SameAccount ==
    ASSUME Inv, UNCHANGED <<semval, undoVars, setVars>>
    PROVE  Account' /\ Undos' /\ \A C : Tells(C)
<1>1. Account'
  BY DEF Account, Inv, Types, undoVars
<1>2. Undos'
  BY DEF Undos, Users, ValidKeys, Valid, Inv, undoVars, setVars
<1>3. \A C : Tells(C)
  BY SameTells
<1> QED BY <1>1, <1>2, <1>3

LEMMA SemopRemovedStep ==
    ASSUME Inv, NEW p \in Proc, SemopRemoved(p)
    PROVE  \E C : Step(p, C)
<1>1. /\ wchan[p] = Awake /\ Leave(p) /\ wchan' = wchan /\ semcnt' = semcnt
      /\ UNCHANGED <<semval, undoVars, setVars>>
  BY DEF SemopRemoved
<1>2. Announce({})
  <2>1. semcnt = [c \in Chan |-> semcnt[c]] /\ wchan = [q \in Proc |-> wchan[q]]
    BY DEF Inv, Types
  <2>2. \A c : c \notin {}
    OBVIOUS
  <2> QED BY <1>1, <2>1, <2>2 DEF Announce, Wakeup
<1>3. Account' /\ Undos' /\ Tells({})
  BY <1>1, SameAccount
<1>4. UNCHANGED setVars
  BY <1>1
<1> QED BY <1>1, <1>2, <1>3, <1>4, LeaveStep

LEMMA SignalStep ==
    ASSUME Inv, NEW p \in Proc, Signal(p)
    PROVE  \E C : Step(p, C)
<1>1. /\ call[p] # NoCall /\ sig' = [sig EXCEPT ![p] = TRUE]
      /\ wchan' = [wchan EXCEPT ![p] = Awake] /\ semcnt' = semcnt /\ call' = call
      /\ UNCHANGED <<semval, undoVars, setVars>>
  BY DEF Signal
<1>2. Account' /\ Undos' /\ Tells({})
  BY <1>1, SameAccount
<1>3. /\ semcnt \in [Chan -> Nat] /\ wchan \in [Proc -> Chan \cup {Awake}]
      /\ sig \in [Proc -> BOOLEAN] /\ call \in [Proc -> CallRec \cup {NoCall}]
      /\ \A q \in Proc : wchan[q] # Awake => semcnt[wchan[q]] > 0
  BY DEF Inv, Types, Sleeper
<1>4. /\ wchan' \in [Proc -> Chan \cup {Awake}] /\ wchan'[p] = Awake /\ sig' \in [Proc -> BOOLEAN]
      /\ \A q \in Proc : q # p => wchan'[q] = wchan[q] /\ sig'[q] = sig[q]
  BY <1>1, <1>3
<1>5. Types'
  BY <1>1, <1>2, <1>3, <1>4 DEF Types, Inv, Account, setVars
<1>6. \A q \in Proc : q # p => Stays(q, {})
  BY <1>1, <1>3, <1>4 DEF Stays
<1>7. \A q \in Proc : Valid(call[q].id) => ValidNext(call[q].id)
  BY <1>1 DEF Valid, ValidNext, setVars
<1>8. Sleeper(p)'
  BY <1>1, <1>4 DEF Sleeper
<1> QED BY <1>1, <1>2, <1>4, <1>5, <1>6, <1>7, <1>8 DEF Step

(* A signal's count goes down by one; the last one clears the channel and  *)
(* wakes up the others there.                                              *)
LEMMA SemopInterruptedStep ==
    ASSUME Inv, NEW p \in Proc, SemopInterrupted(p)
    PROVE  \E C : Step(p, C)
<1>1. PICK c : c = call[p].chan
  OBVIOUS
<1>2. /\ call[p] # NoCall /\ wchan[p] = Awake /\ Leave(p)
      /\ UNCHANGED <<semval, undoVars, setVars>>
      /\ IF semcnt[c] <= 1 THEN Announce({c})
         ELSE semcnt' = [semcnt EXCEPT ![c] = semcnt[c] - 1] /\ wchan' = wchan
  BY <1>1 DEF SemopInterrupted
<1>3. c \in Chan
  BY <1>1, <1>2 DEF Inv, Types, CallRec
<1>4. Account' /\ Undos' /\ Tells({c}) /\ Tells({}) /\ UNCHANGED setVars
  BY <1>2, SameAccount
<1>5. CASE semcnt[c] <= 1
  <2>1. Announce({c})
    BY <1>2, <1>5
  <2> QED BY <1>2, <1>4, <2>1, LeaveStep
<1>6. CASE ~(semcnt[c] <= 1)
  <2>1. semcnt' = [semcnt EXCEPT ![c] = semcnt[c] - 1] /\ wchan' = wchan
    BY <1>2, <1>6
  <2>2. /\ semcnt \in [Chan -> Nat] /\ wchan \in [Proc -> Chan \cup {Awake}]
        /\ sig \in [Proc -> BOOLEAN] /\ call \in [Proc -> CallRec \cup {NoCall}]
        /\ \A q \in Proc : wchan[q] # Awake => semcnt[wchan[q]] > 0
    BY DEF Inv, Types, Sleeper
  <2>3. /\ call' \in [Proc -> CallRec \cup {NoCall}] /\ sig' \in [Proc -> BOOLEAN]
        /\ call'[p] = NoCall /\ sig'[p] = FALSE
        /\ \A q \in Proc : q # p => call'[q] = call[q] /\ sig'[q] = sig[q]
    BY <1>2, <2>2 DEF Leave
  <2>4. PICK n \in Nat : n = semcnt[c] - 1 /\ n > 0
    <3>1. semcnt[c] \in Nat
      BY <1>3, <2>2
    <3>2. semcnt[c] - 1 \in Nat /\ semcnt[c] - 1 > 0
      BY <1>6, <3>1
    <3> QED BY <3>2
  <2>5. semcnt' \in [Chan -> Nat] /\ \A d \in Chan : semcnt[d] > 0 => semcnt'[d] > 0
    <3>1. semcnt' = [semcnt EXCEPT ![c] = n]
      BY <2>1, <2>4
    <3> QED BY <1>3, <2>2, <2>4, <3>1
  <2>6. Types'
    BY <1>4, <2>1, <2>2, <2>3, <2>5 DEF Types, Inv, Account, setVars
  <2>7. ASSUME NEW q \in Proc, q # p PROVE Stays(q, {})
    <3>1. wchan'[q] = wchan[q] /\ call'[q] = call[q]
      BY <2>1, <2>3, <2>7
    <3>2. wchan[q] # Awake => semcnt'[wchan[q]] > 0
      BY <2>2, <2>5
    <3> QED BY <3>1, <3>2 DEF Stays
  <2>8. \A q \in Proc : Valid(call[q].id) => ValidNext(call[q].id)
    BY <1>4 DEF Valid, ValidNext, setVars
  <2>9. Sleeper(p)'
    BY <1>2, <2>1, <2>3 DEF Sleeper
  <2> QED BY <1>2, <1>4, <2>1, <2>3, <2>6, <2>7, <2>8, <2>9 DEF Step
<1> QED BY <1>5, <1>6

(* A step of a process that is not in semop().                             *)
LEMMA OtherStep ==
    ASSUME Inv, NEW p \in Proc, call[p] = NoCall, NEW C, Announce(C), call' = call, sig' = sig,
           Account', Undos', Tells(C),
           alloc' \in [Slot -> BOOLEAN], seq' \in [Slot -> 0 .. MaxSeq],
           \A q \in Proc : wchan'[q] # Awake /\ Valid(call[q].id) => ValidNext(call[q].id)
    PROVE  Step(p, C)
<1>1. /\ SleepTypes'
      /\ \A q \in Proc : /\ wchan[q] = Awake => wchan'[q] = Awake
                         /\ wchan'[q] # Awake => /\ wchan'[q] = wchan[q] /\ wchan[q] \notin C
                                                 /\ semcnt'[wchan[q]] > 0
  BY AnnounceIs
<1>2. /\ call \in [Proc -> CallRec \cup {NoCall}] /\ sig \in [Proc -> BOOLEAN]
      /\ wchan[p] = Awake /\ ~sig[p]
  BY DEF Inv, Types, Sleeper
<1>3. Types'
  BY <1>1, <1>2 DEF Types, Account, SleepTypes
<1>4. \A q \in Proc : q # p => Stays(q, C)
  BY <1>1 DEF Stays
<1>5. Sleeper(p)' /\ wchan'[p] = Awake
  BY <1>1, <1>2 DEF Sleeper
<1> QED BY <1>1, <1>3, <1>4, <1>5 DEF Step

LEMMA SemgetStep ==
    ASSUME Inv, NEW p \in Proc, Semget(p)
    PROVE  \E C : Step(p, C)
<1>1. PICK s \in Slot : ~alloc[s] /\ alloc' = [alloc EXCEPT ![s] = TRUE]
  BY DEF Semget
<1>2. /\ call[p] = NoCall /\ seq' = seq /\ semval' = semval /\ semcnt' = semcnt
      /\ UNCHANGED undoVars /\ call' = call /\ wchan' = wchan /\ sig' = sig
  BY DEF Semget, procVars
<1>3. Announce({})
  <2>1. semcnt = [c \in Chan |-> semcnt[c]] /\ wchan = [q \in Proc |-> wchan[q]]
    BY DEF Inv, Types
  <2>2. \A c : c \notin {}
    OBVIOUS
  <2> QED BY <1>2, <2>1, <2>2 DEF Announce, Wakeup
<1>4. alloc \in [Slot -> BOOLEAN] /\ seq \in [Slot -> 0 .. MaxSeq]
  BY DEF Inv, Types
<1>5. alloc' \in [Slot -> BOOLEAN] /\ \A t \in Slot : alloc[t] => alloc'[t]
  BY <1>1, <1>4
<1>6. Account'
  BY <1>2 DEF Account, Inv, Types, undoVars
<1>7. ValidKeys \subseteq ValidKeys'
  BY <1>2, <1>5 DEF ValidKeys, Valid, Key, Id
<1>8. Undos'
  <2>1. \A q \in Proc : (un_ent[q] # <<>> => sem_undo[q]) /\ DOMAIN un_ent[q] \subseteq ValidKeys
    BY DEF Inv, Undos
  <2>2. Users' = Users /\ un_ent' = un_ent /\ sem_undo' = sem_undo /\ nfree' = nfree
    BY <1>2 DEF Users, undoVars
  <2>3. IsFiniteSet(Users) /\ nfree + Cardinality(Users) = SEMMNU
    BY DEF Inv, Undos
  <2> QED BY <1>7, <2>1, <2>2, <2>3 DEF Undos
<1>9. ASSUME NEW q \in Proc, wchan'[q] # Awake, Valid(call[q].id) PROVE ValidNext(call[q].id)
  <2>1. call[q] # NoCall
    BY <1>2, <1>9 DEF Inv, Sleeper
  <2>2. call[q].id[1] \in Slot
    <3>1. call[q].id \in Id
      BY <2>1 DEF Inv, Types, CallRec
    <3> QED BY <3>1, IdIs DEF Inv
  <2> QED BY <1>2, <1>5, <1>9, <2>2 DEF Valid, ValidNext
<1>10. Tells({})
  BY <1>2, SameTells
<1> QED BY <1>2, <1>3, <1>4, <1>5, <1>6, <1>8, <1>9, <1>10, OtherStep

(* Removed entries leave the others.                                       *)
LEMMA SemunrmIs ==
    ASSUME Inv, NEW id, NEW K, Semunrm(id, K)
    PROVE  /\ un_ent' \in [Proc -> Entries]
           /\ \A q \in Proc : /\ un_ent'[q] # <<>> => un_ent[q] # <<>>
                              /\ \A e \in DOMAIN un_ent'[q] : e \in DOMAIN un_ent[q] /\ ~(e[1] = id /\ e[2] \in K)
<1>1. un_ent' = [q \in Proc |->
                    [e \in {d \in DOMAIN un_ent[q] : d[1] # id \/ d[2] \notin K} |-> un_ent[q][e]]]
  BY DEF Semunrm
<1>2. ASSUME NEW q \in Proc
      PROVE  /\ un_ent'[q] \in Entries
             /\ un_ent'[q] # <<>> => un_ent[q] # <<>>
             /\ \A e \in DOMAIN un_ent'[q] : e \in DOMAIN un_ent[q] /\ ~(e[1] = id /\ e[2] \in K)
  <2>0. PICK f : f = un_ent[q]
    OBVIOUS
  <2> DEFINE D == {d \in DOMAIN f : d[1] # id \/ d[2] \notin K}
             g == [e \in D |-> f[e]]
  <2>1. un_ent'[q] = g
    BY <1>1, <2>0
  <2>2. f \in Entries
    BY <2>0 DEF Inv, Types
  <2>3. /\ DOMAIN f \subseteq Key /\ IsFiniteSet(DOMAIN f) /\ Cardinality(DOMAIN f) <= SEMUME
        /\ \A e \in DOMAIN f : f[e] \in Amount /\ f[e] # 0
    BY <2>2, InEntries
  <2>4. /\ DOMAIN g = D /\ g = [e \in DOMAIN g |-> g[e]] /\ \A e \in DOMAIN g : g[e] = f[e]
        /\ D \subseteq DOMAIN f /\ \A e \in D : ~(e[1] = id /\ e[2] \in K)
    OBVIOUS
  <2>5. f = <<>> => g = <<>>
    <3> SUFFICES ASSUME f = <<>> PROVE g = <<>>
      OBVIOUS
    <3>1. DOMAIN f = {}
      OBVIOUS
    <3>2. D = {}
      BY <3>1
    <3>3. g = [e \in {} |-> f[e]]
      BY <3>2
    <3> QED BY <3>3
  <2> HIDE DEF g, D
  <2>6. IsFiniteSet(D) /\ Cardinality(D) <= Cardinality(DOMAIN f)
    BY <2>3, <2>4, FS_Subset
  <2>7. Cardinality(D) \in Nat /\ Cardinality(DOMAIN f) \in Nat /\ SEMUME \in Nat
    BY <2>3, <2>6, FS_CardinalityType, SemAssumption
  <2>8. Cardinality(D) <= SEMUME
    BY <2>3, <2>6, <2>7
  <2>9. g \in Entries
    BY <2>3, <2>4, <2>6, <2>8, InEntries
  <2> QED BY <2>0, <2>1, <2>4, <2>5, <2>9
<1>3. un_ent' = [q \in Proc |-> un_ent'[q]]
  BY <1>1
<1> QED BY <1>2, <1>3

LEMMA AssignStep ==
    ASSUME Inv, NEW p \in Proc, call[p] = NoCall, NEW s \in Slot, NEW K \in SUBSET Num,
           NEW new \in [Num -> Settings], Assign(s, K, new)
    PROVE  \E C : Step(p, C)
<1>0. /\ SEMVMX \in Nat /\ semval \in [Slot -> [Num -> Value]]
      /\ alloc \in [Slot -> BOOLEAN] /\ seq \in [Slot -> 0 .. MaxSeq]
      /\ \A k \in Num : new[k] \in Value
  BY SemAssumption DEF Inv, Types, Value
<1>1. PICK C : C = {<<IF new[k] > 0 THEN "grow" ELSE "zero", s, k>> : k \in K}
  OBVIOUS
<1>2. /\ Announce(C) /\ Semunrm(IdOf(s), K)
      /\ alloc' = alloc /\ seq' = seq /\ sem_undo' = sem_undo /\ nfree' = nfree
      /\ call' = call /\ sig' = sig
  BY <1>1 DEF Assign, setVars
<1>3. PICK v : v = [k \in Num |-> IF k \in K THEN new[k] ELSE semval[s][k]]
  OBVIOUS
<1>4. semval' = [semval EXCEPT ![s] = v]
  BY <1>3 DEF Assign
<1>5. v \in [Num -> Value] /\ \A k \in Num : v[k] = IF k \in K THEN new[k] ELSE semval[s][k]
  BY <1>0, <1>3
<1>6. semval' \in [Slot -> [Num -> Value]] /\ semval'[s] = v
      /\ \A t \in Slot : t # s => semval'[t] = semval[t]
  BY <1>0, <1>4, <1>5
<1>7. /\ un_ent' \in [Proc -> Entries]
      /\ \A q \in Proc : /\ un_ent'[q] # <<>> => un_ent[q] # <<>>
                         /\ \A e \in DOMAIN un_ent'[q] : e \in DOMAIN un_ent[q]
  <2>1. PICK id : id = IdOf(s)
    OBVIOUS
  <2>2. Semunrm(id, K)
    BY <1>2, <2>1
  <2> QED BY <2>2, SemunrmIs
<1>8. Account'
  BY <1>2, <1>6, <1>7 DEF Account, Inv, Types
<1>9. Undos'
  <2>1. ValidKeys' = ValidKeys /\ Users' = Users
    BY <1>2 DEF ValidKeys, Valid, Users
  <2>2. /\ IsFiniteSet(Users) /\ nfree + Cardinality(Users) = SEMMNU
        /\ \A q \in Proc : (un_ent[q] # <<>> => sem_undo[q]) /\ DOMAIN un_ent[q] \subseteq ValidKeys
    BY DEF Inv, Undos
  <2>3. \A q \in Proc : (un_ent'[q] # <<>> => sem_undo[q]) /\ DOMAIN un_ent'[q] \subseteq ValidKeys
    BY <1>7, <2>2
  <2> QED BY <1>2, <2>1, <2>2, <2>3 DEF Undos
<1>10. Tells(C)
  <2>1. ASSUME NEW t \in Slot, NEW k \in Num PROVE TellsOf(C, t, k)
    <3>0. semval[t][k] \in Nat /\ new[k] \in Nat
      BY <1>0 DEF Value
    <3>1. CASE t = s /\ k \in K
      <4>1. semval'[t][k] = new[k]
        BY <1>5, <1>6, <3>1
      <4>2. <<IF new[k] > 0 THEN "grow" ELSE "zero", s, k>> \in C
        BY <1>1, <3>1
      <4>3. CASE new[k] > 0
        <5>1. <<"grow", s, k>> \in C
          BY <4>2, <4>3
        <5> QED BY <3>1, <4>1, <4>3, <5>1 DEF TellsOf
      <4>4. CASE ~(new[k] > 0)
        <5>1. <<"zero", s, k>> \in C
          BY <4>2, <4>4
        <5> QED BY <3>0, <3>1, <4>1, <4>4, <5>1 DEF TellsOf
      <4> QED BY <4>3, <4>4
    <3>2. CASE ~(t = s /\ k \in K)
      <4>1. semval'[t][k] = semval[t][k]
        BY <1>5, <1>6, <3>2
      <4> QED BY <3>0, <4>1 DEF TellsOf
    <3> QED BY <3>1, <3>2
  <2> QED BY <2>1 DEF Tells
<1>11. \A q \in Proc : Valid(call[q].id) => ValidNext(call[q].id)
  BY <1>2 DEF Valid, ValidNext
<1> QED BY <1>0, <1>2, <1>8, <1>9, <1>10, <1>11, OtherStep

LEMMA SettingStep ==
    ASSUME Inv, NEW p \in Proc, SetVal(p) \/ SetAll(p)
    PROVE  \E C : Step(p, C)
<1>1. CASE SetVal(p)
  <2>1. PICK s \in Slot, k \in Num, v \in Settings :
           call[p] = NoCall /\ Assign(s, {k}, [j \in Num |-> v])
    BY <1>1 DEF SetVal
  <2>2. PICK new \in [Num -> Settings], K \in SUBSET Num : new = [j \in Num |-> v] /\ K = {k}
    OBVIOUS
  <2>3. Assign(s, K, new)
    BY <2>1, <2>2
  <2> QED BY <2>1, <2>3, AssignStep
<1>2. CASE SetAll(p)
  <2>1. PICK s \in Slot, new \in [Num -> Settings] : call[p] = NoCall /\ Assign(s, Num, new)
    BY <1>2 DEF SetAll
  <2>2. PICK K \in SUBSET Num : K = Num
    OBVIOUS
  <2>3. Assign(s, K, new)
    BY <2>1, <2>2
  <2> QED BY <2>1, <2>3, AssignStep
<1> QED BY <1>1, <1>2

(* No sleeper and no entry of a set outlives it.                           *)
LEMMA RmidStep ==
    ASSUME Inv, NEW p \in Proc, Rmid(p)
    PROVE  \E C : Step(p, C)
<1>0. /\ SEMVMX \in Nat /\ semval \in [Slot -> [Num -> Value]]
      /\ alloc \in [Slot -> BOOLEAN] /\ seq \in [Slot -> 0 .. MaxSeq] /\ MaxSeq \in Nat
  BY SemAssumption DEF Inv, Types, Value
<1>1. PICK s \in Slot :
         /\ call[p] = NoCall /\ alloc[s] /\ seq[s] < MaxSeq
         /\ semval' = [semval EXCEPT ![s] = [k \in Num |-> 0]]
         /\ Announce({c \in Chan : c[2] = s})
         /\ Semunrm(IdOf(s), Num)
         /\ alloc' = [alloc EXCEPT ![s] = FALSE]
         /\ seq' = [seq EXCEPT ![s] = @ + 1]
         /\ UNCHANGED <<sem_undo, nfree, call, sig>>
  BY DEF Rmid
<1>2. PICK C : C = {c \in Chan : c[2] = s}
  OBVIOUS
<1>3. /\ alloc' \in [Slot -> BOOLEAN] /\ seq' \in [Slot -> 0 .. MaxSeq]
      /\ \A t \in Slot : t # s => alloc'[t] = alloc[t] /\ seq'[t] = seq[t]
  BY <1>0, <1>1
<1>4. PICK zero : zero = [k \in Num |-> 0]
  OBVIOUS
<1>5. zero \in [Num -> Value] /\ \A k \in Num : zero[k] = 0
  BY <1>0, <1>4 DEF Value
<1>6. /\ semval' \in [Slot -> [Num -> Value]] /\ semval'[s] = zero
      /\ \A t \in Slot : t # s => semval'[t] = semval[t]
  BY <1>0, <1>1, <1>4, <1>5
<1>7. PICK id : id = <<s, seq[s]>>
  OBVIOUS
<1>8. /\ un_ent' \in [Proc -> Entries]
      /\ \A q \in Proc : /\ un_ent'[q] # <<>> => un_ent[q] # <<>>
                         /\ \A e \in DOMAIN un_ent'[q] : e \in DOMAIN un_ent[q] /\ ~(e[1] = id /\ e[2] \in Num)
  <2>1. Semunrm(id, Num)
    BY <1>1, <1>7 DEF IdOf
  <2> QED BY <2>1, SemunrmIs
<1>9. Account'
  BY <1>1, <1>6, <1>8 DEF Account, Inv, Types
<1>10. ASSUME NEW e \in ValidKeys, ~(e[1] = id /\ e[2] \in Num) PROVE e \in ValidKeys'
  <2>1. e \in Key /\ e[1] \in Id /\ e[2] \in Num /\ Valid(e[1])
    BY DEF ValidKeys, Key
  <2>2. PICK d \in Id : d = e[1]
    BY <2>1
  <2>3. d[1] \in Slot /\ d = <<d[1], d[2]>>
    BY IdIs DEF Inv
  <2>4. alloc[d[1]] /\ seq[d[1]] = d[2]
    BY <2>1, <2>2 DEF Valid
  <2>5. d[1] # s
    BY <1>7, <1>10, <2>1, <2>2, <2>3, <2>4
  <2>6. alloc'[d[1]] /\ seq'[d[1]] = d[2]
    BY <1>3, <2>3, <2>4, <2>5
  <2> QED BY <2>1, <2>2, <2>6 DEF ValidKeys, Valid
<1>11. Undos'
  <2>1. Users' = Users
    BY <1>1 DEF Users
  <2>2. /\ IsFiniteSet(Users) /\ nfree + Cardinality(Users) = SEMMNU
        /\ \A q \in Proc : (un_ent[q] # <<>> => sem_undo[q]) /\ DOMAIN un_ent[q] \subseteq ValidKeys
    BY DEF Inv, Undos
  <2>3. PICK V : V = ValidKeys'
    OBVIOUS
  <2>4. \A q \in Proc : (un_ent'[q] # <<>> => sem_undo[q]) /\ DOMAIN un_ent'[q] \subseteq V
    BY <1>8, <1>10, <2>2, <2>3
  <2> QED BY <1>1, <2>1, <2>2, <2>3, <2>4 DEF Undos
<1>12. Tells(C)
  <2>1. ASSUME NEW t \in Slot, NEW k \in Num PROVE TellsOf(C, t, k)
    <3>0. semval[t][k] \in Nat
      BY <1>0 DEF Value
    <3>1. CASE t = s
      <4>1. semval'[t][k] = 0
        BY <1>5, <1>6, <3>1
      <4>2. <<"zero", t, k>> \in C
        BY <1>2, <3>1 DEF Chan
      <4> QED BY <3>0, <4>1, <4>2 DEF TellsOf
    <3>2. CASE t # s
      <4>1. semval'[t][k] = semval[t][k]
        BY <1>6, <3>2
      <4> QED BY <3>0, <4>1 DEF TellsOf
    <3> QED BY <3>1, <3>2
  <2> QED BY <2>1 DEF Tells
<1>13. Announce(C) /\ call' = call /\ sig' = sig
  BY <1>1, <1>2
<1>14. ASSUME NEW q \in Proc, wchan'[q] # Awake, Valid(call[q].id) PROVE ValidNext(call[q].id)
  <2>1. wchan'[q] = wchan[q] /\ wchan[q] \notin C /\ wchan[q] # Awake
    BY <1>13, <1>14, AnnounceIs
  <2>2. /\ call[q] # NoCall /\ wchan[q] \in Chan /\ wchan[q][2] = call[q].id[1]
    BY <2>1 DEF Inv, Types, Sleeper
  <2>3. call[q].id[1] # s /\ call[q].id[1] \in Slot
    BY <1>2, <2>1, <2>2, ChanIs
  <2> QED BY <1>3, <1>14, <2>3 DEF Valid, ValidNext
<1> QED BY <1>1, <1>3, <1>9, <1>11, <1>12, <1>13, <1>14, OtherStep

LEMMA NoEntries == <<>> \in Entries /\ DOMAIN <<>> = {}
<1>1. DOMAIN <<>> = {}
  OBVIOUS
<1>2. PICK f : f = <<>>
  OBVIOUS
<1>3. IsFiniteSet(DOMAIN f) /\ Cardinality(DOMAIN f) = 0
  BY <1>1, <1>2, FS_EmptySet
<1>4. f = [e \in DOMAIN f |-> f[e]]
  BY <1>2
<1>5. 0 <= SEMUME
  BY SemAssumption
<1>6. f \in Entries
  BY <1>1, <1>2, <1>3, <1>4, <1>5, InEntries
<1> QED BY <1>1, <1>2, <1>6

(* exit() gives back the structure, and tells whatever it changes.         *)
LEMMA ExitStep ==
    ASSUME Inv, NEW p \in Proc, Exit(p)
    PROVE  \E C : Step(p, C)
<1>0. /\ SEMVMX \in Nat /\ semval \in [Slot -> [Num -> Value]]
      /\ alloc \in [Slot -> BOOLEAN] /\ seq \in [Slot -> 0 .. MaxSeq]
      /\ sem_undo \in [Proc -> BOOLEAN] /\ un_ent \in [Proc -> Entries] /\ nfree \in Nat
  BY SemAssumption DEF Inv, Types
<1>1. /\ call[p] = NoCall /\ sem_undo[p] /\ Announce(ExitChannels(p))
      /\ sem_undo' = [sem_undo EXCEPT ![p] = FALSE]
      /\ un_ent' = [un_ent EXCEPT ![p] = <<>>]
      /\ nfree' = nfree + 1 /\ UNCHANGED setVars /\ call' = call /\ sig' = sig
  BY DEF Exit
<1>2. \A s \in Slot, k \in Num :
         semval'[s][k] = IF <<IdOf(s), k>> \in Applied(p)
                         THEN semval[s][k] + un_ent[p][<<IdOf(s), k>>] ELSE semval[s][k]
  BY DEF Exit
<1>3. semval' = [s \in Slot |-> [k \in Num |-> semval'[s][k]]]
  <2>1. semval' = [s \in Slot |-> [k \in Num |->
            LET e == <<IdOf(s), k>>
            IN  IF e \in Applied(p) THEN semval[s][k] + un_ent[p][e] ELSE semval[s][k]]]
    BY DEF Exit
  <2> QED BY <2>1
<1>4. ASSUME NEW s \in Slot, NEW k \in Num
      PROVE  semval'[s][k] \in Value /\ TellsOf(ExitChannels(p), s, k)
  <2>0. semval[s][k] \in Value /\ semval[s][k] \in Int
    BY <1>0 DEF Value
  <2>1. CASE <<IdOf(s), k>> \notin Applied(p)
    <3>1. semval'[s][k] = semval[s][k]
      BY <1>2, <2>1
    <3> QED BY <2>0, <3>1 DEF TellsOf
  <2>2. CASE <<IdOf(s), k>> \in Applied(p)
    <3>1. IdOf(s)[1] = s
      BY DEF IdOf
    <3>2. PICK e : e = <<IdOf(s), k>>
      OBVIOUS
    <3>3. e = <<IdOf(s), k>> /\ e[1] = IdOf(s) /\ e[1][1] = s /\ e[2] = k
      BY <3>1, <3>2
    <3>4. semval'[s][k] = semval[s][k] + un_ent[p][e] /\ e \in Applied(p)
      BY <1>2, <2>2, <3>3
    <3>5. e \in DOMAIN un_ent[p] /\ semval[s][k] + un_ent[p][e] \in 0 .. SEMVMX
      BY <3>3, <3>4 DEF Applied
    <3>6. un_ent[p][e] \in Int
      <4>1. un_ent[p] \in Entries
        BY <1>0
      <4> QED BY <3>5, <4>1, InEntries, SemAssumption DEF Amount
    <3>7. un_ent[p][e] > 0 => <<"grow", s, k>> \in ExitChannels(p)
      <4> SUFFICES ASSUME un_ent[p][e] > 0 PROVE <<"grow", s, k>> \in ExitChannels(p)
        OBVIOUS
      <4>1. e \in {d \in Applied(p) : un_ent[p][d] > 0}
        BY <3>4
      <4>2. <<"grow", e[1][1], e[2]>> \in ExitChannels(p)
        BY <4>1 DEF ExitChannels
      <4> QED BY <3>3, <4>2
    <3>8. semval[s][k] + un_ent[p][e] = 0 => <<"zero", s, k>> \in ExitChannels(p)
      <4> SUFFICES ASSUME semval[s][k] + un_ent[p][e] = 0 PROVE <<"zero", s, k>> \in ExitChannels(p)
        OBVIOUS
      <4>1. e \in {d \in Applied(p) : semval[d[1][1]][d[2]] + un_ent[p][d] = 0}
        BY <3>3, <3>4
      <4>2. <<"zero", e[1][1], e[2]>> \in ExitChannels(p)
        BY <4>1 DEF ExitChannels
      <4> QED BY <3>3, <4>2
    <3> QED BY <2>0, <3>4, <3>5, <3>6, <3>7, <3>8 DEF TellsOf, Value
  <2> QED BY <2>1, <2>2
<1>5. semval' \in [Slot -> [Num -> Value]]
  <2>1. \A s \in Slot, k \in Num : semval'[s][k] \in Value
    BY <1>4
  <2> QED BY <1>3, <2>1
<1>6. Tells(ExitChannels(p))
  BY <1>4 DEF Tells
<1>7. /\ sem_undo' \in [Proc -> BOOLEAN] /\ un_ent' \in [Proc -> Entries]
      /\ un_ent'[p] = <<>> /\ sem_undo'[p] = FALSE
      /\ \A q \in Proc : q # p => un_ent'[q] = un_ent[q] /\ sem_undo'[q] = sem_undo[q]
  BY <1>0, <1>1, NoEntries
<1>8. Account'
  BY <1>0, <1>1, <1>5, <1>7 DEF Account
<1>9. ValidKeys' = ValidKeys
  BY <1>1 DEF ValidKeys, Valid, setVars
<1>10. /\ IsFiniteSet(Users) /\ nfree + Cardinality(Users) = SEMMNU
       /\ \A q \in Proc : (un_ent[q] # <<>> => sem_undo[q]) /\ DOMAIN un_ent[q] \subseteq ValidKeys
  BY DEF Inv, Undos
<1>11. \A q \in Proc : (un_ent'[q] # <<>> => sem_undo'[q]) /\ DOMAIN un_ent'[q] \subseteq ValidKeys
  <2> TAKE q \in Proc
  <2>1. CASE q = p
    BY <1>7, <2>1, NoEntries
  <2>2. CASE q # p
    BY <1>7, <1>10, <2>2
  <2> QED BY <2>1, <2>2
<1>12. Users' = Users \ {p} /\ p \in Users
  <2>1. \A q : q \in Users' <=> q \in Users /\ q # p
    <3>1. ASSUME NEW q \in Proc PROVE sem_undo'[q] <=> sem_undo[q] /\ q # p
      BY <1>0, <1>7, <3>1
    <3> QED BY <3>1 DEF Users
  <2> QED BY <1>1, <2>1 DEF Users
<1>13. IsFiniteSet(Users') /\ nfree' + Cardinality(Users') = SEMMNU
  <2>1. IsFiniteSet(Users \ {p}) /\ Cardinality(Users \ {p}) = Cardinality(Users) - 1
    BY <1>10, <1>12, FS_RemoveElement
  <2>2. Cardinality(Users) \in Nat
    BY <1>10, FS_CardinalityType
  <2> QED BY <1>0, <1>1, <1>10, <1>12, <2>1, <2>2
<1>14. Undos'
  BY <1>9, <1>11, <1>13 DEF Undos
<1>15. alloc' = alloc /\ seq' = seq
  BY <1>1 DEF setVars
<1>16. \A q \in Proc : Valid(call[q].id) => ValidNext(call[q].id)
  BY <1>15 DEF Valid, ValidNext
<1> QED BY <1>0, <1>1, <1>6, <1>8, <1>14, <1>15, <1>16, OtherStep

LEMMA InitInv == Init => Inv /\ Blocks
<1> SUFFICES ASSUME Init PROVE Inv /\ Blocks
  OBVIOUS
<1>0. SEMVMX \in Nat /\ MaxSeq \in Nat /\ SEMMNU \in Nat /\ 0 \in Value /\ 0 \in 0 .. MaxSeq
  BY SemAssumption DEF Value
<1>1. Types
  <2>1. semval \in [Slot -> [Num -> Value]]
    BY <1>0 DEF Init
  <2> QED BY <1>0, <2>1, NoEntries DEF Types, Init
<1>2. \A p \in Proc : /\ un_ent[p] = <<>> /\ wchan[p] = Awake /\ ~sig[p] /\ ~sem_undo[p]
  BY DEF Init
<1>3. Users = {}
  BY <1>2 DEF Users
<1>4. IsFiniteSet(Users) /\ Cardinality(Users) = 0
  BY <1>3, FS_EmptySet
<1>5. Undos
  BY <1>0, <1>2, <1>4, NoEntries DEF Undos, Init
<1>6. \A p \in Proc : Sleeper(p)
  BY <1>2 DEF Sleeper
<1> QED BY <1>1, <1>2, <1>5, <1>6 DEF Inv, Blocks

LEMMA NextInv == Inv /\ [Next]_vars => Inv' /\ (ZeroFirst /\ Blocks => Blocks')
<1> SUFFICES ASSUME Inv, [Next]_vars PROVE Inv' /\ (ZeroFirst /\ Blocks => Blocks')
  OBVIOUS
<1>1. CASE UNCHANGED vars
  <2>1. /\ alloc' = alloc /\ seq' = seq /\ semval' = semval /\ semcnt' = semcnt
        /\ sem_undo' = sem_undo /\ un_ent' = un_ent /\ nfree' = nfree
        /\ call' = call /\ wchan' = wchan /\ sig' = sig
    BY <1>1 DEF vars, setVars, undoVars, procVars
  <2>2. Types'
    BY <2>1 DEF Inv, Types
  <2>3. Undos'
    BY <2>1 DEF Inv, Undos, Users, ValidKeys, Valid
  <2>4. \A p \in Proc : Sleeper(p)'
    BY <2>1 DEF Inv, Sleeper, Valid
  <2>5. Blocks => Blocks'
    BY <2>1 DEF Blocks, Blocked
  <2> QED BY <2>2, <2>3, <2>4, <2>5 DEF Inv
<1>2. ASSUME NEW p \in Proc, SemopDone(p) PROVE \E C : Step(p, C)
  BY <1>2, SemopDoneStep
<1>3. ASSUME NEW p \in Proc, SemopFails(p) PROVE \E C : Step(p, C)
  BY <1>3, SemopFailsStep
<1>4. ASSUME NEW p \in Proc, SemopWaits(p) PROVE \E C : Step(p, C)
  BY <1>4, SemopWaitsStep
<1>5. ASSUME NEW p \in Proc, SemopRemoved(p) PROVE \E C : Step(p, C)
  BY <1>5, SemopRemovedStep
<1>6. ASSUME NEW p \in Proc, Signal(p) PROVE \E C : Step(p, C)
  BY <1>6, SignalStep
<1>7. ASSUME NEW p \in Proc, SemopInterrupted(p) PROVE \E C : Step(p, C)
  BY <1>7, SemopInterruptedStep
<1>8. ASSUME NEW p \in Proc, Semget(p) PROVE \E C : Step(p, C)
  BY <1>8, SemgetStep
<1>9. ASSUME NEW p \in Proc, SetVal(p) \/ SetAll(p) PROVE \E C : Step(p, C)
  BY <1>9, SettingStep
<1>10. ASSUME NEW p \in Proc, Rmid(p) PROVE \E C : Step(p, C)
  BY <1>10, RmidStep
<1>11. ASSUME NEW p \in Proc, Exit(p) PROVE \E C : Step(p, C)
  BY <1>11, ExitStep
<1>12. CASE Next
  <2>1. PICK p \in Proc :
           \/ SemopDone(p) \/ SemopFails(p) \/ SemopWaits(p) \/ SemopRemoved(p)
           \/ Signal(p) \/ SemopInterrupted(p)
           \/ Semget(p) \/ SetVal(p) \/ SetAll(p) \/ Rmid(p) \/ Exit(p)
    BY <1>12 DEF Next
  <2>2. \E C : Step(p, C)
    BY <1>2, <1>3, <1>4, <1>5, <1>6, <1>7, <1>8, <1>9, <1>10, <1>11, <2>1
  <2> QED BY <2>2, StepKeeps
<1> QED BY <1>1, <1>12

LEMMA InvAccounts == Inv => TypeOK /\ UndoAccounted /\ NoLostWakeup
<1> SUFFICES ASSUME Inv PROVE TypeOK /\ UndoAccounted /\ NoLostWakeup
  OBVIOUS
<1>1. Types /\ Undos /\ \A p \in Proc : Sleeper(p)
  BY DEF Inv
<1>2. /\ IsFiniteSet(Users) /\ nfree + Cardinality(Users) = SEMMNU /\ nfree \in Nat
      /\ SEMMNU \in Nat
  BY <1>1, SemAssumption DEF Undos, Types
<1>3. nfree \in 0 .. SEMMNU
  <2>1. Cardinality(Users) \in Nat
    BY <1>2, FS_CardinalityType
  <2> QED BY <1>2, <2>1
<1>4. ASSUME NEW p \in Proc
      PROVE  /\ un_ent[p] \in [DOMAIN un_ent[p] -> -SEMAEM .. SEMAEM]
             /\ un_ent[p] # <<>> => sem_undo[p]
             /\ Cardinality(DOMAIN un_ent[p]) <= SEMUME
             /\ \A e \in DOMAIN un_ent[p] : Valid(e[1]) /\ un_ent[p][e] # 0
  <2>1. PICK f : f = un_ent[p]
    OBVIOUS
  <2>2. f \in Entries
    BY <1>1, <2>1 DEF Types
  <2>3. /\ f = [e \in DOMAIN f |-> f[e]] /\ Cardinality(DOMAIN f) <= SEMUME
        /\ \A e \in DOMAIN f : f[e] \in Amount /\ f[e] # 0
    BY <2>2, InEntries
  <2>4. f \in [DOMAIN f -> -SEMAEM .. SEMAEM]
    BY <2>3 DEF Amount
  <2>5. (un_ent[p] # <<>> => sem_undo[p]) /\ DOMAIN un_ent[p] \subseteq ValidKeys
    BY <1>1 DEF Undos
  <2> QED BY <2>1, <2>3, <2>4, <2>5 DEF ValidKeys
<1>5. TypeOK
  <2>1. \A p \in Proc : /\ wchan[p] \in Chan \cup {Awake}
                        /\ call[p] = NoCall => wchan[p] = Awake /\ ~sig[p]
                        /\ call[p] # NoCall => call[p].id \in Id /\ call[p].list \in Lists
    BY <1>1 DEF Types, Sleeper, CallRec
  <2> QED BY <1>1, <1>3, <1>4, <2>1 DEF TypeOK, Types, Value
<1>6. UndoAccounted
  BY <1>2, <1>4, <1>5 DEF UndoAccounted, Users
<1>7. NoLostWakeup
  BY <1>1 DEF NoLostWakeup, Sleeper
<1> QED BY <1>5, <1>6, <1>7

LEMMA InvAlways == Spec => []Inv
BY InitInv, NextInv, PTL DEF Spec

(* Every value of the facility keeps to its type, whatever the lists are:  *)
(* no operation, setting or exit takes a semaphore out of 0 .. semvmx.     *)
THEOREM TypeCorrect == Spec => []TypeOK
<1>1. Inv => TypeOK
  BY InvAccounts
<1> QED BY <1>1, InvAlways, PTL

(* Undo structures are with one process or free, and their entries are in  *)
(* number, in range and of sets that exist, whichever operations of a list *)
(* failed half-way (semaoe, semundo, semunrm, semexit).                    *)
THEOREM UndosAccounted == Spec => []UndoAccounted
<1>1. Inv => UndoAccounted
  BY InvAccounts
<1> QED BY <1>1, InvAlways, PTL

(* Whoever sleeps in semop() is counted at its channel, and its set has    *)
(* not been removed, however many sleepers signals have ended.             *)
THEOREM WakeupsKept == Spec => []NoLostWakeup
<1>1. Inv => NoLostWakeup
  BY InvAccounts
<1> QED BY <1>1, InvAlways, PTL

(* Nobody sleeps in semop() whose whole list could be done, for any number *)
(* of processes and any lists, if no list waits for zero of a semaphore    *)
(* after an operation that changes it.                                     *)
THEOREM NobodySleepsInVain ==
    ASSUME ZeroFirst
    PROVE  Spec => []SleepersBlocked
<1>1. Inv /\ Blocks => SleepersBlocked
  BY BlockedIs DEF SleepersBlocked, Blocks
<1>2. Init => Inv /\ Blocks
  BY InitInv
<1>3. Inv /\ Blocks /\ [Next]_vars => Inv' /\ Blocks'
  BY NextInv
<1> QED BY <1>1, <1>2, <1>3, PTL DEF Spec

-----------------------------------------------------------------------------
(* What semop() enters into the undo structure, semundo() takes out again. *)
LEMMA EntIs ==
    ASSUME NEW f, NEW key, NEW x \in Int, NEW g, g = WithEntry(f, key, x), NEW e
    PROVE  Ent(g, e) = IF e = key THEN x ELSE Ent(f, e)
<1>1. CASE x = 0
  <2>1. g = [d \in DOMAIN f \ {key} |-> f[d]]
    BY <1>1 DEF WithEntry
  <2> QED BY <1>1, <2>1 DEF Ent
<1>2. CASE x # 0
  <2>1. g = [d \in DOMAIN f \cup {key} |-> IF d = key THEN x ELSE f[d]]
    BY <1>2 DEF WithEntry
  <2> QED BY <2>1 DEF Ent
<1> QED BY <1>1, <1>2

LEMMA EntInt ==
    ASSUME NEW f \in Entries, NEW e
    PROVE  Ent(f, e) \in Int /\ -SEMAEM <= Ent(f, e) /\ Ent(f, e) <= SEMAEM
<1>1. SEMAEM \in Nat
  BY SemAssumption
<1>2. \A d \in DOMAIN f : f[d] \in -SEMAEM .. SEMAEM
  BY InEntries DEF Amount
<1> QED BY <1>1, <1>2 DEF Ent

Back(f, g, key, x) ==
    /\ Ent(g, key) = Ent(f, key) - x
    /\ key \in DOMAIN g \/ Cardinality(DOMAIN g) < SEMUME
    /\ WithEntry(g, key, Ent(f, key)) = f

LEMMA TakenBack ==
    ASSUME NEW f \in Entries, NEW key \in Key, NEW x \in Int, x # 0,
           NEW g \in Entries, g = WithEntry(f, key, Ent(f, key) - x)
    PROVE  Back(f, g, key, x)
<1>0. /\ f = [e \in DOMAIN f |-> f[e]] /\ IsFiniteSet(DOMAIN f) /\ Cardinality(DOMAIN f) <= SEMUME
      /\ \A e \in DOMAIN f : f[e] # 0
  BY InEntries
<1>1. PICK a \in Int : a = Ent(f, key)
  BY EntInt
<1>2. Cardinality(DOMAIN f) \in Nat /\ SEMUME \in Nat
  BY <1>0, FS_CardinalityType, SemAssumption
<1>3. a - x \in Int /\ Ent(g, key) = a - x
  <2>1. a - x \in Int
    OBVIOUS
  <2> QED BY <1>1, <2>1, EntIs
<1>4. key \in DOMAIN f <=> a # 0
  BY <1>0, <1>1 DEF Ent
<1>5. CASE a - x = 0
  <2>1. g = [d \in DOMAIN f \ {key} |-> f[d]]
    BY <1>1, <1>5 DEF WithEntry
  <2>2. DOMAIN g = DOMAIN f \ {key} /\ key \in DOMAIN f /\ a # 0 /\ a = f[key]
    BY <1>1, <1>4, <1>5, <2>1 DEF Ent
  <2>3. Cardinality(DOMAIN g) = Cardinality(DOMAIN f) - 1
    <3>1. PICK D : D = DOMAIN f
      OBVIOUS
    <3>2. Cardinality(D \ {key}) = Cardinality(D) - 1
      BY <1>0, <2>2, <3>1, FS_RemoveElement
    <3> QED BY <2>2, <3>1, <3>2
  <2>4. WithEntry(g, key, a) = [d \in DOMAIN g \cup {key} |-> IF d = key THEN a ELSE g[d]]
    BY <2>2 DEF WithEntry
  <2>5. WithEntry(g, key, a) = f
    <3>1. DOMAIN g \cup {key} = DOMAIN f /\ \A d \in DOMAIN f : d # key => g[d] = f[d]
      BY <2>1, <2>2
    <3>2. [d \in DOMAIN f |-> IF d = key THEN a ELSE g[d]] = [d \in DOMAIN f |-> f[d]]
      BY <2>2, <3>1
    <3> QED BY <1>0, <2>4, <3>1, <3>2
  <2> QED BY <1>0, <1>1, <1>2, <1>3, <2>3, <2>5 DEF Back
<1>6. CASE a - x # 0
  <2>1. g = [d \in DOMAIN f \cup {key} |-> IF d = key THEN a - x ELSE f[d]]
    BY <1>1, <1>6 DEF WithEntry
  <2>2. DOMAIN g = DOMAIN f \cup {key} /\ key \in DOMAIN g /\ \A d \in DOMAIN f : d # key => g[d] = f[d]
    BY <2>1
  <2>3. CASE a = 0
    <3>1. WithEntry(g, key, a) = [d \in DOMAIN g \ {key} |-> g[d]]
      BY <2>3 DEF WithEntry
    <3>2. DOMAIN g \ {key} = DOMAIN f /\ \A d \in DOMAIN f : g[d] = f[d]
      BY <1>4, <2>2, <2>3
    <3>3. [d \in DOMAIN f |-> g[d]] = [d \in DOMAIN f |-> f[d]]
      BY <3>2
    <3>4. WithEntry(g, key, a) = f
      BY <1>0, <3>1, <3>2, <3>3
    <3> QED BY <1>1, <1>3, <2>2, <3>4 DEF Back
  <2>4. CASE a # 0
    <3>1. WithEntry(g, key, a) = [d \in DOMAIN g \cup {key} |-> IF d = key THEN a ELSE g[d]]
      BY <2>4 DEF WithEntry
    <3>2. DOMAIN g \cup {key} = DOMAIN f /\ a = f[key]
      BY <1>1, <1>4, <2>2, <2>4 DEF Ent
    <3>3. [d \in DOMAIN f |-> IF d = key THEN a ELSE g[d]] = [d \in DOMAIN f |-> f[d]]
      BY <2>2, <3>2
    <3>4. WithEntry(g, key, a) = f
      BY <1>0, <3>1, <3>2, <3>3
    <3> QED BY <1>1, <1>3, <2>2, <3>4 DEF Back
  <2> QED BY <2>3, <2>4
<1> QED BY <1>5, <1>6

(* semaoe() of a process that has a structure with room for the entry.     *)
LEMMA SemaoeDoes ==
    ASSUME NEW K, NEW n, NEW u, Sound(u, K, n), NEW x \in Int, NEW key \in K, u.has,
           Abs(x) <= SEMAEM, key \in DOMAIN u.ent \/ Cardinality(DOMAIN u.ent) < SEMUME,
           NEW new, new = Ent(u.ent, key) - x, Abs(new) <= SEMAEM,
           NEW w, w = Semaoe(u, x, key)
    PROVE  w.ent = WithEntry(u.ent, key, new) /\ w.has
<1>0. u \in Work /\ SEMAEM \in Nat /\ SEMUME \in Nat /\ u.ent \in Entries
  BY SemAssumption DEF Sound, Work
<1>1. Cardinality(DOMAIN u.ent) \in Nat /\ new \in Int
  BY <1>0, InEntries, EntInt, FS_CardinalityType
<1>2. Abs(x) \in Int /\ Abs(new) \in Int /\ new = Entry(u, key) - x
  BY <1>1 DEF Abs, Entry, Ent
<1>3. PICK free \in Int : free = IF u.has THEN u.free ELSE u.free - 1
  BY <1>0 DEF Work
<1>4. PICK got : got = [u EXCEPT !.has = TRUE, !.free = free]
  OBVIOUS
<1>5. got = [u EXCEPT !.has = TRUE, !.free = IF u.has THEN @ ELSE @ - 1]
  BY <1>3, <1>4
<1>6. got \in Work /\ got.has = TRUE /\ got.ent = u.ent
  BY <1>0, <1>3, <1>4 DEF Work
<1>7. w = [got EXCEPT !.ent = WithEntry(@, key, new)]
  <2>1. ~(Abs(x) > SEMAEM \/ (~u.has /\ u.free = 0))
    BY <1>0, <1>2
  <2>2. ~((key \notin DOMAIN u.ent /\ Cardinality(DOMAIN u.ent) >= SEMUME) \/ Abs(Entry(u, key) - x) > SEMAEM)
    BY <1>0, <1>1, <1>2
  <2>3. Semaoe(u, x, key) = [got EXCEPT !.ent = WithEntry(@, key, Entry(u, key) - x)]
    BY <1>5, <2>1, <2>2 DEF Semaoe
  <2> QED BY <1>2, <2>3
<1>8. w = [got EXCEPT !.ent = WithEntry(u.ent, key, new)]
  BY <1>6, <1>7
<1> QED BY <1>6, <1>8 DEF Work

LEMMA UndoOneEnt ==
    ASSUME NEW K, K \subseteq Key, NEW n, NEW op \in Op, NEW id, <<id, op.num>> \in K,
           NEW v, Sound(v, K, n), NEW r, Sound(r, K, n), Noted(v, op, id, r),
           NEW u, Sound(u, K, n), u.ent = r.ent, r.has => u.has,
           NEW w, w = UndoOne(u, op, id)
    PROVE  w.ent = v.ent /\ (u.has => w.has) /\ (v.has => w.has)
<1>0. op.op \in Int /\ u \in Work /\ v.ent \in Entries /\ r.ent \in Entries /\ SEMAEM \in Nat
  BY SemAssumption DEF Op, Sound, Work
<1>1. PICK a : a = IF op.undo /\ op.op # 0 THEN Semaoe(u, -op.op, <<id, op.num>>) ELSE u
  OBVIOUS
<1>2. a \in Work /\ a.ent = v.ent /\ (u.has => a.has) /\ (v.has => a.has)
  <2>1. CASE op.undo /\ op.op # 0
    <3>0. PICK key \in K, x \in Int : key = <<id, op.num>> /\ x = op.op
      BY <1>0
    <3>1. /\ r.has /\ Abs(x) <= SEMAEM /\ x # 0
          /\ r.ent = WithEntry(v.ent, key, Ent(v.ent, key) - x)
      BY <2>1, <3>0 DEF Noted
    <3>2. PICK f \in Entries, g \in Entries : f = v.ent /\ g = u.ent
      BY <1>0
    <3>3. Back(f, g, key, x)
      BY <3>1, <3>2, TakenBack
    <3>4. PICK y \in Int : y = -x
      OBVIOUS
    <3>5. PICK new \in Int : new = Ent(f, key)
      BY EntInt
    <3>6. new = Ent(u.ent, key) - y /\ Abs(new) <= SEMAEM /\ Abs(y) <= SEMAEM
      <4>1. Ent(g, key) = new - x
        BY <3>3, <3>5 DEF Back
      <4>2. -SEMAEM <= new /\ new <= SEMAEM
        BY <3>5, EntInt
      <4>3. Abs(new) <= SEMAEM
        BY <1>0, <4>2 DEF Abs
      <4>4. Abs(y) <= SEMAEM
        BY <1>0, <3>1, <3>4 DEF Abs
      <4>5. new = (new - x) - y
        BY <3>4
      <4> QED BY <3>2, <4>1, <4>3, <4>4, <4>5
    <3>7. key \in DOMAIN u.ent \/ Cardinality(DOMAIN u.ent) < SEMUME
      BY <3>2, <3>3 DEF Back
    <3>8. a = Semaoe(u, y, key)
      BY <1>1, <2>1, <3>0, <3>4
    <3>9. a.ent = WithEntry(u.ent, key, new) /\ a.has
      BY <3>1, <3>6, <3>7, <3>8, SemaoeDoes
    <3>10. a.ent = v.ent
      BY <3>2, <3>3, <3>5, <3>9 DEF Back
    <3>11. Sound(a, K, n)
      BY <3>8, SemaoeIs
    <3> QED BY <3>9, <3>10, <3>11 DEF Sound
  <2>2. CASE ~(op.undo /\ op.op # 0)
    <3>1. a = u /\ r.ent = v.ent /\ (v.has => r.has)
      BY <1>1, <2>2 DEF Noted
    <3> QED BY <1>0, <3>1
  <2> QED BY <2>1, <2>2
<1>3. PICK x : x = [a.val EXCEPT ![op.num] = @ - op.op]
  OBVIOUS
<1>4. w = [a EXCEPT !.val = x]
  BY <1>1, <1>3 DEF UndoOne
<1>5. w.ent = a.ent /\ w.has = a.has
  BY <1>2, <1>4 DEF Work
<1> QED BY <1>2, <1>5

(* A run that has stopped has the entries of the last stage that was done. *)
Trace(r, i) ==
    LET w == r[i]
        m == r[i].done
    IN  m \in 0 .. i /\ r[m].status = "done" /\ w.ent = r[m].ent /\ (r[m].has => w.has)

LEMMA RunTrace ==
    ASSUME NEW K, K \subseteq Key, NEW n, NEW u, Sound(u, K, n), Fresh(u),
           NEW list, Len(list) \in Nat, NEW id, Keyed(list, id, K),
           NEW r, r = Runs(u, list, id)
    PROVE  \A i \in Nat : i <= Len(list) => Trace(r, i)
<1> DEFINE T == {i \in Nat : i <= Len(list) => Trace(r, i)}
<1>0. r[0] = u
  BY RunsAre
<1>1. /\ \A i \in 0 .. Len(list) : Sound(r[i], K, n) /\ After(u, list, i, r[i])
      /\ \A i \in Nat : i + 1 <= Len(list) =>
            /\ r[i].status # "done" => r[i + 1].status # "done"
            /\ r[i + 1].status = "done" => Done(r[i], list[i + 1], id, r[i + 1])
            /\ r[i + 1].status # "done" => Idle(r[i], r[i + 1])
  BY RunIs
<1>2. 0 \in T
  <2>1. u.status = "done" /\ u.done = 0
    BY DEF Fresh
  <2>2. Trace(r, 0)
    BY <1>0, <2>1 DEF Trace
  <2> QED BY <2>2
<1>3. ASSUME NEW i \in Nat, i \in T PROVE i + 1 \in T
  <2> SUFFICES ASSUME i + 1 <= Len(list) PROVE Trace(r, i + 1)
    OBVIOUS
  <2>1. PICK w, m : w = r[i + 1] /\ m = w.done
    OBVIOUS
  <2>2. i + 1 \in 0 .. Len(list)
    OBVIOUS
  <2>3. After(u, list, i + 1, w)
    BY <1>1, <2>1, <2>2
  <2>4. CASE w.status = "done"
    <3>1. m = i + 1 /\ m \in 0 .. i + 1
      BY <2>1, <2>3, <2>4 DEF After
    <3> QED BY <2>1, <2>4, <3>1 DEF Trace
  <2>5. CASE w.status # "done"
    <3>1. Idle(r[i], w)
      BY <1>1, <2>1, <2>5
    <3>2. Trace(r, i)
      BY <1>3
    <3>3. /\ m = r[i].done /\ m \in 0 .. i /\ r[m].status = "done" /\ r[i].ent = r[m].ent
          /\ r[m].has => r[i].has
      BY <2>1, <3>1, <3>2 DEF Trace, Idle
    <3>4. w.ent = r[m].ent /\ (r[m].has => w.has) /\ m \in 0 .. i + 1
      BY <3>1, <3>3 DEF Idle
    <3> QED BY <2>1, <3>3, <3>4 DEF Trace
  <2> QED BY <2>4, <2>5
<1> HIDE DEF T
<1>4. Nat \subseteq T
  BY <1>2, <1>3, Lemmas!Induction
<1> QED BY <1>4 DEF T

(* The way back visits the entries of the way there.                       *)
SameEntries(u, w) == w.ent = u.ent
Returned(r, y, m, i) ==
    /\ r[m - i].status = "done" /\ y[i].ent = r[m - i].ent
    /\ r[m - i].has => y[i].has

LEMMA SemundoEnt ==
    ASSUME NEW K, K \subseteq Key, NEW n, NEW u, Sound(u, K, n), Fresh(u),
           NEW list, Len(list) \in Nat, NEW id, Keyed(list, id, K),
           NEW v, v = Runs(u, list, id)[Len(list)],
           NEW w, w = Undoes(v, list, v.done, id)[v.done]
    PROVE  SameEntries(u, w)
<1>1. PICK r, m : r = Runs(u, list, id) /\ m = v.done
  OBVIOUS
<1>2. /\ \A i \in 0 .. Len(list) : Sound(r[i], K, n)
      /\ \A i \in Nat : i + 1 <= Len(list) =>
            /\ r[i].status # "done" => r[i + 1].status # "done"
            /\ r[i + 1].status = "done" => Done(r[i], list[i + 1], id, r[i + 1])
  BY <1>1, RunIs
<1>3. Len(list) \in 0 .. Len(list) /\ Trace(r, Len(list)) /\ v = r[Len(list)]
  BY <1>1, RunTrace
<1>4. /\ m \in 0 .. Len(list) /\ m \in Nat /\ m <= Len(list)
      /\ r[m].status = "done" /\ v.ent = r[m].ent /\ (r[m].has => v.has)
      /\ Sound(v, K, n)
  BY <1>1, <1>2, <1>3 DEF Trace
<1>5. PICK y : y = Undoes(v, list, m, id)
  OBVIOUS
<1>6. /\ y[0] = v
      /\ \A i \in 1 .. m : y[i] = UndoOne(y[i - 1], list[m + 1 - i], id)
  <2>1. UndoSteps(y, v, list, m, id)
    BY <1>4, <1>5, UndoesAre
  <2> QED BY <2>1 DEF UndoSteps
<1> DEFINE T == {i \in Nat : i <= m => Sound(y[i], K, n) /\ Returned(r, y, m, i)}
<1>7. 0 \in T
  <2>1. m - 0 = m
    BY <1>4
  <2> QED BY <1>4, <1>6, <2>1 DEF Returned
<1>8. ASSUME NEW i \in Nat, i \in T PROVE i + 1 \in T
  <2> SUFFICES ASSUME i + 1 <= m PROVE Sound(y[i + 1], K, n) /\ Returned(r, y, m, i + 1)
    OBVIOUS
  <2>1. Sound(y[i], K, n) /\ Returned(r, y, m, i)
    BY <1>4, <1>8
  <2>2. PICK h \in Nat : h = m - (i + 1)
    <3>1. m - (i + 1) \in Nat
      BY <1>4
    <3> QED BY <3>1
  <2>3. /\ h + 1 = m - i /\ m + 1 - (i + 1) = h + 1 /\ i + 1 \in 1 .. m /\ (i + 1) - 1 = i
        /\ h + 1 <= Len(list) /\ h \in 0 .. Len(list) /\ h + 1 \in 0 .. Len(list)
        /\ h + 1 \in 1 .. Len(list)
    BY <1>4, <2>2
  <2>4. y[i + 1] = UndoOne(y[i], list[h + 1], id)
    BY <1>6, <2>3
  <2>5. PICK op \in Op : op = list[h + 1] /\ <<id, op.num>> \in K
    BY <2>3 DEF Keyed
  <2>6. PICK a, b, c, d : a = r[h] /\ b = r[h + 1] /\ c = y[i] /\ d = y[i + 1]
    OBVIOUS
  <2>7. /\ b.status = "done" /\ c.ent = b.ent /\ (b.has => c.has)
        /\ Sound(a, K, n) /\ Sound(b, K, n) /\ Sound(c, K, n)
    BY <1>2, <2>1, <2>3, <2>6 DEF Returned
  <2>8. a.status = "done" /\ Done(a, op, id, b)
    BY <1>2, <2>3, <2>5, <2>6, <2>7
  <2>9. Noted(a, op, id, b) /\ d = UndoOne(c, op, id)
    BY <2>4, <2>5, <2>6, <2>8 DEF Done
  <2>10. d.ent = a.ent /\ (a.has => d.has)
    BY <2>5, <2>7, <2>9, UndoOneEnt
  <2>11. Sound(d, K, n)
    BY <2>5, <2>7, <2>9, UndoOneIs
  <2> QED BY <2>2, <2>6, <2>8, <2>10, <2>11 DEF Returned
<1> HIDE DEF T
<1>9. Nat \subseteq T
  BY <1>7, <1>8, Lemmas!Induction
<1>10. Returned(r, y, m, m)
  BY <1>4, <1>9 DEF T
<1>11. m - m = 0 /\ r[0] = u
  BY <1>1, <1>4, RunsAre
<1> QED BY <1>1, <1>5, <1>10, <1>11 DEF Returned, SameEntries

(* A list that is done has entered what SemaphoreSets says is owed, for    *)
(* its own set only.                                                       *)
LEMMA NotedEnt ==
    ASSUME NEW u, u.ent \in Entries, NEW op \in Op, NEW id, NEW w, Noted(u, op, id, w), NEW e
    PROVE  /\ e[1] # id => Ent(w.ent, e) = Ent(u.ent, e)
           /\ \A k : e = <<id, k>> => Ent(w.ent, e) = Ent(u.ent, e) - Promise!Owes(op, k)
<1>0. op.op \in Int /\ op.undo \in BOOLEAN /\ Ent(u.ent, e) \in Int
  BY EntInt DEF Op
<1>1. CASE op.undo /\ op.op # 0
  <2>1. PICK key, x : key = <<id, op.num>> /\ x = Ent(u.ent, key) - op.op
    OBVIOUS
  <2>2. x \in Int /\ w.ent = WithEntry(u.ent, key, x)
    BY <1>0, <1>1, <2>1, EntInt DEF Noted
  <2>3. Ent(w.ent, e) = IF e = key THEN x ELSE Ent(u.ent, e)
    BY <2>2, EntIs
  <2>4. e[1] # id => e # key
    BY <2>1
  <2>5. ASSUME NEW k, e = <<id, k>> PROVE Ent(w.ent, e) = Ent(u.ent, e) - Promise!Owes(op, k)
    <3>1. CASE k = op.num
      <4>1. e = key /\ Promise!Owes(op, k) = op.op
        BY <1>1, <2>1, <2>5, <3>1 DEF Promise!Owes, Promise!Adds
      <4> QED BY <2>1, <2>3, <4>1
    <3>2. CASE k # op.num
      <4>1. e # key /\ Promise!Owes(op, k) = 0
        BY <1>1, <2>1, <2>5, <3>2 DEF Promise!Owes, Promise!Adds
      <4> QED BY <1>0, <2>3, <4>1
    <3> QED BY <3>1, <3>2
  <2> QED BY <2>3, <2>4, <2>5
<1>2. CASE ~(op.undo /\ op.op # 0)
  <2>1. w.ent = u.ent
    BY <1>2 DEF Noted
  <2>2. \A k : Promise!Owes(op, k) = 0
    BY <1>0, <1>2 DEF Promise!Owes, Promise!Adds
  <2> QED BY <1>0, <2>1, <2>2
<1> QED BY <1>1, <1>2

OwedSums(u, w, list, id, i) ==
    /\ \A e : e[1] # id => Ent(w.ent, e) = Ent(u.ent, e)
    /\ \A k : /\ Promise!Owed(list, k)[i] \in Int
              /\ Ent(w.ent, <<id, k>>) = Ent(u.ent, <<id, k>>) - Promise!Owed(list, k)[i]

LEMMA DoneEnt ==
    ASSUME NEW K, K \subseteq Key, NEW n, NEW u, Sound(u, K, n), Fresh(u),
           NEW list, Len(list) \in Nat, NEW id, Keyed(list, id, K),
           NEW w, w = Runs(u, list, id)[Len(list)], w.status = "done"
    PROVE  OwedSums(u, w, list, id, Len(list))
<1>1. PICK r : r = Runs(u, list, id)
  OBVIOUS
<1>2. /\ \A i \in 0 .. Len(list) : Sound(r[i], K, n)
      /\ \A i \in Nat : i + 1 <= Len(list) => Done(r[i], list[i + 1], id, r[i + 1])
  BY <1>1, DoneStages
<1>3. \A e : Ent(u.ent, e) \in Int
  BY EntInt DEF Sound, Work
<1> DEFINE T == {i \in Nat : i <= Len(list) => OwedSums(u, r[i], list, id, i)}
<1>4. 0 \in T
  <2>1. r[0] = u
    BY <1>1, RunsAre
  <2>2. \A k : Promise!Owed(list, k)[0] = 0
    BY OwedIs
  <2>3. OwedSums(u, r[0], list, id, 0)
    BY <1>3, <2>1, <2>2 DEF OwedSums
  <2> QED BY <2>3
<1>5. ASSUME NEW i \in Nat, i \in T PROVE i + 1 \in T
  <2> SUFFICES ASSUME i + 1 <= Len(list) PROVE OwedSums(u, r[i + 1], list, id, i + 1)
    OBVIOUS
  <2>1. PICK a, b, op : a = r[i] /\ b = r[i + 1] /\ op = list[i + 1]
    OBVIOUS
  <2>2. i \in 0 .. Len(list) /\ i + 1 \in 1 .. Len(list) /\ (i + 1) - 1 = i
    OBVIOUS
  <2>3. a.ent \in Entries /\ op \in Op /\ Noted(a, op, id, b)
    BY <1>2, <2>1, <2>2 DEF Sound, Work, Done, Keyed
  <2>4. OwedSums(u, a, list, id, i)
    BY <1>5, <2>1
  <2>5. ASSUME NEW e, e[1] # id PROVE Ent(b.ent, e) = Ent(u.ent, e)
    BY <2>3, <2>4, <2>5, NotedEnt DEF OwedSums
  <2>6. ASSUME NEW k
        PROVE  /\ Promise!Owed(list, k)[i + 1] \in Int
               /\ Ent(b.ent, <<id, k>>) = Ent(u.ent, <<id, k>>) - Promise!Owed(list, k)[i + 1]
    <3>1. PICK e : e = <<id, k>>
      OBVIOUS
    <3>2. Ent(b.ent, e) = Ent(a.ent, e) - Promise!Owes(op, k)
      BY <2>3, <3>1, NotedEnt
    <3>3. /\ Promise!Owed(list, k)[i] \in Int
          /\ Ent(a.ent, e) = Ent(u.ent, e) - Promise!Owed(list, k)[i]
      BY <2>4, <3>1 DEF OwedSums
    <3>4. Promise!Owed(list, k)[i + 1] = Promise!Owed(list, k)[i] + Promise!Owes(op, k)
      BY <2>1, <2>2, OwedIs
    <3>5. Promise!Owes(op, k) \in Int /\ Ent(u.ent, e) \in Int
      BY <1>3, <2>3 DEF Promise!Owes, Promise!Adds, Op
    <3> QED BY <3>1, <3>2, <3>3, <3>4, <3>5
  <2> QED BY <2>1, <2>5, <2>6 DEF OwedSums
<1> HIDE DEF T
<1>6. Nat \subseteq T
  BY <1>4, <1>5, Lemmas!Induction
<1> QED BY <1>1, <1>6 DEF T
-----------------------------------------------------------------------------
(* The steps of SemaphoreSets. *)
Adjust == [p \in Proc |-> [s \in Slot |-> [k \in Num |-> Ent(un_ent[p], <<IdOf(s), k>>)]]]
SameSets == semval' = semval /\ Adjust' = Adjust
Implements == Promise!Next \/ SameSets

LEMMA AdjustInt ==
    ASSUME Inv, NEW p \in Proc, NEW s \in Slot, NEW k \in Num
    PROVE  Adjust[p][s][k] = Ent(un_ent[p], <<IdOf(s), k>>) /\ Adjust[p][s][k] \in Int
<1>1. Adjust[p][s][k] = Ent(un_ent[p], <<IdOf(s), k>>)
  BY DEF Adjust
<1>2. un_ent[p] \in Entries
  BY DEF Inv, Types
<1> QED BY <1>1, <1>2, EntInt

LEMMA AdjustNext ==
    Adjust' = [p \in Proc |-> [s \in Slot |-> [k \in Num |-> Ent(un_ent'[p], <<<<s, seq'[s]>>, k>>)]]]
BY Zenon DEF Adjust, IdOf

LEMMA PerformIs ==
    ASSUME NEW p \in Proc, NEW s \in Slot, NEW list \in Lists,
           \A i \in DOMAIN list :
              Promise!Allowed(list[i], semval[s][list[i].num] + Promise!Added(list, list[i].num)[i - 1]),
           semval' = [semval EXCEPT ![s] = [k \in Num |-> @[k] + Promise!Added(list, k)[Len(list)]]],
           Adjust' = [q \in Proc |-> [t \in Slot |-> [k \in Num |->
              Adjust[q][t][k] - (IF q = p /\ t = s THEN Promise!Owed(list, k)[Len(list)] ELSE 0)]]]
    PROVE  Promise!Next
<1>1. Promise!Perform(p, s, list)
  BY Zenon DEF Promise!Perform, Adjust, Ent
<1> QED BY <1>1, Zenon DEF Promise!Next

LEMMA AssignIs ==
    ASSUME NEW s \in Slot, NEW K \in SUBSET Num, NEW new \in [Num -> Value],
           semval' = [semval EXCEPT ![s] = [k \in Num |-> IF k \in K THEN new[k] ELSE @[k]]],
           Adjust' = [q \in Proc |-> [t \in Slot |-> [k \in Num |->
              IF t = s /\ k \in K THEN 0 ELSE Adjust[q][t][k]]]]
    PROVE  Promise!Next
<1>1. Promise!Assign(s, K, new)
  BY Zenon DEF Promise!Assign, Adjust, Ent
<1>2. new \in [Num -> Promise!Value]
  BY DEF Promise!Value, Value
<1> QED BY <1>1, <1>2, Zenon DEF Promise!Next

LEMMA ExitIs ==
    ASSUME NEW p \in Proc,
           semval' = [s \in Slot |-> [k \in Num |->
              IF semval[s][k] + Adjust[p][s][k] \in Value
              THEN semval[s][k] + Adjust[p][s][k] ELSE semval[s][k]]],
           Adjust' = [q \in Proc |-> [s \in Slot |-> [k \in Num |->
              IF q = p THEN 0 ELSE Adjust[q][s][k]]]]
    PROVE  Promise!Next
<1>1. Promise!Exit(p)
  BY Zenon DEF Promise!Exit, Promise!Value, Value, Adjust, Ent
<1> QED BY <1>1, Zenon DEF Promise!Next

LEMMA StutterIs ==
    ASSUME semval' = semval, un_ent' = un_ent, seq' = seq
    PROVE  Implements
<1>1. Adjust' = Adjust
  BY Zenon DEF Adjust, IdOf
<1> QED BY <1>1 DEF Implements, SameSets

(* An attempt that is done does the whole list. *)
LEMMA SemopDoneSets ==
    ASSUME Inv, NEW p \in Proc, SemopDone(p)
    PROVE  Implements
<1>1. PICK c \in Attempts(p) :
         /\ Run(p, c).status = "done"
         /\ Keep(p, Run(p, c), c.id[1])
         /\ UNCHANGED setVars
  BY DEF SemopDone
<1>2. PICK u, s, list, id, v : /\ u = Run(p, c) /\ s = c.id[1] /\ list = c.list /\ id = c.id
                               /\ v = Start(p, s)
  <2> DEFINE a == Run(p, c)
  <2> QED OBVIOUS
<1>3. /\ id \in Id /\ list \in Lists /\ Valid(id) /\ s \in Slot
  BY <1>2, AttemptIs
<1>4. id = IdOf(s)
  BY <1>2, <1>3, IdIs DEF Inv, Valid, IdOf
<1>5. /\ Sound(v, ValidKeys, Own(p)) /\ Fresh(v) /\ After(v, list, Len(list), u)
      /\ Keyed(list, id, ValidKeys)
  BY <1>2, <1>3, RunKeeps
<1>6. /\ Len(list) \in Nat /\ ValidKeys \subseteq Key /\ DOMAIN list = 1 .. Len(list)
      /\ \A i \in 1 .. Len(list) : list[i] \in Op
  <2>1. list \in Seq(Op)
    BY <1>3, SemAssumption
  <2> QED BY <2>1 DEF ValidKeys
<1>7. u = Runs(v, list, id)[Len(list)] /\ u.status = "done"
  BY <1>1, <1>2 DEF Run
<1>8. v.val = semval[s] /\ v.ent = un_ent[p]
  BY <1>2 DEF Start
<1>9. ASSUME NEW i \in DOMAIN list
      PROVE  Promise!Allowed(list[i], semval[s][list[i].num] + Promise!Added(list, list[i].num)[i - 1])
  <2>0. PICK m \in 1 .. Len(list) : m = i
    BY <1>6
  <2>1. PICK num : num = list[m].num
    OBVIOUS
  <2>2. Runs(v, list, id)[Len(list)].status = "done"
    BY <1>7
  <2>3. Promise!Allowed(list[m], v.val[num] + Promise!Added(list, num)[m - 1])
    BY <1>5, <1>6, <2>1, <2>2, DoneRun
  <2> QED BY <1>8, <2>0, <2>1, <2>3
<1>10. semval' = [semval EXCEPT ![s] = [k \in Num |-> @[k] + Promise!Added(list, k)[Len(list)]]]
  <2>1. semval' = [semval EXCEPT ![s] = u.val]
    BY <1>1, <1>2 DEF Keep
  <2>2. /\ u.val \in [Num -> Value]
        /\ \A k \in Num : u.val[k] = semval[s][k] + Promise!Added(list, k)[Len(list)]
    BY <1>5, <1>7, <1>8 DEF After
  <2>3. u.val = [k \in Num |-> semval[s][k] + Promise!Added(list, k)[Len(list)]]
    BY <2>2
  <2> QED BY <2>1, <2>3
<1>11. OwedSums(v, u, list, id, Len(list))
  BY <1>5, <1>6, <1>7, DoneEnt
<1>12. /\ un_ent \in [Proc -> Entries] /\ seq' = seq
       /\ un_ent' = [un_ent EXCEPT ![p] = u.ent]
  BY <1>1, <1>2 DEF Inv, Types, Keep, setVars
<1>13. ASSUME NEW q \in Proc, NEW t \in Slot, NEW k \in Num
       PROVE  Ent(un_ent'[q], <<<<t, seq'[t]>>, k>>)
                = Adjust[q][t][k] - (IF q = p /\ t = s THEN Promise!Owed(list, k)[Len(list)] ELSE 0)
  <2>1. PICK e : e = <<IdOf(t), k>>
    OBVIOUS
  <2>2. e = <<<<t, seq'[t]>>, k>> /\ e[1] = <<t, seq[t]>>
    BY <1>12, <2>1 DEF IdOf
  <2>3. Adjust[q][t][k] = Ent(un_ent[q], e) /\ Ent(un_ent[q], e) \in Int
    BY <2>1, AdjustInt
  <2>4. CASE q = p /\ t = s
    <3>1. e = <<id, k>> /\ un_ent'[q] = u.ent
      BY <1>4, <1>12, <2>1, <2>4
    <3>2. Ent(u.ent, e) = Ent(v.ent, e) - Promise!Owed(list, k)[Len(list)]
      BY <1>11, <3>1 DEF OwedSums
    <3> QED BY <1>8, <2>2, <2>3, <2>4, <3>1, <3>2
  <2>5. CASE q = p /\ t # s
    <3>1. e[1] # id /\ un_ent'[q] = u.ent
      BY <1>4, <1>12, <2>2, <2>5 DEF IdOf
    <3>2. Ent(u.ent, e) = Ent(v.ent, e)
      BY <1>11, <3>1 DEF OwedSums
    <3> QED BY <1>8, <2>2, <2>3, <2>5, <3>1, <3>2
  <2>6. CASE q # p
    <3>1. un_ent'[q] = un_ent[q]
      BY <1>12, <2>6
    <3> QED BY <2>2, <2>3, <2>6, <3>1
  <2> QED BY <2>4, <2>5, <2>6
<1>14. Adjust' = [q \in Proc |-> [t \in Slot |-> [k \in Num |->
           Adjust[q][t][k] - (IF q = p /\ t = s THEN Promise!Owed(list, k)[Len(list)] ELSE 0)]]]
  BY <1>13, AdjustNext, Zenon
<1>15. Promise!Next
  BY <1>3, <1>9, <1>10, <1>14, PerformIs
<1> QED BY <1>15 DEF Implements

(* One that waits or fails leaves nothing. *)
LEMMA UndoneSets ==
    ASSUME Inv, NEW p \in Proc, NEW c \in Attempts(p),
           Keep(p, Semundo(Run(p, c), c), c.id[1]), UNCHANGED setVars
    PROVE  Implements
<1>1. PICK s, list, id, v, u, w :
         /\ s = c.id[1] /\ list = c.list /\ id = c.id /\ v = Start(p, s) /\ u = Run(p, c)
         /\ w = Semundo(u, c)
  <2> DEFINE a == Run(p, c)
  <2> QED OBVIOUS
<1>2. semval' = semval
  BY <1>1, UndoneIs
<1>3. id \in Id /\ list \in Lists /\ Valid(id) /\ s \in Slot
  BY <1>1, AttemptIs
<1>4. /\ Sound(v, ValidKeys, Own(p)) /\ Fresh(v) /\ Keyed(list, id, ValidKeys)
  BY <1>1, <1>3, RunKeeps
<1>5. Len(list) \in Nat /\ ValidKeys \subseteq Key
  BY <1>3, ListIs DEF ValidKeys
<1>6. u = Runs(v, list, id)[Len(list)]
  BY <1>1 DEF Run
<1>7. w = Undoes(u, list, u.done, id)[u.done]
  BY <1>1 DEF Semundo
<1>8. SameEntries(v, w)
  BY <1>4, <1>5, <1>6, <1>7, SemundoEnt
<1>9. w.ent = un_ent[p]
  BY <1>1, <1>8 DEF SameEntries, Start
<1>10. un_ent \in [Proc -> Entries] /\ un_ent' = [un_ent EXCEPT ![p] = w.ent] /\ seq' = seq
  BY <1>1 DEF Inv, Types, Keep, setVars
<1>11. un_ent' = un_ent
  BY <1>9, <1>10
<1> QED BY <1>2, <1>10, <1>11, StutterIs

(* SETVAL, SETALL and IPC_RMID assign.                                     *)
LEMMA UnrmEnt ==
    ASSUME NEW id, NEW K, Semunrm(id, K), NEW q \in Proc, NEW e
    PROVE  Ent(un_ent'[q], e) = IF e[1] = id /\ e[2] \in K THEN 0 ELSE Ent(un_ent[q], e)
<1>1. un_ent'[q] = [d \in {d \in DOMAIN un_ent[q] : d[1] # id \/ d[2] \notin K} |-> un_ent[q][d]]
  BY DEF Semunrm
<1>2. PICK f, g : f = un_ent[q] /\ g = un_ent'[q]
  OBVIOUS
<1>3. /\ \A d : d \in DOMAIN g <=> d \in DOMAIN f /\ ~(d[1] = id /\ d[2] \in K)
      /\ \A d \in DOMAIN g : g[d] = f[d]
  BY <1>1, <1>2
<1>4. Ent(g, e) = IF e[1] = id /\ e[2] \in K THEN 0 ELSE Ent(f, e)
  BY <1>3 DEF Ent
<1> QED BY <1>2, <1>4

LEMMA AssignSets ==
    ASSUME Inv, NEW s \in Slot, NEW K \in SUBSET Num, NEW new \in [Num -> Settings],
           Assign(s, K, new)
    PROVE  Implements
<1>1. /\ semval' = [semval EXCEPT ![s] = [k \in Num |-> IF k \in K THEN new[k] ELSE @[k]]]
      /\ Semunrm(IdOf(s), K) /\ seq' = seq
  BY DEF Assign, setVars
<1>2. new \in [Num -> Value]
  BY SemAssumption DEF Value
<1>3. ASSUME NEW q \in Proc, NEW t \in Slot, NEW k \in Num
      PROVE  Ent(un_ent'[q], <<<<t, seq'[t]>>, k>>)
               = IF t = s /\ k \in K THEN 0 ELSE Adjust[q][t][k]
  <2>1. PICK e, id : e = <<IdOf(t), k>> /\ id = IdOf(s)
    OBVIOUS
  <2>2. e = <<<<t, seq'[t]>>, k>> /\ e[1] = <<t, seq[t]>> /\ id = <<s, seq[s]>> /\ e[2] = k
    BY <1>1, <2>1 DEF IdOf
  <2>3. Ent(un_ent'[q], e) = IF e[1] = id /\ e[2] \in K THEN 0 ELSE Ent(un_ent[q], e)
    BY <1>1, <2>1, UnrmEnt
  <2>4. e[1] = id <=> t = s
    BY <2>2
  <2>5. Adjust[q][t][k] = Ent(un_ent[q], e)
    BY <2>1, AdjustInt
  <2> QED BY <2>2, <2>3, <2>4, <2>5
<1>4. Adjust' = [q \in Proc |-> [t \in Slot |-> [k \in Num |->
                    IF t = s /\ k \in K THEN 0 ELSE Adjust[q][t][k]]]]
  <2>1. ASSUME NEW q \in Proc, NEW t \in Slot
        PROVE  [k \in Num |-> Ent(un_ent'[q], <<<<t, seq'[t]>>, k>>)]
                 = [k \in Num |-> IF t = s /\ k \in K THEN 0 ELSE Adjust[q][t][k]]
    BY <1>3, Zenon
  <2> QED BY <2>1, AdjustNext, Zenon
<1>5. Promise!Next
  BY <1>1, <1>2, <1>4, AssignIs
<1> QED BY <1>5 DEF Implements

LEMMA RmidSets ==
    ASSUME Inv, NEW p \in Proc, Rmid(p)
    PROVE  Implements
<1>1. PICK s \in Slot :
         /\ semval' = [semval EXCEPT ![s] = [k \in Num |-> 0]]
         /\ Semunrm(IdOf(s), Num)
         /\ seq' = [seq EXCEPT ![s] = @ + 1]
  BY DEF Rmid
<1>2. /\ seq \in [Slot -> 0 .. MaxSeq] /\ MaxSeq \in Nat /\ SEMVMX \in Nat
      /\ \A q \in Proc : DOMAIN un_ent[q] \subseteq ValidKeys
  BY SemAssumption DEF Inv, Types, Undos
<1>3. PICK new : new = [k \in Num |-> 0]
  OBVIOUS
<1>4. new \in [Num -> Value]
  BY <1>2, <1>3 DEF Value
<1>5. semval' = [semval EXCEPT ![s] = [k \in Num |-> IF k \in Num THEN new[k] ELSE @[k]]]
  <2>1. [k \in Num |-> IF k \in Num THEN new[k] ELSE semval[s][k]] = [k \in Num |-> 0]
    BY <1>3
  <2> QED BY <1>1, <2>1
<1>6. ASSUME NEW q \in Proc, NEW t \in Slot, NEW k \in Num
      PROVE  Ent(un_ent'[q], <<<<t, seq'[t]>>, k>>)
               = IF t = s /\ k \in Num THEN 0 ELSE Adjust[q][t][k]
  <2>1. PICK e, id : e = <<<<t, seq'[t]>>, k>> /\ id = IdOf(s)
    OBVIOUS
  <2>2. e[1] = <<t, seq'[t]>> /\ e[1][1] = t /\ e[1][2] = seq'[t] /\ id = <<s, seq[s]>> /\ e[2] = k
    BY <2>1 DEF IdOf
  <2>3. Ent(un_ent'[q], e) = IF e[1] = id /\ e[2] \in Num THEN 0 ELSE Ent(un_ent[q], e)
    BY <1>1, <2>1, UnrmEnt
  <2>4. CASE t = s
    <3>1. seq'[t] # seq[t]
      BY <1>1, <1>2, <2>4
    <3>2. ~Valid(e[1])
      BY <2>2, <3>1 DEF Valid
    <3>3. e \notin DOMAIN un_ent[q]
      BY <1>2, <3>2 DEF ValidKeys
    <3>4. Ent(un_ent[q], e) = 0
      BY <3>3 DEF Ent
    <3> QED BY <2>1, <2>3, <2>4, <3>4
  <2>5. CASE t # s
    <3>1. seq'[t] = seq[t] /\ e[1] # id
      BY <1>1, <1>2, <2>2, <2>5
    <3>2. Adjust[q][t][k] = Ent(un_ent[q], e)
      BY <2>1, <3>1, AdjustInt DEF IdOf
    <3> QED BY <2>1, <2>3, <2>5, <3>1, <3>2
  <2> QED BY <2>4, <2>5
<1>7. Adjust' = [q \in Proc |-> [t \in Slot |-> [k \in Num |->
                    IF t = s /\ k \in Num THEN 0 ELSE Adjust[q][t][k]]]]
  BY <1>6, AdjustNext, Zenon
<1>8. Num \in SUBSET Num
  OBVIOUS
<1>9. Promise!Next
  BY <1>4, <1>5, <1>7, <1>8, AssignIs
<1> QED BY <1>9 DEF Implements

(* exit() adds what is owed. *)
LEMMA ExitSets ==
    ASSUME Inv, NEW p \in Proc, Exit(p)
    PROVE  Implements
<1>1. /\ semval' = [s \in Slot |-> [k \in Num |->
            LET e == <<IdOf(s), k>>
            IN  IF e \in Applied(p) THEN semval[s][k] + un_ent[p][e] ELSE semval[s][k]]]
      /\ un_ent' = [un_ent EXCEPT ![p] = <<>>] /\ seq' = seq
  BY DEF Exit, setVars
<1>2. /\ semval \in [Slot -> [Num -> Value]] /\ un_ent \in [Proc -> Entries] /\ SEMVMX \in Nat
      /\ DOMAIN un_ent[p] \subseteq ValidKeys
  BY SemAssumption DEF Inv, Types, Undos
<1>3. ASSUME NEW s \in Slot, NEW k \in Num
      PROVE  (IF <<IdOf(s), k>> \in Applied(p) THEN semval[s][k] + un_ent[p][<<IdOf(s), k>>]
              ELSE semval[s][k])
             = IF semval[s][k] + Adjust[p][s][k] \in Value
               THEN semval[s][k] + Adjust[p][s][k] ELSE semval[s][k]
  <2>1. PICK e, f, x : e = <<IdOf(s), k>> /\ f = un_ent[p] /\ x = semval[s][k]
    OBVIOUS
  <2>2. Adjust[p][s][k] = Ent(f, e) /\ x \in Value /\ x \in Int
    BY <1>2, <2>1, AdjustInt DEF Value
  <2>3. e[1] = IdOf(s) /\ e[1][1] = s /\ e[2] = k
    BY <2>1 DEF IdOf
  <2>4. CASE e \in DOMAIN f
    <3>1. Valid(e[1]) /\ Ent(f, e) = f[e]
      BY <1>2, <2>1, <2>4 DEF ValidKeys, Ent
    <3>2. e \in Applied(p) <=> x + f[e] \in Value
      BY <2>1, <2>3, <2>4, <3>1 DEF Applied, Value
    <3> QED BY <2>1, <2>2, <3>1, <3>2
  <2>5. CASE e \notin DOMAIN f
    <3>1. Ent(f, e) = 0 /\ e \notin Applied(p) /\ x + 0 = x
      BY <2>1, <2>2, <2>5 DEF Ent, Applied
    <3> QED BY <2>1, <2>2, <3>1
  <2> QED BY <2>4, <2>5
<1>4. semval' = [s \in Slot |-> [k \in Num |->
            IF semval[s][k] + Adjust[p][s][k] \in Value
            THEN semval[s][k] + Adjust[p][s][k] ELSE semval[s][k]]]
  BY <1>1, <1>3, Zenon
<1>5. ASSUME NEW q \in Proc, NEW t \in Slot, NEW k \in Num
      PROVE  Ent(un_ent'[q], <<<<t, seq'[t]>>, k>>) = IF q = p THEN 0 ELSE Adjust[q][t][k]
  <2>1. PICK e : e = <<<<t, seq'[t]>>, k>> /\ e = <<IdOf(t), k>>
    BY <1>1 DEF IdOf
  <2>2. CASE q = p
    <3>1. un_ent'[q] = <<>>
      BY <1>1, <1>2, <2>2
    <3>2. Ent(<<>>, e) = 0
      BY NoEntries DEF Ent
    <3> QED BY <2>1, <2>2, <3>1, <3>2
  <2>3. CASE q # p
    <3>1. un_ent'[q] = un_ent[q]
      BY <1>1, <1>2, <2>3
    <3>2. Adjust[q][t][k] = Ent(un_ent[q], e)
      BY <2>1, AdjustInt
    <3> QED BY <2>1, <2>3, <3>1, <3>2
  <2> QED BY <2>2, <2>3
<1>6. Adjust' = [q \in Proc |-> [s \in Slot |-> [k \in Num |->
                    IF q = p THEN 0 ELSE Adjust[q][s][k]]]]
  BY <1>5, AdjustNext, Zenon
<1>7. Promise!Next
  BY <1>4, <1>6, ExitIs
<1> QED BY <1>7 DEF Implements

LEMMA InitSets == Init => Promise!Init
<1> SUFFICES ASSUME Init PROVE Promise!Init
  OBVIOUS
<1>1. semval = [s \in Slot |-> [k \in Num |-> 0]] /\ \A p \in Proc : un_ent[p] = <<>>
  BY DEF Init
<1>2. \A p \in Proc, s \in Slot, k \in Num : Ent(un_ent[p], <<IdOf(s), k>>) = 0
  BY <1>1, NoEntries DEF Ent
<1>3. Adjust = [p \in Proc |-> [s \in Slot |-> [k \in Num |-> 0]]]
  BY <1>2, Zenon DEF Adjust
<1> QED BY <1>1, <1>3, Zenon DEF Promise!Init, Adjust, Ent

LEMMA NextSets == Inv /\ [Next]_vars => Implements
<1> SUFFICES ASSUME Inv, [Next]_vars PROVE Implements
  OBVIOUS
<1>1. CASE UNCHANGED vars
  <2>1. semval' = semval /\ un_ent' = un_ent /\ seq' = seq
    BY <1>1 DEF vars, setVars, undoVars
  <2> QED BY <2>1, StutterIs
<1>2. ASSUME NEW p \in Proc, SemopDone(p) PROVE Implements
  BY <1>2, SemopDoneSets
<1>3. ASSUME NEW p \in Proc, SemopFails(p) PROVE Implements
  <2>1. PICK c \in Attempts(p) : Keep(p, Semundo(Run(p, c), c), c.id[1]) /\ UNCHANGED setVars
    BY <1>3 DEF SemopFails
  <2> QED BY <2>1, UndoneSets
<1>4. ASSUME NEW p \in Proc, SemopWaits(p) PROVE Implements
  <2>1. PICK c \in Attempts(p) : Keep(p, Semundo(Run(p, c), c), c.id[1]) /\ UNCHANGED setVars
    BY <1>4 DEF SemopWaits
  <2> QED BY <2>1, UndoneSets
<1>5. ASSUME NEW p \in Proc, SemopRemoved(p) \/ Signal(p) \/ SemopInterrupted(p) \/ Semget(p)
      PROVE  Implements
  <2>1. semval' = semval /\ un_ent' = un_ent /\ seq' = seq
    BY <1>5 DEF SemopRemoved, Signal, SemopInterrupted, Semget, setVars, undoVars
  <2> QED BY <2>1, StutterIs
<1>6. ASSUME NEW p \in Proc, SetVal(p) PROVE Implements
  <2>1. PICK s \in Slot, k \in Num, v \in Settings : Assign(s, {k}, [j \in Num |-> v])
    BY <1>6 DEF SetVal
  <2>2. PICK new, K : new = [j \in Num |-> v] /\ K = {k}
    OBVIOUS
  <2>3. new \in [Num -> Settings] /\ K \in SUBSET Num /\ Assign(s, K, new)
    BY <2>1, <2>2
  <2> QED BY <2>3, AssignSets
<1>7. ASSUME NEW p \in Proc, SetAll(p) PROVE Implements
  <2>1. PICK s \in Slot, new \in [Num -> Settings] : Assign(s, Num, new)
    BY <1>7 DEF SetAll
  <2>2. PICK K \in SUBSET Num : K = Num
    OBVIOUS
  <2> QED BY <2>1, <2>2, AssignSets
<1>8. ASSUME NEW p \in Proc, Rmid(p) PROVE Implements
  BY <1>8, RmidSets
<1>9. ASSUME NEW p \in Proc, Exit(p) PROVE Implements
  BY <1>9, ExitSets
<1>10. CASE Next
  <2>1. PICK p \in Proc :
           \/ SemopDone(p) \/ SemopFails(p) \/ SemopWaits(p) \/ SemopRemoved(p)
           \/ Signal(p) \/ SemopInterrupted(p)
           \/ Semget(p) \/ SetVal(p) \/ SetAll(p) \/ Rmid(p) \/ Exit(p)
    BY <1>10 DEF Next
  <2> QED BY <1>2, <1>3, <1>4, <1>5, <1>6, <1>7, <1>8, <1>9, <2>1
<1> QED BY <1>1, <1>10

(* For any lists, a semop() that is done does its whole list and owes what *)
(* its operations ask to have undone; one that waits, fails or is          *)
(* interrupted leaves values and undo entries as they were; SETVAL, SETALL *)
(* and IPC_RMID cancel what is owed, and exit() pays it: os/sem.c does     *)
(* what SemaphoreSets promises.                                            *)
THEOREM SetsImplemented == Spec => ImplementsSets
<1>1. Init => Promise!Init
  BY InitSets
<1>2. Inv /\ [Next]_vars => [Promise!Next]_<<semval, [p \in Proc |-> [s \in Slot |-> [k \in Num |->
                                                LET e == <<IdOf(s), k>>
                                                IN  IF e \in DOMAIN un_ent[p] THEN un_ent[p][e] ELSE 0]]]>>
  BY NextSets, Zenon DEF Implements, SameSets, Adjust, Ent
<1> QED BY <1>1, <1>2, InvAlways, PTL DEF Spec, ImplementsSets, Promise!Spec
=============================================================================
