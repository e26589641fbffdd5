---------------------------- MODULE CalloutProofs ----------------------------
(***************************************************************************)
(* Proofs about Callout: the table of timeout() keeps what it is given     *)
(* while clock() interrupts itself and timein() closes the gap, and no     *)
(* function is called early.                                               *)
(***************************************************************************)
EXTENDS Callout, ListLemmas

(* The recursive definition of the sums has a solution.                    *)
LEMMA SumsExist ==
    ASSUME NEW v
    PROVE  \A n \in Nat :
               \E f : f = [j \in 0 .. n |-> IF j = 0 THEN 0 ELSE f[j - 1] + v[j - 1]]
<1> DEFINE T == {n \in Nat :
                    \E f : f = [j \in 0 .. n |-> IF j = 0 THEN 0 ELSE f[j - 1] + v[j - 1]]}
<1>1. 0 \in T
  <2> DEFINE f == [j \in 0 .. 0 |-> 0]
  <2>1. f = [j \in 0 .. 0 |-> IF j = 0 THEN 0 ELSE f[j - 1] + v[j - 1]]
    OBVIOUS
  <2> QED BY <2>1
<1>2. ASSUME NEW n \in Nat, n \in T PROVE n + 1 \in T
  <2>1. PICK f : f = [j \in 0 .. n |-> IF j = 0 THEN 0 ELSE f[j - 1] + v[j - 1]]
    BY <1>2
  <2> DEFINE g == [j \in 0 .. n + 1 |-> IF j = n + 1 THEN f[n] + v[n] ELSE f[j]]
  <2>2. g = [j \in 0 .. n + 1 |-> IF j = 0 THEN 0 ELSE g[j - 1] + v[j - 1]]
    <3>1. ASSUME NEW j \in 0 .. n + 1
          PROVE  g[j] = IF j = 0 THEN 0 ELSE g[j - 1] + v[j - 1]
      <4>1. CASE j = n + 1
        BY <4>1
      <4>2. CASE j # n + 1
        <5>1. f[j] = IF j = 0 THEN 0 ELSE f[j - 1] + v[j - 1]
          BY <2>1, <4>2
        <5>2. j # 0 => j - 1 \in 0 .. n + 1 /\ j - 1 # n + 1
          BY <4>2
        <5> QED BY <4>2, <5>1, <5>2
      <4> QED BY <4>1, <4>2
    <3> HIDE DEF g
    <3>2. g = [j \in 0 .. n + 1 |-> g[j]]
      BY DEF g
    <3> QED BY <3>1, <3>2
  <2> HIDE DEF g
  <2>3. \E f2 : f2 = [j \in 0 .. n + 1 |-> IF j = 0 THEN 0 ELSE f2[j - 1] + v[j - 1]]
    BY <2>2, Zenon
  <2> QED BY <2>3
<1> HIDE DEF T
<1>3. Nat \subseteq T
  BY <1>1, <1>2, Induction
<1> QED BY <1>3 DEF T

(* The sums are what the definition says, and whole numbers.               *)
LEMMA SumsAre ==
    ASSUME NEW v, NEW n \in Nat, \A k \in 0 .. n - 1 : v[k] \in Int
    PROVE  /\ Sums(v, n)[0] = 0
           /\ \A k \in 0 .. n - 1 : Sums(v, n)[k + 1] = Sums(v, n)[k] + v[k]
           /\ \A k \in 0 .. n : Sums(v, n)[k] \in Int
<1> DEFINE s == CHOOSE f : f = [j \in 0 .. n |-> IF j = 0 THEN 0 ELSE f[j - 1] + v[j - 1]]
<1>1. s = [j \in 0 .. n |-> IF j = 0 THEN 0 ELSE s[j - 1] + v[j - 1]]
  BY SumsExist, Zenon
<1>2. Sums(v, n) = s
  BY Zenon DEF Sums
<1> HIDE DEF s
<1>3. \A j \in 0 .. n : s[j] = IF j = 0 THEN 0 ELSE s[j - 1] + v[j - 1]
  BY <1>1
<1>4. s[0] = 0 /\ \A k \in 0 .. n - 1 : s[k + 1] = s[k] + v[k]
  <2>1. s[0] = 0
    BY <1>3
  <2>2. ASSUME NEW k \in 0 .. n - 1 PROVE s[k + 1] = s[k] + v[k]
    <3>1. k + 1 \in 0 .. n /\ k + 1 # 0 /\ (k + 1) - 1 = k
      OBVIOUS
    <3> QED BY <1>3, <3>1
  <2> QED BY <2>1, <2>2
<1>5. \A k \in 0 .. n : s[k] \in Int
  <2> DEFINE T == {k \in Nat : k <= n => s[k] \in Int}
  <2>1. 0 \in T
    BY <1>4
  <2>2. ASSUME NEW k \in Nat, k \in T PROVE k + 1 \in T
    <3>1. CASE k + 1 <= n
      <4>1. k \in 0 .. n - 1 /\ s[k] \in Int
        BY <2>2, <3>1
      <4>2. s[k + 1] \in Int
        BY <1>4, <4>1
      <4> QED BY <4>2
    <3> QED BY <3>1
  <2> HIDE DEF T
  <2>3. Nat \subseteq T
    BY <2>1, <2>2, Induction
  <2> QED BY <2>3 DEF T
<1> QED BY <1>2, <1>4, <1>5

(* There is only one such function. *)
LEMMA SumsOnly ==
    ASSUME NEW v, NEW n \in Nat, \A k \in 0 .. n - 1 : v[k] \in Int,
           NEW s, NEW m \in 0 .. n, s[0] = 0, \A k \in 0 .. m - 1 : s[k + 1] = s[k] + v[k]
    PROVE  \A k \in 0 .. m : Sums(v, n)[k] = s[k]
<1> DEFINE r == Sums(v, n)
           T == {k \in Nat : k <= m => r[k] = s[k]}
<1>1. r[0] = 0 /\ \A k \in 0 .. n - 1 : r[k + 1] = r[k] + v[k]
  BY SumsAre
<1> HIDE DEF r
<1>2. 0 \in T
  BY <1>1
<1>3. ASSUME NEW k \in Nat, k \in T PROVE k + 1 \in T
  <2>1. CASE k + 1 <= m
    <3>1. k \in 0 .. n - 1 /\ k \in 0 .. m - 1 /\ r[k] = s[k]
      BY <1>3, <2>1
    <3>2. r[k + 1] = r[k] + v[k] /\ s[k + 1] = s[k] + v[k]
      BY <1>1, <3>1
    <3>3. r[k + 1] = s[k + 1]
      BY <3>1, <3>2
    <3> QED BY <3>3
  <2> QED BY <2>1
<1> HIDE DEF T
<1>4. Nat \subseteq T
  BY <1>2, <1>3, Induction
<1> QED BY <1>4 DEF T, r

(* The same for all of them. *)
LEMMA SumsAll ==
    \A v, s : \A n \in Nat :
        /\ \A k \in 0 .. n - 1 : v[k] \in Int
        /\ s[0] = 0
        /\ \A k \in 0 .. n - 1 : s[k + 1] = s[k] + v[k]
        => \A k \in 0 .. n : Sums(v, n)[k] = s[k]
<1> TAKE v, s
<1> TAKE n \in Nat
<1> HAVE /\ \A k \in 0 .. n - 1 : v[k] \in Int
         /\ s[0] = 0
         /\ \A k \in 0 .. n - 1 : s[k + 1] = s[k] + v[k]
<1>1. n \in 0 .. n
  OBVIOUS
<1> QED BY <1>1, SumsOnly

(* What agrees in front has the same sums in front. *)
LEMMA SumsSame ==
    ASSUME NEW v, NEW n \in Nat, \A k \in 0 .. n - 1 : v[k] \in Int,
           NEW w, NEW m \in 0 .. n, NEW l \in Nat, m <= l,
           \A k \in 0 .. l - 1 : w[k] \in Int, \A k \in 0 .. m - 1 : w[k] = v[k]
    PROVE  \A k \in 0 .. m : Sums(w, l)[k] = Sums(v, n)[k]
<1> DEFINE s == Sums(v, n)
<1>1. s[0] = 0 /\ \A k \in 0 .. n - 1 : s[k + 1] = s[k] + v[k]
  BY SumsAre
<1> HIDE DEF s
<1>2. m \in 0 .. l /\ \A k \in 0 .. m - 1 : s[k + 1] = s[k] + w[k]
  BY <1>1
<1>3. \A k \in 0 .. m : Sums(w, l)[k] = s[k]
  BY <1>1, <1>2, SumsOnly
<1> QED BY <1>3 DEF s

(* While nothing is positive, no sum is. *)
LEMMA SumsLow ==
    ASSUME NEW v, NEW n \in Nat, \A k \in 0 .. n - 1 : v[k] \in Int,
           NEW m \in 0 .. n, \A k \in 0 .. m - 1 : v[k] <= 0
    PROVE  \A k \in 0 .. m : Sums(v, n)[k] <= 0
<1> DEFINE r == Sums(v, n)
           T == {k \in Nat : k <= m => r[k] <= 0}
<1>1. /\ r[0] = 0 /\ \A k \in 0 .. n - 1 : r[k + 1] = r[k] + v[k]
      /\ \A k \in 0 .. n : r[k] \in Int
  BY SumsAre
<1> HIDE DEF r
<1>2. 0 \in T
  BY <1>1
<1>3. ASSUME NEW k \in Nat, k \in T PROVE k + 1 \in T
  <2>1. CASE k + 1 <= m
    <3>1. /\ k \in 0 .. n - 1 /\ k \in 0 .. m - 1 /\ r[k] <= 0
          /\ r[k] \in Int /\ v[k] \in Int
      BY <1>1, <1>3, <2>1
    <3>2. r[k + 1] = r[k] + v[k] /\ v[k] <= 0
      BY <1>1, <3>1
    <3>3. r[k + 1] <= 0
      BY <3>1, <3>2
    <3> QED BY <3>3
  <2> QED BY <2>1
<1> HIDE DEF T
<1>4. Nat \subseteq T
  BY <1>2, <1>3, Induction
<1> QED BY <1>4 DEF T, r

(* One less in one place: one less from there on. *)
LEMMA SumsLess ==
    ASSUME NEW v, NEW n \in Nat, \A k \in 0 .. n - 1 : v[k] \in Int,
           NEW w, NEW c \in Int,
           \A k \in 0 .. n - 1 : w[k] = IF k = c THEN v[k] - 1 ELSE v[k]
    PROVE  \A k \in 0 .. n :
               Sums(w, n)[k] = IF 0 <= c /\ c < k THEN Sums(v, n)[k] - 1 ELSE Sums(v, n)[k]
<1> DEFINE r == Sums(v, n)
           s == [k \in 0 .. n |-> IF 0 <= c /\ c < k THEN r[k] - 1 ELSE r[k]]
<1>1. /\ r[0] = 0 /\ \A k \in 0 .. n - 1 : r[k + 1] = r[k] + v[k]
      /\ \A k \in 0 .. n : r[k] \in Int
  BY SumsAre
<1> HIDE DEF r
<1>2. s[0] = 0
  BY <1>1
<1>3. ASSUME NEW k \in 0 .. n - 1 PROVE s[k + 1] = s[k] + w[k]
  <2>1. /\ k \in 0 .. n /\ k + 1 \in 0 .. n /\ r[k] \in Int /\ v[k] \in Int
        /\ r[k + 1] = r[k] + v[k]
    BY <1>1
  <2>2. CASE k = c
    BY <2>1, <2>2
  <2>3. CASE k # c
    BY <2>1, <2>3
  <2> QED BY <2>2, <2>3
<1>4. \A k \in 0 .. n - 1 : w[k] \in Int
  OBVIOUS
<1> HIDE DEF s
<1>5. n \in 0 .. n /\ \A k \in 0 .. n - 1 : s[k + 1] = s[k] + w[k]
  BY <1>3
<1>6. \A k \in 0 .. n : Sums(w, n)[k] = s[k]
  BY <1>2, <1>4, <1>5, SumsOnly
<1> QED BY <1>6 DEF s, r

(* w is what is left of v when the first p are dropped. *)
Drops(v, n, w, m, p) ==
    /\ n \in Nat /\ m \in Nat /\ p \in Nat /\ m + p = n
    /\ \A k \in 0 .. n - 1 : v[k] \in Int
    /\ \A k \in 0 .. m - 1 : w[k] = v[k + p]

(* The sums are less by what was dropped. *)
LEMMA SumsDrop ==
    ASSUME NEW v, NEW n, NEW w, NEW m, NEW p, Drops(v, n, w, m, p)
    PROVE  \A k \in 0 .. m : Sums(w, m)[k] = Sums(v, n)[k + p] - Sums(v, n)[p]
<1>0. /\ n \in Nat /\ m \in Nat /\ p \in Nat /\ m + p = n
      /\ \A k \in 0 .. n - 1 : v[k] \in Int
      /\ \A k \in 0 .. m - 1 : w[k] = v[k + p]
  BY DEF Drops
<1> DEFINE r == Sums(v, n)
           s == [k \in 0 .. m |-> r[k + p] - r[p]]
<1>1. /\ \A k \in 0 .. n - 1 : r[k + 1] = r[k] + v[k]
      /\ \A k \in 0 .. n : r[k] \in Int
  BY <1>0, SumsAre
<1> HIDE DEF r
<1>2. s[0] = 0
  BY <1>0, <1>1
<1>3. ASSUME NEW k \in 0 .. m - 1 PROVE s[k + 1] = s[k] + w[k]
  <2>1. /\ k \in 0 .. m /\ k + 1 \in 0 .. m /\ k + p \in 0 .. n - 1
        /\ k + p \in 0 .. n /\ (k + 1) + p = (k + p) + 1
    BY <1>0
  <2>2. /\ r[k + p] \in Int /\ v[k + p] \in Int /\ r[p] \in Int /\ w[k] = v[k + p]
        /\ r[(k + p) + 1] = r[k + p] + v[k + p]
    BY <1>0, <1>1, <2>1
  <2> QED BY <1>0, <2>1, <2>2
<1>4. \A k \in 0 .. m - 1 : w[k] \in Int
  <2>1. ASSUME NEW k \in 0 .. m - 1 PROVE k + p \in 0 .. n - 1
    BY <1>0
  <2> QED BY <1>0, <2>1
<1> HIDE DEF s
<1>5. /\ m \in 0 .. m
      /\ \A k \in 0 .. m - 1 : s[k + 1] = s[k] + w[k]
  BY <1>0, <1>3
<1>6. \A k \in 0 .. m : Sums(w, m)[k] = s[k]
  BY <1>0, <1>2, <1>4, <1>5, SumsOnly
<1> QED BY <1>6 DEF s, r

(* w is v with something put in at i, so that its sum is t: what comes     *)
(* next has less.                                                          *)
Inserts(v, n, w, i, t) ==
    /\ n \in Nat /\ i \in 0 .. n /\ t \in Int
    /\ \A k \in 0 .. n - 1 : v[k] \in Int
    /\ \A k \in 0 .. i - 1 : w[k] = v[k]
    /\ w[i] = t - Sums(v, n)[i]
    /\ i < n => w[i + 1] = v[i] - (t - Sums(v, n)[i])
    /\ \A k \in i + 2 .. n : w[k] = v[k - 1]

(* No other sum changes. *)
LEMMA SumsInsert ==
    ASSUME NEW v, NEW n, NEW w, NEW i, NEW t, Inserts(v, n, w, i, t)
    PROVE  /\ \A k \in 0 .. n : w[k] \in Int
           /\ \A k \in 0 .. i : Sums(w, n + 1)[k] = Sums(v, n)[k]
           /\ Sums(w, n + 1)[i + 1] = t
           /\ \A k \in i + 2 .. n + 1 : Sums(w, n + 1)[k] = Sums(v, n)[k - 1]
<1> DEFINE r == Sums(v, n)
           s == [k \in 0 .. n + 1 |-> IF k <= i THEN r[k] ELSE IF k = i + 1 THEN t ELSE r[k - 1]]
<1>0. /\ n \in Nat /\ i \in 0 .. n /\ t \in Int
      /\ \A k \in 0 .. n - 1 : v[k] \in Int
      /\ \A k \in 0 .. i - 1 : w[k] = v[k]
      /\ w[i] = t - r[i]
      /\ i < n => w[i + 1] = v[i] - (t - r[i])
      /\ \A k \in i + 2 .. n : w[k] = v[k - 1]
  BY DEF Inserts
<1>1. /\ r[0] = 0 /\ \A k \in 0 .. n - 1 : r[k + 1] = r[k] + v[k]
      /\ \A k \in 0 .. n : r[k] \in Int
  BY <1>0, SumsAre
<1> HIDE DEF r
<1>2. s[0] = 0
  BY <1>0, <1>1
<1>3. ASSUME NEW k \in 0 .. n PROVE s[k + 1] = s[k] + w[k] /\ w[k] \in Int
  <2>0. k \in 0 .. n + 1 /\ k + 1 \in 0 .. n + 1 /\ (k + 1) - 1 = k
    BY <1>0
  <2>1. CASE k < i
    <3>1. k \in 0 .. i - 1 /\ k \in 0 .. n - 1
      BY <1>0, <2>1
    <3> QED BY <1>0, <1>1, <2>0, <2>1, <3>1
  <2>2. CASE k = i
    BY <1>0, <1>1, <2>0, <2>2
  <2>3. CASE k = i + 1
    <3>1. i \in 0 .. n - 1 /\ i < n
      BY <1>0, <2>3
    <3>2. r[k] = r[i] + v[i] /\ v[i] \in Int /\ r[i] \in Int
      BY <1>0, <1>1, <2>3, <3>1
    <3> QED BY <1>0, <2>0, <2>3, <3>1, <3>2
  <2>4. CASE k > i + 1
    <3>1. k - 1 \in 0 .. n - 1 /\ k \in i + 2 .. n /\ (k - 1) + 1 = k
      BY <1>0, <2>4
    <3>2. r[k] = r[k - 1] + v[k - 1] /\ w[k] = v[k - 1] /\ v[k - 1] \in Int
      BY <1>0, <1>1, <3>1
    <3> QED BY <1>0, <2>0, <2>4, <3>1, <3>2
  <2> QED BY <1>0, <2>1, <2>2, <2>3, <2>4
<1>4. s[i + 1] = t /\ \A k \in i + 2 .. n + 1 : s[k] = r[k - 1]
  BY <1>0
<1>5. \A k \in 0 .. i : s[k] = r[k]
  BY <1>0
<1> HIDE DEF s
<1>6. ASSUME NEW m \in Nat, m = n + 1
      PROVE  \A k \in 0 .. m : Sums(w, m)[k] = s[k]
  <2>2. \A k \in 0 .. m - 1 : w[k] \in Int
    BY <1>0, <1>3, <1>6
  <2>3. \A k \in 0 .. m - 1 : s[k + 1] = s[k] + w[k]
    BY <1>0, <1>3, <1>6
  <2> QED BY <1>0, <1>2, <2>2, <2>3, SumsAll
<1>7. \A k \in 0 .. n + 1 : Sums(w, n + 1)[k] = s[k]
  BY <1>0, <1>6
<1>8. i + 1 \in 0 .. n + 1 /\ (\A k \in 0 .. i : k \in 0 .. n + 1)
      /\ \A k \in i + 2 .. n + 1 : k \in 0 .. n + 1
  BY <1>0
<1>9. \A k \in 0 .. n : w[k] \in Int
  BY <1>0, <1>3
<1>10. /\ \A k \in 0 .. i : Sums(w, n + 1)[k] = r[k]
       /\ Sums(w, n + 1)[i + 1] = t
       /\ \A k \in i + 2 .. n + 1 : Sums(w, n + 1)[k] = r[k - 1]
  BY <1>0, <1>4, <1>5, <1>7, <1>8
<1> QED BY <1>0, <1>9, <1>10 DEF r
-----------------------------------------------------------------------------
(* The list has n entries, and is as it should be. *)
Listed(n) == n \in 0 .. V_CALL - 1 - Gap /\ Ends(n) /\ Bounded(n) /\ Exact(n) /\ InTime(n)

Plain == {"idle", "dec", "test", "tail", "calls", "function", "panic"}

(* The table itself, where no gap is being closed. *)
LEMMA Table ==
    ASSUME pc \in Plain, NEW k \in Int
    PROVE  /\ Gap = 0 /\ ~Copying
           /\ FuncAt(k) = callout[k].c_func /\ TimeAt(k) = callout[k].c_time
           /\ ArgAt(k) = callout[k].c_arg
<1>1. ~Copying /\ pc \notin {"func", "store", "arg"}
  BY DEF Plain, Copying
<1>2. Gap = 0
  BY <1>1 DEF Gap
<1>3. \A m : From(k, m) = k
  BY <1>2 DEF From
<1> QED BY <1>1, <1>2, <1>3 DEF FuncAt, TimeAt, ArgAt

LEMMA TableAfter ==
    ASSUME pc' \in Plain, NEW k \in Int
    PROVE  /\ Gap' = 0 /\ ~Copying'
           /\ FuncAt(k)' = callout'[k].c_func /\ TimeAt(k)' = callout'[k].c_time
           /\ ArgAt(k)' = callout'[k].c_arg
<1>1. ~Copying' /\ pc' \notin {"func", "store", "arg"}
  BY DEF Plain, Copying
<1>2. Gap' = 0
  BY <1>1 DEF Gap
<1>3. \A m : From(k, m)' = k
  BY <1>2 DEF From
<1> QED BY <1>1, <1>2, <1>3 DEF FuncAt, TimeAt, ArgAt

(* The entries of the list have a type. *)
LEMMA ListTypes ==
    ASSUME TypeOK, time \in Int, NEW n \in 0 .. V_CALL - 1 - Gap, Bounded(n), NEW k \in 0 .. n
    PROVE  /\ FuncAt(k) \in Fun \cup {NoFun}
           /\ k < n => TimeAt(k) \in Int /\ ArgAt(k) \in Fun \cup {NoFun}
           /\ Gap \in Nat /\ n \in Nat /\ First \in 0 .. n
<1>1. V_CALL \in Nat /\ p1 \in Index /\ p2 \in Index
  BY CalloutAssumption DEF TypeOK
<1>2. Gap \in Nat
  BY <1>1 DEF Gap, Bounded, Index
<1>3. \A m \in Int : From(k, m) \in Index
  BY <1>1, <1>2 DEF From, Index
<1>4. First \in 0 .. n
  BY <1>1, CalloutAssumption DEF First, Bounded, Index
<1>5. \A j \in Index : /\ callout[j].c_func \in Fun \cup {NoFun}
                       /\ callout[j].c_time \in Int /\ callout[j].c_arg \in Fun \cup {NoFun}
  BY DEF TypeOK
<1>6. p2 \in Int /\ p2 + 1 \in Int
  BY <1>1 DEF Index
<1>7. /\ From(k, IF pc = "func" THEN p2 ELSE p2 + 1) \in Index
      /\ From(k, IF pc = "arg" THEN p2 + 1 ELSE p2) \in Index
      /\ From(k, p2) \in Index
  BY <1>3, <1>6
<1>8. FuncAt(k) \in Fun \cup {NoFun} /\ TimeAt(k) \in Int /\ ArgAt(k) \in Fun \cup {NoFun}
  BY <1>5, <1>7 DEF FuncAt, TimeAt, ArgAt
<1> QED BY <1>2, <1>4, <1>8

(* What InTime says about the sums of the list. *)
LEMMA ListSums ==
    ASSUME NEW n \in Nat, \A k \in 0 .. n - 1 : TimeAt(k) \in Int
    PROVE  \A k \in 0 .. n - 1 : List(n)[k] = TimeAt(k) /\ List(n)[k] \in Int
BY DEF List

(* A step that changes nothing of the list leaves it as it should be.      *)
LEMMA SameList ==
    ASSUME NEW n \in Nat, Ends(n), Exact(n), InTime(n),
           \A k \in 0 .. n : FuncAt(k)' = FuncAt(k),
           \A k \in 0 .. n - 1 : TimeAt(k)' = TimeAt(k),
           \A k \in 0 .. n - 1 : ArgAt(k)' = ArgAt(k),
           First' = First, First \in Nat, due' = due, pc # "dec", pc' # "dec"
    PROVE  Ends(n)' /\ Exact(n)' /\ InTime(n)'
<1>1. Ends(n)'
  <2>1. n \in 0 .. n /\ \A k \in 0 .. n - 1 : k \in 0 .. n
    OBVIOUS
  <2> QED BY <2>1 DEF Ends
<1>2. \A k \in First .. n - 1 : k \in 0 .. n /\ k \in 0 .. n - 1
  OBVIOUS
<1>3. Exact(n)'
  <2>1. {FuncAt(k)' : k \in First' .. n - 1} = {FuncAt(k) : k \in First .. n - 1}
    BY <1>2
  <2>2. \A k \in First' .. n - 1 : ArgAt(k)' = FuncAt(k)'
    BY <1>2 DEF Exact
  <2>3. \A j, k \in First' .. n - 1 : FuncAt(j)' = FuncAt(k)' => j = k
    BY <1>2 DEF Exact
  <2>4. {f \in Fun : due'[f] # Never} = {f \in Fun : due[f] # Never}
    OBVIOUS
  <2> QED BY <2>1, <2>2, <2>3, <2>4 DEF Exact
<1>4. InTime(n)'
  <2>1. List(n)' = List(n)
    BY DEF List
  <2>2. \A k : Pending(k)' = Pending(k)
    BY DEF Pending
  <2>3. \A k \in First .. n - 1 :
            due'[FuncAt(k)'] # 0 =>
                due'[FuncAt(k)'] <= Sums(List(n)', n)[k + 1] - Pending(k)'
    BY <1>2, <2>1, <2>2 DEF InTime
  <2> QED BY <2>3 DEF InTime
<1> QED BY <1>1, <1>3, <1>4

(* What IndInv says besides of the list. *)
Others ==
    /\ TypeOK /\ time \in Int
    /\ callout[V_CALL - 1].c_func = NoFun
    /\ pc = "calls" /\ p1 = 0 => callout[0].c_func # NoFun /\ callout[0].c_time <= 0

LEMMA Whole == IndInv <=> Others /\ (pc # "panic" => \E n : Listed(n))
BY DEF IndInv, Others, Listed

LEMMA WholeAfter == IndInv' <=> Others' /\ (pc' # "panic" => \E n : Listed(n)')
BY DEF IndInv, Others, Listed

(* At first, the table is empty. *)
LEMMA InitRight == Init => IndInv
<1> SUFFICES ASSUME Init PROVE IndInv
  OBVIOUS
<1>1. V_CALL \in Nat /\ 0 \in Index /\ V_CALL - 1 \in Index /\ V_CALL - 1 >= 0
  BY CalloutAssumption DEF Index
<1>2. Others
  BY <1>1, CalloutAssumption DEF Init, Others, TypeOK, Entry
<1>3. pc \in Plain
  BY DEF Init, Plain
<1>4. Gap = 0 /\ FuncAt(0) = NoFun /\ First = 0 /\ ~Copying
  BY <1>1, <1>3, Table DEF Init, Entry, First
<1>5. Listed(0)
  <2>1. Ends(0)
    BY <1>4 DEF Ends
  <2>2. Bounded(0)
    BY <1>4 DEF Bounded
  <2>3. Exact(0)
    BY <1>4 DEF Exact, Init
  <2>4. InTime(0)
    BY <1>4 DEF InTime
  <2>5. 0 \in 0 .. V_CALL - 1 - Gap
    BY <1>1, <1>4
  <2> QED BY <2>1, <2>2, <2>3, <2>4, <2>5 DEF Listed
<1> QED BY <1>2, <1>5, Whole
-----------------------------------------------------------------------------
Outside == Plain \ {"dec", "panic"}

(* Where the table stays and nothing is called, the list stays.            *)
LEMMA SameTable ==
    ASSUME IndInv, pc \in Outside, pc' \in Outside, UNCHANGED <<callout, due>>, First' = First
    PROVE  \E n : Listed(n)'
<1>1. V_CALL \in Nat /\ V_CALL >= 2 /\ Others /\ pc # "dec" /\ pc' # "dec"
      /\ pc \in Plain /\ pc' \in Plain /\ callout' = callout /\ due' = due
  BY Whole, CalloutAssumption DEF Outside
<1>2. PICK n : Listed(n)
  BY Whole DEF Outside
<1>3. n \in 0 .. V_CALL - 1 /\ n \in Nat /\ Gap = 0 /\ Gap' = 0 /\ ~Copying'
  BY <1>1, <1>2, Table, TableAfter DEF Listed
<1>4. First \in 0 .. n
  BY <1>1, <1>2, <1>3, ListTypes DEF Listed, Others
<1>5. \A k \in Int : /\ FuncAt(k)' = FuncAt(k)
                     /\ TimeAt(k)' = TimeAt(k)
                     /\ ArgAt(k)' = ArgAt(k)
  BY <1>1, Table, TableAfter
<1>6. Ends(n)' /\ Exact(n)' /\ InTime(n)'
  <2>1. /\ \A k \in 0 .. n : FuncAt(k)' = FuncAt(k)
        /\ \A k \in 0 .. n - 1 : TimeAt(k)' = TimeAt(k)
        /\ \A k \in 0 .. n - 1 : ArgAt(k)' = ArgAt(k)
    BY <1>3, <1>5
  <2>2. Ends(n) /\ Exact(n) /\ InTime(n)
    BY <1>2 DEF Listed
  <2> QED BY <1>1, <1>3, <1>4, <2>1, <2>2, SameList
<1>7. Bounded(n)'
  BY <1>1, <1>2, <1>3, <1>4 DEF Bounded, Listed
<1>8. n \in 0 .. V_CALL - 1 - Gap'
  BY <1>1, <1>3
<1>9. Listed(n)'
  BY <1>6, <1>7, <1>8 DEF Listed
<1> QED BY <1>9

(* clock() looks whether something is due. *)
LEMMA TestKeeps == IndInv /\ Test => IndInv'
<1> SUFFICES ASSUME IndInv, Test PROVE IndInv'
  OBVIOUS
<1>0. Others /\ V_CALL \in Nat /\ V_CALL >= 2 /\ pc = "test" /\ pc' \in {"calls", "tail"}
      /\ p1' = 0 /\ UNCHANGED <<callout, cp, p2, time, nested, due>>
  BY Whole, CalloutAssumption DEF Test
<1>1. Others'
  <2>1. 0 \in Index
    BY <1>0 DEF Index
  <2>2. TypeOK'
    BY <1>0, <2>1 DEF Others, TypeOK
  <2>3. pc' = "calls" => callout[0].c_func # NoFun /\ callout[0].c_time <= 0
    BY DEF Test
  <2> QED BY <1>0, <2>2, <2>3 DEF Others
<1>2. pc \in Outside /\ pc' \in Outside /\ First = 0 /\ First' = 0
  BY <1>0 DEF Outside, Plain, First
<1>3. \E n : Listed(n)'
  BY <1>0, <1>2, SameTable
<1> QED BY <1>1, <1>3, WholeAfter

(* clock() returns. *)
LEMMA DoneKeeps == IndInv /\ Done => IndInv'
<1> SUFFICES ASSUME IndInv, Done PROVE IndInv'
  OBVIOUS
<1>0. Others /\ V_CALL \in Nat /\ V_CALL >= 2 /\ MaxNested \in Nat
      /\ pc = "tail" /\ pc' = "idle" /\ p1' = 0 /\ p2' = 0 /\ time' = 0 /\ nested' = 0
      /\ UNCHANGED <<callout, cp, due>>
  BY Whole, CalloutAssumption DEF Done
<1>1. Others'
  <2>1. 0 \in Index /\ 0 \in 0 .. MaxNested
    BY <1>0 DEF Index
  <2>2. TypeOK'
    BY <1>0, <2>1 DEF Others, TypeOK
  <2> QED BY <1>0, <2>2 DEF Others
<1>2. pc \in Outside /\ pc' \in Outside /\ First = 0 /\ First' = 0
  BY <1>0 DEF Outside, Plain, First
<1>3. \E n : Listed(n)'
  BY <1>0, <1>2, SameTable
<1> QED BY <1>1, <1>3, WholeAfter

(* A function returns, and the next entry is looked at. *)
LEMMA FunctionReturnsKeeps == IndInv /\ FunctionReturns => IndInv'
<1> SUFFICES ASSUME IndInv, FunctionReturns PROVE IndInv'
  OBVIOUS
<1>0. Others /\ V_CALL \in Nat /\ V_CALL >= 2
      /\ pc = "function" /\ pc' = "calls" /\ p1' = p1 + 1
      /\ UNCHANGED <<callout, cp, p2, time, nested, due>>
  BY Whole, CalloutAssumption DEF FunctionReturns
<1>1. p1 \in 0 .. V_CALL - 1
  BY <1>0 DEF Others, TypeOK, Index
<1>2. pc \in Outside /\ pc' \in Outside /\ First = p1 + 1 /\ First' = p1 + 1
  BY <1>0 DEF Outside, Plain, First
<1>3. p1 + 1 <= V_CALL - 1
  <2>1. PICK n : Listed(n)
    BY <1>0, Whole
  <2>2. n \in 0 .. V_CALL - 1 /\ First <= n
    BY <1>0, <1>2, <2>1, Table DEF Listed, Bounded, Outside
  <2> QED BY <1>0, <1>1, <1>2, <2>2
<1>4. Others'
  <2>1. p1' \in Index
    BY <1>0, <1>1, <1>3 DEF Index
  <2>2. TypeOK'
    BY <1>0, <2>1 DEF Others, TypeOK
  <2>3. p1' # 0
    BY <1>0, <1>1
  <2> QED BY <1>0, <2>2, <2>3 DEF Others
<1>5. \E n : Listed(n)'
  BY <1>0, <1>2, SameTable
<1> QED BY <1>4, <1>5, WholeAfter
-----------------------------------------------------------------------------
(* A step of timein() in the gap: what is not about the list.              *)
LEMMA CopyingTypes ==
    ASSUME IndInv, Copying, NEW n, Listed(n)
    PROVE  /\ V_CALL \in Nat /\ V_CALL >= 2 /\ Others
           /\ p1 \in Int /\ p2 \in Int /\ 0 <= p2 /\ p2 < p1 /\ Gap = p1 - p2
           /\ n \in Nat /\ p2 <= n /\ n <= V_CALL - 1 - (p1 - p2)
           /\ (pc # "func" => p2 < n) /\ First = 0
           /\ Ends(n) /\ Exact(n) /\ InTime(n)
           /\ pc # "dec" /\ pc # "panic" /\ pc # "calls"
<1>1. V_CALL \in Nat /\ V_CALL >= 2 /\ Others /\ Gap = p1 - p2
  BY Whole, CalloutAssumption DEF Gap
<1>2. p1 \in Int /\ p2 \in Int /\ 0 <= p2
  BY <1>1 DEF Others, TypeOK, Index
<1>3. /\ p2 < p1 /\ p2 <= n /\ (pc # "func" => p2 < n) /\ First = 0
      /\ Ends(n) /\ Exact(n) /\ InTime(n)
      /\ pc # "dec" /\ pc # "panic" /\ pc # "calls"
  BY DEF Copying, Listed, Bounded, First
<1>4. n \in 0 .. V_CALL - 1 - (p1 - p2)
  BY <1>1 DEF Listed
<1> QED BY <1>1, <1>2, <1>3, <1>4

(* timein() reads a time. *)
LEMMA LoadTimeKeeps == IndInv /\ LoadTime => IndInv'
<1> SUFFICES ASSUME IndInv, LoadTime PROVE IndInv'
  OBVIOUS
<1>0. /\ pc = "load" /\ pc' = "store" /\ time' = callout[p1].c_time
      /\ callout' = callout /\ cp' = cp /\ p1' = p1 /\ p2' = p2 /\ nested' = nested
      /\ due' = due /\ Copying /\ Copying' /\ First' = 0
  BY DEF LoadTime, Copying, First
<1>1. PICK n : Listed(n)
  BY <1>0, Whole
<1>2. /\ V_CALL \in Nat /\ V_CALL >= 2 /\ Others
      /\ p1 \in Int /\ p2 \in Int /\ 0 <= p2 /\ p2 < p1 /\ Gap = p1 - p2
      /\ n \in Nat /\ p2 <= n /\ n <= V_CALL - 1 - (p1 - p2)
      /\ p2 < n /\ First = 0
      /\ Ends(n) /\ Exact(n) /\ InTime(n)
  BY <1>0, <1>1, CopyingTypes
<1>3. Others'
  <2>1. TypeOK'
    BY <1>0, <1>2 DEF Others, TypeOK
  <2>2. time' \in Int
    BY <1>0, <1>2 DEF Others, TypeOK
  <2> QED BY <1>0, <1>2, <2>1, <2>2 DEF Others
<1>4. Gap' = p1 - p2 /\ \A k, m : From(k, m)' = From(k, m)
  BY <1>0, <1>2 DEF Gap, From
<1>5. \A k \in Int : FuncAt(k)' = FuncAt(k) /\ ArgAt(k)' = ArgAt(k)
  BY <1>0, <1>4 DEF FuncAt, ArgAt
<1>6. ASSUME NEW k \in Int PROVE TimeAt(k)' = TimeAt(k)
  <2>1. CASE k = p2
    <3>1. From(k, p2) = p1
      BY <1>2, <2>1 DEF From
    <3> QED BY <1>0, <2>1, <3>1 DEF TimeAt
  <2>2. CASE k # p2
    BY <1>0, <1>4, <2>2 DEF TimeAt
  <2> QED BY <2>1, <2>2
<1>7. Ends(n)' /\ Exact(n)' /\ InTime(n)'
  <2>1. /\ \A k \in 0 .. n : FuncAt(k)' = FuncAt(k)
        /\ \A k \in 0 .. n - 1 : TimeAt(k)' = TimeAt(k)
        /\ \A k \in 0 .. n - 1 : ArgAt(k)' = ArgAt(k)
    BY <1>2, <1>5, <1>6
  <2> QED BY <1>0, <1>2, <2>1, SameList
<1>8. Listed(n)'
  <2>1. n \in 0 .. V_CALL - 1 - Gap'
    BY <1>2, <1>4
  <2>2. Bounded(n)'
    BY <1>0, <1>2 DEF Bounded
  <2> QED BY <1>7, <2>1, <2>2 DEF Listed
<1> QED BY <1>3, <1>8, WholeAfter

(* timein() writes the time that it has read. *)
LEMMA StoreTimeKeeps == IndInv /\ StoreTime => IndInv'
<1> SUFFICES ASSUME IndInv, StoreTime PROVE IndInv'
  OBVIOUS
<1>0. /\ pc = "store" /\ pc' = "arg" /\ callout' = [callout EXCEPT ![p2].c_time = time]
      /\ time' = time /\ cp' = cp /\ p1' = p1 /\ p2' = p2 /\ nested' = nested
      /\ due' = due /\ Copying /\ Copying' /\ First' = 0
  BY DEF StoreTime, Copying, First
<1>1. PICK n : Listed(n)
  BY <1>0, Whole
<1>2. /\ V_CALL \in Nat /\ V_CALL >= 2 /\ Others
      /\ p1 \in Int /\ p2 \in Int /\ 0 <= p2 /\ p2 < p1 /\ Gap = p1 - p2
      /\ n \in Nat /\ p2 <= n /\ n <= V_CALL - 1 - (p1 - p2)
      /\ p2 < n /\ First = 0
      /\ Ends(n) /\ Exact(n) /\ InTime(n)
  BY <1>0, <1>1, CopyingTypes
<1>3. Others'
  <2>1. TypeOK'
    BY <1>0, <1>2 DEF Others, TypeOK
  <2>2. V_CALL - 1 # p2 /\ V_CALL - 1 \in Index /\ p2 \in Index
    BY <1>2 DEF Index
  <2>3. callout'[V_CALL - 1] = callout[V_CALL - 1]
    BY <1>0, <1>2, <2>2 DEF Others, TypeOK
  <2> QED BY <1>0, <1>2, <2>1, <2>3 DEF Others
<1>4. Gap' = p1 - p2 /\ \A k, m : From(k, m)' = From(k, m)
  BY <1>0, <1>2 DEF Gap, From
<1>a. \A i \in Index : /\ callout'[i].c_func = callout[i].c_func
                       /\ callout'[i].c_arg = callout[i].c_arg
                       /\ callout'[i].c_time = IF i = p2 THEN time ELSE callout[i].c_time
  BY <1>0, <1>2 DEF Others, TypeOK
<1>b. ASSUME NEW k \in 0 .. n, NEW m \in Int PROVE From(k, m) \in Index
  BY <1>2 DEF From, Index
<1>5. \A k \in 0 .. n : FuncAt(k)' = FuncAt(k) /\ ArgAt(k)' = ArgAt(k)
  BY <1>0, <1>2, <1>4, <1>a, <1>b DEF FuncAt, ArgAt
<1>6. ASSUME NEW k \in 0 .. n PROVE TimeAt(k)' = TimeAt(k)
  <2>0. TimeAt(k)' = callout'[From(k, p2 + 1)].c_time
    BY <1>0, <1>4 DEF TimeAt
  <2>1. CASE k = p2
    <3>1. From(k, p2 + 1) = p2 /\ p2 \in Index
      BY <1>2, <1>b, <2>1 DEF From
    <3> QED BY <1>0, <1>a, <2>0, <2>1, <3>1 DEF TimeAt
  <2>2. CASE k # p2
    <3>1. From(k, p2 + 1) = From(k, p2) /\ From(k, p2) # p2 /\ From(k, p2) \in Index
      BY <1>2, <1>b, <2>2 DEF From
    <3> QED BY <1>0, <1>a, <2>0, <2>2, <3>1 DEF TimeAt
  <2> QED BY <2>1, <2>2
<1>7. Ends(n)' /\ Exact(n)' /\ InTime(n)'
  <2>1. /\ \A k \in 0 .. n : FuncAt(k)' = FuncAt(k)
        /\ \A k \in 0 .. n - 1 : TimeAt(k)' = TimeAt(k)
        /\ \A k \in 0 .. n - 1 : ArgAt(k)' = ArgAt(k)
    BY <1>2, <1>5, <1>6
  <2> QED BY <1>0, <1>2, <2>1, SameList
<1>8. Listed(n)'
  <2>1. n \in 0 .. V_CALL - 1 - Gap'
    BY <1>2, <1>4
  <2>2. Bounded(n)'
    BY <1>0, <1>2 DEF Bounded
  <2> QED BY <1>7, <2>1, <2>2 DEF Listed
<1> QED BY <1>3, <1>8, WholeAfter

(* timein() moves an argument and goes on to the next entry. *)
LEMMA CopyArgKeeps == IndInv /\ CopyArg => IndInv'
<1> SUFFICES ASSUME IndInv, CopyArg PROVE IndInv'
  OBVIOUS
<1>0. /\ pc = "arg" /\ pc' = "func"
      /\ callout' = [callout EXCEPT ![p2].c_arg = callout[p1].c_arg]
      /\ time' = time /\ cp' = cp /\ p1' = p1 + 1 /\ p2' = p2 + 1 /\ nested' = nested
      /\ due' = due /\ Copying /\ Copying' /\ First' = 0
  BY DEF CopyArg, Copying, First
<1>1. PICK n : Listed(n)
  BY <1>0, Whole
<1>2. /\ V_CALL \in Nat /\ V_CALL >= 2 /\ Others
      /\ p1 \in Int /\ p2 \in Int /\ 0 <= p2 /\ p2 < p1 /\ Gap = p1 - p2
      /\ n \in Nat /\ p2 <= n /\ n <= V_CALL - 1 - (p1 - p2)
      /\ p2 < n /\ First = 0
      /\ Ends(n) /\ Exact(n) /\ InTime(n)
  BY <1>0, <1>1, CopyingTypes
<1>3. Others'
  <2>0. p1' \in Index /\ p2' \in Index /\ p1 \in Index
    BY <1>0, <1>2 DEF Index
  <2>1. TypeOK'
    BY <1>0, <1>2, <2>0 DEF Others, TypeOK
  <2>2. V_CALL - 1 # p2 /\ V_CALL - 1 \in Index /\ p2 \in Index
    BY <1>2 DEF Index
  <2>3. callout'[V_CALL - 1] = callout[V_CALL - 1]
    BY <1>0, <1>2, <2>2 DEF Others, TypeOK
  <2> QED BY <1>0, <1>2, <2>1, <2>3 DEF Others
<1>4. Gap' = p1 - p2 /\ \A k, m : From(k, m)' = From(k, m)
  BY <1>0, <1>2 DEF Gap, From
<1>a. \A i \in Index : /\ callout'[i].c_func = callout[i].c_func
                       /\ callout'[i].c_time = callout[i].c_time
                       /\ callout'[i].c_arg = IF i = p2 THEN callout[p1].c_arg
                                              ELSE callout[i].c_arg
  BY <1>0, <1>2 DEF Others, TypeOK
<1>b. ASSUME NEW k \in 0 .. n, NEW m \in Int PROVE From(k, m) \in Index
  BY <1>2 DEF From, Index
<1>5. \A k \in 0 .. n : FuncAt(k)' = FuncAt(k) /\ TimeAt(k)' = TimeAt(k)
  BY <1>0, <1>2, <1>4, <1>a, <1>b DEF FuncAt, TimeAt
<1>6. ASSUME NEW k \in 0 .. n PROVE ArgAt(k)' = ArgAt(k)
  <2>0. ArgAt(k)' = callout'[From(k, p2 + 1)].c_arg
    BY <1>0, <1>4 DEF ArgAt
  <2>1. CASE k = p2
    <3>1. From(k, p2 + 1) = p2 /\ p2 \in Index /\ From(k, p2) = p1
      BY <1>2, <1>b, <2>1 DEF From
    <3> QED BY <1>0, <1>a, <2>0, <2>1, <3>1 DEF ArgAt
  <2>2. CASE k # p2
    <3>1. From(k, p2 + 1) = From(k, p2) /\ From(k, p2) # p2 /\ From(k, p2) \in Index
      BY <1>2, <1>b, <2>2 DEF From
    <3> QED BY <1>0, <1>a, <2>0, <2>2, <3>1 DEF ArgAt
  <2> QED BY <2>1, <2>2
<1>7. Ends(n)' /\ Exact(n)' /\ InTime(n)'
  <2>1. /\ \A k \in 0 .. n : FuncAt(k)' = FuncAt(k)
        /\ \A k \in 0 .. n - 1 : TimeAt(k)' = TimeAt(k)
        /\ \A k \in 0 .. n - 1 : ArgAt(k)' = ArgAt(k)
    BY <1>2, <1>5, <1>6
  <2> QED BY <1>0, <1>2, <2>1, SameList
<1>8. Listed(n)'
  <2>1. n \in 0 .. V_CALL - 1 - Gap'
    BY <1>2, <1>4
  <2>2. Bounded(n)'
    BY <1>0, <1>2 DEF Bounded
  <2> QED BY <1>7, <2>1, <2>2 DEF Listed
<1> QED BY <1>3, <1>8, WholeAfter

(* timein() moves a function; the list ends where it finds none. *)
LEMMA CopyFuncKeeps == IndInv /\ CopyFunc => IndInv'
<1> SUFFICES ASSUME IndInv, CopyFunc PROVE IndInv'
  OBVIOUS
<1>0. /\ pc = "func" /\ pc' = IF callout[p1].c_func = NoFun THEN "tail" ELSE "load"
      /\ callout' = [callout EXCEPT ![p2].c_func = callout[p1].c_func]
      /\ time' = time /\ cp' = cp /\ p1' = p1 /\ p2' = p2 /\ nested' = nested
      /\ due' = due /\ Copying /\ First' = 0 /\ pc' # "dec" /\ pc' # "calls"
  BY DEF CopyFunc, Copying, First
<1>1. PICK n : Listed(n)
  BY <1>0, Whole
<1>2. /\ V_CALL \in Nat /\ V_CALL >= 2 /\ Others
      /\ p1 \in Int /\ p2 \in Int /\ 0 <= p2 /\ p2 < p1 /\ Gap = p1 - p2
      /\ n \in Nat /\ p2 <= n /\ n <= V_CALL - 1 - (p1 - p2)
      /\ First = 0
      /\ Ends(n) /\ Exact(n) /\ InTime(n)
      /\ pc # "dec"
  BY <1>0, <1>1, CopyingTypes
<1>c. p1 \in Index /\ p2 \in Index
  BY <1>2 DEF Others, TypeOK
<1>3. Others'
  <2>1. TypeOK'
    <3>1. callout[p1].c_func \in Fun \cup {NoFun}
      BY <1>2, <1>c DEF Others, TypeOK
    <3> QED BY <1>0, <1>2, <3>1 DEF Others, TypeOK
  <2>2. V_CALL - 1 # p2 /\ V_CALL - 1 \in Index
    BY <1>2 DEF Index
  <2>3. callout'[V_CALL - 1] = callout[V_CALL - 1]
    BY <1>0, <1>2, <2>2 DEF Others, TypeOK
  <2> QED BY <1>0, <1>2, <2>1, <2>3 DEF Others
<1>a. \A i \in Index : /\ callout'[i].c_arg = callout[i].c_arg
                       /\ callout'[i].c_time = callout[i].c_time
                       /\ callout'[i].c_func = IF i = p2 THEN callout[p1].c_func
                                               ELSE callout[i].c_func
  BY <1>0, <1>2 DEF Others, TypeOK
<1>b. ASSUME NEW k \in 0 .. n, NEW m \in Int PROVE From(k, m) \in Index
  BY <1>2 DEF From, Index
<1>d. FuncAt(p2) = callout[p1].c_func
  <2>1. From(p2, p2) = p1
    BY <1>2 DEF From
  <2> QED BY <1>0, <2>1 DEF FuncAt
<1>4. CASE callout[p1].c_func = NoFun
  <2>1. p2 = n
    <3>1. \A k \in 0 .. n - 1 : FuncAt(k) # NoFun
      BY <1>2 DEF Ends
    <3> QED BY <1>2, <1>4, <1>d, <3>1
  <2>2. pc' = "tail" /\ pc' \in Plain
    BY <1>0, <1>4 DEF Plain
  <2>3. \A k \in 0 .. n : /\ FuncAt(k)' = callout'[k].c_func
                          /\ TimeAt(k)' = callout'[k].c_time
                          /\ ArgAt(k)' = callout'[k].c_arg
    BY <1>2, <2>2, TableAfter
  <2>4. Gap' = 0 /\ ~Copying'
    BY <2>2, TableAfter
  <2>5. ASSUME NEW k \in 0 .. n - 1
        PROVE  FuncAt(k)' = FuncAt(k) /\ TimeAt(k)' = TimeAt(k) /\ ArgAt(k)' = ArgAt(k)
    <3>1. From(k, p2) = k /\ k \in Index /\ k # p2 /\ k \in 0 .. n
      BY <1>2, <2>1 DEF From, Index
    <3> QED BY <1>0, <1>a, <2>3, <3>1 DEF FuncAt, TimeAt, ArgAt
  <2>6. FuncAt(n)' = FuncAt(n)
    BY <1>2, <1>a, <1>c, <1>d, <2>1, <2>3
  <2>7. Ends(n)' /\ Exact(n)' /\ InTime(n)'
    <3>1. \A k \in 0 .. n : FuncAt(k)' = FuncAt(k)
      BY <1>2, <2>5, <2>6
    <3>2. /\ \A k \in 0 .. n - 1 : TimeAt(k)' = TimeAt(k)
          /\ \A k \in 0 .. n - 1 : ArgAt(k)' = ArgAt(k)
      BY <2>5
    <3> QED BY <1>0, <1>2, <3>1, <3>2, SameList
  <2>8. Listed(n)'
    <3>1. n \in 0 .. V_CALL - 1 - Gap'
      BY <1>2, <2>4
    <3>2. Bounded(n)'
      BY <1>0, <1>2, <2>4 DEF Bounded
    <3> QED BY <2>7, <3>1, <3>2 DEF Listed
  <2> QED BY <1>3, <2>8, WholeAfter
<1>5. CASE callout[p1].c_func # NoFun
  <2>1. p2 < n
    <3>1. FuncAt(n) = NoFun
      BY <1>2 DEF Ends
    <3> QED BY <1>2, <1>5, <1>d, <3>1
  <2>2. pc' = "load" /\ Copying'
    BY <1>0, <1>5 DEF Copying
  <2>3. Gap' = p1 - p2 /\ \A k, m : From(k, m)' = From(k, m)
    BY <1>0, <1>2, <2>2 DEF Gap, From
  <2>4. \A k \in 0 .. n : ArgAt(k)' = ArgAt(k) /\ TimeAt(k)' = TimeAt(k)
    BY <1>0, <1>2, <1>a, <1>b, <2>2, <2>3 DEF ArgAt, TimeAt
  <2>5. ASSUME NEW k \in 0 .. n PROVE FuncAt(k)' = FuncAt(k)
    <3>0. FuncAt(k)' = callout'[From(k, p2 + 1)].c_func /\ FuncAt(k) = callout[From(k, p2)].c_func
      BY <1>0, <2>2, <2>3 DEF FuncAt
    <3>1. CASE k = p2
      <4>1. From(k, p2 + 1) = p2
        BY <1>2, <3>1 DEF From
      <4> QED BY <1>a, <1>c, <1>d, <3>0, <3>1, <4>1
    <3>2. CASE k # p2
      <4>1. From(k, p2 + 1) = From(k, p2) /\ From(k, p2) # p2 /\ From(k, p2) \in Index
        BY <1>2, <1>b, <3>2 DEF From
      <4> QED BY <1>a, <3>0, <4>1
    <3> QED BY <3>1, <3>2
  <2>6. Ends(n)' /\ Exact(n)' /\ InTime(n)'
    <3>1. /\ \A k \in 0 .. n : FuncAt(k)' = FuncAt(k)
          /\ \A k \in 0 .. n - 1 : TimeAt(k)' = TimeAt(k)
          /\ \A k \in 0 .. n - 1 : ArgAt(k)' = ArgAt(k)
      BY <1>2, <2>4, <2>5
    <3> QED BY <1>0, <1>2, <3>1, SameList
  <2>7. Listed(n)'
    <3>1. n \in 0 .. V_CALL - 1 - Gap'
      BY <1>2, <2>3
    <3>2. Bounded(n)'
      BY <1>0, <1>2, <2>1 DEF Bounded
    <3> QED BY <2>6, <3>1, <3>2 DEF Listed
  <2> QED BY <1>3, <2>7, WholeAfter
<1> QED BY <1>4, <1>5
-----------------------------------------------------------------------------
(* The functions of a list that keeps them and loses no due time.          *)
LEMMA SameFuncs ==
    ASSUME NEW n \in Nat, Ends(n), Exact(n),
           \A k \in 0 .. n : FuncAt(k)' = FuncAt(k),
           \A k \in 0 .. n - 1 : ArgAt(k)' = ArgAt(k),
           First' = First, First \in Nat,
           \A f \in Fun : due'[f] # Never <=> due[f] # Never
    PROVE  Ends(n)' /\ Exact(n)'
<1>1. Ends(n)'
  <2>1. n \in 0 .. n /\ \A k \in 0 .. n - 1 : k \in 0 .. n
    OBVIOUS
  <2> QED BY <2>1 DEF Ends
<1>2. \A k \in First .. n - 1 : k \in 0 .. n /\ k \in 0 .. n - 1
  OBVIOUS
<1>3. Exact(n)'
  <2>1. {FuncAt(k)' : k \in First' .. n - 1} = {FuncAt(k) : k \in First .. n - 1}
    BY <1>2
  <2>2. \A k \in First' .. n - 1 : ArgAt(k)' = FuncAt(k)'
    BY <1>2 DEF Exact
  <2>3. \A j, k \in First' .. n - 1 : FuncAt(j)' = FuncAt(k)' => j = k
    BY <1>2 DEF Exact
  <2>4. {f \in Fun : due'[f] # Never} = {f \in Fun : due[f] # Never}
    OBVIOUS
  <2> QED BY <2>1, <2>2, <2>3, <2>4 DEF Exact
<1> QED BY <1>1, <1>3

(* The functions on the list have ticks left, or none. *)
LEMMA DueListed ==
    ASSUME TypeOK, NEW n, Exact(n), NEW k \in First .. n - 1
    PROVE  FuncAt(k) \in Fun /\ due[FuncAt(k)] \in Nat
<1>1. FuncAt(k) \in {f \in Fun : due[f] # Never}
  BY DEF Exact
<1> QED BY <1>1 DEF TypeOK

(* A tick leaves each one tick less, but never less than none. *)
LEMMA Ticked ==
    ASSUME TypeOK, Tick
    PROVE  /\ due' \in [Fun -> Nat \cup {Never}]
           /\ \A f \in Fun : /\ due'[f] # Never <=> due[f] # Never
                             /\ due[f] = 0 => due'[f] = 0
                             /\ due[f] \in Nat \ {0} => due'[f] = due[f] - 1
<1>1. \A f \in Fun : due[f] \in Nat \cup {Never}
  BY DEF TypeOK
<1>2. \A f \in Fun : due'[f] = IF due[f] \in {Never, 0} THEN due[f] ELSE due[f] - 1
  BY DEF Tick
<1>3. Never \notin Int
  BY CalloutAssumption
<1>4. ASSUME NEW f \in Fun
      PROVE  /\ due'[f] \in Nat \cup {Never}
             /\ due'[f] # Never <=> due[f] # Never
             /\ due[f] = 0 => due'[f] = 0
             /\ due[f] \in Nat \ {0} => due'[f] = due[f] - 1
  <2>1. CASE due[f] \in {Never, 0}
    BY <1>1, <1>2, <1>3, <2>1
  <2>2. CASE due[f] \notin {Never, 0}
    <3>1. due[f] \in Nat \ {0} /\ due'[f] = due[f] - 1
      BY <1>1, <1>2, <2>2
    <3>2. due[f] - 1 \in Nat /\ due[f] - 1 # Never
      BY <1>3, <3>1
    <3> QED BY <1>3, <3>1, <3>2
  <2> QED BY <2>1, <2>2
<1>5. due' \in [Fun -> Nat \cup {Never}]
  <2>1. due' = [f \in Fun |-> due'[f]]
    BY DEF Tick
  <2> QED BY <1>4, <2>1
<1> QED BY <1>4, <1>5

(* clock() finds an entry to decrement, if it is the one behind the last.  *)
LEMMA FirstIs ==
    ASSUME Others
    PROVE  FirstWaiting \in Index
<1> DEFINE S == {i \in Index : Waiting(i)}
<1>1. V_CALL \in Nat /\ V_CALL - 1 \in S
  BY CalloutAssumption DEF Others, Waiting, Index
<1>2. PICK i \in S : \A j \in S : i <= j
  <2>1. S \subseteq Nat /\ S # {}
    BY <1>1 DEF Index
  <2> HIDE DEF S
  <2> QED BY <2>1, LeastOne
<1>3. i \in Index /\ Waiting(i) /\ \A j \in 0 .. i - 1 : ~Waiting(j)
  <2>1. ASSUME NEW j \in 0 .. i - 1, Waiting(j) PROVE FALSE
    <3>1. j \in S /\ ~(i <= j) /\ i \in Int
      BY <1>1, <2>1 DEF Index
    <3> QED BY <1>2, <3>1
  <2> QED BY <2>1
<1> QED BY <1>3, Zenon DEF FirstWaiting

(* One entry has a tick less, or none has.                                 *)
LEMMA DecrementedIs ==
    ASSUME TypeOK, NEW c \in Index
    PROVE  /\ Decremented(c) \in [Index -> [c_func : Fun \cup {NoFun}, c_time : Int,
                                            c_arg : Fun \cup {NoFun}]]
           /\ \A i \in Index :
                 /\ Decremented(c)[i].c_func = callout[i].c_func
                 /\ Decremented(c)[i].c_arg = callout[i].c_arg
                 /\ Decremented(c)[i].c_time = IF i = c /\ callout[c].c_func # NoFun
                                               THEN callout[i].c_time - 1 ELSE callout[i].c_time
<1>1. CASE callout[c].c_func = NoFun
  BY <1>1 DEF Decremented, TypeOK
<1>2. CASE callout[c].c_func # NoFun
  <2>1. Decremented(c) = [callout EXCEPT ![c].c_time = callout[c].c_time - 1]
    BY <1>2 DEF Decremented
  <2> QED BY <1>2, <2>1 DEF TypeOK
<1> QED BY <1>1, <1>2

(* The table in either case. *)
LEMMA DecrementedOrNot ==
    ASSUME TypeOK, NEW c \in Index, NEW x, x = callout \/ x = Decremented(c)
    PROVE  /\ x \in [Index -> [c_func : Fun \cup {NoFun}, c_time : Int,
                                c_arg : Fun \cup {NoFun}]]
           /\ \A j \in Index :
                 /\ x[j].c_func = callout[j].c_func
                 /\ x[j].c_arg = callout[j].c_arg
                 /\ callout[j].c_time \in Int
                 /\ \/ x[j].c_time = callout[j].c_time
                    \/ j = c /\ x[j].c_time = callout[j].c_time - 1
<1>0. \A j \in Index : callout[j].c_time \in Int
  BY DEF TypeOK
<1>1. CASE x = callout
  BY <1>0, <1>1 DEF TypeOK
<1>2. CASE x = Decremented(c)
  <2>1. \A j \in Index :
           /\ x[j].c_func = callout[j].c_func
           /\ x[j].c_arg = callout[j].c_arg
           /\ x[j].c_time = IF j = c /\ callout[c].c_func # NoFun
                            THEN callout[j].c_time - 1 ELSE callout[j].c_time
    BY <1>2, DecrementedIs
  <2>2. x \in [Index -> [c_func : Fun \cup {NoFun}, c_time : Int,
                         c_arg : Fun \cup {NoFun}]]
    BY <1>2, DecrementedIs
  <2> QED BY <1>0, <2>1, <2>2
<1> QED BY <1>1, <1>2

(* The sums when one time has become one less. *)
LEMMA LessSums ==
    ASSUME NEW n \in Nat, \A k \in 0 .. n - 1 : TimeAt(k) \in Int, NEW c \in Int,
           \A k \in 0 .. n - 1 : TimeAt(k)' = IF k = c THEN TimeAt(k) - 1 ELSE TimeAt(k)
    PROVE  \A k \in 0 .. n - 1 :
               /\ Sums(List(n), n)[k + 1] \in Int
               /\ Sums(List(n)', n)[k + 1] = IF 0 <= c /\ c <= k
                                             THEN Sums(List(n), n)[k + 1] - 1
                                             ELSE Sums(List(n), n)[k + 1]
<1> DEFINE v == List(n)
           w == List(n)'
<1>1. \A k \in 0 .. n - 1 : v[k] = TimeAt(k) /\ w[k] = TimeAt(k)'
  BY DEF List
<1>2. \A k \in 0 .. n - 1 : v[k] \in Int
  BY <1>1
<1>3. \A k \in 0 .. n - 1 : w[k] = IF k = c THEN v[k] - 1 ELSE v[k]
  BY <1>1
<1> HIDE DEF v, w
<1>4. \A k \in 0 .. n :
          Sums(w, n)[k] = IF 0 <= c /\ c < k THEN Sums(v, n)[k] - 1 ELSE Sums(v, n)[k]
  BY <1>2, <1>3, SumsLess
<1>5. \A k \in 0 .. n : Sums(v, n)[k] \in Int
  BY <1>2, SumsAre
<1>6. ASSUME NEW k \in 0 .. n - 1
      PROVE  /\ Sums(v, n)[k + 1] \in Int
             /\ Sums(w, n)[k + 1] = IF 0 <= c /\ c <= k THEN Sums(v, n)[k + 1] - 1
                                    ELSE Sums(v, n)[k + 1]
  <2>1. k + 1 \in 0 .. n /\ (c < k + 1 <=> c <= k)
    OBVIOUS
  <2> QED BY <1>4, <1>5, <2>1
<1> QED BY <1>6 DEF v, w

(* Another tick while clock() runs: at most one entry of the list has a    *)
(* tick less, and every function has.                                      *)
LEMMA NestedTickKeeps == IndInv /\ NestedTick => IndInv'
<1> SUFFICES ASSUME IndInv, NestedTick PROVE IndInv'
  OBVIOUS
<1> DEFINE i == FirstWaiting
<1>0. /\ Others /\ TypeOK /\ V_CALL \in Nat /\ V_CALL >= 2 /\ MaxNested \in Nat
      /\ pc # "panic" /\ nested < MaxNested /\ nested' = nested + 1 /\ Tick
      /\ callout' = IF callout[0].c_func = NoFun THEN callout ELSE Decremented(i)
      /\ pc' = pc /\ cp' = cp /\ p1' = p1 /\ p2' = p2 /\ time' = time
  BY Whole, CalloutAssumption DEF NestedTick, Others
<1>1. i \in Index
  BY <1>0, FirstIs
<1> HIDE DEF i
<1>2. /\ callout' \in [Index -> [c_func : Fun \cup {NoFun}, c_time : Int,
                                 c_arg : Fun \cup {NoFun}]]
      /\ \A j \in Index :
            /\ callout'[j].c_func = callout[j].c_func
            /\ callout'[j].c_arg = callout[j].c_arg
            /\ callout[j].c_time \in Int
            /\ \/ callout'[j].c_time = callout[j].c_time
               \/ j = i /\ callout'[j].c_time = callout[j].c_time - 1
  <2>1. TypeOK
    BY <1>0
  <2>2. callout' = callout \/ callout' = Decremented(i)
    BY <1>0, Zenon
  <2> QED BY <1>1, <2>1, <2>2, DecrementedOrNot
<1>3. /\ due' \in [Fun -> Nat \cup {Never}]
      /\ \A f \in Fun : /\ due'[f] # Never <=> due[f] # Never
                        /\ due[f] = 0 => due'[f] = 0
                        /\ due[f] \in Nat \ {0} => due'[f] = due[f] - 1
  BY <1>0, Ticked
<1>4. Others'
  <2>1. nested' \in 0 .. MaxNested
    BY <1>0 DEF TypeOK
  <2>2. TypeOK'
    BY <1>0, <1>2, <1>3, <2>1 DEF TypeOK
  <2>3. 0 \in Index /\ V_CALL - 1 \in Index
    BY <1>0 DEF Index
  <2>4. pc = "calls" /\ p1 = 0 => callout'[0].c_func # NoFun /\ callout'[0].c_time <= 0
    BY <1>0, <1>2, <2>3 DEF Others
  <2> QED BY <1>0, <1>2, <2>2, <2>3, <2>4 DEF Others
<1>5. PICK n : Listed(n)
  BY <1>0, Whole
<1>6. /\ n \in 0 .. V_CALL - 1 - Gap /\ n \in Nat /\ First \in 0 .. n /\ Gap \in Nat
      /\ Gap' = Gap /\ First' = First /\ (Copying' <=> Copying)
      /\ (\A k, m : From(k, m)' = From(k, m)) /\ \A k : Pending(k)' = Pending(k)
  <2>1. n \in 0 .. V_CALL - 1 - Gap /\ Bounded(n)
    BY <1>5 DEF Listed
  <2>2. Gap \in Nat /\ n \in Nat
    <3>1. Gap \in Nat
      BY <1>0, <2>1 DEF Gap, Bounded, TypeOK, Index
    <3> QED BY <1>0, <2>1, <3>1
  <2>3. First \in 0 .. n
    <3>1. n \in 0 .. n
      BY <2>2
    <3> QED BY <1>0, <2>1, <3>1, ListTypes DEF Others
  <2>4. Gap' = Gap /\ First' = First /\ (Copying' <=> Copying)
    BY <1>0 DEF Gap, First, Copying
  <2>5. \A k : Pending(k)' = Pending(k)
    BY <1>0 DEF Pending
  <2> QED BY <2>1, <2>2, <2>3, <2>4, <2>5 DEF From
<1>7. p2 \in Int /\ p2 + 1 \in Int
  BY <1>0 DEF TypeOK, Index
<1>8. ASSUME NEW k \in 0 .. n, NEW m \in Int PROVE From(k, m) \in Index
  BY <1>0, <1>6 DEF From, Index
<1>9. \A k \in 0 .. n : FuncAt(k)' = FuncAt(k) /\ ArgAt(k)' = ArgAt(k)
  BY <1>0, <1>2, <1>6, <1>7, <1>8 DEF FuncAt, ArgAt
<1>10. \E c \in Int : \A k \in 0 .. n - 1 :
           TimeAt(k)' = IF k = c THEN TimeAt(k) - 1 ELSE TimeAt(k)
  <2> DEFINE m == IF pc = "arg" THEN p2 + 1 ELSE p2
  <2>1. ASSUME NEW k \in 0 .. n - 1, TimeAt(k)' # TimeAt(k)
        PROVE  From(k, m) = i /\ TimeAt(k)' = TimeAt(k) - 1
    <3>1. m \in Int /\ From(k, m) \in Index
      BY <1>6, <1>7, <1>8
    <3>2. ~(pc = "store" /\ k = p2)
      BY <1>0, <2>1 DEF TimeAt
    <3>3. TimeAt(k) = callout[From(k, m)].c_time /\ TimeAt(k)' = callout'[From(k, m)].c_time
      BY <1>0, <1>6, <3>2 DEF TimeAt
    <3> HIDE DEF m
    <3> QED BY <1>2, <2>1, <3>1, <3>3
  <2>2. CASE \A k \in 0 .. n - 1 : TimeAt(k)' = TimeAt(k)
    <3>1. -1 \in Int /\ \A k \in 0 .. n - 1 : k # -1
      BY <1>6
    <3> QED BY <2>2, <3>1
  <2>3. ASSUME NEW c \in 0 .. n - 1, TimeAt(c)' # TimeAt(c)
        PROVE  \A k \in 0 .. n - 1 :
                   TimeAt(k)' = IF k = c THEN TimeAt(k) - 1 ELSE TimeAt(k)
    <3>0. m \in Int
      BY <1>7
    <3> HIDE DEF m
    <3>1. ASSUME NEW k \in 0 .. n - 1, From(k, m) = From(c, m) PROVE k = c
      BY <1>6, <3>0, <3>1 DEF From
    <3>2. ASSUME NEW k \in 0 .. n - 1
          PROVE  TimeAt(k)' = IF k = c THEN TimeAt(k) - 1 ELSE TimeAt(k)
      <4>1. CASE k = c
        BY <2>1, <2>3, <4>1
      <4>2. CASE k # c
        <5>1. From(k, m) # From(c, m) /\ From(c, m) = i
          BY <2>1, <2>3, <3>1, <4>2
        <5>2. TimeAt(k)' = TimeAt(k)
          BY <2>1, <5>1
        <5> QED BY <4>2, <5>2
      <4> QED BY <4>1, <4>2
    <3> QED BY <3>2
  <2> QED BY <2>2, <2>3, SMTT(30)
<1>11. PICK c \in Int : \A k \in 0 .. n - 1 :
           TimeAt(k)' = IF k = c THEN TimeAt(k) - 1 ELSE TimeAt(k)
  BY <1>10
<1>12. InTime(n)'
  <2> DEFINE s == Sums(List(n), n)
             r == Sums(List(n)', n)
  <2>0. \A k \in 0 .. n - 1 : TimeAt(k) \in Int
    <3>1. Bounded(n) /\ \A k \in 0 .. n - 1 : k \in 0 .. n /\ k < n
      BY <1>5, <1>6 DEF Listed
    <3> QED BY <1>0, <1>6, <3>1, ListTypes DEF Others
  <2>1. \A k \in 0 .. n - 1 :
            s[k + 1] \in Int /\ r[k + 1] = IF 0 <= c /\ c <= k THEN s[k + 1] - 1 ELSE s[k + 1]
    BY <1>6, <1>11, <2>0, LessSums
  <2>2. InTime(n) /\ Exact(n)
    BY <1>5 DEF Listed
  <2>3. \A k \in First .. n - 1 :
            due[FuncAt(k)] # 0 => due[FuncAt(k)] <= s[k + 1] - Pending(k)
    BY <2>2 DEF InTime
  <2> HIDE DEF s, r
  <2>4. ASSUME NEW k \in First .. n - 1, due'[FuncAt(k)] # 0
        PROVE  due'[FuncAt(k)] <= r[k + 1] - Pending(k)
    <3>1. k \in 0 .. n - 1 /\ Pending(k) \in Int
      BY <1>6 DEF Pending
    <3>2. FuncAt(k) \in Fun /\ due[FuncAt(k)] \in Nat
      BY <1>0, <2>2, DueListed
    <3>3. due[FuncAt(k)] # 0 /\ due'[FuncAt(k)] = due[FuncAt(k)] - 1
      BY <1>3, <2>4, <3>2
    <3>4. due[FuncAt(k)] <= s[k + 1] - Pending(k)
      BY <2>3, <3>3
    <3>5. r[k + 1] >= s[k + 1] - 1 /\ s[k + 1] \in Int /\ r[k + 1] \in Int
      BY <2>1, <3>1
    <3> QED BY <3>1, <3>2, <3>3, <3>4, <3>5
  <2>5. \A k \in First' .. n - 1 :
            due'[FuncAt(k)'] # 0 => due'[FuncAt(k)'] <= r[k + 1] - Pending(k)'
    <3>1. \A k \in First .. n - 1 : k \in 0 .. n
      BY <1>6
    <3> QED BY <1>6, <1>9, <2>4, <3>1
  <2> QED BY <2>5 DEF InTime, r
<1>13. Ends(n)' /\ Exact(n)'
  <2>1. /\ \A k \in 0 .. n : FuncAt(k)' = FuncAt(k)
        /\ \A k \in 0 .. n - 1 : ArgAt(k)' = ArgAt(k)
    BY <1>6, <1>9
  <2>2. Ends(n) /\ Exact(n) /\ First' = First /\ First \in Nat
    BY <1>5, <1>6 DEF Listed
  <2> QED BY <1>3, <1>6, <2>1, <2>2, SameFuncs
<1>14. Bounded(n)'
  <2>1. ASSUME NEW k \in 0 .. First - 1 PROVE callout'[k].c_time <= 0
    <3>1. k \in Index /\ callout[k].c_time <= 0
      <4>1. k \in Index
        BY <1>0, <1>6 DEF Index
      <4> QED BY <1>5, <4>1 DEF Listed, Bounded
    <3> QED BY <1>2, <3>1
  <2> QED BY <1>0, <1>5, <1>6, <2>1 DEF Bounded, Listed
<1>15. Listed(n)'
  BY <1>6, <1>12, <1>13, <1>14 DEF Listed
<1> QED BY <1>4, <1>15, WholeAfter
-----------------------------------------------------------------------------
(* Where no gap is being closed.                                           *)
LEMMA PlainTypes ==
    ASSUME IndInv, pc \in Plain, pc # "panic", NEW n, Listed(n)
    PROVE  /\ V_CALL \in Nat /\ V_CALL >= 2 /\ Others /\ TypeOK
           /\ n \in Nat /\ n <= V_CALL - 1 /\ First \in 0 .. n
           /\ Ends(n) /\ Exact(n) /\ InTime(n)
           /\ \A k \in 0 .. n : k \in Index
           /\ \A k \in 0 .. First - 1 : callout[k].c_time <= 0
           /\ \A k \in 0 .. n - 1 : TimeAt(k) \in Int
<1>1. V_CALL \in Nat /\ V_CALL >= 2 /\ Others /\ TypeOK
  BY Whole, CalloutAssumption DEF Others
<1>2. Gap = 0 /\ n \in 0 .. V_CALL - 1 - Gap
  BY Table DEF Listed
<1>3. n \in Nat /\ n <= V_CALL - 1
  BY <1>1, <1>2
<1>4. Bounded(n) /\ Ends(n) /\ Exact(n) /\ InTime(n)
  BY DEF Listed
<1>5. n \in 0 .. n /\ \A k \in 0 .. n - 1 : k \in 0 .. n /\ k < n
  BY <1>3
<1>6. First \in 0 .. n
  BY <1>1, <1>2, <1>4, <1>5, ListTypes DEF Others
<1>7. \A k \in 0 .. n - 1 : TimeAt(k) \in Int
  BY <1>1, <1>2, <1>4, <1>5, ListTypes DEF Others
<1>8. \A k \in 0 .. n : k \in Index
  BY <1>1, <1>3 DEF Index
<1> QED BY <1>1, <1>3, <1>4, <1>6, <1>7, <1>8 DEF Bounded

(* clock() decrements the entry that it has found: the tick that was not   *)
(* in the table is.                                                        *)
LEMMA DecKeeps == IndInv /\ Dec => IndInv'
<1> SUFFICES ASSUME IndInv, Dec PROVE IndInv'
  OBVIOUS
<1>0. /\ pc = "dec" /\ pc' = "test" /\ callout' = Decremented(cp) /\ cp' = 0
      /\ p1' = p1 /\ p2' = p2 /\ time' = time /\ nested' = nested /\ due' = due
      /\ pc \in Plain /\ pc' \in Plain /\ pc # "panic" /\ First = 0 /\ First' = 0
  BY DEF Dec, Plain, First
<1>1. PICK n : Listed(n)
  BY <1>0, Whole
<1>2. /\ V_CALL \in Nat /\ V_CALL >= 2 /\ Others /\ TypeOK
      /\ n \in Nat /\ n <= V_CALL - 1
      /\ Ends(n) /\ Exact(n) /\ InTime(n)
      /\ \A k \in 0 .. n : k \in Index
      /\ \A k \in 0 .. n - 1 : TimeAt(k) \in Int
  BY <1>0, <1>1, PlainTypes
<1>3. cp \in Index /\ cp \in Int
  BY <1>2 DEF TypeOK, Index
<1>4. /\ callout' \in [Index -> [c_func : Fun \cup {NoFun}, c_time : Int,
                                 c_arg : Fun \cup {NoFun}]]
      /\ \A i \in Index :
            /\ callout'[i].c_func = callout[i].c_func
            /\ callout'[i].c_arg = callout[i].c_arg
            /\ callout'[i].c_time = IF i = cp /\ callout[cp].c_func # NoFun
                                    THEN callout[i].c_time - 1 ELSE callout[i].c_time
  BY <1>0, <1>2, <1>3, DecrementedIs
<1>5. Others'
  <2>1. 0 \in Index /\ V_CALL - 1 \in Index
    BY <1>2 DEF Index
  <2>2. TypeOK'
    BY <1>0, <1>2, <1>4, <2>1 DEF TypeOK
  <2>3. callout'[V_CALL - 1].c_func = NoFun
    BY <1>2, <1>4, <2>1 DEF Others
  <2> QED BY <1>0, <1>2, <2>2, <2>3 DEF Others
<1>6. \A k \in 0 .. n : /\ FuncAt(k) = callout[k].c_func /\ TimeAt(k) = callout[k].c_time
                        /\ ArgAt(k) = callout[k].c_arg
                        /\ FuncAt(k)' = callout'[k].c_func /\ TimeAt(k)' = callout'[k].c_time
                        /\ ArgAt(k)' = callout'[k].c_arg
  BY <1>0, <1>2, Table, TableAfter
<1>7. Gap' = 0 /\ ~Copying'
  BY <1>0, TableAfter
<1>8. Ends(n)' /\ Exact(n)'
  <2>1. /\ \A k \in 0 .. n : FuncAt(k)' = FuncAt(k)
        /\ \A k \in 0 .. n - 1 : ArgAt(k)' = ArgAt(k)
    BY <1>2, <1>4, <1>6
  <2>2. First' = First /\ First \in Nat /\ \A f \in Fun : due'[f] # Never <=> due[f] # Never
    BY <1>0
  <2> QED BY <1>2, <2>1, <2>2, SameFuncs
<1>9. \A k \in 0 .. n - 1 : TimeAt(k)' = IF k = cp THEN TimeAt(k) - 1 ELSE TimeAt(k)
  <2>1. ASSUME NEW k \in 0 .. n - 1
        PROVE  TimeAt(k)' = IF k = cp THEN TimeAt(k) - 1 ELSE TimeAt(k)
    <3>1. k \in 0 .. n /\ k \in Index
      BY <1>2
    <3>2. callout[k].c_func # NoFun
      BY <1>2, <1>6, <3>1 DEF Ends
    <3> QED BY <1>4, <1>6, <3>1, <3>2
  <2> QED BY <2>1
<1>10. InTime(n)'
  <2> DEFINE s == Sums(List(n), n)
             r == Sums(List(n)', n)
  <2>1. \A k \in 0 .. n - 1 :
            s[k + 1] \in Int /\ r[k + 1] = IF 0 <= cp /\ cp <= k THEN s[k + 1] - 1 ELSE s[k + 1]
    BY <1>2, <1>3, <1>9, LessSums
  <2>2. \A k \in First .. n - 1 :
            due[FuncAt(k)] # 0 => due[FuncAt(k)] <= s[k + 1] - Pending(k)
    BY <1>2 DEF InTime
  <2> HIDE DEF s, r
  <2>3. ASSUME NEW k \in 0 .. n - 1, due'[FuncAt(k)'] # 0
        PROVE  due'[FuncAt(k)'] <= r[k + 1] - Pending(k)'
    <3>1. k \in First .. n - 1 /\ k \in 0 .. n /\ k \in Index
      BY <1>0, <1>2
    <3>2. FuncAt(k)' = FuncAt(k)
      BY <1>4, <1>6, <3>1
    <3>3. FuncAt(k) \in Fun /\ due[FuncAt(k)] \in Nat
      BY <1>2, <3>1, DueListed
    <3>4. due[FuncAt(k)] <= s[k + 1] - Pending(k)
      BY <1>0, <2>2, <2>3, <3>1, <3>2
    <3>5. Pending(k)' = 0 /\ Pending(k) = IF cp <= k THEN 1 ELSE 0
      BY <1>0 DEF Pending
    <3>6. 0 <= cp
      BY <1>2, <1>3 DEF Index
    <3>7. r[k + 1] = s[k + 1] - Pending(k) /\ s[k + 1] \in Int
      BY <2>1, <3>5, <3>6
    <3> QED BY <1>0, <3>2, <3>3, <3>4, <3>5, <3>7
  <2> QED BY <1>0, <2>3 DEF InTime, r
<1>11. Listed(n)'
  <2>1. n \in 0 .. V_CALL - 1 - Gap'
    BY <1>2, <1>7
  <2>2. Bounded(n)'
    BY <1>0, <1>2, <1>7 DEF Bounded
  <2> QED BY <1>8, <1>10, <2>1, <2>2 DEF Listed
<1> QED BY <1>5, <1>11, WholeAfter

(* A tick: clock() finds the entry to decrement.                           *)
LEMMA ScanKeeps == IndInv /\ Scan => IndInv'
<1> SUFFICES ASSUME IndInv, Scan PROVE IndInv'
  OBVIOUS
<1> DEFINE fw == FirstWaiting
<1>0. /\ pc = "idle" /\ Tick /\ pc' \in {"test", "dec"}
      /\ pc' = IF callout[0].c_func = NoFun THEN "test" ELSE "dec"
      /\ cp' = IF callout[0].c_func = NoFun THEN cp ELSE fw
      /\ callout' = callout
      /\ p1' = p1 /\ p2' = p2 /\ time' = time /\ nested' = nested
      /\ pc \in Plain /\ pc' \in Plain /\ pc # "panic" /\ First = 0 /\ First' = 0
  BY DEF Scan, Plain, First
<1>1. PICK n : Listed(n)
  BY <1>0, Whole
<1>2. /\ V_CALL \in Nat /\ V_CALL >= 2 /\ Others /\ TypeOK
      /\ n \in Nat /\ n <= V_CALL - 1
      /\ Ends(n) /\ Exact(n) /\ InTime(n)
      /\ \A k \in 0 .. n : k \in Index
      /\ \A k \in 0 .. n - 1 : TimeAt(k) \in Int
  BY <1>0, <1>1, PlainTypes
<1>3. fw \in Index
  BY <1>2, FirstIs
<1> HIDE DEF fw
<1>4. /\ due' \in [Fun -> Nat \cup {Never}]
      /\ \A f \in Fun : /\ due'[f] # Never <=> due[f] # Never
                        /\ due[f] = 0 => due'[f] = 0
                        /\ due[f] \in Nat \ {0} => due'[f] = due[f] - 1
  BY <1>0, <1>2, Ticked
<1>5. Others'
  <2>1. cp' \in Index
    <3>1. cp \in Index
      BY <1>2 DEF TypeOK
    <3> QED BY <1>0, <1>3, <3>1
  <2>2. TypeOK'
    BY <1>0, <1>2, <1>4, <2>1 DEF TypeOK
  <2> QED BY <1>0, <1>2, <2>2 DEF Others
<1>6. \A k \in 0 .. n : /\ FuncAt(k) = callout[k].c_func /\ TimeAt(k) = callout[k].c_time
                        /\ ArgAt(k) = callout[k].c_arg
                        /\ FuncAt(k)' = callout[k].c_func /\ TimeAt(k)' = callout[k].c_time
                        /\ ArgAt(k)' = callout[k].c_arg
  <2>1. ASSUME NEW k \in 0 .. n PROVE k \in Int
    OBVIOUS
  <2> QED BY <1>0, <2>1, Table, TableAfter
<1>7. Gap' = 0 /\ ~Copying'
  BY <1>0, TableAfter
<1>8. Ends(n)' /\ Exact(n)'
  <2>1. /\ \A k \in 0 .. n : FuncAt(k)' = FuncAt(k)
        /\ \A k \in 0 .. n - 1 : ArgAt(k)' = ArgAt(k)
    BY <1>2, <1>6
  <2>2. First' = First /\ First \in Nat
    BY <1>0
  <2> QED BY <1>2, <1>4, <2>1, <2>2, SameFuncs
<1>9. InTime(n)'
  <2> DEFINE v == List(n)
             s == Sums(v, n)
  <2>1. List(n)' = v /\ \A k \in 0 .. n - 1 : v[k] = callout[k].c_time /\ v[k] \in Int
    <3>1. \A k \in 0 .. n - 1 : k \in 0 .. n
      BY <1>2
    <3>2. List(n)' = List(n)
      BY <1>6, <3>1 DEF List
    <3> QED BY <1>2, <1>6, <3>1, <3>2 DEF List
  <2> HIDE DEF v
  <2>2. \A k \in 0 .. n : s[k] \in Int
    BY <1>2, <2>1, SumsAre
  <2>3. \A k \in First .. n - 1 :
            due[FuncAt(k)] # 0 => due[FuncAt(k)] <= s[k + 1] - Pending(k)
    BY <1>2 DEF InTime, v
  <2> HIDE DEF s
  <2>5. ASSUME NEW k \in 0 .. n - 1, due'[FuncAt(k)'] # 0
        PROVE  due'[FuncAt(k)'] <= s[k + 1] - Pending(k)'
    <3>1. k \in First .. n - 1 /\ k \in 0 .. n /\ k + 1 \in 0 .. n
      BY <1>0, <1>2
    <3>2. FuncAt(k)' = FuncAt(k) /\ callout[k].c_func # NoFun
      BY <1>2, <1>6, <3>1 DEF Ends
    <3>3. FuncAt(k) \in Fun /\ due[FuncAt(k)] \in Nat
      BY <1>2, <3>1, DueListed
    <3>4. due[FuncAt(k)] # 0 /\ due'[FuncAt(k)] = due[FuncAt(k)] - 1
      BY <1>4, <2>5, <3>2, <3>3
    <3>5. Pending(k) = 0
      BY <1>0 DEF Pending
    <3>6. due[FuncAt(k)] <= s[k + 1] /\ s[k + 1] \in Int
      BY <2>2, <2>3, <3>1, <3>4, <3>5
    <3>7. Pending(k)' \in {0, 1}
      BY DEF Pending
    <3> QED BY <3>2, <3>3, <3>4, <3>6, <3>7
  <2>6. \A k \in First' .. n - 1 :
            due'[FuncAt(k)'] # 0 => due'[FuncAt(k)'] <= s[k + 1] - Pending(k)'
    BY <1>0, <2>5
  <2> QED BY <2>1, <2>6 DEF InTime, s
<1>10. Listed(n)'
  <2>1. n \in 0 .. V_CALL - 1 - Gap'
    BY <1>2, <1>7
  <2>2. Bounded(n)'
    BY <1>0, <1>2, <1>7 DEF Bounded
  <2> QED BY <1>8, <1>9, <2>1, <2>2 DEF Listed
<1> QED BY <1>5, <1>10, WholeAfter
-----------------------------------------------------------------------------
(* timein() calls a function: it was in the list once, and is not any more. *)
LEMMA CallKeeps == IndInv /\ Call => IndInv'
<1> SUFFICES ASSUME IndInv, Call PROVE IndInv'
  OBVIOUS
<1>0. /\ pc = "calls" /\ pc' = "function" /\ IsDue
      /\ due' = [due EXCEPT ![callout[p1].c_func] = Never]
      /\ callout' = callout /\ cp' = cp /\ p1' = p1 /\ p2' = p2 /\ time' = time
      /\ nested' = nested
      /\ pc \in Plain /\ pc' \in Plain /\ pc # "panic" /\ First = p1 /\ First' = p1 + 1
  BY DEF Call, Plain, First
<1>1. PICK n : Listed(n)
  BY <1>0, Whole
<1>2. /\ V_CALL \in Nat /\ V_CALL >= 2 /\ Others /\ TypeOK
      /\ n \in Nat /\ n <= V_CALL - 1 /\ p1 \in 0 .. n
      /\ Ends(n) /\ Exact(n) /\ InTime(n)
      /\ \A k \in 0 .. n : k \in Index
      /\ \A k \in 0 .. p1 - 1 : callout[k].c_time <= 0
  BY <1>0, <1>1, PlainTypes
<1>3. \A k \in 0 .. n : /\ FuncAt(k) = callout[k].c_func /\ TimeAt(k) = callout[k].c_time
                        /\ ArgAt(k) = callout[k].c_arg
                        /\ FuncAt(k)' = callout[k].c_func /\ TimeAt(k)' = callout[k].c_time
                        /\ ArgAt(k)' = callout[k].c_arg
  <2>1. ASSUME NEW k \in 0 .. n PROVE k \in Int
    OBVIOUS
  <2> QED BY <1>0, <2>1, Table, TableAfter
<1>4. Gap' = 0 /\ ~Copying'
  BY <1>0, TableAfter
<1> DEFINE g == callout[p1].c_func
<1>5. g # NoFun /\ callout[p1].c_time <= 0 /\ p1 < n
  <2>1. g # NoFun /\ callout[p1].c_time <= 0
    BY <1>0 DEF IsDue
  <2>2. n \in 0 .. n /\ FuncAt(n) = NoFun
    BY <1>2 DEF Ends
  <2> QED BY <1>2, <1>3, <2>1, <2>2
<1>6. g \in Fun /\ FuncAt(p1) = g /\ p1 \in First .. n - 1
  <2>1. p1 \in First .. n - 1 /\ p1 \in 0 .. n
    BY <1>0, <1>2, <1>5
  <2> QED BY <1>2, <1>3, <2>1, DueListed
<1> HIDE DEF g
<1>7. /\ due' \in [Fun -> Nat \cup {Never}] /\ due'[g] = Never
      /\ \A f \in Fun : f # g => due'[f] = due[f]
  BY <1>0, <1>2, <1>6 DEF TypeOK, g
<1>8. Others'
  <2>1. TypeOK'
    BY <1>0, <1>2, <1>7 DEF TypeOK
  <2> QED BY <1>0, <1>2, <2>1 DEF Others
<1>9. Ends(n)'
  <2>1. n \in 0 .. n /\ \A k \in 0 .. n - 1 : k \in 0 .. n
    BY <1>2
  <2> QED BY <1>2, <1>3, <2>1 DEF Ends
<1>10. \A k \in p1 + 1 .. n - 1 :
           /\ k \in First .. n - 1 /\ k \in 0 .. n /\ k # p1
           /\ FuncAt(k)' = FuncAt(k) /\ FuncAt(k) \in Fun /\ FuncAt(k) # g
  <2>1. ASSUME NEW k \in p1 + 1 .. n - 1
        PROVE  /\ k \in First .. n - 1 /\ k \in 0 .. n /\ k # p1
               /\ FuncAt(k)' = FuncAt(k) /\ FuncAt(k) \in Fun /\ FuncAt(k) # g
    <3>1. k \in First .. n - 1 /\ k \in 0 .. n /\ k # p1
      BY <1>0, <1>2
    <3>2. FuncAt(k)' = FuncAt(k)
      BY <1>3, <3>1
    <3>3. FuncAt(k) \in Fun
      BY <1>2, <3>1, DueListed
    <3>4. FuncAt(k) # FuncAt(p1)
      BY <1>2, <1>6, <3>1 DEF Exact
    <3> QED BY <1>6, <3>1, <3>2, <3>3, <3>4
  <2> QED BY <2>1
<1>11. Exact(n)'
  <2>1. {FuncAt(k)' : k \in First' .. n - 1} = {f \in Fun : due'[f] # Never}
    <3>1. ASSUME NEW k \in First' .. n - 1
          PROVE  FuncAt(k)' \in {f \in Fun : due'[f] # Never}
      <4>1. k \in p1 + 1 .. n - 1
        BY <1>0
      <4>2. FuncAt(k) \in {f \in Fun : due[f] # Never}
        BY <1>2, <1>10, <4>1 DEF Exact
      <4> QED BY <1>7, <1>10, <4>1, <4>2
    <3>2. ASSUME NEW f \in Fun, due'[f] # Never
          PROVE  \E k \in First' .. n - 1 : FuncAt(k)' = f
      <4>1. f # g /\ due[f] # Never
        BY <1>7, <3>2
      <4>2. f \in {FuncAt(k) : k \in First .. n - 1}
        BY <1>2, <4>1 DEF Exact
      <4>3. PICK k \in First .. n - 1 : FuncAt(k) = f
        BY <4>2
      <4>4. k # p1
        BY <1>6, <4>1, <4>3
      <4>5. k \in p1 + 1 .. n - 1
        BY <1>0, <1>2, <4>4
      <4> QED BY <1>0, <1>10, <4>3, <4>5
    <3> QED BY <3>1, <3>2
  <2>2. \A k \in First' .. n - 1 : ArgAt(k)' = FuncAt(k)'
    <3>1. ASSUME NEW k \in First' .. n - 1 PROVE ArgAt(k)' = FuncAt(k)'
      <4>1. k \in First .. n - 1 /\ k \in 0 .. n
        BY <1>0, <1>10
      <4> QED BY <1>2, <1>3, <4>1 DEF Exact
    <3> QED BY <3>1
  <2>3. \A j, k \in First' .. n - 1 : FuncAt(j)' = FuncAt(k)' => j = k
    <3>1. ASSUME NEW j \in First' .. n - 1, NEW k \in First' .. n - 1, FuncAt(j)' = FuncAt(k)'
          PROVE  j = k
      <4>1. /\ j \in First .. n - 1 /\ k \in First .. n - 1
            /\ FuncAt(j)' = FuncAt(j) /\ FuncAt(k)' = FuncAt(k)
        BY <1>0, <1>10
      <4> QED BY <1>2, <3>1, <4>1 DEF Exact
    <3> QED BY <3>1
  <2> QED BY <2>1, <2>2, <2>3 DEF Exact
<1>12. InTime(n)'
  <2>1. List(n)' = List(n)
    <3>1. \A k \in 0 .. n - 1 : k \in 0 .. n
      BY <1>2
    <3> QED BY <1>3, <3>1 DEF List
  <2>2. \A k : Pending(k)' = 0 /\ Pending(k) = 0
    BY <1>0 DEF Pending
  <2>3. ASSUME NEW k \in p1 + 1 .. n - 1, due'[FuncAt(k)'] # 0
        PROVE  due'[FuncAt(k)'] <= Sums(List(n), n)[k + 1] - 0
    <3>1. k \in First .. n - 1 /\ FuncAt(k)' = FuncAt(k) /\ due'[FuncAt(k)] = due[FuncAt(k)]
      BY <1>7, <1>10
    <3> QED BY <1>2, <2>2, <2>3, <3>1 DEF InTime
  <2> QED BY <1>0, <2>1, <2>2, <2>3 DEF InTime
<1>13. Listed(n)'
  <2>1. n \in 0 .. V_CALL - 1 - Gap'
    BY <1>2, <1>4
  <2>2. Bounded(n)'
    <3>1. \A k \in 0 .. (p1 + 1) - 1 : callout[k].c_time <= 0
      <4>1. \A k \in 0 .. (p1 + 1) - 1 : k \in 0 .. p1 - 1 \/ k = p1
        BY <1>2
      <4> QED BY <1>2, <1>5, <4>1
    <3>2. p1 + 1 <= n
      BY <1>2, <1>5
    <3> QED BY <1>0, <1>4, <3>1, <3>2 DEF Bounded
  <2> QED BY <1>9, <1>11, <1>12, <2>1, <2>2 DEF Listed
<1> QED BY <1>8, <1>13, WholeAfter

(* Nothing more is due: what was called makes the gap, and the rest is the *)
(* list.                                                                   *)
LEMMA CalledKeeps == IndInv /\ Called => IndInv'
<1> SUFFICES ASSUME IndInv, Called PROVE IndInv'
  OBVIOUS
<1>0. /\ pc = "calls" /\ pc' = "func" /\ ~IsDue /\ p2' = 0
      /\ callout' = callout /\ cp' = cp /\ p1' = p1 /\ time' = time
      /\ nested' = nested /\ due' = due
      /\ pc \in Plain /\ pc # "panic" /\ Copying' /\ First = p1 /\ First' = 0
  BY DEF Called, Plain, First, Copying
<1>1. PICK n : Listed(n)
  BY <1>0, Whole
<1>2. /\ V_CALL \in Nat /\ V_CALL >= 2 /\ Others /\ TypeOK
      /\ n \in Nat /\ n <= V_CALL - 1 /\ p1 \in 0 .. n
      /\ Ends(n) /\ Exact(n) /\ InTime(n)
      /\ \A k \in 0 .. n : k \in Index
      /\ \A k \in 0 .. p1 - 1 : callout[k].c_time <= 0
      /\ \A k \in 0 .. n - 1 : TimeAt(k) \in Int
  BY <1>0, <1>1, PlainTypes
<1>m. PICK m : m = n - p1
  OBVIOUS
<1>3. p1 # 0 /\ p1 \in Nat /\ m \in Nat /\ m = n - p1 /\ m + p1 = n
  <2>1. p1 # 0
    BY <1>0, <1>2 DEF Others, IsDue
  <2> QED BY <1>2, <1>m, <2>1
<1>4. Others'
  <2>1. 0 \in Index
    BY <1>2, <1>3 DEF Index
  <2>2. TypeOK'
    BY <1>0, <1>2, <1>3, <2>1 DEF TypeOK
  <2> QED BY <1>0, <1>2, <1>3, <2>2 DEF Others
<1>5. Gap' = p1
  BY <1>0, <1>3 DEF Gap
<1>6. ASSUME NEW k \in 0 .. m
      PROVE  /\ k + p1 \in 0 .. n /\ (k # m => k + p1 \in First .. n - 1)
             /\ FuncAt(k)' = FuncAt(k + p1) /\ TimeAt(k)' = TimeAt(k + p1)
             /\ ArgAt(k)' = ArgAt(k + p1)
  <2>1. k + p1 \in 0 .. n /\ (k # m => k + p1 \in First .. n - 1)
    BY <1>0, <1>2, <1>3
  <2>2. From(k, 0)' = k + p1
    BY <1>5 DEF From
  <2>3. /\ FuncAt(k)' = callout[k + p1].c_func /\ TimeAt(k)' = callout[k + p1].c_time
        /\ ArgAt(k)' = callout[k + p1].c_arg
    BY <1>0, <2>2 DEF FuncAt, TimeAt, ArgAt
  <2>4. k + p1 \in Int
    BY <1>2, <1>3
  <2> QED BY <1>0, <2>1, <2>3, <2>4, Table
<1>7. Ends(m)'
  <2>1. FuncAt(m)' = NoFun
    <3>1. m \in 0 .. m /\ m + p1 = n
      BY <1>2, <1>3
    <3> QED BY <1>2, <1>3, <1>6, <3>1 DEF Ends
  <2>2. ASSUME NEW k \in 0 .. m - 1 PROVE FuncAt(k)' # NoFun
    <3>1. k \in 0 .. m /\ k + p1 \in 0 .. n - 1
      BY <1>2, <1>3
    <3> QED BY <1>2, <1>3, <1>6, <3>1 DEF Ends
  <2> QED BY <2>1, <2>2 DEF Ends
<1>8. \A k \in 0 .. m - 1 : /\ k \in 0 .. m /\ k + p1 \in First .. n - 1
                                 /\ FuncAt(k)' = FuncAt(k + p1) /\ ArgAt(k)' = ArgAt(k + p1)
  <2>1. ASSUME NEW k \in 0 .. m - 1 PROVE k \in 0 .. m /\ k # m
    BY <1>2, <1>3
  <2> QED BY <1>6, <2>1
<1>9. Exact(m)'
  <2>1. {FuncAt(k)' : k \in 0 .. m - 1} = {FuncAt(k) : k \in First .. n - 1}
    <3>1. ASSUME NEW k \in First .. n - 1
          PROVE  \E j \in 0 .. m - 1 : FuncAt(j)' = FuncAt(k)
      <4>1. k - p1 \in 0 .. m - 1 /\ (k - p1) + p1 = k
        BY <1>0, <1>2, <1>3
      <4> QED BY <1>8, <4>1
    <3> QED BY <1>8, <3>1
  <2>2. {f \in Fun : due'[f] # Never} = {f \in Fun : due[f] # Never}
    BY <1>0
  <2>3. \A k \in 0 .. m - 1 : ArgAt(k)' = FuncAt(k)'
    BY <1>2, <1>3, <1>8 DEF Exact
  <2>4. ASSUME NEW j \in 0 .. m - 1, NEW k \in 0 .. m - 1, FuncAt(j)' = FuncAt(k)'
        PROVE  j = k
    <3>1. j + p1 = k + p1
      BY <1>2, <1>3, <1>8, <2>4 DEF Exact
    <3> QED BY <1>2, <1>3, <3>1
  <2> QED BY <1>0, <1>2, <1>3, <2>1, <2>2, <2>3, <2>4 DEF Exact
<1>10. InTime(m)'
  <2>v. PICK v : v = List(n)
    OBVIOUS
  <2>w. PICK w : w = List(m)'
    OBVIOUS
  <2> DEFINE s == Sums(v, n)
             r == Sums(w, m)
  <2>1. \A k \in 0 .. n - 1 : v[k] = TimeAt(k) /\ v[k] \in Int
    BY <1>2, <1>3, <2>v DEF List
  <2>2. \A k \in 0 .. m - 1 : w[k] = TimeAt(k)'
    BY <2>w DEF List
  <2>3. \A k \in 0 .. m - 1 : w[k] = v[k + p1]
    <3>1. ASSUME NEW k \in 0 .. m - 1 PROVE k \in 0 .. m /\ k + p1 \in 0 .. n - 1
      BY <1>2, <1>3
    <3> QED BY <1>6, <2>1, <2>2, <3>1
  <2>4. \A k \in First .. n - 1 :
            due[FuncAt(k)] # 0 => due[FuncAt(k)] <= s[k + 1] - Pending(k)
    BY <1>2, <1>3, <2>v DEF InTime
  <2>a. \A k \in 0 .. n - 1 : v[k] \in Int
    BY <2>1
  <2>5. \A k \in 0 .. m : r[k] = s[k + p1] - s[p1]
    <3>1. Drops(v, n, w, m, p1)
      BY <1>2, <1>3, <2>a, <2>3 DEF Drops
    <3> QED BY <3>1, SumsDrop
  <2>6. \A k \in 0 .. n : s[k] \in Int
    BY <1>2, <1>3, <2>a, SumsAre
  <2>7. s[p1] <= 0
    <3>1. \A k \in 0 .. p1 - 1 : v[k] <= 0
      <4>1. \A k \in 0 .. p1 - 1 : k \in 0 .. n - 1 /\ k \in Int
        BY <1>2, <1>3
      <4>2. \A k \in 0 .. p1 - 1 : v[k] = callout[k].c_time
        BY <1>0, <2>1, <4>1, Table
      <4> QED BY <1>2, <1>3, <4>2
    <3>2. \A k \in 0 .. p1 : Sums(v, n)[k] <= 0
      BY <1>2, <1>3, <2>a, <3>1, SumsLow
    <3>3. p1 \in 0 .. p1
      BY <1>3
    <3> QED BY <3>2, <3>3
  <2> HIDE DEF s, r
  <2>8. ASSUME NEW k \in 0 .. m - 1, due'[FuncAt(k)'] # 0
        PROVE  due'[FuncAt(k)'] <= r[k + 1] - Pending(k)'
    <3>1. k + p1 \in First .. n - 1 /\ FuncAt(k)' = FuncAt(k + p1)
      BY <1>8
    <3>2. /\ k + 1 \in 0 .. m /\ (k + 1) + p1 = (k + p1) + 1
          /\ (k + p1) + 1 \in 0 .. n
      BY <1>2, <1>3
    <3>3. Pending(k)' = 0 /\ Pending(k + p1) = 0
      BY <1>0 DEF Pending
    <3>4. due[FuncAt(k + p1)] \in Nat
      BY <1>2, <1>3, <3>1, DueListed
    <3>5. due[FuncAt(k + p1)] <= s[(k + p1) + 1] - 0
      BY <1>0, <2>4, <2>8, <3>1, <3>3
    <3>6. r[k + 1] = s[(k + p1) + 1] - s[p1]
      BY <2>5, <3>2
    <3>7. s[(k + p1) + 1] \in Int /\ s[p1] \in Int
      BY <1>2, <1>3, <2>6, <3>2
    <3> QED BY <1>0, <2>7, <3>1, <3>3, <3>4, <3>5, <3>6, <3>7
  <2>9. \A k \in First' .. m - 1 :
            due'[FuncAt(k)'] # 0 => due'[FuncAt(k)'] <= r[k + 1] - Pending(k)'
    BY <1>0, <2>8
  <2> QED BY <2>9, <2>w DEF InTime, r
<1>11. Listed(m)'
  <2>1. m \in 0 .. V_CALL - 1 - Gap'
    BY <1>2, <1>3, <1>5
  <2>2. Bounded(m)'
    BY <1>0, <1>2, <1>3 DEF Bounded
  <2> QED BY <1>7, <1>9, <1>10, <2>1, <2>2 DEF Listed
<1>12. \E l : Listed(l)'
  BY <1>11
<1> QED BY <1>4, <1>12, WholeAfter
-----------------------------------------------------------------------------
(* The length of the table is that of the list. *)
LEMMA LengthIs ==
    ASSUME IndInv, pc \in Plain, pc # "panic", NEW n, Listed(n)
    PROVE  Length = n
<1>1. /\ V_CALL \in Nat /\ n \in Nat /\ n <= V_CALL - 1 /\ Ends(n)
      /\ \A k \in 0 .. n : k \in Index
  BY PlainTypes
<1>2. \A k \in Int : FuncAt(k) = callout[k].c_func
  BY Table
<1>3. /\ n \in Index /\ callout[n].c_func = NoFun
      /\ \A i \in 0 .. n - 1 : callout[i].c_func # NoFun
  <2>1. n \in 0 .. n /\ \A i \in 0 .. n - 1 : i \in Int
    BY <1>1
  <2> QED BY <1>1, <1>2, <2>1 DEF Ends
<1>4. /\ Length \in Index /\ callout[Length].c_func = NoFun
      /\ \A i \in 0 .. Length - 1 : callout[i].c_func # NoFun
  BY <1>3, Zenon DEF Length
<1>5. Length \in Nat
  BY <1>1, <1>4 DEF Index
<1> QED BY <1>1, <1>3, <1>4, <1>5

(* The time that elapses until an entry is the sum of the list up to it.   *)
LEMMA ElapsedIs ==
    ASSUME IndInv, pc \in Plain, pc # "panic", NEW n, Listed(n), NEW i \in 0 .. n
    PROVE  Elapsed(i) = Sums(List(n), n)[i]
<1>1. /\ V_CALL \in Nat /\ n \in Nat /\ n <= V_CALL - 1 /\ TypeOK
      /\ \A k \in 0 .. n - 1 : TimeAt(k) \in Int
  BY PlainTypes
<1>2. \A k \in Int : TimeAt(k) = callout[k].c_time
  BY Table
<1>3. PICK v : v = List(n)
  OBVIOUS
<1>4. PICK w : w = [j \in Index |-> callout[j].c_time]
  OBVIOUS
<1>5. \A k \in 0 .. n - 1 : v[k] = callout[k].c_time /\ v[k] \in Int
  BY <1>1, <1>2, <1>3 DEF List
<1>6. \A k \in 0 .. n - 1 : v[k] \in Int
  BY <1>5
<1>7. \A k \in 0 .. i - 1 : w[k] = v[k] /\ w[k] \in Int
  <2>1. \A k \in 0 .. i - 1 : k \in Index /\ k \in 0 .. n - 1
    BY <1>1 DEF Index
  <2> QED BY <1>4, <1>5, <2>1
<1>8. \A k \in 0 .. i - 1 : w[k] \in Int
  BY <1>7
<1>9. \A k \in 0 .. i - 1 : w[k] = v[k]
  BY <1>7
<1>10. i \in Nat /\ i <= i /\ i \in 0 .. i
  BY <1>1
<1>11. \A k \in 0 .. i : Sums(w, i)[k] = Sums(v, n)[k]
  BY <1>1, <1>6, <1>8, <1>9, <1>10, SumsSame
<1>12. Sums(w, i)[i] = Sums(v, n)[i]
  BY <1>10, <1>11
<1> QED BY <1>3, <1>4, <1>12 DEF Elapsed

(* The place of a new entry: behind what was called, which is due, and     *)
(* before the first that comes later.                                      *)
LEMMA PlaceIs ==
    ASSUME IndInv, pc \in Plain, pc # "panic", NEW n, Listed(n), NEW t \in Nat, t > 0
    PROVE  Place(t) \in 0 .. n /\ First <= Place(t)
<1>1. /\ V_CALL \in Nat /\ n \in Nat /\ n <= V_CALL - 1 /\ TypeOK /\ First \in 0 .. n
      /\ \A k \in 0 .. First - 1 : callout[k].c_time <= 0
      /\ \A k \in 0 .. n - 1 : TimeAt(k) \in Int
  BY PlainTypes
<1>2. Length = n
  BY LengthIs
<1>3. PICK v : v = List(n)
  OBVIOUS
<1>4. \A k \in 0 .. n - 1 : v[k] = TimeAt(k) /\ v[k] \in Int
  BY <1>1, <1>3 DEF List
<1>5. \A k \in 0 .. n - 1 : v[k] \in Int
  BY <1>4
<1>6. PICK s : s = Sums(v, n)
  OBVIOUS
<1>7. \A k \in 0 .. n : s[k] \in Int
  BY <1>1, <1>5, <1>6, SumsAre
<1>8. \A k \in 0 .. n : Elapsed(k) = s[k]
  BY <1>3, <1>6, ElapsedIs
<1> DEFINE S == {i \in 0 .. n : i < n => s[i + 1] > t}
<1>9. PICK i \in S : \A j \in S : i <= j
  <2>1. S \subseteq Nat /\ n \in S
    BY <1>1
  <2> HIDE DEF S
  <2>2. S # {}
    BY <2>1
  <2> QED BY <2>1, <2>2, LeastOne
<1>10. /\ i \in 0 .. Length /\ (i < Length => Elapsed(i + 1) > t)
       /\ \A j \in 0 .. i - 1 : Elapsed(j + 1) <= t
  <2>1. i < n => Elapsed(i + 1) > t
    BY <1>1, <1>8, <1>9
  <2>2. ASSUME NEW j \in 0 .. i - 1 PROVE Elapsed(j + 1) <= t
    <3>1. j \in 0 .. n /\ j < n /\ j + 1 \in 0 .. n /\ ~(i <= j)
      BY <1>1, <1>9
    <3>2. ~(s[j + 1] > t)
      BY <1>9, <3>1
    <3> QED BY <1>7, <1>8, <3>1, <3>2
  <2> QED BY <1>2, <1>9, <2>1, <2>2
<1>11. /\ Place(t) \in 0 .. Length
       /\ Place(t) < Length => Elapsed(Place(t) + 1) > t
  <2>1. \E j \in 0 .. Length : /\ j < Length => Elapsed(j + 1) > t
                               /\ \A k \in 0 .. j - 1 : Elapsed(k + 1) <= t
    BY <1>10
  <2> QED BY <2>1, Zenon DEF Place
<1>12. ASSUME Place(t) < First PROVE FALSE
  <2>1. PICK k : k = Place(t)
    OBVIOUS
  <2>2. k \in 0 .. n /\ k < n /\ k + 1 \in 0 .. n /\ k + 1 \in 0 .. k + 1
    BY <1>1, <1>2, <1>11, <1>12, <2>1
  <2>3. s[k + 1] > t
    BY <1>2, <1>8, <1>11, <2>1, <2>2
  <2>4. \A j \in 0 .. (k + 1) - 1 : v[j] <= 0
    <3>1. ASSUME NEW j \in 0 .. (k + 1) - 1 PROVE v[j] <= 0
      <4>1. j \in 0 .. First - 1 /\ j \in 0 .. n - 1 /\ j \in Int
        BY <1>1, <1>12, <2>1, <2>2
      <4>2. v[j] = callout[j].c_time
        BY <1>4, <4>1, Table
      <4> QED BY <1>1, <4>1, <4>2
    <3> QED BY <3>1
  <2>5. \A j \in 0 .. k + 1 : Sums(v, n)[j] <= 0
    BY <1>1, <1>5, <2>2, <2>4, SumsLow
  <2>6. s[k + 1] <= 0 /\ s[k + 1] \in Int
    BY <1>6, <1>7, <2>2, <2>5
  <2> QED BY <2>3, <2>6
<1> QED BY <1>1, <1>2, <1>11, <1>12

(* timeout() has no room, and the system panics. *)
LEMMA EnterPanics ==
    ASSUME IndInv, pc \in {"idle", "function"}, NEW f \in Fun, NEW t \in Times,
           Enter(f, t), Full
    PROVE  IndInv'
<1>1. /\ pc' = "panic" /\ callout' = callout /\ due' = due
      /\ cp' = cp /\ p1' = p1 /\ p2' = p2 /\ time' = time /\ nested' = nested /\ Others
  BY Whole DEF Enter
<1>2. TypeOK'
  BY <1>1 DEF Others, TypeOK
<1>3. Others'
  BY <1>1, <1>2 DEF Others
<1> QED BY <1>1, <1>3, WholeAfter

(* What timeout() makes of the table. *)
LEMMA EnterTable ==
    ASSUME IndInv, pc \in {"idle", "function"}, NEW f \in Fun, NEW t \in Times,
           Enter(f, t), ~Full, NEW n, Listed(n), NEW i, i = Place(t),
           NEW d, d = t - Sums(List(n), n)[i]
    PROVE  \A k \in Index :
               /\ callout'[k].c_func = CASE k < i -> callout[k].c_func
                                         [] k = i -> f
                                         [] k > i /\ k <= n + 1 -> callout[k - 1].c_func
                                         [] OTHER -> callout[k].c_func
               /\ callout'[k].c_arg = CASE k < i -> callout[k].c_arg
                                        [] k = i -> f
                                        [] k > i /\ k <= n + 1 -> callout[k - 1].c_arg
                                        [] OTHER -> callout[k].c_arg
               /\ callout'[k].c_time = CASE k < i -> callout[k].c_time
                                         [] k = i -> d
                                         [] k = i + 1 /\ k <= n -> callout[k - 1].c_time - d
                                         [] (k = i + 1 /\ k = n + 1)
                                            \/ (k > i + 1 /\ k <= n + 1) -> callout[k - 1].c_time
                                         [] OTHER -> callout[k].c_time
               /\ callout'[k] \in [c_func : Fun \cup {NoFun}, c_time : Int,
                                   c_arg : Fun \cup {NoFun}]
<1>0. pc \in Plain /\ pc # "panic" /\ t \in Nat /\ t > 0
  BY CalloutAssumption DEF Plain
<1>1. /\ V_CALL \in Nat /\ n \in Nat /\ n <= V_CALL - 1 /\ TypeOK
      /\ \A k \in 0 .. n : k \in Index
      /\ \A k \in 0 .. n - 1 : TimeAt(k) \in Int
  BY <1>0, PlainTypes
<1>2. i \in 0 .. n /\ Length = n
  BY <1>0, PlaceIs, LengthIs
<1>3. Elapsed(i) = Sums(List(n), n)[i] /\ t - Elapsed(i) = d
  BY <1>0, <1>2, ElapsedIs
<1>4. d \in Int
  <2>1. \A k \in 0 .. n - 1 : List(n)[k] \in Int
    BY <1>1 DEF List
  <2>2. Sums(List(n), n)[i] \in Int
    BY <1>1, <1>2, <2>1, SumsAre
  <2> QED BY <1>0, <2>2
<1> DEFINE X(k) == [callout[k - 1] EXCEPT !.c_time = @ - (t - Elapsed(k - 1))]
<1>5. callout' = [k \in Index |->
          CASE k < i -> callout[k]
            [] k = i -> Entry(f, t - Elapsed(k))
            [] k = i + 1 /\ k <= n -> X(k)
            [] k \in i + 2 .. n \/ k = n + 1 -> callout[k - 1]
            [] OTHER -> callout[k]]
  BY <1>2 DEF Enter
<1> HIDE DEF X
<1>6. ASSUME NEW k \in Index
      PROVE  callout[k] \in [c_func : Fun \cup {NoFun}, c_time : Int, c_arg : Fun \cup {NoFun}]
  BY <1>1 DEF TypeOK
<1> SUFFICES ASSUME NEW k \in Index
             PROVE  /\ callout'[k].c_func = CASE k < i -> callout[k].c_func
                                              [] k = i -> f
                                              [] k > i /\ k <= n + 1 -> callout[k - 1].c_func
                                              [] OTHER -> callout[k].c_func
                    /\ callout'[k].c_arg = CASE k < i -> callout[k].c_arg
                                             [] k = i -> f
                                             [] k > i /\ k <= n + 1 -> callout[k - 1].c_arg
                                             [] OTHER -> callout[k].c_arg
                    /\ callout'[k].c_time =
                          CASE k < i -> callout[k].c_time
                            [] k = i -> d
                            [] k = i + 1 /\ k <= n -> callout[k - 1].c_time - d
                            [] (k = i + 1 /\ k = n + 1)
                               \/ (k > i + 1 /\ k <= n + 1) -> callout[k - 1].c_time
                            [] OTHER -> callout[k].c_time
                    /\ callout'[k] \in [c_func : Fun \cup {NoFun}, c_time : Int,
                                        c_arg : Fun \cup {NoFun}]
  OBVIOUS
<1>7. k \in Nat /\ i \in Nat
  BY <1>1, <1>2 DEF Index
<1>8. CASE k < i
  <2>0. k # i + 1 /\ k \notin i + 2 .. n /\ k # n + 1
    BY <1>1, <1>2, <1>7, <1>8
  <2>1. callout'[k] = callout[k]
    BY <1>5, <1>7, <1>8, <2>0
  <2> QED BY <1>1, <1>6, <1>7, <1>8, <2>1
<1>9. CASE k = i
  <2>0. k # i + 1 /\ k \notin i + 2 .. n /\ k # n + 1
    BY <1>1, <1>2, <1>7, <1>9
  <2>1. callout'[k] = Entry(f, t - Elapsed(i))
    BY <1>5, <1>7, <1>9, <2>0
  <2>2. callout'[k] = [c_func |-> f, c_time |-> d, c_arg |-> f]
    BY <1>3, <2>1 DEF Entry
  <2> QED BY <1>1, <1>4, <1>7, <1>9, <2>2
<1>10. CASE k = i + 1 /\ k <= n
  <2>0. k - 1 = i /\ k - 1 \in Index /\ ~(k < i) /\ k # i /\ k \notin i + 2 .. n /\ k # n + 1
    BY <1>1, <1>2, <1>7, <1>10
  <2>1. callout'[k] = X(k)
    BY <1>5, <1>10, <2>0
  <2>2. callout'[k] = [callout[k - 1] EXCEPT !.c_time = callout[k - 1].c_time - d]
    BY <1>3, <2>0, <2>1 DEF X
  <2>3. /\ callout'[k].c_func = callout[k - 1].c_func /\ callout'[k].c_arg = callout[k - 1].c_arg
        /\ callout'[k].c_time = callout[k - 1].c_time - d
        /\ callout'[k] \in [c_func : Fun \cup {NoFun}, c_time : Int, c_arg : Fun \cup {NoFun}]
    BY <1>4, <1>6, <2>0, <2>2
  <2> QED BY <1>1, <1>7, <1>10, <2>3
<1>11. CASE k > i /\ k <= n + 1 /\ ~(k = i + 1 /\ k <= n)
  <2>1. callout'[k] = callout[k - 1] /\ k - 1 \in Index
    BY <1>1, <1>2, <1>5, <1>7, <1>11 DEF Index
  <2>2. (k = i + 1 /\ k = n + 1) \/ (k > i + 1 /\ k <= n + 1)
    BY <1>1, <1>2, <1>7, <1>11
  <2> QED BY <1>1, <1>6, <1>7, <1>11, <2>1, <2>2
<1>12. CASE k > n + 1
  <2>1. callout'[k] = callout[k]
    BY <1>1, <1>2, <1>5, <1>7, <1>12
  <2> QED BY <1>1, <1>2, <1>6, <1>7, <1>12, <2>1
<1> QED BY <1>1, <1>2, <1>7, <1>8, <1>9, <1>10, <1>11, <1>12

(* timeout() puts a function in its place: it is due when it should be,    *)
(* and all others stay what they were.                                     *)
LEMMA EnterKeeps ==
    ASSUME IndInv, pc \in {"idle", "function"}, NEW f \in Fun, NEW t \in Times, Enter(f, t)
    PROVE  IndInv'
<1>1. CASE Full
  BY <1>1, EnterPanics
<1>2. CASE ~Full
  <2>0. /\ pc' = pc /\ due' = [due EXCEPT ![f] = t] /\ due[f] = Never
        /\ cp' = cp /\ p1' = p1 /\ p2' = p2 /\ time' = time /\ nested' = nested
        /\ callout' = [k \in Index |-> callout'[k]]
    BY <1>2 DEF Enter
  <2>1. /\ pc \in Plain /\ pc' \in Plain /\ pc # "panic" /\ pc # "dec" /\ pc # "calls"
        /\ t \in Nat /\ t > 0 /\ First' = First
    BY <2>0, CalloutAssumption DEF Plain, First
  <2>2. PICK n : Listed(n)
    BY <2>1, Whole
  <2>3. /\ V_CALL \in Nat /\ V_CALL >= 2 /\ Others /\ TypeOK
        /\ n \in Nat /\ n <= V_CALL - 1 /\ First \in 0 .. n
        /\ Ends(n) /\ Exact(n) /\ InTime(n)
        /\ \A k \in 0 .. n : k \in Index
        /\ \A k \in 0 .. First - 1 : callout[k].c_time <= 0
        /\ \A k \in 0 .. n - 1 : TimeAt(k) \in Int
    BY <2>1, <2>2, PlainTypes
  <2>4. \A k \in Int : /\ FuncAt(k) = callout[k].c_func /\ TimeAt(k) = callout[k].c_time
                       /\ ArgAt(k) = callout[k].c_arg
                       /\ FuncAt(k)' = callout'[k].c_func /\ TimeAt(k)' = callout'[k].c_time
                       /\ ArgAt(k)' = callout'[k].c_arg
    BY <2>1, Table, TableAfter
  <2>5. Gap' = 0 /\ ~Copying'
    BY <2>1, TableAfter
  <2>6. n <= V_CALL - 2
    <3>1. V_CALL - 2 \in 0 .. V_CALL - 1 /\ callout[V_CALL - 2].c_func = NoFun
      BY <1>2, <2>3 DEF Full
    <3>2. V_CALL - 2 \notin 0 .. n - 1
      BY <2>3, <2>4, <3>1 DEF Ends
    <3> QED BY <2>3, <3>1, <3>2
  <2>7. PICK i : i = Place(t)
    OBVIOUS
  <2>8. i \in 0 .. n /\ First <= i
    BY <2>1, <2>2, <2>7, PlaceIs
  <2>9. PICK v : v = List(n)
    OBVIOUS
  <2>10. PICK d : d = t - Sums(v, n)[i]
    OBVIOUS
  <2>11. \A k \in Index :
             /\ callout'[k].c_func = CASE k < i -> callout[k].c_func
                                       [] k = i -> f
                                       [] k > i /\ k <= n + 1 -> callout[k - 1].c_func
                                       [] OTHER -> callout[k].c_func
             /\ callout'[k].c_arg = CASE k < i -> callout[k].c_arg
                                      [] k = i -> f
                                      [] k > i /\ k <= n + 1 -> callout[k - 1].c_arg
                                      [] OTHER -> callout[k].c_arg
             /\ callout'[k].c_time = CASE k < i -> callout[k].c_time
                                       [] k = i -> d
                                       [] k = i + 1 /\ k <= n -> callout[k - 1].c_time - d
                                       [] (k = i + 1 /\ k = n + 1)
                                          \/ (k > i + 1 /\ k <= n + 1) -> callout[k - 1].c_time
                                       [] OTHER -> callout[k].c_time
             /\ callout'[k] \in [c_func : Fun \cup {NoFun}, c_time : Int,
                                 c_arg : Fun \cup {NoFun}]
    <3>1. d = t - Sums(List(n), n)[i]
      BY <2>9, <2>10
    <3> QED BY <1>2, <2>2, <2>7, <3>1, EnterTable
  <2>12. Others'
    <3>1. callout' \in [Index -> [c_func : Fun \cup {NoFun}, c_time : Int,
                                  c_arg : Fun \cup {NoFun}]]
      BY <2>0, <2>11
    <3>2. due' \in [Fun -> Nat \cup {Never}]
      BY <2>0, <2>1, <2>3 DEF TypeOK
    <3>3. TypeOK'
      BY <2>0, <2>3, <3>1, <3>2 DEF TypeOK
    <3>4. callout'[V_CALL - 1].c_func = NoFun
      <4>1. V_CALL - 1 \in Index /\ V_CALL - 1 > i /\ ~(V_CALL - 1 < i) /\ V_CALL - 1 # i
        BY <2>3, <2>6, <2>8 DEF Index
      <4>2. CASE V_CALL - 1 <= n + 1
        <5>1. (V_CALL - 1) - 1 = n
          BY <2>3, <2>6, <4>2
        <5>2. callout[n].c_func = NoFun
          BY <2>3, <2>4 DEF Ends
        <5> QED BY <2>11, <4>1, <4>2, <5>1, <5>2
      <4>3. CASE ~(V_CALL - 1 <= n + 1)
        BY <2>3, <2>11, <4>1, <4>3 DEF Others
      <4> QED BY <4>2, <4>3
    <3> QED BY <2>0, <2>1, <2>3, <3>3, <3>4 DEF Others
  <2>13. \A k \in 0 .. n + 1 :
             /\ FuncAt(k)' = IF k < i THEN FuncAt(k) ELSE IF k = i THEN f ELSE FuncAt(k - 1)
             /\ ArgAt(k)' = IF k < i THEN ArgAt(k) ELSE IF k = i THEN f ELSE ArgAt(k - 1)
    <3>1. ASSUME NEW k \in 0 .. n + 1
          PROVE  /\ FuncAt(k)' = IF k < i THEN FuncAt(k) ELSE IF k = i THEN f ELSE FuncAt(k - 1)
                 /\ ArgAt(k)' = IF k < i THEN ArgAt(k) ELSE IF k = i THEN f ELSE ArgAt(k - 1)
      <4>1. k \in Index /\ k \in Int /\ k - 1 \in Int
        BY <2>3, <2>6 DEF Index
      <4>2. CASE k < i
        <5>1. k < i /\ k # i /\ ~(k > i)
          BY <2>3, <2>8, <4>1, <4>2
        <5>2. callout'[k].c_func = callout[k].c_func /\ callout'[k].c_arg = callout[k].c_arg
          BY <2>11, <4>1, <5>1
        <5> QED BY <2>4, <4>1, <5>1, <5>2
      <4>3. CASE k = i
        BY <2>4, <2>11, <4>1, <4>3
      <4>4. CASE k > i
        <5>1. k > i /\ k <= n + 1 /\ ~(k < i) /\ k # i
          BY <2>3, <2>8, <4>1, <4>4
        <5>2. callout'[k].c_func = callout[k - 1].c_func /\ callout'[k].c_arg = callout[k - 1].c_arg
          BY <2>11, <4>1, <5>1
        <5> QED BY <2>4, <4>1, <5>1, <5>2
      <4> QED BY <2>8, <4>1, <4>2, <4>3, <4>4
    <3> QED BY <3>1
  <2>14. \A k \in 0 .. n : TimeAt(k)' = CASE k < i -> TimeAt(k)
                                          [] k = i -> d
                                          [] k = i + 1 -> TimeAt(k - 1) - d
                                          [] k > i + 1 -> TimeAt(k - 1)
    <3>1. ASSUME NEW k \in 0 .. n
          PROVE  TimeAt(k)' = CASE k < i -> TimeAt(k)
                                [] k = i -> d
                                [] k = i + 1 -> TimeAt(k - 1) - d
                                [] k > i + 1 -> TimeAt(k - 1)
      <4>1. k \in Index /\ k \in Int /\ k - 1 \in Int /\ k <= n /\ k # n + 1 /\ i \in Int
        BY <2>3, <2>8
      <4>2. CASE k < i
        BY <2>4, <2>11, <4>1, <4>2
      <4>3. CASE k = i
        BY <2>4, <2>11, <4>1, <4>3
      <4>4. CASE k = i + 1
        BY <2>4, <2>11, <4>1, <4>4
      <4>5. CASE k > i + 1
        <5>1. callout'[k].c_time = callout[k - 1].c_time
          BY <2>3, <2>11, <4>1, <4>5
        <5> QED BY <2>4, <4>1, <4>5, <5>1
      <4> QED BY <4>1, <4>2, <4>3, <4>4, <4>5
    <3> QED BY <3>1
  <2>15. Ends(n + 1)'
    <3>1. FuncAt(n + 1)' = NoFun
      <4>1. n + 1 \in 0 .. n + 1 /\ ~(n + 1 < i) /\ n + 1 # i /\ (n + 1) - 1 = n
        BY <2>3, <2>8
      <4> QED BY <2>3, <2>13, <4>1 DEF Ends
    <3>2. ASSUME NEW k \in 0 .. (n + 1) - 1 PROVE FuncAt(k)' # NoFun
      <4>1. /\ k \in 0 .. n + 1 /\ (k < i => k \in 0 .. n - 1)
            /\ (~(k < i) /\ k # i => k - 1 \in 0 .. n - 1)
        BY <2>3, <2>8
      <4> QED BY <2>3, <2>13, <4>1, CalloutAssumption DEF Ends
    <3> QED BY <3>1, <3>2 DEF Ends
  <2>16. \A k \in First .. n : /\ k \in 0 .. n + 1
                               /\ k < i => k \in First .. n - 1
                               /\ ~(k < i) /\ k # i => k - 1 \in First .. n - 1
    BY <2>3, <2>8
  <2>17. \A k \in First .. n - 1 : FuncAt(k) \in {g \in Fun : due[g] # Never} /\ FuncAt(k) # f
    <3>1. \A k \in First .. n - 1 : FuncAt(k) \in {g \in Fun : due[g] # Never}
      BY <2>3 DEF Exact
    <3> QED BY <2>0, <3>1
  <2>18. due'[f] = t /\ \A g \in Fun : g # f => due'[g] = due[g]
    BY <2>0, <2>3 DEF TypeOK
  <2>19. Exact(n + 1)'
    <3>0. (n + 1) - 1 = n /\ i \in First .. n /\ t # Never
      BY <2>1, <2>3, <2>8, CalloutAssumption
    <3>1. {FuncAt(k)' : k \in First' .. (n + 1) - 1} = {g \in Fun : due'[g] # Never}
      <4>1. ASSUME NEW k \in First .. n PROVE FuncAt(k)' \in {g \in Fun : due'[g] # Never}
        <5>1. CASE k = i
          BY <2>8, <2>13, <2>16, <2>18, <3>0, <5>1
        <5>2. CASE k # i
          BY <2>13, <2>16, <2>17, <2>18, <5>2
        <5> QED BY <5>1, <5>2
      <4>2. ASSUME NEW g \in Fun, due'[g] # Never PROVE \E k \in First .. n : FuncAt(k)' = g
        <5>1. CASE g = f
          BY <2>8, <2>13, <2>16, <3>0, <5>1
        <5>2. CASE g # f
          <6>1. g \in {FuncAt(k) : k \in First .. n - 1}
            BY <2>3, <2>18, <4>2, <5>2 DEF Exact
          <6>2. PICK k \in First .. n - 1 : FuncAt(k) = g
            BY <6>1
          <6>3. CASE k < i
            <7>1. k \in First .. n /\ k \in 0 .. n + 1
              BY <2>3
            <7> QED BY <2>13, <6>2, <6>3, <7>1
          <6>4. CASE ~(k < i)
            <7>1. k + 1 \in First .. n /\ k + 1 \in 0 .. n + 1 /\ ~(k + 1 < i) /\ k + 1 # i
                  /\ (k + 1) - 1 = k
              BY <2>3, <2>8, <6>4
            <7> QED BY <2>13, <6>2, <7>1
          <6> QED BY <6>3, <6>4
        <5> QED BY <5>1, <5>2
      <4> QED BY <2>1, <3>0, <4>1, <4>2
    <3>2. \A k \in First .. n : ArgAt(k)' = FuncAt(k)'
      BY <2>3, <2>13, <2>16 DEF Exact
    <3>3. ASSUME NEW j \in First .. n, NEW k \in First .. n, FuncAt(j)' = FuncAt(k)' PROVE j = k
      <4>a. j \in Int /\ k \in Int /\ i \in Int
        BY <2>3, <2>8
      <4>1. CASE j = i \/ k = i
        BY <2>13, <2>16, <2>17, <3>3, <4>1
      <4>2. CASE j # i /\ k # i
        <5> DEFINE J == IF j < i THEN j ELSE j - 1
                   K == IF k < i THEN k ELSE k - 1
        <5>1. J \in First .. n - 1 /\ K \in First .. n - 1
          BY <2>16, <4>2
        <5>2. FuncAt(J) = FuncAt(K)
          BY <2>13, <2>16, <3>3, <4>2
        <5>3. J = K
          BY <2>3, <5>1, <5>2 DEF Exact
        <5> QED BY <4>a, <4>2, <5>3
      <4> QED BY <4>1, <4>2
    <3> QED BY <2>1, <3>0, <3>1, <3>2, <3>3 DEF Exact
  <2>20. InTime(n + 1)'
    <3>1. PICK w : w = List(n + 1)'
      OBVIOUS
    <3>2. \A k \in 0 .. n - 1 : v[k] = TimeAt(k) /\ v[k] \in Int
      BY <2>3, <2>9 DEF List
    <3>3. \A k \in 0 .. n : w[k] = TimeAt(k)'
      <4>1. (n + 1) - 1 = n
        BY <2>3
      <4> QED BY <3>1, <4>1 DEF List
    <3>4. Inserts(v, n, w, i, t)
      <4>1. \A k \in 0 .. n - 1 : v[k] \in Int
        BY <3>2
      <4>2. ASSUME NEW k \in 0 .. i - 1 PROVE w[k] = v[k]
        <5>1. k \in 0 .. n /\ k \in 0 .. n - 1 /\ k < i /\ ~(k = i) /\ ~(k = i + 1) /\ ~(k > i + 1)
          BY <2>3, <2>8
        <5> QED BY <2>14, <3>2, <3>3, <5>1
      <4>3. w[i] = d
        BY <2>8, <2>14, <3>3
      <4>4. ASSUME i < n PROVE w[i + 1] = v[i] - d
        <5>1. /\ i + 1 \in 0 .. n /\ i \in 0 .. n - 1 /\ ~(i + 1 < i) /\ i + 1 # i
              /\ (i + 1) - 1 = i /\ ~(i + 1 > i + 1)
          BY <2>3, <2>8, <4>4
        <5> QED BY <2>14, <3>2, <3>3, <5>1
      <4>5. ASSUME NEW k \in i + 2 .. n PROVE w[k] = v[k - 1]
        <5>1. /\ k \in 0 .. n /\ k - 1 \in 0 .. n - 1 /\ k > i + 1 /\ ~(k < i) /\ k # i /\ k # i + 1
          BY <2>3, <2>8
        <5> QED BY <2>14, <3>2, <3>3, <5>1
      <4> QED BY <2>1, <2>3, <2>8, <2>10, <4>1, <4>2, <4>3, <4>4, <4>5 DEF Inserts
    <3>5. PICK s : s = Sums(v, n)
      OBVIOUS
    <3>6. PICK r : r = Sums(w, n + 1)
      OBVIOUS
    <3>7. /\ \A k \in 0 .. i : r[k] = s[k]
          /\ r[i + 1] = t
          /\ \A k \in i + 2 .. n + 1 : r[k] = s[k - 1]
      BY <3>4, <3>5, <3>6, SumsInsert
    <3>8. \A k : Pending(k) = 0 /\ Pending(k)' = 0
      BY <2>0, <2>1 DEF Pending
    <3>a. \A k \in 0 .. n : s[k] \in Int
      <4>1. \A k \in 0 .. n - 1 : v[k] \in Int
        BY <3>2
      <4> QED BY <2>3, <3>5, <4>1, SumsAre
    <3>9. \A k \in First .. n - 1 : due[FuncAt(k)] # 0 => due[FuncAt(k)] <= s[k + 1]
      <4>1. ASSUME NEW k \in First .. n - 1, due[FuncAt(k)] # 0
            PROVE  due[FuncAt(k)] <= s[k + 1]
        <5>1. due[FuncAt(k)] <= s[k + 1] - 0
          BY <2>3, <2>9, <3>5, <3>8, <4>1 DEF InTime
        <5>2. s[k + 1] \in Int /\ due[FuncAt(k)] \in Nat
          <6>1. k + 1 \in 0 .. n
            BY <2>3
          <6> QED BY <2>3, <3>a, <6>1, DueListed
        <5> QED BY <5>1, <5>2
      <4> QED BY <4>1
    <3>10. ASSUME NEW k \in First .. n, due'[FuncAt(k)'] # 0
           PROVE  due'[FuncAt(k)'] <= r[k + 1] - 0
      <4>0. k \in Int /\ i \in Int /\ n \in Int /\ k <= n
        BY <2>3, <2>8
      <4>1. CASE k = i
        BY <2>1, <2>13, <2>16, <2>18, <3>7, <4>1
      <4>2. CASE k < i
        <5>1. /\ k \in First .. n - 1 /\ k + 1 \in 0 .. i /\ k + 1 \in 0 .. n
              /\ FuncAt(k)' = FuncAt(k)
          BY <2>3, <2>8, <2>13, <2>16, <4>2
        <5>2. due'[FuncAt(k)] = due[FuncAt(k)]
          BY <2>17, <2>18, <5>1
        <5>3. r[k + 1] = s[k + 1] /\ s[k + 1] \in Int
          BY <3>7, <3>a, <5>1
        <5>4. due[FuncAt(k)] <= s[k + 1]
          BY <3>9, <3>10, <5>1, <5>2
        <5> QED BY <5>1, <5>2, <5>3, <5>4
      <4>3. CASE k > i
        <5>0. ~(k < i) /\ k # i
          BY <4>0, <4>3
        <5>1. /\ k - 1 \in First .. n - 1 /\ k + 1 \in i + 2 .. n + 1 /\ k \in 0 .. n
              /\ (k + 1) - 1 = k /\ (k - 1) + 1 = k
          BY <2>3, <2>8, <2>16, <4>0, <4>3, <5>0
        <5>a. FuncAt(k)' = FuncAt(k - 1)
          BY <2>13, <2>16, <5>0
        <5>2. due'[FuncAt(k - 1)] = due[FuncAt(k - 1)]
          BY <2>17, <2>18, <5>1
        <5>3. r[k + 1] = s[k] /\ s[k] \in Int
          BY <3>7, <3>a, <5>1
        <5>4. due[FuncAt(k - 1)] <= s[k]
          BY <3>9, <3>10, <5>1, <5>2, <5>a
        <5> QED BY <5>2, <5>3, <5>4, <5>a
      <4> QED BY <4>0, <4>1, <4>2, <4>3
    <3>11. (n + 1) - 1 = n
      BY <2>3
    <3> QED BY <2>1, <3>1, <3>6, <3>8, <3>10, <3>11 DEF InTime
  <2>21. Listed(n + 1)'
    <3>1. n + 1 \in 0 .. V_CALL - 1 - Gap'
      BY <2>3, <2>5, <2>6
    <3>2. Bounded(n + 1)'
      <4>1. ASSUME NEW k \in 0 .. First - 1 PROVE callout'[k].c_time <= 0
        <5>1. k \in Index /\ k < i /\ ~(k = i) /\ ~(k = i + 1) /\ ~(k > i + 1)
          BY <2>3, <2>8
        <5>2. callout'[k].c_time = callout[k].c_time
          BY <2>11, <5>1
        <5> QED BY <2>3, <5>2
      <4>2. First <= n + 1
        BY <2>3
      <4> QED BY <2>1, <2>5, <4>1, <4>2 DEF Bounded
    <3> QED BY <2>15, <2>19, <2>20, <3>1, <3>2 DEF Listed
  <2>22. \E m : Listed(m)'
    BY <2>21
  <2> QED BY <2>12, <2>22, WholeAfter
<1> QED BY <1>1, <1>2
-----------------------------------------------------------------------------
(* Every step keeps the table as it should be. *)
LEMMA NextKeeps == IndInv /\ [Next]_vars => IndInv'
<1> SUFFICES ASSUME IndInv, [Next]_vars PROVE IndInv'
  OBVIOUS
<1>1. CASE Scan
  BY <1>1, ScanKeeps
<1>2. CASE Dec
  BY <1>2, DecKeeps
<1>3. CASE Test
  BY <1>3, TestKeeps
<1>4. CASE Done
  BY <1>4, DoneKeeps
<1>5. CASE Call
  BY <1>5, CallKeeps
<1>6. CASE FunctionReturns
  BY <1>6, FunctionReturnsKeeps
<1>7. CASE Called
  BY <1>7, CalledKeeps
<1>8. CASE CopyFunc
  BY <1>8, CopyFuncKeeps
<1>9. CASE LoadTime
  BY <1>9, LoadTimeKeeps
<1>10. CASE StoreTime
  BY <1>10, StoreTimeKeeps
<1>11. CASE CopyArg
  BY <1>11, CopyArgKeeps
<1>12. CASE NestedTick
  BY <1>12, NestedTickKeeps
<1>13. ASSUME NEW f \in Fun, NEW t \in Times, Timeout(f, t) \/ FunctionTimeout(f, t)
       PROVE  IndInv'
  <2>1. pc \in {"idle", "function"} /\ Enter(f, t)
    BY <1>13 DEF Timeout, FunctionTimeout
  <2> QED BY <2>1, EnterKeeps
<1>14. CASE UNCHANGED vars
  <2>1. /\ callout' = callout /\ pc' = pc /\ cp' = cp /\ p1' = p1 /\ p2' = p2 /\ time' = time
        /\ nested' = nested /\ due' = due
    BY <1>14 DEF vars
  <2>2. Gap' = Gap /\ First' = First /\ (Copying' <=> Copying)
    BY <2>1 DEF Gap, First, Copying
  <2>3. \A k : /\ FuncAt(k)' = FuncAt(k) /\ TimeAt(k)' = TimeAt(k) /\ ArgAt(k)' = ArgAt(k)
               /\ Pending(k)' = Pending(k)
    BY <2>1, <2>2 DEF FuncAt, TimeAt, ArgAt, From, Pending
  <2>4. \A n : Listed(n) => Listed(n)'
    <3>1. ASSUME NEW n, Listed(n) PROVE Listed(n)'
      <4>1. List(n)' = List(n)
        BY <2>3 DEF List
      <4>2. n \in 0 .. V_CALL - 1 - Gap' /\ Ends(n)' /\ Bounded(n)'
        BY <2>1, <2>2, <2>3, <3>1 DEF Listed, Ends, Bounded
      <4>3. Exact(n)'
        BY <2>1, <2>2, <2>3, <3>1 DEF Listed, Exact
      <4>4. InTime(n)'
        BY <2>1, <2>2, <2>3, <3>1, <4>1 DEF Listed, InTime
      <4> QED BY <4>2, <4>3, <4>4 DEF Listed
    <3> QED BY <3>1
  <2>5. Others'
    <3>1. Others
      BY Whole
    <3> QED BY <2>1, <3>1 DEF Others, TypeOK
  <2> QED BY <2>1, <2>4, <2>5, Whole, WholeAfter
<1> QED BY <1>1, <1>2, <1>3, <1>4, <1>5, <1>6, <1>7, <1>8, <1>9, <1>10, <1>11, <1>12,
           <1>13, <1>14 DEF Next, Clock

(* The inductive invariant holds in every reachable state. *)
THEOREM IndCorrect == Spec => []IndInv
BY InitRight, NextKeeps, PTL DEF Spec

(* It implies that the table is exact. *)
LEMMA TableFromInd == IndInv => TableExact
<1> SUFFICES ASSUME IndInv PROVE TableExact
  OBVIOUS
<1>1. TypeOK
  BY DEF IndInv
<1>2. ASSUME pc \in {"idle", "dec", "test", "tail", "calls", "function"}
      PROVE  /\ {callout[i].c_func : i \in First .. Length - 1} = {f \in Fun : due[f] # Never}
             /\ \A i \in First .. Length - 1 : callout[i].c_arg = callout[i].c_func
             /\ \A i, j \in First .. Length - 1 : callout[i].c_func = callout[j].c_func => i = j
  <2>1. pc \in Plain /\ pc # "panic"
    BY <1>2 DEF Plain
  <2>2. PICK n : Listed(n)
    BY <2>1, Whole
  <2>3. Length = n /\ Exact(n) /\ First \in 0 .. n /\ n \in Nat
    BY <2>1, <2>2, LengthIs, PlainTypes
  <2>4. \A k \in First .. n - 1 : FuncAt(k) = callout[k].c_func /\ ArgAt(k) = callout[k].c_arg
    BY <2>1, <2>3, Table
  <2>5. {callout[k].c_func : k \in First .. n - 1} = {FuncAt(k) : k \in First .. n - 1}
    BY <2>4
  <2> QED BY <2>3, <2>4, <2>5 DEF Exact
<1> QED BY <1>1, <1>2 DEF TableExact, First

(* And that what is called is due. *)
LEMMA EarlyFromInd == IndInv => NeverEarly
<1> SUFFICES ASSUME IndInv, pc = "calls", IsDue PROVE due[callout[p1].c_func] = 0
  BY DEF NeverEarly
<1>1. pc \in Plain /\ pc # "panic" /\ First = p1
  BY DEF Plain, First
<1>2. PICK n : Listed(n)
  BY <1>1, Whole
<1>3. /\ TypeOK /\ n \in Nat /\ p1 \in 0 .. n
      /\ Ends(n) /\ Exact(n) /\ InTime(n)
      /\ \A k \in 0 .. p1 - 1 : callout[k].c_time <= 0
      /\ \A k \in 0 .. n - 1 : TimeAt(k) \in Int
  BY <1>1, <1>2, PlainTypes
<1>4. \A k \in Int : FuncAt(k) = callout[k].c_func /\ TimeAt(k) = callout[k].c_time
  BY <1>1, Table
<1>5. callout[p1].c_func # NoFun /\ callout[p1].c_time <= 0
  BY DEF IsDue
<1>6. p1 < n
  <2>1. callout[n].c_func = NoFun
    BY <1>3, <1>4 DEF Ends
  <2> QED BY <1>3, <1>5, <2>1
<1>7. PICK v : v = List(n)
  OBVIOUS
<1>8. \A k \in 0 .. n - 1 : v[k] = callout[k].c_time /\ v[k] \in Int
  BY <1>3, <1>4, <1>7 DEF List
<1>9. Sums(v, n)[p1 + 1] <= 0 /\ Sums(v, n)[p1 + 1] \in Int
  <2>1. \A k \in 0 .. n - 1 : v[k] \in Int
    BY <1>8
  <2>2. PICK m : m = p1 + 1
    OBVIOUS
  <2>3. m \in 0 .. n /\ m \in 0 .. m
    BY <1>3, <1>6, <2>2
  <2>4. \A k \in 0 .. m - 1 : v[k] <= 0
    <3>1. ASSUME NEW k \in 0 .. m - 1 PROVE v[k] <= 0
      <4>1. k \in 0 .. n - 1 /\ (k \in 0 .. p1 - 1 \/ k = p1)
        BY <1>3, <1>6, <2>2
      <4> QED BY <1>3, <1>5, <1>8, <4>1
    <3> QED BY <3>1
  <2>5. \A k \in 0 .. m : Sums(v, n)[k] <= 0
    BY <1>3, <2>1, <2>3, <2>4, SumsLow
  <2>6. Sums(v, n)[m] \in Int
    BY <1>3, <2>1, <2>3, SumsAre
  <2> QED BY <2>2, <2>3, <2>5, <2>6
<1>10. p1 \in First .. n - 1 /\ FuncAt(p1) = callout[p1].c_func
  BY <1>1, <1>3, <1>4, <1>6
<1>11. due[FuncAt(p1)] \in Nat
  BY <1>3, <1>10, DueListed
<1>12. Pending(p1) = 0
  BY DEF Pending
<1>13. due[FuncAt(p1)] # 0 => due[FuncAt(p1)] <= Sums(v, n)[p1 + 1] - 0
  BY <1>3, <1>7, <1>10, <1>12 DEF InTime
<1> QED BY <1>9, <1>10, <1>11, <1>13

(* What timeout() was given is in the table, once and with its own         *)
(* argument, until it is called, whatever ticks interrupt clock() and      *)
(* timein() while they close the gap: for every table, set of functions    *)
(* and times.                                                              *)
THEOREM NothingLostOrDoubled == Spec => []TableExact
BY IndCorrect, TableFromInd, PTL

(* "fun(arg) is called in tim/HZ seconds" (timeout), or later, but never   *)
(* before: each tick is counted at most once, although clock() interrupts  *)
(* itself between finding an entry and decrementing it.                    *)
THEOREM NotBeforeItsTime == Spec => []NeverEarly
BY IndCorrect, EarlyFromInd, PTL
=============================================================================
