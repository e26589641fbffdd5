----------------------------- MODULE ListLemmas -----------------------------
(***************************************************************************)
(* Lists without repetitions, such as the free lists of the buffer cache   *)
(* (io/bio.c) and of the inode table (os/iget.c): what is on them after an *)
(* element is taken out or put in; and induction over numbers.             *)
(***************************************************************************)
EXTENDS Integers, SequencesExt, SequenceTheorems, FiniteSetTheorems, TLAPS

(* The tail of a list without repetitions has none, and lost its head.     *)
LEMMA TailList ==
    ASSUME NEW S, NEW s \in Seq(S), s # <<>>, IsInjective(s)
    PROVE  /\ Head(s) \in S /\ Contains(s, Head(s))
           /\ Tail(s) \in Seq(S) /\ IsInjective(Tail(s))
           /\ \A x : Contains(Tail(s), x) <=> Contains(s, x) /\ x # Head(s)
<1>1. /\ Tail(s) \in Seq(S) /\ Len(s) \in Nat /\ Len(s) > 0
      /\ DOMAIN s = 1 .. Len(s) /\ DOMAIN Tail(s) = 1 .. Len(s) - 1
      /\ Head(s) = s[1] /\ \A i \in 1 .. Len(s) - 1 : Tail(s)[i] = s[i + 1]
      /\ \A i \in DOMAIN s : s[i] \in S
  OBVIOUS
<1>2. IsInjective(Tail(s))
  BY <1>1 DEF IsInjective
<1>3. ASSUME NEW x PROVE Contains(Tail(s), x) <=> Contains(s, x) /\ x # Head(s)
  <2>1. ASSUME Contains(Tail(s), x) PROVE Contains(s, x) /\ x # Head(s)
    BY <1>1, <2>1 DEF Contains, IsInjective
  <2>2. ASSUME Contains(s, x), x # Head(s) PROVE Contains(Tail(s), x)
    <3>1. PICK i \in 1 .. Len(s) : s[i] = x
      BY <1>1, <2>2 DEF Contains
    <3>2. i - 1 \in DOMAIN Tail(s) /\ Tail(s)[i - 1] = x
      BY <1>1, <2>2, <3>1
    <3> QED BY <3>2 DEF Contains
  <2> QED BY <2>1, <2>2
<1>4. Contains(s, Head(s))
  BY <1>1 DEF Contains
<1> QED BY <1>1, <1>2, <1>3, <1>4

(* A list without repetitions can be extended by what is not on it.        *)
LEMMA AppendList ==
    ASSUME NEW S, NEW s \in Seq(S), NEW b \in S, IsInjective(s), ~Contains(s, b)
    PROVE  /\ Append(s, b) \in Seq(S) /\ IsInjective(Append(s, b))
           /\ \A x : Contains(Append(s, b), x) <=> Contains(s, x) \/ x = b
<1> DEFINE t == Append(s, b)
<1>1. /\ t \in Seq(S) /\ Len(s) \in Nat
      /\ DOMAIN s = 1 .. Len(s) /\ DOMAIN t = 1 .. Len(s) + 1
      /\ t[Len(s) + 1] = b /\ \A i \in 1 .. Len(s) : t[i] = s[i]
  OBVIOUS
<1> HIDE DEF t
<1>2. IsInjective(t)
  BY <1>1 DEF IsInjective, Contains
<1>3. \A x : Contains(t, x) <=> Contains(s, x) \/ x = b
  BY <1>1 DEF Contains
<1> QED BY <1>1, <1>2, <1>3 DEF t

(* The same at the front.                                                  *)
LEMMA ConsList ==
    ASSUME NEW S, NEW s \in Seq(S), NEW b \in S, IsInjective(s), ~Contains(s, b)
    PROVE  /\ Cons(b, s) \in Seq(S) /\ IsInjective(Cons(b, s))
           /\ \A x : Contains(Cons(b, s), x) <=> Contains(s, x) \/ x = b
<1> DEFINE t == Cons(b, s)
<1>1. /\ t \in Seq(S) /\ Len(s) \in Nat
      /\ DOMAIN s = 1 .. Len(s) /\ DOMAIN t = 1 .. Len(s) + 1
      /\ t[1] = b /\ \A i \in 1 .. Len(s) : t[i + 1] = s[i]
  BY DEF Cons
<1> HIDE DEF t
<1>2. IsInjective(t)
  <2>1. ASSUME NEW i \in 2 .. Len(s) + 1
        PROVE  i - 1 \in 1 .. Len(s) /\ t[i] = s[i - 1]
    <3>1. Len(s) \in Nat
      BY <1>1
    <3>2. i - 1 \in 1 .. Len(s) /\ (i - 1) + 1 = i
      BY <2>1, <3>1
    <3> QED BY <1>1, <2>1, <3>2
  <2>2. \A i \in 1 .. Len(s) : s[i] # b
    BY <1>1 DEF Contains
  <2>3. ASSUME NEW i \in 1 .. Len(s) + 1, NEW j \in 1 .. Len(s) + 1, t[i] = t[j]
        PROVE  i = j
    <3>1. CASE i = 1 \/ j = 1
      BY <1>1, <2>1, <2>2, <2>3, <3>1
    <3>2. CASE i # 1 /\ j # 1
      <4>1. i \in 2 .. Len(s) + 1 /\ j \in 2 .. Len(s) + 1
        BY <1>1, <3>2
      <4>2. s[i - 1] = s[j - 1]
        BY <2>1, <2>3, <4>1
      <4>3. i - 1 = j - 1
        BY <1>1, <2>1, <4>1, <4>2 DEF IsInjective
      <4> QED BY <1>1, <4>1, <4>3
    <3> QED BY <3>1, <3>2
  <2> QED BY <1>1, <2>3 DEF IsInjective
<1>3. ASSUME NEW x PROVE Contains(t, x) <=> Contains(s, x) \/ x = b
  <2>1. DOMAIN t = 1 .. Len(t)
    BY <1>1
  <2>2. ASSUME Contains(t, x), x # b PROVE Contains(s, x)
    <3>1. PICK i \in 1 .. Len(s) + 1 : t[i] = x
      BY <1>1, <2>1, <2>2 DEF Contains
    <3>2. i - 1 \in 1 .. Len(s) /\ s[i - 1] = x
      BY <1>1, <2>2, <3>1
    <3> QED BY <3>2 DEF Contains
  <2>3. ASSUME Contains(s, x) \/ x = b PROVE Contains(t, x)
    BY <1>1, <2>1, <2>3 DEF Contains
  <2> QED BY <2>2, <2>3
<1> QED BY <1>1, <1>2, <1>3 DEF t

(* A list without its element n.                                           *)
LEMMA RemoveAtIs ==
    ASSUME NEW S, NEW s \in Seq(S), NEW n \in DOMAIN s
    PROVE  LET t == RemoveAt(s, n)
           IN  /\ t \in Seq(S) /\ Len(t) = Len(s) - 1
               /\ \A j \in 1 .. Len(s) - 1 : t[j] = IF j < n THEN s[j] ELSE s[j + 1]
<1> DEFINE t == RemoveAt(s, n)
<1>a. /\ Len(s) \in Nat /\ DOMAIN s = 1 .. Len(s) /\ n \in 1 .. Len(s)
      /\ \A j \in 1 .. Len(s) : s[j] \in S
  OBVIOUS
<1> DEFINE u == SubSeq(s, 1, n - 1)
           w == SubSeq(s, n + 1, Len(s))
<1>0. /\ 1 \in Int /\ n - 1 \in Int /\ n + 1 \in Int /\ Len(s) \in Int /\ n \in Int
      /\ \A j \in 1 .. n - 1 : j \in 1 .. Len(s)
      /\ \A j \in n + 1 .. Len(s) : j \in 1 .. Len(s)
  BY <1>a
<1>1. /\ u \in Seq(S) /\ Len(u) = n - 1 /\ \A j \in 1 .. n - 1 : u[j] = s[j]
  BY <1>a, <1>0, SubSeqProperties
<1>2. /\ w \in Seq(S) /\ Len(w) = Len(s) - n
      /\ \A j \in 1 .. Len(s) - n : w[j] = s[n + j]
  BY <1>a, <1>0, SubSeqProperties
<1>3. t = u \o w
  BY DEF RemoveAt
<1> HIDE DEF u, w, t
<1>4. /\ t \in Seq(S) /\ Len(t) = Len(u) + Len(w)
      /\ \A j \in 1 .. Len(t) : t[j] = IF j <= Len(u) THEN u[j] ELSE w[j - Len(u)]
  <2>1. u \in Seq(S) /\ w \in Seq(S)
    BY <1>1, <1>2
  <2>2. /\ u \o w \in Seq(S) /\ Len(u \o w) = Len(u) + Len(w)
        /\ \A j \in 1 .. Len(u) + Len(w) :
              (u \o w)[j] = IF j <= Len(u) THEN u[j] ELSE w[j - Len(u)]
    BY <2>1, ConcatProperties
  <2> QED BY <1>3, <2>2
<1>5. Len(t) = Len(s) - 1
  BY <1>a, <1>1, <1>2, <1>4
<1>6. ASSUME NEW j \in 1 .. Len(s) - 1, j < n PROVE t[j] = s[j]
  BY <1>a, <1>1, <1>4, <1>5, <1>6
<1>7. ASSUME NEW j \in 1 .. Len(s) - 1, ~(j < n) PROVE t[j] = s[j + 1]
  <2> DEFINE i == j - (n - 1)
  <2>1. i \in 1 .. Len(s) - n /\ n + i = j + 1
    BY <1>a, <1>7
  <2>2. t[j] = w[i]
    BY <1>a, <1>1, <1>4, <1>5, <1>7
  <2> HIDE DEF i
  <2> QED BY <1>2, <2>1, <2>2
<1> HIDE DEF u, w, t
<1>8. \A j \in 1 .. Len(s) - 1 : t[j] = IF j < n THEN s[j] ELSE s[j + 1]
  BY <1>6, <1>7
<1> QED BY <1>4, <1>5, <1>8 DEF t

(* A list with a new element before its element n, or at its end.          *)
LEMMA InsertAtIs ==
    ASSUME NEW S, NEW s \in Seq(S), NEW n \in 1 .. Len(s) + 1, NEW e \in S
    PROVE  LET t == InsertAt(s, n, e)
           IN  /\ t \in Seq(S) /\ Len(t) = Len(s) + 1
               /\ t[n] = e
               /\ \A j \in 1 .. n - 1 : t[j] = s[j]
               /\ \A j \in n + 1 .. Len(s) + 1 : t[j] = s[j - 1]
<1> DEFINE t == InsertAt(s, n, e)
           u == SubSeq(s, 1, n - 1)
           v == SubSeq(s, n, Len(s))
           w == u \o <<e>>
<1>1. Len(s) \in Nat /\ \A j \in 1 .. Len(s) : s[j] \in S
  OBVIOUS
<1>2. /\ 1 \in Int /\ n - 1 \in Int /\ n \in Int /\ Len(s) \in Int
      /\ \A j \in 1 .. n - 1 : j \in 1 .. Len(s)
      /\ \A j \in n .. Len(s) : j \in 1 .. Len(s)
  BY <1>1
<1>3. u \in Seq(S) /\ Len(u) = n - 1 /\ \A j \in 1 .. n - 1 : u[j] = s[j]
  BY <1>1, <1>2, SubSeqProperties
<1>4. /\ v \in Seq(S) /\ Len(v) = Len(s) - n + 1
      /\ \A j \in 1 .. Len(s) - n + 1 : v[j] = s[n + j - 1]
  BY <1>1, <1>2, SubSeqProperties
<1>5. t = w \o v
  BY DEF InsertAt
<1>6. /\ w \in Seq(S) /\ Len(w) = n
      /\ \A j \in 1 .. n : w[j] = IF j < n THEN s[j] ELSE e
  <2> HIDE DEF u
  <2>1. <<e>> \in Seq(S) /\ Len(<<e>>) = 1 /\ <<e>>[1] = e
    OBVIOUS
  <2>2. /\ w \in Seq(S) /\ Len(w) = Len(u) + 1
        /\ \A j \in 1 .. Len(u) + 1 : w[j] = IF j <= Len(u) THEN u[j] ELSE <<e>>[j - Len(u)]
    BY <1>3, <2>1, ConcatProperties
  <2>3. ASSUME NEW j \in 1 .. n, j < n PROVE w[j] = s[j]
    BY <1>1, <1>3, <2>2, <2>3
  <2>4. w[n] = e
    <3>1. n \in 1 .. Len(u) + 1 /\ ~(n <= Len(u)) /\ n - Len(u) = 1
      BY <1>1, <1>3
    <3> QED BY <2>1, <2>2, <3>1
  <2> HIDE DEF w
  <2> QED BY <1>1, <1>3, <2>2, <2>3, <2>4
<1> HIDE DEF t, v, w, u
<1>7. /\ t \in Seq(S) /\ Len(t) = Len(w) + Len(v)
      /\ \A j \in 1 .. Len(w) + Len(v) : t[j] = IF j <= Len(w) THEN w[j] ELSE v[j - Len(w)]
  BY <1>4, <1>5, <1>6, ConcatProperties
<1>8. Len(t) = Len(s) + 1
  BY <1>1, <1>4, <1>6, <1>7
<1>9. ASSUME NEW j \in 1 .. Len(s) + 1, j <= n
      PROVE  t[j] = IF j < n THEN s[j] ELSE e
  BY <1>1, <1>4, <1>6, <1>7, <1>9
<1>10. ASSUME NEW j \in 1 .. Len(s) + 1, j > n
       PROVE  t[j] = s[j - 1]
  <2> DEFINE i == j - n
  <2>1. i \in 1 .. Len(s) - n + 1 /\ n + i - 1 = j - 1
    BY <1>1, <1>10
  <2>2. t[j] = v[i]
    BY <1>1, <1>4, <1>6, <1>7, <1>10
  <2> HIDE DEF i
  <2> QED BY <1>4, <2>1, <2>2
<1>11. t[n] = e
  BY <1>1, <1>9
<1>12. \A j \in 1 .. n - 1 : t[j] = s[j]
  BY <1>1, <1>9
<1>13. \A j \in n + 1 .. Len(s) + 1 : t[j] = s[j - 1]
  BY <1>1, <1>10
<1> QED BY <1>7, <1>8, <1>11, <1>12, <1>13 DEF t

(* Taking one element out of a list without repetitions.                   *)
LEMMA RemoveAtList ==
    ASSUME NEW S, NEW s \in Seq(S), NEW n \in DOMAIN s, IsInjective(s)
    PROVE  /\ s[n] \in S /\ Contains(s, s[n])
           /\ RemoveAt(s, n) \in Seq(S) /\ IsInjective(RemoveAt(s, n))
           /\ \A x : Contains(RemoveAt(s, n), x) <=> Contains(s, x) /\ x # s[n]
<1> DEFINE t == RemoveAt(s, n)
<1>1. /\ Len(s) \in Nat /\ DOMAIN s = 1 .. Len(s) /\ n \in 1 .. Len(s)
      /\ \A j \in 1 .. Len(s) : s[j] \in S
  OBVIOUS
<1>2. /\ t \in Seq(S) /\ Len(t) = Len(s) - 1
      /\ \A j \in 1 .. Len(s) - 1 : t[j] = IF j < n THEN s[j] ELSE s[j + 1]
  BY RemoveAtIs
<1> HIDE DEF t
<1>3. DOMAIN t = 1 .. Len(s) - 1
  BY <1>1, <1>2
<1>4. IsInjective(t)
  BY <1>1, <1>2, <1>3 DEF IsInjective
<1>5. ASSUME NEW x PROVE Contains(t, x) <=> Contains(s, x) /\ x # s[n]
  <2>1. ASSUME Contains(t, x) PROVE Contains(s, x) /\ x # s[n]
    BY <1>1, <1>2, <1>3, <2>1 DEF Contains, IsInjective
  <2>2. ASSUME Contains(s, x), x # s[n] PROVE Contains(t, x)
    <3>1. PICK i \in 1 .. Len(s) : s[i] = x
      BY <2>2 DEF Contains
    <3>2. CASE i < n
      BY <1>1, <1>2, <3>1, <3>2 DEF Contains
    <3>3. CASE i > n
      <4>1. i - 1 \in 1 .. Len(t) /\ t[i - 1] = x
        BY <1>1, <1>2, <3>1, <3>3
      <4> QED BY <4>1 DEF Contains
    <3> QED BY <1>1, <2>2, <3>1, <3>2, <3>3
  <2> QED BY <2>1, <2>2
<1>6. s[n] \in S /\ Contains(s, s[n])
  BY <1>1 DEF Contains
<1> QED BY <1>2, <1>4, <1>5, <1>6 DEF t
-----------------------------------------------------------------------------
(* Induction for a set of numbers: what lies between 0 and a number that   *)
(* is not in it would have an injection into a part of itself.             *)
LEMMA Induction ==
    ASSUME NEW T, 0 \in T, \A n \in Nat : n \in T => n + 1 \in T
    PROVE  Nat \subseteq T
<1> SUFFICES ASSUME NEW n \in Nat, n \notin T PROVE FALSE
  OBVIOUS
<1> DEFINE S == T \cap (0 .. n)
           f == [x \in S |-> x + 1]
<1>1. IsFiniteSet(S) /\ 0 \in S
  <2>1. IsFiniteSet(0 .. n) /\ S \subseteq 0 .. n /\ 0 \in S
    BY FS_Interval
  <2> QED BY <2>1, FS_Subset
<1>2. f \in [S -> S \ {0}] /\ \A x, y \in S : f[x] = f[y] => x = y
  OBVIOUS
<1>3. f \in Injection(S, S \ {0})
  BY <1>2, Zenon DEF Injection, IsInjective
<1>4. /\ IsFiniteSet(S \ {0}) /\ Cardinality(S \ {0}) = Cardinality(S) - 1
      /\ Cardinality(S) \in Nat
  BY <1>1, FS_RemoveElement, FS_CardinalityType
<1>5. Cardinality(S) <= Cardinality(S \ {0})
  BY <1>3, <1>4, FS_Injection
<1> QED BY <1>4, <1>5

(* A set of numbers has a least one. *)
LEMMA LeastOne ==
    ASSUME NEW S, S \subseteq Nat, S # {}
    PROVE  \E n \in S : \A m \in S : n <= m
<1> SUFFICES ASSUME \A n \in S : \E m \in S : m < n
             PROVE  FALSE
  OBVIOUS
<1> DEFINE T == {n \in Nat : \A m \in S : n <= m}
<1>1. ASSUME NEW n \in T PROVE n + 1 \in T
  <2>1. \A m \in S : n < m
    <3>1. ASSUME NEW m \in S PROVE n < m
      <4>1. n \notin S
        OBVIOUS
      <4> QED BY <4>1
    <3> QED BY <3>1
  <2> QED BY <2>1
<1>2. Nat \subseteq T
  <2>1. 0 \in T
    OBVIOUS
  <2> HIDE DEF T
  <2> QED BY <1>1, <2>1, Induction
<1>3. PICK n \in S : TRUE
  OBVIOUS
<1>4. n + 1 \in T
  BY <1>2, <1>3
<1> QED BY <1>3, <1>4

(* A loop: what holds at its begin and is kept by each step holds at every *)
(* step.                                                                   *)
LEMMA Stepwise ==
    ASSUME NEW f, NEW n \in Nat, NEW X, f[0] \in X,
           \A k \in 1 .. n : f[k - 1] \in X => f[k] \in X
    PROVE  \A k \in 0 .. n : f[k] \in X
<1> DEFINE T == {k \in Nat : k <= n => f[k] \in X}
<1>1. 0 \in T
  OBVIOUS
<1>2. ASSUME NEW k \in Nat, k \in T PROVE k + 1 \in T
  <2>1. SUFFICES ASSUME k + 1 <= n PROVE f[k + 1] \in X
    OBVIOUS
  <2>2. f[k] \in X /\ k + 1 \in 1 .. n /\ (k + 1) - 1 = k
    BY <1>2, <2>1
  <2> QED BY <2>2
<1> HIDE DEF T
<1>3. Nat \subseteq T
  BY <1>1, <1>2, Induction
<1> QED BY <1>3 DEF T

(* A function that is defined by such a loop exists: g has the steps.      *)
Passes(g, n, X) == g \in [(1 .. n) \X X -> X]
Unfolded(f, x, n, g, X) ==
    f \in [0 .. n -> X] /\ f[0] = x /\ \A k \in 1 .. n : f[k] = g[<<k, f[k - 1]>>]

LEMMA Unfolds ==
    ASSUME NEW X, NEW x, x \in X, NEW n, n \in Nat, NEW g, Passes(g, n, X)
    PROVE  \E f : Unfolded(f, x, n, g, X)
<1>0. g \in [(1 .. n) \X X -> X]
  BY DEF Passes
<1> DEFINE Good(f, m) == /\ f \in [0 .. n -> X] /\ f[0] = x
                         /\ \A k \in 1 .. m : f[k] = g[<<k, f[k - 1]>>]
           T == {m \in Nat : m <= n => \E f : Good(f, m)}
<1>1. 0 \in T
  <2> DEFINE f == [k \in 0 .. n |-> x]
  <2>1. Good(f, 0)
    OBVIOUS
  <2> HIDE DEF Good, f
  <2> QED BY <2>1
<1>2. ASSUME NEW m \in Nat, m \in T PROVE m + 1 \in T
  <2>1. SUFFICES ASSUME m + 1 <= n PROVE \E f : Good(f, m + 1)
    <3> HIDE DEF Good
    <3> QED OBVIOUS
  <2>2. PICK f : Good(f, m)
    BY <1>2, <2>1
  <2> DEFINE y == g[<<m + 1, f[m]>>]
             h == [f EXCEPT ![m + 1] = y]
  <2>3. m \in 0 .. n /\ m + 1 \in 1 .. n /\ f[m] \in X /\ y \in X
    <3>1. m \in 0 .. n /\ m + 1 \in 1 .. n
      BY <2>1
    <3>2. f[m] \in X
      BY <2>2, <3>1
    <3>3. <<m + 1, f[m]>> \in (1 .. n) \X X
      BY <3>1, <3>2
    <3> QED BY <1>0, <3>1, <3>2, <3>3
  <2>4. h \in [0 .. n -> X] /\ h[m + 1] = y /\ \A k \in 0 .. m : h[k] = f[k]
    <3> HIDE DEF y
    <3> QED BY <2>2, <2>3
  <2> HIDE DEF h
  <2>5. ASSUME NEW k \in 1 .. m + 1 PROVE h[k] = g[<<k, h[k - 1]>>]
    <3>1. CASE k = m + 1
      <4>1. k - 1 = m /\ h[m] = f[m] /\ h[k] = y
        BY <2>4, <3>1
      <4> QED BY <3>1, <4>1
    <3>2. CASE k # m + 1
      <4>1. k \in 1 .. m /\ k \in 0 .. m /\ k - 1 \in 0 .. m
        BY <3>2
      <4> HIDE DEF y
      <4> QED BY <2>2, <2>4, <4>1
    <3> QED BY <3>1, <3>2
  <2>6. h[0] = x
    <3> HIDE DEF y
    <3> QED BY <2>2, <2>4
  <2>7. Good(h, m + 1)
    BY <2>4, <2>5, <2>6
  <2> HIDE DEF Good
  <2> QED BY <2>7
<1>3. Nat \subseteq T
  <2> HIDE DEF T
  <2> QED BY <1>1, <1>2, Induction
<1>4. PICK f : Good(f, n)
  <2>1. n \in T
    BY <1>3
  <2> QED BY <2>1
<1> QED BY <1>4 DEF Unfolded
=============================================================================
