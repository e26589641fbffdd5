-------------------------- MODULE FreeBlocksProofs --------------------------
(***************************************************************************)
(* Proofs about FreeBlocks: for any number of processes, blocks and        *)
(* numbers in the super block, s_flock is kept as a lock, alloc() hands    *)
(* out no block twice, none is lost, and who sleeps has somebody to wait   *)
(* for.                                                                    *)
(***************************************************************************)
EXTENDS FreeBlocks, FiniteSetTheorems, TLAPS

Lists == INSTANCE ListLemmas

(* The places of the free list, as an array and an index.                  *)
Listed(a, i) == \/ a = Zero /\ i < s_nfree
                \/ a \in Links /\ i < content[a].nfree
Nr(a, i) == IF a = Zero THEN s_free[i] ELSE content[a].free[i]

(* A process that keeps others away from s_free.                           *)
Holder(p) == Is(p, "alloc", "bread") \/ Is(p, "free", "getblk") \/ Is(p, "free", "bwrite")

(* A block that free() has and has not made an array of numbers.           *)
Freeing(p) == Is(p, "free", "flock") \/ Is(p, "free", "getblk")

(* Calls are where their code goes, with a block unless alloc() begins.    *)
Shape ==
    \A p \in Proc : call[p] # NoCall =>
        \/ Is(p, "alloc", "flock") /\ call[p].bno = Zero
        \/ call[p].bno \in Block /\ (Holder(p) \/ Freeing(p) \/ Is(p, "alloc", "getblk"))

(* s_flock is set as long as one process moves an array, and s_nfree is as *)
(* this process has left it.                                               *)
Lock ==
    /\ \A p \in Proc : Holder(p) => s_flock = 1
    /\ \A p, q \in Proc : Holder(p) /\ Holder(q) => p = q
    /\ s_flock = 1 => \E p \in Proc : Holder(p)
    /\ asleep # {} => s_flock = 1
    /\ \A p \in Proc :
        /\ Is(p, "alloc", "bread") \/ Is(p, "free", "bwrite") =>
             s_nfree = 0 /\ call[p].bno \in Links
        /\ Is(p, "free", "getblk") => s_nfree = NICFREE

(* Only the first number of an array leads to another array.               *)
Chain ==
    /\ \A b \in used : content[b] = NoLink
    /\ \A p \in Proc : Freeing(p) => content[call[p].bno] = NoLink
    /\ \A a \in Number, i \in Index : Listed(a, i) /\ Nr(a, i) # Zero =>
        IF i = 0 THEN Nr(a, i) \in Links ELSE content[Nr(a, i)] = NoLink

(* UsedOnce, with places as an array and an index.                         *)
Once ==
    /\ \A p \in Proc : InHand(p) => Held(p) \notin used
    /\ \A p, q \in Proc : p # q /\ InHand(p) /\ InHand(q) => Held(p) # Held(q)
    /\ \A a \in Number, i \in Index : Listed(a, i) /\ Nr(a, i) # Zero =>
        /\ Nr(a, i) \notin used
        /\ \A p \in Proc : InHand(p) => Nr(a, i) # Held(p)
        /\ \A b \in Number, j \in Index :
             Listed(b, j) /\ Nr(b, j) = Nr(a, i) => b = a /\ j = i

IndInv == TypeOK /\ Shape /\ Lock /\ Chain /\ Once
-----------------------------------------------------------------------------
(* What a call is, and what it is not.                                     *)
LEMMA CallIs ==
    ASSUME NEW op, NEW at, NEW b
    PROVE  LET c == [op |-> op, at |-> at, bno |-> b]
           IN  c # NoCall /\ c.op = op /\ c.at = at /\ c.bno = b
<1> DEFINE c == [op |-> op, at |-> at, bno |-> b]
<1>1. "op" \in DOMAIN c
  OBVIOUS
<1>2. DOMAIN NoCall = {}
  BY DEF NoCall
<1> QED BY <1>1, <1>2

(* A process that goes on in its call, and all others stay where they are. *)
LEMMA GoesTo ==
    ASSUME NEW p \in Proc, call \in [Proc -> Call \cup {NoCall}],
           NEW op \in {"alloc", "free"}, NEW at \in {"flock", "bread", "getblk", "bwrite"},
           NEW b \in Number, Goto(p, op, at, b)
    PROVE  /\ call' \in [Proc -> Call \cup {NoCall}]
           /\ call'[p] # NoCall /\ call'[p].op = op /\ call'[p].at = at /\ call'[p].bno = b
           /\ \A q \in Proc : q # p => call'[q] = call[q]
<1>1. [op |-> op, at |-> at, bno |-> b] \in Call
  BY DEF Call
<1> QED BY <1>1, CallIs DEF Goto

LEMMA Returns ==
    ASSUME NEW p \in Proc, call \in [Proc -> Call \cup {NoCall}], Return(p)
    PROVE  /\ call' \in [Proc -> Call \cup {NoCall}]
           /\ call'[p] = NoCall
           /\ \A q \in Proc : q # p => call'[q] = call[q]
BY DEF Return

USE DEF Index, Number, Zero
-----------------------------------------------------------------------------
LEMMA InitInv == Init => IndInv
<1> SUFFICES ASSUME Init PROVE IndInv
  OBVIOUS
<1> USE FreeAssumption DEF Init
<1>1. TypeOK
  <2>1. s_nfree \in 0 .. NICFREE /\ s_flock \in {0, 1} /\ s_tfree \in Nat
    BY DEF TypeOK
  <2>2. s_free \in [Index -> Number]
    OBVIOUS
  <2>3. content \in [Block -> Array \cup {NoLink}]
    OBVIOUS
  <2>4. used \subseteq Block /\ asleep \subseteq Proc
    OBVIOUS
  <2>5. call \in [Proc -> Call \cup {NoCall}]
   OBVIOUS
  <2>6. failed \in BOOLEAN
    OBVIOUS
  <2> QED BY <2>1, <2>2, <2>3, <2>4, <2>5, <2>6 DEF TypeOK
<1>2. Links = {} /\ s_nfree = 0
  BY DEF Links
<1>3. \A p \in Proc : ~Holder(p) /\ ~Freeing(p) /\ ~InHand(p) /\ call[p] = NoCall
  BY DEF Holder, Freeing, InHand, Is
<1>4. Shape /\ Lock
  BY <1>3 DEF Shape, Lock, Holder
<1>5. \A a \in Number, i \in Index : ~Listed(a, i)
  BY <1>2 DEF Listed
<1>6. Chain /\ Once
  BY <1>3, <1>5 DEF Chain, Once
<1> QED BY <1>1, <1>4, <1>6 DEF IndInv

(* A step that changes no array and neither takes nor gives back a block   *)
(* at alloc()'s last getblk() leaves the arrays in use as they are.        *)
LEMMA SameLinks ==
    ASSUME NEW p \in Proc, content' = content,
           \A q \in Proc : q # p => call'[q] = call[q],
           ~Is(p, "alloc", "getblk"), ~Is(p, "alloc", "getblk")'
    PROVE  Links' = Links
BY DEF Links, Is

LEMMA BeginAllocInv ==
    ASSUME IndInv, NEW p \in Proc, BeginAlloc(p)
    PROVE  IndInv'
<1> USE FreeAssumption DEF IndInv, BeginAlloc, superVars
<1>1. /\ call' \in [Proc -> Call \cup {NoCall}]
      /\ call'[p] # NoCall /\ call'[p].op = "alloc" /\ call'[p].at = "flock" /\ call'[p].bno = Zero
      /\ \A q \in Proc : q # p => call'[q] = call[q]
  BY GoesTo DEF TypeOK
<1>2. TypeOK'
  BY <1>1 DEF TypeOK
<1>3. Links' = Links
  BY <1>1, SameLinks DEF Is
<1>4. \A a \in Number, i \in Index : (Listed(a, i)' <=> Listed(a, i)) /\ Nr(a, i)' = Nr(a, i)
  BY <1>3 DEF Listed, Nr
<1>5. Shape'
  BY <1>1 DEF Shape, Holder, Freeing, Is
<1>6. Lock'
  BY <1>1, <1>3 DEF Lock, Holder, Is
<1>7. Chain'
  BY <1>1, <1>3, <1>4 DEF Chain, Freeing, Is
<1>8. Once'
  BY <1>1, <1>4 DEF Once, InHand, Held
<1> QED BY <1>2, <1>5, <1>6, <1>7, <1>8

LEMMA BeginFreeInv ==
    ASSUME IndInv, NEW p \in Proc, BeginFree(p)
    PROVE  IndInv'
<1> USE FreeAssumption DEF IndInv, superVars
<1>0. PICK b \in used : /\ call[p] = NoCall /\ used' = used \ {b} /\ Goto(p, "free", "flock", b)
                        /\ UNCHANGED <<superVars, content, asleep, failed>>
  BY DEF BeginFree
<1>1. /\ call' \in [Proc -> Call \cup {NoCall}] /\ b \in Block
      /\ call'[p] # NoCall /\ call'[p].op = "free" /\ call'[p].at = "flock" /\ call'[p].bno = b
      /\ \A q \in Proc : q # p => call'[q] = call[q]
  BY <1>0, GoesTo DEF TypeOK
<1>2. TypeOK'
  BY <1>0, <1>1 DEF TypeOK
<1>3. Links' = Links
  BY <1>0, <1>1, SameLinks DEF Is
<1>4. \A a \in Number, i \in Index : (Listed(a, i)' <=> Listed(a, i)) /\ Nr(a, i)' = Nr(a, i)
  BY <1>0, <1>3 DEF Listed, Nr
<1>5. Shape'
  BY <1>0, <1>1 DEF Shape, Holder, Freeing, Is
<1>6. Lock'
  BY <1>0, <1>1, <1>3 DEF Lock, Holder, Is
<1>7. Chain'
  BY <1>0, <1>1, <1>3, <1>4 DEF Chain, Freeing, Is
<1>8. Once'
  BY <1>0, <1>1, <1>4 DEF Once, InHand, Held
<1> QED BY <1>2, <1>5, <1>6, <1>7, <1>8

LEMMA WaitsInv ==
    ASSUME IndInv, NEW p \in Proc, Waits(p)
    PROVE  IndInv'
<1> USE FreeAssumption DEF IndInv, Waits, superVars
<1>2. TypeOK'
  BY DEF TypeOK
<1>3. Links' = Links
  BY DEF Links, Is
<1>4. \A a \in Number, i \in Index : (Listed(a, i)' <=> Listed(a, i)) /\ Nr(a, i)' = Nr(a, i)
  BY <1>3 DEF Listed, Nr
<1>5. Shape'
  BY DEF Shape, Holder, Freeing, Is
<1>6. Lock'
  BY <1>3 DEF Lock, Holder, Is, TypeOK
<1>7. Chain'
  BY <1>3, <1>4 DEF Chain, Freeing, Is
<1>8. Once'
  BY <1>4 DEF Once, InHand, Held
<1> QED BY <1>2, <1>5, <1>6, <1>7, <1>8

(* Where processes are that go on with a call. *)
LEMMA BlockInHand ==
    ASSUME TypeOK, Shape, NEW p \in Proc, call[p] # NoCall, ~Is(p, "alloc", "flock")
    PROVE  call[p].bno \in Block /\ InHand(p) /\ Held(p) = call[p].bno
BY FreeAssumption DEF Shape, InHand, Held

(* With s_flock free nobody moves an array. *)
LEMMA NoHolder ==
    ASSUME Lock, s_flock = 0
    PROVE  asleep = {} /\ \A q \in Proc : ~Holder(q)
BY DEF Lock

LEMMA AllocNospaceInv ==
    ASSUME IndInv, NEW p \in Proc, AllocNospace(p)
    PROVE  IndInv'
<1> USE FreeAssumption DEF IndInv, AllocNospace, superVars
<1>0. Looks(p, "alloc") /\ s_flock = 0 /\ asleep = {} /\ \A q \in Proc : ~Holder(q)
  BY NoHolder
<1>1. /\ call' \in [Proc -> Call \cup {NoCall}] /\ call'[p] = NoCall
      /\ \A q \in Proc : q # p => call'[q] = call[q]
  BY Returns DEF TypeOK
<1>2. TypeOK'
  BY <1>1 DEF TypeOK
<1>3. Links' = Links
  BY <1>0, <1>1, SameLinks DEF Is, Looks
<1>4. \A a \in Number, i \in Index : (Listed(a, i)' => Listed(a, i)) /\ Nr(a, i)' = Nr(a, i)
  BY <1>3 DEF Listed, Nr, TypeOK
<1>5. Shape'
  BY <1>1 DEF Shape, Holder, Freeing, Is
<1>6. Lock'
  BY <1>0, <1>1, <1>3 DEF Lock, Holder, Is
<1>7. Chain'
  BY <1>1, <1>3, <1>4 DEF Chain, Freeing, Is
<1>8. Once'
  BY <1>1, <1>4 DEF Once, InHand, Held
<1> QED BY <1>2, <1>5, <1>6, <1>7, <1>8

LEMMA AllocTakesInv ==
    ASSUME IndInv, NEW p \in Proc, AllocTakes(p)
    PROVE  IndInv'
<1> USE FreeAssumption DEF IndInv, AllocTakes, superVars
<1> DEFINE n == s_nfree - 1
<1>0. /\ Is(p, "alloc", "flock") /\ asleep = {} /\ \A q \in Proc : ~Holder(q)
      /\ n \in Index /\ n > 0 /\ s_free[n] \in Block /\ s_free[n] # Zero
  BY NoHolder DEF TypeOK, Looks, HasLast, Last
<1>1. /\ call' \in [Proc -> Call \cup {NoCall}]
      /\ call'[p] # NoCall /\ call'[p].op = "alloc" /\ call'[p].at = "getblk"
      /\ call'[p].bno = s_free[n]
      /\ \A q \in Proc : q # p => call'[q] = call[q]
  BY <1>0, GoesTo DEF TypeOK, Last
<1>2. TypeOK'
  BY <1>0, <1>1 DEF TypeOK
<1>9. Listed(Zero, n) /\ Nr(Zero, n) = s_free[n] /\ content[s_free[n]] = NoLink
  BY <1>0 DEF Chain, Listed, Nr, TypeOK
<1>3. Links' = Links
  BY <1>0, <1>1, <1>9 DEF Links, Is
<1>4. \A a \in Number, i \in Index :
        /\ Listed(a, i)' <=> Listed(a, i) /\ ~(a = Zero /\ i = n)
        /\ Nr(a, i)' = Nr(a, i)
  BY <1>0, <1>3 DEF Listed, Nr, TypeOK, Links
<1>5. Shape'
  BY <1>0, <1>1 DEF Shape, Holder, Freeing, Is
<1>6. Lock'
  BY <1>0, <1>1, <1>3 DEF Lock, Holder, Is
<1>7. Chain'
  BY <1>1, <1>3, <1>4 DEF Chain, Freeing, Is
<1>8. Once'
  <2>1. \A q \in Proc : InHand(q)' => Held(q)' \notin used'
    BY <1>0, <1>1, <1>9 DEF Once, InHand, Held
  <2>2. \A q, r \in Proc : q # r /\ InHand(q)' /\ InHand(r)' => Held(q)' # Held(r)'
    BY <1>0, <1>1, <1>9 DEF Once, InHand, Held
  <2>3. ASSUME NEW a \in Number, NEW i \in Index, Listed(a, i)', Nr(a, i)' # Zero
        PROVE  /\ Nr(a, i)' \notin used'
               /\ \A q \in Proc : InHand(q)' => Nr(a, i)' # Held(q)'
               /\ \A b \in Number, j \in Index :
                    Listed(b, j)' /\ Nr(b, j)' = Nr(a, i)' => b = a /\ j = i
    BY <1>0, <1>1, <1>4, <1>9, <2>3 DEF Once, InHand, Held
  <2> QED BY <2>1, <2>2, <2>3 DEF Once
<1> QED BY <1>2, <1>5, <1>6, <1>7, <1>8

LEMMA AllocTakesLinkInv ==
    ASSUME IndInv, NEW p \in Proc, AllocTakesLink(p)
    PROVE  IndInv'
<1> USE FreeAssumption DEF IndInv, AllocTakesLink, superVars
<1>0. /\ Is(p, "alloc", "flock") /\ asleep = {} /\ \A q \in Proc : ~Holder(q)
      /\ 0 \in Index /\ s_nfree = 1 /\ s_free[0] \in Block /\ s_free[0] # Zero
  BY NoHolder DEF TypeOK, Looks, HasLast, Last
<1>1. /\ call' \in [Proc -> Call \cup {NoCall}]
      /\ call'[p] # NoCall /\ call'[p].op = "alloc" /\ call'[p].at = "bread"
      /\ call'[p].bno = s_free[0]
      /\ \A q \in Proc : q # p => call'[q] = call[q]
  BY <1>0, GoesTo DEF TypeOK, Last
<1>2. TypeOK'
  BY <1>0, <1>1 DEF TypeOK
<1>9. Listed(Zero, 0) /\ Nr(Zero, 0) = s_free[0] /\ s_free[0] \in Links
  BY <1>0 DEF Chain, Listed, Nr, TypeOK
<1>3. Links' = Links
  BY <1>0, <1>1, SameLinks DEF Is
<1>4. \A a \in Number, i \in Index :
        /\ Listed(a, i)' <=> Listed(a, i) /\ a # Zero
        /\ Nr(a, i)' = Nr(a, i)
  BY <1>0, <1>3 DEF Listed, Nr, TypeOK, Links
<1>5. Shape'
  BY <1>0, <1>1 DEF Shape, Holder, Freeing, Is
<1>6. Lock'
  BY <1>0, <1>1, <1>3, <1>9 DEF Lock, Holder, Is, TypeOK
<1>7. Chain'
  BY <1>1, <1>3, <1>4 DEF Chain, Freeing, Is
<1>8. Once'
  <2>1. \A q \in Proc : InHand(q)' => Held(q)' \notin used'
    BY <1>0, <1>1, <1>9 DEF Once, InHand, Held
  <2>2. \A q, r \in Proc : q # r /\ InHand(q)' /\ InHand(r)' => Held(q)' # Held(r)'
    BY <1>0, <1>1, <1>9 DEF Once, InHand, Held
  <2>3. ASSUME NEW a \in Number, NEW i \in Index, Listed(a, i)', Nr(a, i)' # Zero
        PROVE  /\ Nr(a, i)' \notin used'
               /\ \A q \in Proc : InHand(q)' => Nr(a, i)' # Held(q)'
               /\ \A b \in Number, j \in Index :
                    Listed(b, j)' /\ Nr(b, j)' = Nr(a, i)' => b = a /\ j = i
    BY <1>0, <1>1, <1>4, <1>9, <2>3 DEF Once, InHand, Held
  <2> QED BY <2>1, <2>2, <2>3 DEF Once
<1> QED BY <1>2, <1>5, <1>6, <1>7, <1>8

LEMMA AllocReadInv ==
    ASSUME IndInv, NEW p \in Proc, AllocRead(p)
    PROVE  IndInv'
<1> USE FreeAssumption DEF IndInv, AllocRead, Unlock
<1>p. PICK b \in Block : b = call[p].bno
  BY BlockInHand DEF Is, Looks
<1> USE <1>p
<1>0. /\ Is(p, "alloc", "bread") /\ Holder(p) /\ s_nfree = 0 /\ b \in Links
      /\ b \in Block /\ InHand(p) /\ Held(p) = b
      /\ \A q \in Proc : q # p => ~Holder(q)
  BY BlockInHand DEF Lock, Holder, Is
<1>a. content[b] \in Array /\ content[b].nfree \in 0 .. NICFREE /\ content[b].free \in [Index -> Number]
  BY <1>0 DEF TypeOK, Links, Array
<1>1. /\ call' \in [Proc -> Call \cup {NoCall}]
      /\ call'[p] # NoCall /\ call'[p].op = "alloc" /\ call'[p].at = "getblk" /\ call'[p].bno = b
      /\ \A q \in Proc : q # p => call'[q] = call[q]
  BY <1>0, GoesTo DEF TypeOK
<1>2. TypeOK'
  BY <1>0, <1>1, <1>a DEF TypeOK
<1>3. Links' = Links \ {b}
  BY <1>0, <1>1 DEF Links, Is
<1>4. /\ \A i \in Index : (Listed(Zero, i)' <=> Listed(b, i)) /\ Nr(Zero, i)' = Nr(b, i)
      /\ \A a \in Block : \A i \in Index :
           (Listed(a, i)' <=> Listed(a, i) /\ a # b) /\ Nr(a, i)' = Nr(a, i)
  <2>1. Zero \notin Links /\ b # Zero /\ Zero \notin Links'
    BY <1>0, <1>3 DEF Links
  <2>2. \A i \in Index : (Listed(Zero, i)' <=> Listed(b, i)) /\ Nr(Zero, i)' = Nr(b, i)
    BY <1>0, <2>1 DEF Listed, Nr
  <2>3. \A a \in Block : \A i \in Index :
           (Listed(a, i)' <=> Listed(a, i) /\ a # b) /\ Nr(a, i)' = Nr(a, i)
    BY <1>0, <1>3 DEF Listed, Nr
  <2> QED BY <2>2, <2>3
<1>b. \A a \in Number, i \in Index : Listed(a, i) => Nr(a, i) # b
  BY <1>0 DEF Once
<1>5. Shape'
  BY <1>0, <1>1 DEF Shape, Holder, Freeing, Is
<1>6. Lock'
  BY <1>0, <1>1, <1>3 DEF Lock, Holder, Is
<1>7. Chain'
  <2>1. \A c \in used' : content'[c] = NoLink
    BY DEF Chain
  <2>2. \A q \in Proc : Freeing(q)' => content'[call'[q].bno] = NoLink
    BY <1>0, <1>1 DEF Chain, Freeing, Is
  <2>3. ASSUME NEW a \in Number, NEW i \in Index, Listed(a, i)', Nr(a, i)' # Zero
        PROVE  IF i = 0 THEN Nr(a, i)' \in Links' ELSE content'[Nr(a, i)'] = NoLink
    BY <1>0, <1>3, <1>4, <1>b, <2>3 DEF Chain
  <2> QED BY <2>1, <2>2, <2>3 DEF Chain
<1>8. Once'
  <2>1. \A q \in Proc : InHand(q)' => Held(q)' \notin used'
    BY <1>0, <1>1 DEF Once, InHand, Held
  <2>2. \A q, r \in Proc : q # r /\ InHand(q)' /\ InHand(r)' => Held(q)' # Held(r)'
    BY <1>0, <1>1 DEF Once, InHand, Held
  <2>3. ASSUME NEW a \in Number, NEW i \in Index, Listed(a, i)', Nr(a, i)' # Zero
        PROVE  /\ Nr(a, i)' \notin used'
               /\ \A q \in Proc : InHand(q)' => Nr(a, i)' # Held(q)'
               /\ \A c \in Number, j \in Index :
                    Listed(c, j)' /\ Nr(c, j)' = Nr(a, i)' => c = a /\ j = i
    <3>1. /\ Nr(a, i)' \notin used'
          /\ \A q \in Proc : InHand(q)' => Nr(a, i)' # Held(q)'
      BY <1>0, <1>1, <1>4, <1>b, <2>3 DEF Once, InHand, Held
    <3>2. ASSUME NEW c \in Number, NEW j \in Index, Listed(c, j)', Nr(c, j)' = Nr(a, i)'
          PROVE  c = a /\ j = i
      BY <1>0, <1>4, <2>3, <3>2 DEF Once
    <3> QED BY <3>1, <3>2
  <2> QED BY <2>1, <2>2, <2>3 DEF Once
<1> QED BY <1>2, <1>5, <1>6, <1>7, <1>8

LEMMA AllocReadFailsInv ==
    ASSUME IndInv, NEW p \in Proc, AllocReadFails(p)
    PROVE  IndInv'
<1> USE FreeAssumption DEF IndInv, AllocReadFails, Unlock
<1>0. /\ Is(p, "alloc", "bread") /\ Holder(p) /\ s_nfree = 0
      /\ \A q \in Proc : q # p => ~Holder(q)
  BY DEF Lock, Holder
<1>1. /\ call' \in [Proc -> Call \cup {NoCall}] /\ call'[p] = NoCall
      /\ \A q \in Proc : q # p => call'[q] = call[q]
  BY Returns DEF TypeOK
<1>2. TypeOK'
  BY <1>0, <1>1 DEF TypeOK
<1>3. Links' = Links
  BY <1>0, <1>1, SameLinks DEF Is
<1>4. \A a \in Number, i \in Index : (Listed(a, i)' <=> Listed(a, i)) /\ Nr(a, i)' = Nr(a, i)
  BY <1>0, <1>3 DEF Listed, Nr
<1>5. Shape'
  BY <1>1 DEF Shape, Holder, Freeing, Is
<1>6. Lock'
  BY <1>0, <1>1, <1>3 DEF Lock, Holder, Is
<1>7. Chain'
  BY <1>1, <1>3, <1>4 DEF Chain, Freeing, Is
<1>8. Once'
  BY <1>1, <1>4 DEF Once, InHand, Held
<1> QED BY <1>2, <1>5, <1>6, <1>7, <1>8

LEMMA AllocDoneInv ==
    ASSUME IndInv, NEW p \in Proc, AllocDone(p)
    PROVE  IndInv'
<1> USE FreeAssumption DEF IndInv, AllocDone
<1>p. PICK b \in Block : b = call[p].bno
  BY BlockInHand DEF Is, Looks
<1> USE <1>p
<1>0. Is(p, "alloc", "getblk") /\ b \in Block /\ InHand(p) /\ Held(p) = b
  BY BlockInHand DEF Is
<1>1. /\ call' \in [Proc -> Call \cup {NoCall}] /\ call'[p] = NoCall
      /\ \A q \in Proc : q # p => call'[q] = call[q]
  BY Returns DEF TypeOK
<1>a. content'[b] = NoLink /\ \A c \in Block : c # b => content'[c] = content[c]
  BY <1>0 DEF TypeOK
<1>b. b \notin Links /\ \A a \in Number, i \in Index : Listed(a, i) => Nr(a, i) # b
  BY <1>0 DEF Once, Links
<1>2. TypeOK'
  <2>1. s_tfree' \in Nat
    BY DEF TypeOK
  <2>2. content' \in [Block -> Array \cup {NoLink}]
    BY DEF TypeOK
  <2> QED BY <1>0, <1>1, <2>1, <2>2 DEF TypeOK
<1>3. Links' = Links
  <2>1. ASSUME NEW c \in Block PROVE c \in Links' <=> c \in Links
    <3>1. CASE c = b
      BY <1>a, <1>b, <3>1 DEF Links
    <3>2. CASE c # b
      BY <1>0, <1>1, <1>a, <3>2 DEF Links, Is
    <3> QED BY <3>1, <3>2
  <2> QED BY <2>1 DEF Links
<1>4. \A a \in Number, i \in Index : (Listed(a, i)' <=> Listed(a, i))
                                  /\ (Listed(a, i) => Nr(a, i)' = Nr(a, i))
  BY <1>3, <1>a, <1>b DEF Listed, Nr, Links
<1>5. Shape'
  BY <1>1 DEF Shape, Holder, Freeing, Is
<1>6. Lock'
  BY <1>0, <1>1, <1>3 DEF Lock, Holder, Is
<1>7. Chain'
  <2>1. \A c \in used' : content'[c] = NoLink
    BY <1>0, <1>a DEF Chain, TypeOK
  <2>2. \A q \in Proc : Freeing(q)' => content'[call'[q].bno] = NoLink
    BY <1>0, <1>1, <1>a DEF Chain, Freeing, Is, TypeOK, Shape
  <2>3. \A a \in Number, i \in Index : Listed(a, i)' /\ Nr(a, i)' # Zero =>
          IF i = 0 THEN Nr(a, i)' \in Links' ELSE content'[Nr(a, i)'] = NoLink
    BY <1>3, <1>4, <1>a, <1>b DEF Chain, TypeOK
  <2> QED BY <2>1, <2>2, <2>3 DEF Chain
<1>8. Once'
  BY <1>0, <1>1, <1>4, <1>b DEF Once, InHand, Held
<1> QED BY <1>2, <1>5, <1>6, <1>7, <1>8

LEMMA FreePutsInv ==
    ASSUME IndInv, NEW p \in Proc, FreePuts(p)
    PROVE  IndInv'
<1> USE FreeAssumption DEF IndInv, FreePuts
<1>p. PICK b \in Block : b = call[p].bno
  BY BlockInHand DEF Is, Looks
<1> USE <1>p
<1>0. /\ Is(p, "free", "flock") /\ Freeing(p) /\ asleep = {} /\ \A q \in Proc : ~Holder(q)
      /\ b \in Block /\ b # Zero /\ InHand(p) /\ Held(p) = b
  BY NoHolder, BlockInHand DEF Looks, Freeing, Is
<1>a. /\ Count \in 1 .. NICFREE - 1 /\ s_nfree' = Count + 1 /\ 0 \in Index
      /\ s_free' \in [Index -> Number] /\ s_free'[Count] = b
      /\ IF s_nfree = 0 THEN Count = 1 /\ s_free'[0] = Zero
         ELSE Count = s_nfree /\ \A i \in Index : i < s_nfree => s_free'[i] = s_free[i]
  BY <1>0 DEF TypeOK, Count, Numbers
<1>1. /\ call' \in [Proc -> Call \cup {NoCall}] /\ call'[p] = NoCall
      /\ \A q \in Proc : q # p => call'[q] = call[q]
  BY Returns DEF TypeOK
<1>2. TypeOK'
  BY <1>0, <1>1, <1>a DEF TypeOK
<1>3. Links' = Links
  BY <1>0, <1>1, SameLinks DEF Is
<1>4. \A a \in Number, i \in Index : Listed(a, i)' =>
        \/ a = Zero /\ i = Count /\ Nr(a, i)' = b
        \/ a = Zero /\ i = 0 /\ Nr(a, i)' = Zero
        \/ Listed(a, i) /\ Nr(a, i)' = Nr(a, i)
  <2>1. \A i \in Index : Listed(Zero, i)' =>
        \/ i = Count /\ Nr(Zero, i)' = b
        \/ i = 0 /\ Nr(Zero, i)' = Zero
        \/ Listed(Zero, i) /\ Nr(Zero, i)' = Nr(Zero, i)
    <3>1. Zero \notin Links'
      BY <1>3 DEF Links
    <3>2. \A i \in Index : Listed(Zero, i)' => i < Count + 1
      BY <1>a, <3>1 DEF Listed
    <3>3. CASE s_nfree = 0
      BY <1>a, <3>2, <3>3 DEF Nr
    <3>4. CASE s_nfree # 0
      BY <1>a, <3>2, <3>4 DEF Nr, Listed, TypeOK
    <3> QED BY <3>3, <3>4
  <2>2. \A a \in Block, i \in Index : Listed(a, i)' => Listed(a, i) /\ Nr(a, i)' = Nr(a, i)
    BY <1>3 DEF Listed, Nr
  <2> QED BY <2>1, <2>2
<1>b. content[b] = NoLink /\ \A a \in Number, i \in Index : Listed(a, i) => Nr(a, i) # b
  BY <1>0 DEF Once, Chain
<1>5. Shape'
  BY <1>1 DEF Shape, Holder, Freeing, Is
<1>6. Lock'
  BY <1>0, <1>1, <1>3 DEF Lock, Holder, Is
<1>7. Chain'
  <2>1. \A q \in Proc : Freeing(q)' => content'[call'[q].bno] = NoLink
    BY <1>1 DEF Chain, Freeing, Is
  <2>2. ASSUME NEW a \in Number, NEW i \in Index, Listed(a, i)', Nr(a, i)' # Zero
        PROVE  IF i = 0 THEN Nr(a, i)' \in Links' ELSE content'[Nr(a, i)'] = NoLink
    <3>1. CASE a = Zero /\ i = Count /\ Nr(a, i)' = b
      BY <1>a, <1>b, <3>1
    <3>2. CASE Listed(a, i) /\ Nr(a, i)' = Nr(a, i)
      BY <1>3, <2>2, <3>2 DEF Chain
    <3> QED BY <1>4, <2>2, <3>1, <3>2
  <2> QED BY <2>1, <2>2 DEF Chain
<1>8. Once'
  <2>1. \A q \in Proc : InHand(q)' => InHand(q) /\ q # p /\ Held(q)' = Held(q)
    BY <1>1 DEF InHand, Held
  <2>2. /\ \A q \in Proc : InHand(q)' => Held(q)' \notin used'
        /\ \A q, r \in Proc : q # r /\ InHand(q)' /\ InHand(r)' => Held(q)' # Held(r)'
    BY <2>1 DEF Once
  <2>3. ASSUME NEW a \in Number, NEW i \in Index, Listed(a, i)', Nr(a, i)' # Zero
        PROVE  /\ Nr(a, i)' \notin used'
               /\ \A q \in Proc : InHand(q)' => Nr(a, i)' # Held(q)'
               /\ \A c \in Number, j \in Index :
                    Listed(c, j)' /\ Nr(c, j)' = Nr(a, i)' => c = a /\ j = i
    <3>1. CASE a = Zero /\ i = Count /\ Nr(a, i)' = b
      BY <1>0, <1>4, <1>b, <2>1, <3>1 DEF Once
    <3>2. CASE Listed(a, i) /\ Nr(a, i)' = Nr(a, i)
      BY <1>0, <1>4, <1>b, <2>1, <2>3, <3>2 DEF Once
    <3> QED BY <1>4, <2>3, <3>1, <3>2
  <2> QED BY <2>2, <2>3 DEF Once
<1> QED BY <1>2, <1>5, <1>6, <1>7, <1>8

LEMMA FreeFullInv ==
    ASSUME IndInv, NEW p \in Proc, FreeFull(p)
    PROVE  IndInv'
<1> USE FreeAssumption DEF IndInv, FreeFull
<1>p. PICK b \in Block : b = call[p].bno
  BY BlockInHand DEF Is, Looks
<1> USE <1>p
<1>0. /\ Is(p, "free", "flock") /\ Freeing(p) /\ asleep = {} /\ \A q \in Proc : ~Holder(q)
      /\ s_nfree = NICFREE /\ b \in Block
  BY NoHolder, BlockInHand DEF Looks, Freeing, Is, Count, TypeOK
<1>1. /\ call' \in [Proc -> Call \cup {NoCall}]
      /\ call'[p] # NoCall /\ call'[p].op = "free" /\ call'[p].at = "getblk" /\ call'[p].bno = b
      /\ \A q \in Proc : q # p => call'[q] = call[q]
  BY <1>0, GoesTo DEF TypeOK
<1>2. TypeOK'
  BY <1>0, <1>1 DEF TypeOK
<1>3. Links' = Links
  BY <1>0, <1>1, SameLinks DEF Is
<1>4. \A a \in Number, i \in Index : (Listed(a, i)' <=> Listed(a, i)) /\ Nr(a, i)' = Nr(a, i)
  BY <1>3 DEF Listed, Nr
<1>5. Shape'
  BY <1>0, <1>1 DEF Shape, Holder, Freeing, Is
<1>6. Lock'
  BY <1>0, <1>1, <1>3 DEF Lock, Holder, Is
<1>7. Chain'
  BY <1>0, <1>1, <1>3, <1>4 DEF Chain, Freeing, Is
<1>8. Once'
  BY <1>0, <1>1, <1>4 DEF Once, InHand, Held, Is
<1> QED BY <1>2, <1>5, <1>6, <1>7, <1>8

LEMMA FreeLinkInv ==
    ASSUME IndInv, NEW p \in Proc, FreeLink(p)
    PROVE  IndInv'
<1> USE FreeAssumption DEF IndInv, FreeLink
<1>p. PICK b \in Block : b = call[p].bno
  BY BlockInHand DEF Is, Looks
<1> USE <1>p
<1>0. /\ Is(p, "free", "getblk") /\ Freeing(p) /\ Holder(p) /\ \A q \in Proc : q # p => ~Holder(q)
      /\ s_nfree = NICFREE /\ b \in Block /\ b # Zero /\ InHand(p) /\ Held(p) = b
  BY BlockInHand DEF Lock, Holder, Freeing, Is
<1>1. /\ call' \in [Proc -> Call \cup {NoCall}]
      /\ call'[p] # NoCall /\ call'[p].op = "free" /\ call'[p].at = "bwrite" /\ call'[p].bno = b
      /\ \A q \in Proc : q # p => call'[q] = call[q]
  BY <1>0, GoesTo DEF TypeOK
<1>a. /\ content'[b] \in Array /\ content'[b] # NoLink
      /\ content'[b].nfree = s_nfree /\ content'[b].free = s_free
      /\ \A c \in Block : c # b => content'[c] = content[c]
      /\ content' \in [Block -> Array \cup {NoLink}]
  <2>1. [nfree |-> s_nfree, free |-> s_free] \in Array
    BY <1>0 DEF TypeOK, Array
  <2> QED BY <1>0, <2>1 DEF TypeOK
<1>b. content[b] = NoLink /\ b \notin Links
      /\ \A a \in Number, i \in Index : Listed(a, i) => Nr(a, i) # b
  BY <1>0 DEF Once, Chain, Links
<1>2. TypeOK'
  BY <1>0, <1>1, <1>a DEF TypeOK
<1>3. Links' = Links \cup {b}
  <2>1. ASSUME NEW c \in Block PROVE c \in Links' <=> c \in Links \/ c = b
    <3>1. CASE c = b
      <4>1. \A q \in Proc : Is(q, "alloc", "getblk")' => call'[q].bno # b
        BY <1>0, <1>1 DEF Once, InHand, Held, Is
      <4> QED BY <1>a, <3>1, <4>1 DEF Links
    <3>2. CASE c # b
      BY <1>0, <1>1, <1>a, <3>2 DEF Links, Is
    <3> QED BY <3>1, <3>2
  <2> QED BY <1>0, <2>1 DEF Links
<1> DEFINE Old(a) == IF a = b THEN Zero ELSE a
<1>4. \A a \in Number, i \in Index : Listed(a, i)' =>
        a # Zero /\ Old(a) \in Number /\ Listed(Old(a), i) /\ Nr(a, i)' = Nr(Old(a), i)
  <2>1. Zero \notin Links /\ Zero \notin Links'
    BY <1>0, <1>3 DEF Links
  <2>2. \A i \in Index : ~Listed(Zero, i)'
    BY <2>1 DEF Listed
  <2>3. \A i \in Index : Listed(b, i)' => Listed(Zero, i)
    BY <1>0, <1>a DEF Listed
  <2>4. \A i \in Index : Nr(b, i)' = Nr(Zero, i)
    BY <1>0, <1>a DEF Nr
  <2>5. \A a \in Block : \A i \in Index : a # b =>
           (Listed(a, i)' => Listed(a, i)) /\ Nr(a, i)' = Nr(a, i)
    BY <1>0, <1>3, <1>a DEF Listed, Nr
  <2> QED BY <1>0, <2>2, <2>3, <2>4, <2>5
<1>5. Shape'
  BY <1>0, <1>1 DEF Shape, Holder, Freeing, Is
<1>6. Lock'
  BY <1>0, <1>1, <1>3 DEF Lock, Holder, Is
<1>7. Chain'
  <2>1. \A c \in used' : content'[c] = NoLink
    BY <1>0, <1>a DEF Chain, Once, TypeOK
  <2>2. \A q \in Proc : Freeing(q)' => content'[call'[q].bno] = NoLink
    <3>1. ASSUME NEW q \in Proc, Freeing(q)' PROVE content'[call'[q].bno] = NoLink
      <4>1. q # p /\ call'[q] = call[q] /\ Freeing(q)
        BY <1>1, <3>1 DEF Freeing, Is
      <4>2. call[q].bno \in Block /\ call[q].bno # b
        BY <1>0, <4>1, BlockInHand DEF Once, Freeing, Is
      <4> QED BY <1>a, <4>1, <4>2 DEF Chain
    <3> QED BY <3>1
  <2>3. ASSUME NEW a \in Number, NEW i \in Index, Listed(a, i)', Nr(a, i)' # Zero
        PROVE  IF i = 0 THEN Nr(a, i)' \in Links' ELSE content'[Nr(a, i)'] = NoLink
    <3>1. /\ Old(a) \in Number /\ Listed(Old(a), i) /\ Nr(a, i)' = Nr(Old(a), i)
          /\ Nr(a, i)' # b
      BY <1>4, <1>b, <2>3
    <3> HIDE DEF Old
    <3>2. i # 0 => Nr(a, i)' \in Block
      BY <1>2, <2>3 DEF Nr, Listed, TypeOK, Links, Array
    <3> QED BY <1>3, <1>a, <2>3, <3>1, <3>2 DEF Chain
  <2> QED BY <2>1, <2>2, <2>3 DEF Chain
<1>8. Once'
  <2>1. /\ \A q \in Proc : (InHand(q)' <=> InHand(q)) /\ (InHand(q) => Held(q)' = Held(q))
    BY <1>0, <1>1 DEF InHand, Held
  <2>2. /\ \A q \in Proc : InHand(q)' => Held(q)' \notin used'
        /\ \A q, r \in Proc : q # r /\ InHand(q)' /\ InHand(r)' => Held(q)' # Held(r)'
    BY <2>1 DEF Once
  <2>3. ASSUME NEW a \in Number, NEW i \in Index, Listed(a, i)', Nr(a, i)' # Zero
        PROVE  /\ Nr(a, i)' \notin used'
               /\ \A q \in Proc : InHand(q)' => Nr(a, i)' # Held(q)'
               /\ \A c \in Number, j \in Index :
                    Listed(c, j)' /\ Nr(c, j)' = Nr(a, i)' => c = a /\ j = i
    <3>0. Old(a) \in Number /\ Listed(Old(a), i) /\ Nr(a, i)' = Nr(Old(a), i)
      BY <1>4, <2>3
    <3> HIDE DEF Old
    <3>1. /\ Nr(a, i)' \notin used'
          /\ \A q \in Proc : InHand(q)' => Nr(a, i)' # Held(q)'
      BY <1>4, <2>1, <2>3, <3>0 DEF Once
    <3>2. ASSUME NEW c \in Number, NEW j \in Index, Listed(c, j)', Nr(c, j)' = Nr(a, i)'
          PROVE  c = a /\ j = i
      <4>1. Old(c) \in Number /\ Listed(Old(c), j) /\ Nr(c, j)' = Nr(Old(c), j)
        BY <1>4, <3>2
      <4>2. Old(c) = Old(a) /\ j = i
        BY <2>3, <3>0, <3>2, <4>1 DEF Once
      <4>3. a # Zero /\ c # Zero
        BY <1>4, <2>3, <3>2
      <4> QED BY <4>2, <4>3 DEF Old
    <3> QED BY <3>1, <3>2
  <2> QED BY <2>2, <2>3 DEF Once
<1> QED BY <1>2, <1>5, <1>6, <1>7, <1>8

LEMMA FreeDoneInv ==
    ASSUME IndInv, NEW p \in Proc, FreeDone(p)
    PROVE  IndInv'
<1> USE FreeAssumption DEF IndInv, FreeDone, Unlock
<1>p. PICK b \in Block : b = call[p].bno
  BY BlockInHand DEF Is, Looks
<1> USE <1>p
<1>0. /\ Is(p, "free", "bwrite") /\ Holder(p) /\ \A q \in Proc : q # p => ~Holder(q)
      /\ s_nfree = 0 /\ 0 \in Index /\ b \in Links
      /\ b \in Block /\ b # Zero /\ InHand(p) /\ Held(p) = b
  BY BlockInHand DEF Lock, Holder, Is
<1>a. s_nfree' = 1 /\ s_free' \in [Index -> Number] /\ s_free'[0] = b
  BY <1>0 DEF TypeOK
<1>1. /\ call' \in [Proc -> Call \cup {NoCall}] /\ call'[p] = NoCall
      /\ \A q \in Proc : q # p => call'[q] = call[q]
  BY Returns DEF TypeOK
<1>2. TypeOK'
  BY <1>0, <1>1, <1>a DEF TypeOK
<1>3. Links' = Links
  BY <1>0, <1>1, SameLinks DEF Is
<1>4. \A a \in Number, i \in Index : Listed(a, i)' =>
        \/ a = Zero /\ i = 0 /\ Nr(a, i)' = b
        \/ a # Zero /\ Listed(a, i) /\ Nr(a, i)' = Nr(a, i)
  BY <1>0, <1>3, <1>a DEF Listed, Nr, Links
<1>b. \A a \in Number, i \in Index : Listed(a, i) => Nr(a, i) # b
  BY <1>0 DEF Once
<1>5. Shape'
  BY <1>1 DEF Shape, Holder, Freeing, Is
<1>6. Lock'
  BY <1>0, <1>1, <1>3 DEF Lock, Holder, Is
<1>7. Chain'
  BY <1>0, <1>1, <1>3, <1>4 DEF Chain, Freeing, Is
<1>8. Once'
  <2>1. \A q \in Proc : InHand(q)' => InHand(q) /\ q # p /\ Held(q)' = Held(q)
    BY <1>1 DEF InHand, Held
  <2>2. /\ \A q \in Proc : InHand(q)' => Held(q)' \notin used'
        /\ \A q, r \in Proc : q # r /\ InHand(q)' /\ InHand(r)' => Held(q)' # Held(r)'
    BY <2>1 DEF Once
  <2>3. ASSUME NEW a \in Number, NEW i \in Index, Listed(a, i)', Nr(a, i)' # Zero
        PROVE  /\ Nr(a, i)' \notin used'
               /\ \A q \in Proc : InHand(q)' => Nr(a, i)' # Held(q)'
               /\ \A c \in Number, j \in Index :
                    Listed(c, j)' /\ Nr(c, j)' = Nr(a, i)' => c = a /\ j = i
    <3>1. CASE a = Zero /\ i = 0 /\ Nr(a, i)' = b
      BY <1>0, <1>4, <1>b, <2>1, <3>1 DEF Once
    <3>2. CASE Listed(a, i) /\ Nr(a, i)' = Nr(a, i)
      BY <1>0, <1>4, <1>b, <2>1, <2>3, <3>2 DEF Once
    <3> QED BY <1>4, <2>3, <3>1, <3>2
  <2> QED BY <2>2, <2>3 DEF Once
<1> QED BY <1>2, <1>5, <1>6, <1>7, <1>8
-----------------------------------------------------------------------------
LEMMA StutterInv == ASSUME IndInv, UNCHANGED vars PROVE IndInv'
<1>1. Links' = Links
  BY DEF vars, superVars, Links, Is
<1>2. \A a, i : (Listed(a, i)' <=> Listed(a, i)) /\ Nr(a, i)' = Nr(a, i)
  BY <1>1 DEF Listed, Nr, vars, superVars
<1>3. TypeOK' /\ Shape' /\ Lock'
  BY <1>1 DEF IndInv, TypeOK, Shape, Lock, Holder, Freeing, Is, vars, superVars
<1>4. Chain' /\ Once'
  BY <1>1, <1>2 DEF IndInv, Chain, Once, Freeing, InHand, Held, Is, vars, superVars
<1> QED BY <1>3, <1>4 DEF IndInv

LEMMA StepInv == IndInv /\ [Next]_vars => IndInv'
BY BeginAllocInv, BeginFreeInv, WaitsInv, AllocNospaceInv, AllocTakesInv,
   AllocTakesLinkInv, AllocReadInv, AllocReadFailsInv, AllocDoneInv,
   FreePutsInv, FreeFullInv, FreeLinkInv, FreeDoneInv, StutterInv DEF Next

LEMMA IndInvHolds == Spec => []IndInv
BY InitInv, StepInv, PTL DEF Spec

(* s_flock is never counted twice, though getblk(), bread() and bwrite()   *)
(* sleep while it is set, and what is read as an array of numbers is one   *)
(* (alloc, free).                                                          *)
THEOREM TypeCorrect == Spec => []TypeOK
<1>1. IndInv => TypeOK
  BY DEF IndInv
<1> QED BY <1>1, IndInvHolds, PTL

(* alloc() hands out no block twice, however calls of alloc() and free()   *)
(* come between the steps of each other and whichever reads fail.          *)
THEOREM BlocksUsedOnce == Spec => []UsedOnce
<1>1. ASSUME IndInv PROVE UsedOnce
  <2>1. \A x \in Places : /\ x[1] \in Number /\ x[2] \in Index
                          /\ Listed(x[1], x[2]) /\ Nr(x[1], x[2]) = At(x)
                          /\ x = <<x[1], x[2]>>
    BY <1>1, FreeAssumption DEF IndInv, TypeOK, Places, Listed, Nr, At, Links
  <2> QED BY <1>1, <2>1 DEF IndInv, Once, UsedOnce
<1> QED BY <1>1, IndInvHolds, PTL

(* Who sleeps for s_flock has a process to wait for: a read that fails, and*)
(* every end of a move of an array, wakes up all (alloc, free).            *)
THEOREM SleepersHaveHolder == Spec => []SleepersWait
<1>1. IndInv => SleepersWait
  BY DEF IndInv, Lock, Holder, SleepersWait
<1> QED BY <1>1, IndInvHolds, PTL
-----------------------------------------------------------------------------
(* What alloc() can find: the least set with the first numbers that has    *)
(* with an array its numbers.                                              *)
Closed(S) ==
    /\ Heads \subseteq S
    /\ \A a \in S \cap Links : \A i \in Index : i < content[a].nfree => content[a].free[i] \in S

(* An array has numbers of blocks but for the first one.                   *)
Solid == \A a \in Number, i \in Index : Listed(a, i) /\ i > 0 => Nr(a, i) # Zero

(* The blocks that alloc() should find are in every such set.              *)
Free == (Block \ used) \ {call[p].bno : p \in {q \in Proc : InHand(q)}}
Kept == \A S : Closed(S) => Free \subseteq S

LostInv == Solid /\ (failed \/ Kept)

(* The rounds of the search are a function.                                *)
LEMMA RoundsExist ==
    \A n \in Nat : \E f : f = [k \in 0 .. n |-> IF k = 0 THEN Heads ELSE Follow(f[k - 1])]
<1> DEFINE T == {n \in Nat :
                    \E f : f = [k \in 0 .. n |-> IF k = 0 THEN Heads ELSE Follow(f[k - 1])]}
<1>1. 0 \in T
  <2> DEFINE f == [k \in 0 .. 0 |-> Heads]
  <2>1. f = [k \in 0 .. 0 |-> IF k = 0 THEN Heads ELSE Follow(f[k - 1])]
    OBVIOUS
  <2> QED BY <2>1
<1>2. ASSUME NEW n \in Nat, n \in T PROVE n + 1 \in T
  <2>1. PICK f : f = [k \in 0 .. n |-> IF k = 0 THEN Heads ELSE Follow(f[k - 1])]
    BY <1>2
  <2> DEFINE g == [k \in 0 .. n + 1 |-> IF k = n + 1 THEN Follow(f[n]) ELSE f[k]]
  <2>2. g = [k \in 0 .. n + 1 |-> IF k = 0 THEN Heads ELSE Follow(g[k - 1])]
    <3>1. ASSUME NEW k \in 0 .. n + 1
          PROVE  g[k] = IF k = 0 THEN Heads ELSE Follow(g[k - 1])
      <4>1. CASE k = n + 1
        <5>1. g[k] = Follow(f[n]) /\ k - 1 = n /\ g[n] = f[n] /\ k # 0
          BY <4>1
        <5> QED BY <5>1, Zenon
      <4>2. CASE k # n + 1
        <5>1. f[k] = IF k = 0 THEN Heads ELSE Follow(f[k - 1])
          BY <2>1, <4>2
        <5>2. k # 0 => k - 1 \in 0 .. n + 1 /\ k - 1 # n + 1
          BY <4>2
        <5>3. g[k] = f[k] /\ (k # 0 => g[k - 1] = f[k - 1])
          BY <4>2, <5>2
        <5> QED BY <5>1, <5>3, Zenon
      <4> QED BY <4>1, <4>2
    <3> HIDE DEF g
    <3>2. g = [k \in 0 .. n + 1 |-> g[k]]
      BY DEF g
    <3> QED BY <3>1, <3>2
  <2> HIDE DEF g
  <2>3. \E f2 : f2 = [k \in 0 .. n + 1 |-> IF k = 0 THEN Heads ELSE Follow(f2[k - 1])]
    BY <2>2, Zenon
  <2> QED BY <2>3
<1> HIDE DEF T
<1>3. Nat \subseteq T
  BY <1>1, <1>2, Lists!Induction
<1> QED BY <1>3 DEF T

(* The last round is what is found.                                        *)
LEMMA FoundRounds ==
    \E r : /\ Found = r[Cardinality(Block)] \ {Zero}
           /\ r[0] = Heads
           /\ \A k \in 1 .. Cardinality(Block) : r[k] = Follow(r[k - 1])
<1> DEFINE m == Cardinality(Block)
           r == CHOOSE f : f = [k \in 0 .. m |-> IF k = 0 THEN Heads ELSE Follow(f[k - 1])]
<1>0. m \in Nat
  BY FreeAssumption, FS_CardinalityType
<1>1. r = [k \in 0 .. m |-> IF k = 0 THEN Heads ELSE Follow(r[k - 1])]
  BY <1>0, RoundsExist, Zenon
<1>2. Found = r[m] \ {Zero}
  BY Zenon DEF Found
<1> HIDE DEF r
<1>3. r[0] = Heads /\ \A k \in 1 .. m : r[k] = Follow(r[k - 1])
  BY <1>0, <1>1
<1> QED BY <1>2, <1>3

(* A round adds the numbers of the arrays it has reached.                  *)
LEMMA FollowIs ==
    ASSUME TypeOK, NEW S
    PROVE  \A x : x \in Follow(S) <=>
               \/ x \in S
               \/ \E a \in S \cap Links, i \in Index : i < content[a].nfree /\ x = content[a].free[i]
<1>1. \A a \in Links : a \in Block /\ content[a] \in Array
  BY DEF TypeOK, Links
<1>2. \A a \in Links : content[a].nfree \in 0 .. NICFREE
  BY <1>1 DEF Array
<1>3. \A a \in Links : \A i : i \in 0 .. content[a].nfree - 1 <=> i \in Index /\ i < content[a].nfree
  BY <1>2, FreeAssumption
<1> QED BY <1>3 DEF Follow

(* What is found are blocks that are in every closed set;                  *)
LEMMA FoundLeast ==
    ASSUME TypeOK, NEW S, Closed(S)
    PROVE  Found \subseteq S
<1> DEFINE m == Cardinality(Block)
<1>0. m \in Nat
  BY FreeAssumption, FS_CardinalityType
<1>1. PICK r : Found = r[m] \ {Zero} /\ r[0] = Heads /\ \A k \in 1 .. m : r[k] = Follow(r[k - 1])
  BY FoundRounds
<1> DEFINE T == {k \in Nat : k <= m => r[k] \subseteq S}
<1>2. 0 \in T
  BY <1>1 DEF Closed
<1>3. ASSUME NEW k \in Nat, k \in T PROVE k + 1 \in T
  <2> SUFFICES ASSUME k + 1 <= m PROVE r[k + 1] \subseteq S
    OBVIOUS
  <2>1. r[k] \subseteq S
    BY <1>0, <1>3
  <2>2. r[k + 1] = Follow(r[k])
    <3>1. k + 1 \in 1 .. m /\ (k + 1) - 1 = k
      BY <1>0
    <3> QED BY <1>1, <3>1
  <2> QED BY <2>1, <2>2, FollowIs DEF Closed
<1> HIDE DEF T
<1>4. Nat \subseteq T
  BY <1>2, <1>3, Lists!Induction
<1>5. r[m] \subseteq S
  BY <1>0, <1>4 DEF T
<1> QED BY <1>1, <1>5

LEMMA NumbersClosed == TypeOK => Closed(Number)
<1> SUFFICES ASSUME TypeOK PROVE Closed(Number)
  OBVIOUS
<1>1. \A p \in Proc : call[p] # NoCall => call[p].bno \in Number
  BY DEF TypeOK, Call
<1>2. \A i \in 0 .. s_nfree - 1 : s_free[i] \in Number
  BY FreeAssumption DEF TypeOK
<1>3. Heads \subseteq Number
  BY <1>1, <1>2 DEF Heads, Is
<1>4. \A a \in Links : content[a].free \in [Index -> Number]
  BY DEF TypeOK, Links, Array
<1> QED BY <1>3, <1>4 DEF Closed

(* and as many rounds as there are blocks are enough: each finds a block,  *)
(* or there is nothing more to be found.                                   *)
LEMMA FoundClosed ==
    ASSUME TypeOK
    PROVE  Closed(Found \cup {Zero})
<1> DEFINE m == Cardinality(Block)
           Ends(S) == Follow(S) \subseteq S \cup {Zero}
<1>0. m \in Nat /\ IsFiniteSet(Block) /\ Zero \notin Block /\ Zero \notin Links
  BY FreeAssumption, FS_CardinalityType DEF Links
<1>1. PICK r : Found = r[m] \ {Zero} /\ r[0] = Heads /\ \A k \in 1 .. m : r[k] = Follow(r[k - 1])
  BY FoundRounds
<1>2. \A k \in Nat : k + 1 <= m => r[k + 1] = Follow(r[k])
  <2>1. ASSUME NEW k \in Nat, k + 1 <= m PROVE r[k + 1] = Follow(r[k])
    <3>1. k + 1 \in 1 .. m /\ (k + 1) - 1 = k
      BY <1>0, <2>1
    <3> QED BY <1>1, <3>1
  <2> QED BY <2>1
<1>3. \A S : S \subseteq Number => Follow(S) \subseteq Number
  BY NumbersClosed, FollowIs DEF Closed
<1> DEFINE T == {k \in Nat : k <= m =>
                    /\ Heads \subseteq r[k] /\ r[k] \subseteq Number
                    /\ Ends(r[k]) \/ Cardinality(r[k] \ {Zero}) >= k}
<1>4. 0 \in T
  <2>1. r[0] \subseteq Number
    BY <1>1, NumbersClosed DEF Closed
  <2>2. IsFiniteSet(r[0] \ {Zero}) /\ Cardinality(r[0] \ {Zero}) \in Nat
    <3>1. r[0] \ {Zero} \in SUBSET Block
      BY <2>1
    <3> QED BY <1>0, <3>1, FS_Subset, FS_CardinalityType
  <2> QED BY <1>1, <2>1, <2>2
<1>5. ASSUME NEW k \in Nat, k \in T PROVE k + 1 \in T
  <2> DEFINE s == r[k]
             t == r[k + 1]
  <2> SUFFICES ASSUME k + 1 <= m
               PROVE  /\ Heads \subseteq t /\ t \subseteq Number
                      /\ Ends(t) \/ Cardinality(t \ {Zero}) >= k + 1
    OBVIOUS
  <2>1. /\ Heads \subseteq s /\ s \subseteq Number
        /\ Ends(s) \/ Cardinality(s \ {Zero}) >= k
    BY <1>0, <1>5
  <2>2. t = Follow(s)
    BY <1>2
  <2> HIDE DEF s, t
  <2>3. s \subseteq t /\ t \subseteq Number
    BY <1>3, <2>1, <2>2, FollowIs
  <2>4. CASE Ends(s)
    <3>1. t \cap Links = s \cap Links
      BY <1>0, <2>2, <2>3, <2>4
    <3>2. Follow(t) \subseteq t
      BY <2>2, <3>1, FollowIs
    <3> QED BY <2>1, <2>3, <3>2
  <2>5. CASE ~Ends(s)
    <3>1. PICK x : x \in t /\ x \notin s /\ x # Zero
      BY <2>2, <2>5
    <3>2. s \ {Zero} \in SUBSET Block /\ t \ {Zero} \in SUBSET Block
      BY <2>1, <2>3
    <3>3. IsFiniteSet(s \ {Zero}) /\ IsFiniteSet(t \ {Zero})
      BY <1>0, <3>2, FS_Subset
    <3>4. /\ Cardinality((s \ {Zero}) \cup {x}) = Cardinality(s \ {Zero}) + 1
          /\ Cardinality(s \ {Zero}) \in Nat /\ Cardinality(t \ {Zero}) \in Nat
      BY <3>1, <3>3, FS_AddElement, FS_CardinalityType
    <3>5. (s \ {Zero}) \cup {x} \in SUBSET (t \ {Zero})
      BY <2>3, <3>1
    <3>6. Cardinality((s \ {Zero}) \cup {x}) <= Cardinality(t \ {Zero})
      BY <3>3, <3>5, FS_Subset
    <3>7. Cardinality(s \ {Zero}) >= k
      BY <2>1, <2>5
    <3>8. Cardinality(t \ {Zero}) >= k + 1
      BY <3>4, <3>6, <3>7
    <3> QED BY <2>1, <2>3, <3>8
  <2> QED BY <2>4, <2>5
<1> HIDE DEF T
<1>6. Nat \subseteq T
  BY <1>4, <1>5, Lists!Induction
<1>7. /\ Heads \subseteq r[m] /\ r[m] \subseteq Number
      /\ Ends(r[m]) \/ Cardinality(r[m] \ {Zero}) >= m
  BY <1>0, <1>6 DEF T
<1>8. Ends(r[m])
  <2>1. CASE Cardinality(r[m] \ {Zero}) >= m
    <3>1. r[m] \ {Zero} \in SUBSET Block
      BY <1>7
    <3>2. /\ Cardinality(r[m] \ {Zero}) <= m
          /\ Cardinality(Block) = Cardinality(r[m] \ {Zero}) => Block = r[m] \ {Zero}
          /\ Cardinality(r[m] \ {Zero}) \in Nat
      BY <1>0, <3>1, FS_Subset, FS_CardinalityType
    <3>3. Block = r[m] \ {Zero}
      BY <1>0, <2>1, <3>2
    <3> QED BY <1>3, <1>7, <3>3
  <2> QED BY <1>7, <2>1
<1>9. Heads \subseteq Found \cup {Zero}
  BY <1>1, <1>7
<1>10. ASSUME NEW a \in (Found \cup {Zero}) \cap Links, NEW i \in Index, i < content[a].nfree
       PROVE  content[a].free[i] \in Found \cup {Zero}
  <2>1. a \in r[m] \cap Links
    BY <1>0, <1>1, <1>10
  <2>2. content[a].free[i] \in Follow(r[m])
    BY <1>10, <2>1, FollowIs
  <2> QED BY <1>1, <1>8, <2>2
<1> QED BY <1>9, <1>10 DEF Closed
-----------------------------------------------------------------------------
(* No block is lost. *)

(* The blocks in the hands of processes. *)
LEMMA FreeIs ==
    Free = {b \in Block : b \notin used /\ \A q \in Proc : InHand(q) => call[q].bno # b}
BY DEF Free

LEMMA LostInit == Init => LostInv
<1> SUFFICES ASSUME Init PROVE LostInv
  OBVIOUS
<1>1. Links = {} /\ s_nfree = 0 /\ Free = {}
  BY DEF Init, Links, Free
<1> QED BY <1>1 DEF LostInv, Solid, Kept, Listed

(* A step that keeps the arrays and their numbers keeps them solid.        *)
LEMMA SolidKept ==
    ASSUME Solid,
           \A a \in Number, i \in Index :
               Listed(a, i)' /\ i > 0 => \/ Listed(a, i) /\ Nr(a, i)' = Nr(a, i)
                                         \/ Nr(a, i)' # Zero
    PROVE  Solid'
BY DEF Solid

LEMMA NumbersStay ==
    ASSUME TypeOK, UNCHANGED <<s_free, content>>, s_nfree' \in 0 .. s_nfree, Links' = Links
    PROVE  \A a \in Number, i \in Index : Listed(a, i)' => Listed(a, i) /\ Nr(a, i)' = Nr(a, i)
<1>1. s_nfree \in Int /\ s_nfree' \in Int /\ s_nfree' <= s_nfree
  BY FreeAssumption DEF TypeOK
<1>2. \A i \in Index : i \in Int
  BY FreeAssumption
<1> QED BY <1>1, <1>2 DEF Listed, Nr

(* What becomes free by a step of process p is what it had in its hands.   *)
LEMMA FreeAfter ==
    ASSUME NEW p \in Proc, used' = used, \A q \in Proc : q # p => call'[q] = call[q]
    PROVE  \A b : /\ b \in Free' => b \in Free \/ (InHand(p) /\ call[p].bno = b)
                  /\ b \in Free' => ~(InHand(p)' /\ call'[p].bno = b)
<1> SUFFICES ASSUME NEW b, b \in Free'
             PROVE  /\ b \in Free \/ (InHand(p) /\ call[p].bno = b)
                    /\ ~(InHand(p)' /\ call'[p].bno = b)
  OBVIOUS
<1>1. b \in Block /\ b \notin used' /\ \A q \in Proc : InHand(q)' => call'[q].bno # b
  BY DEF Free
<1>2. \A q \in Proc : q # p => (InHand(q) => call[q].bno # b)
  BY <1>1 DEF InHand
<1> QED BY <1>1, <1>2, FreeIs

(* If what is free now was free or can be found, and each set that is      *)
(* closed after a step was so before, but for blocks C that are no longer  *)
(* free, nothing is lost.                                                  *)
LEMMA KeptStep ==
    ASSUME Kept, NEW C,
           \A S : Closed(S)' => Closed(S \cup C) /\ Free' \subseteq (Free \cup S) \ C
    PROVE  Kept'
<1> SUFFICES ASSUME NEW S, Closed(S)' PROVE Free' \subseteq S
  BY DEF Kept
<1>1. Closed(S \cup C) /\ Free' \subseteq (Free \cup S) \ C
  OBVIOUS
<1>2. Free \subseteq S \cup C
  BY <1>1 DEF Kept
<1> QED BY <1>1, <1>2

(* A process that is nowhere near an array.                                *)
Apart(p) == ~Is(p, "alloc", "bread") /\ ~Is(p, "free", "bwrite") /\ ~Is(p, "alloc", "getblk")

(* It changes neither the arrays nor the first numbers. *)
LEMMA HeadsApart ==
    ASSUME NEW p \in Proc, UNCHANGED <<s_nfree, s_free, content>>,
           \A q \in Proc : q # p => call'[q] = call[q], Apart(p), Apart(p)'
    PROVE  Links' = Links /\ Heads' = Heads
<1>1. Links' = Links
  BY SameLinks DEF Apart
<1>2. \A q \in Proc : q # p =>
        /\ Is(q, "alloc", "bread")' <=> Is(q, "alloc", "bread")
        /\ Is(q, "free", "bwrite")' <=> Is(q, "free", "bwrite")
        /\ call'[q].bno = call[q].bno
  BY DEF Is
<1>3. {call[q].bno : q \in {r \in Proc : Is(r, "alloc", "bread") \/ Is(r, "free", "bwrite")}}'
      = {call[q].bno : q \in {r \in Proc : Is(r, "alloc", "bread") \/ Is(r, "free", "bwrite")}}
  BY <1>2 DEF Apart
<1> QED BY <1>1, <1>3 DEF Heads

(* Steps of such a process that leave the free blocks alone. *)
LEMMA LostApart ==
    ASSUME LostInv, UNCHANGED <<s_nfree, s_free, content, failed>>,
           Links' = Links, Heads' = Heads, Free' \subseteq Free
    PROVE  LostInv'
<1>1. Solid'
  BY DEF LostInv, Solid, Listed, Nr
<1>2. ASSUME Kept PROVE Kept'
  BY <1>2 DEF Kept, Closed
<1> QED BY <1>1, <1>2 DEF LostInv

LEMMA LostBeginAlloc ==
    ASSUME IndInv, LostInv, NEW p \in Proc, BeginAlloc(p)
    PROVE  LostInv'
<1> USE DEF BeginAlloc, superVars
<1>1. /\ call'[p] # NoCall /\ call'[p].at = "flock" /\ call'[p].bno = Zero
      /\ \A q \in Proc : q # p => call'[q] = call[q]
  BY GoesTo DEF IndInv, TypeOK
<1>2. Links' = Links /\ Heads' = Heads
  BY <1>1, HeadsApart DEF Apart, Is
<1>3. Free' \subseteq Free
  BY <1>1 DEF Free, InHand
<1> QED BY <1>2, <1>3, LostApart

LEMMA LostBeginFree ==
    ASSUME IndInv, LostInv, NEW p \in Proc, BeginFree(p)
    PROVE  LostInv'
<1>0. PICK b \in used : /\ call[p] = NoCall /\ used' = used \ {b} /\ Goto(p, "free", "flock", b)
                        /\ UNCHANGED <<superVars, content, asleep, failed>>
  BY DEF BeginFree
<1>1. /\ call'[p] # NoCall /\ call'[p].at = "flock" /\ call'[p].bno = b /\ b \in Block /\ b # Zero
      /\ \A q \in Proc : q # p => call'[q] = call[q]
  BY <1>0, GoesTo, FreeAssumption DEF IndInv, TypeOK
<1>2. Links' = Links /\ Heads' = Heads
  BY <1>0, <1>1, HeadsApart DEF Apart, Is, superVars
<1>3. Free' \subseteq Free
  BY <1>0, <1>1 DEF Free, InHand
<1> QED BY <1>0, <1>2, <1>3, LostApart DEF superVars

LEMMA LostWaits ==
    ASSUME IndInv, LostInv, NEW p \in Proc, Waits(p)
    PROVE  LostInv'
<1>1. Links' = Links /\ Heads' = Heads /\ Free' = Free
  BY DEF Waits, superVars, Links, Heads, Free, InHand, Is
<1> QED BY <1>1, LostApart DEF Waits, superVars

LEMMA LostFreeFull ==
    ASSUME IndInv, LostInv, NEW p \in Proc, FreeFull(p)
    PROVE  LostInv'
<1>p. PICK b \in Block : b = call[p].bno
  BY BlockInHand DEF Is, Looks, FreeFull, IndInv
<1> USE DEF FreeFull
<1>1. /\ call'[p] # NoCall /\ call'[p].op = "free" /\ call'[p].at = "getblk" /\ call'[p].bno = b
      /\ \A q \in Proc : q # p => call'[q] = call[q]
      /\ call[p] # NoCall /\ call[p].at = "flock"
  BY <1>p, GoesTo DEF IndInv, TypeOK, Looks, Is
<1>2. Links' = Links /\ Heads' = Heads
  BY <1>1, HeadsApart DEF Apart, Is
<1>3. Free' \subseteq Free
  BY <1>1, <1>p DEF Free, InHand
<1> QED BY <1>2, <1>3, LostApart

LEMMA LostStutter ==
    ASSUME LostInv, UNCHANGED vars
    PROVE  LostInv'
<1>1. Links' = Links /\ Heads' = Heads /\ Free' = Free
  BY DEF vars, superVars, Links, Heads, Free, InHand, Is
<1> QED BY <1>1, LostApart DEF vars, superVars

(* When nothing moves an array, the first numbers are those of the super   *)
(* block;                                                                  *)
LEMMA HeadsOf ==
    ASSUME \A q \in Proc : ~Holder(q)
    PROVE  \A x : x \in Heads <=> \E i \in 0 .. s_nfree - 1 : x = s_free[i]
BY DEF Heads, Holder

(* who moves one has the only number of a first array.                     *)
LEMMA HeadsMoving ==
    ASSUME NEW p \in Proc, s_nfree = 0, Is(p, "alloc", "bread") \/ Is(p, "free", "bwrite"),
           \A q \in Proc : q # p => ~Holder(q)
    PROVE  Heads = {call[p].bno}
<1>1. \A i : i \notin 0 .. s_nfree - 1
  OBVIOUS
<1>2. \A q \in Proc : Is(q, "alloc", "bread") \/ Is(q, "free", "bwrite") <=> q = p
  BY DEF Holder
<1>3. {call[q].bno : q \in {r \in Proc : Is(r, "alloc", "bread") \/ Is(r, "free", "bwrite")}}
      = {call[p].bno}
  BY <1>2
<1>4. {s_free[i] : i \in 0 .. s_nfree - 1} = {}
  BY <1>1
<1> QED BY <1>3, <1>4 DEF Heads

(* "no space": the only number left, if any, is 0.                         *)
LEMMA NothingLeft ==
    ASSUME IndInv, Solid, NEW p \in Proc, AllocNospace(p)
    PROVE  Closed({Zero})
<1> USE FreeAssumption DEF IndInv, AllocNospace
<1>1. \A q \in Proc : ~Holder(q)
  BY NoHolder
<1>2. ASSUME NEW i \in 0 .. s_nfree - 1 PROVE s_free[i] = Zero
  <2>1. s_nfree \in 1 .. NICFREE /\ s_nfree - 1 \in Index
    BY <1>2 DEF TypeOK
  <2>2. s_free[s_nfree - 1] = Zero
    BY <2>1 DEF HasLast, Last
  <2>3. Listed(Zero, s_nfree - 1) /\ Nr(Zero, s_nfree - 1) = s_free[s_nfree - 1]
    BY <2>1 DEF Listed, Nr
  <2>4. s_nfree - 1 = 0
    BY <2>1, <2>2, <2>3 DEF Solid
  <2> QED BY <1>2, <2>2, <2>4
<1>3. Heads \subseteq {Zero}
  BY <1>1, <1>2, HeadsOf
<1>4. Zero \notin Links
  BY DEF Links
<1> QED BY <1>3, <1>4 DEF Closed

LEMMA LostAllocNospace ==
    ASSUME IndInv, LostInv, NEW p \in Proc, AllocNospace(p)
    PROVE  LostInv'
<1> USE DEF AllocNospace, superVars
<1>0. Is(p, "alloc", "flock") /\ s_flock = 0
  BY DEF Looks
<1>1. /\ call'[p] = NoCall
      /\ \A q \in Proc : q # p => call'[q] = call[q]
  BY Returns DEF IndInv, TypeOK
<1>2. Links' = Links
  BY <1>0, <1>1, SameLinks DEF Is
<1>3. Solid'
  <2>1. s_nfree' \in 0 .. s_nfree
    BY DEF IndInv, TypeOK
  <2> QED BY <1>2, <2>1, NumbersStay, SolidKept DEF LostInv, IndInv
<1>4. ASSUME Kept PROVE Kept'
  <2>1. Free \subseteq {Zero}
    BY <1>4, NothingLeft DEF Kept, LostInv
  <2>2. Free = {}
    BY <2>1, FreeAssumption DEF Free
  <2>3. call[p].bno = Zero
    BY <1>0, FreeAssumption DEF IndInv, Shape, Is, Holder, Freeing
  <2>4. Free' \subseteq Free
    BY <1>1, <2>3 DEF Free, InHand
  <2> QED BY <2>2, <2>4 DEF Kept
<1> QED BY <1>3, <1>4 DEF LostInv

LEMMA LostAllocTakes ==
    ASSUME IndInv, LostInv, NEW p \in Proc, AllocTakes(p)
    PROVE  LostInv'
<1> USE FreeAssumption DEF AllocTakes, superVars
<1>n. PICK n \in Int : n = s_nfree - 1 /\ s_nfree \in Int /\ n < s_nfree
  BY DEF IndInv, TypeOK
<1>0. /\ Is(p, "alloc", "flock") /\ \A q \in Proc : ~Holder(q)
      /\ n \in Index /\ n > 0 /\ s_nfree' = n /\ s_free[n] \in Block /\ s_free[n] # Zero
  BY <1>n, NoHolder DEF IndInv, TypeOK, Looks, HasLast, Last
<1>b. PICK b \in Block : b = s_free[n]
  BY <1>0
<1>1. /\ call'[p] # NoCall /\ call'[p].op = "alloc" /\ call'[p].at = "getblk" /\ call'[p].bno = b
      /\ \A q \in Proc : q # p => call'[q] = call[q]
  BY <1>0, <1>b, <1>n, GoesTo DEF IndInv, TypeOK, Last
<1>9. b \notin Links
  <2>1. Listed(Zero, n) /\ Nr(Zero, n) = b
    <3>1. n < s_nfree
      BY <1>0, <1>n
    <3> QED BY <1>b, <3>1, Zenon DEF Listed, Nr
  <2>2. content[b] = NoLink
    BY <1>0, <2>1 DEF IndInv, Chain
  <2> QED BY <2>2 DEF Links
<1>2. Links' = Links
  <2>1. ASSUME NEW c \in Block PROVE c \in Links' <=> c \in Links
    BY <1>0, <1>1, <1>9 DEF Links, Is
  <2> QED BY <2>1 DEF Links
<1>3. Solid'
  <2>1. s_nfree' \in 0 .. s_nfree
    BY <1>0, <1>n
  <2> QED BY <1>2, <2>1, NumbersStay, SolidKept DEF LostInv, IndInv
<1>4. ASSUME Kept PROVE Kept'
  <2>1. \A q \in Proc : ~Holder(q)'
    BY <1>0, <1>1 DEF Holder, Is
  <2>2. Heads \subseteq Heads' \cup {b}
    <3>1. ASSUME NEW i \in 0 .. s_nfree - 1 PROVE s_free[i] \in Heads' \cup {b}
      <4>1. CASE i = n
        BY <1>b, <4>1
      <4>2. CASE i # n
        <5>1. i \in 0 .. s_nfree' - 1
          BY <1>0, <1>n, <4>2
        <5> QED BY <5>1 DEF Heads
      <4> QED BY <4>1, <4>2
    <3> QED BY <1>0, <3>1, HeadsOf
  <2>3. ASSUME NEW S, Closed(S)'
        PROVE  Closed(S \cup {b}) /\ Free' \subseteq (Free \cup S) \ {b}
    <3>1. Closed(S \cup {b})
      BY <1>2, <1>9, <2>2, <2>3 DEF Closed
    <3>2. Free' \subseteq Free \ {b}
      <4>1. ~InHand(p) /\ InHand(p)'
        BY <1>0, <1>1 DEF InHand, IndInv, Shape, Is, Holder, Freeing
      <4> QED BY <1>1, <4>1, FreeAfter
    <3> QED BY <3>1, <3>2
  <2> QED BY <1>4, <2>3, KeptStep
<1> QED BY <1>3, <1>4 DEF LostInv

LEMMA LostAllocTakesLink ==
    ASSUME IndInv, LostInv, NEW p \in Proc, AllocTakesLink(p)
    PROVE  LostInv'
<1> USE FreeAssumption DEF AllocTakesLink, superVars
<1>0. /\ Is(p, "alloc", "flock") /\ \A q \in Proc : ~Holder(q)
      /\ 0 \in Index /\ s_nfree = 1 /\ s_free[0] \in Block /\ s_free[0] # Zero
  BY NoHolder DEF IndInv, TypeOK, Looks, HasLast, Last
<1>b. PICK b \in Block : b = s_free[0]
  BY <1>0
<1>1. /\ call'[p] # NoCall /\ call'[p].op = "alloc" /\ call'[p].at = "bread" /\ call'[p].bno = b
      /\ \A q \in Proc : q # p => call'[q] = call[q]
  BY <1>0, <1>b, GoesTo DEF IndInv, TypeOK, Last
<1>2. Links' = Links
  BY <1>0, <1>1, SameLinks DEF Is
<1>3. Solid'
  BY <1>0, <1>2, NumbersStay, SolidKept DEF LostInv, IndInv
<1>4. ASSUME Kept PROVE Kept'
  <2>1. Heads \subseteq {b}
    BY <1>0, <1>b, HeadsOf
  <2>2. b \in Heads'
    BY <1>1 DEF Heads, Is
  <2>3. ~InHand(p)
    BY <1>0 DEF InHand, IndInv, Shape, Is, Holder, Freeing
  <2>4. Free' \subseteq Free
    BY <1>1, <2>3, FreeAfter
  <2>5. \A S : Closed(S)' => Closed(S \cup {}) /\ Free' \subseteq (Free \cup S) \ {}
    BY <1>2, <2>1, <2>2, <2>4 DEF Closed
  <2> QED BY <1>4, <2>5, KeptStep
<1> QED BY <1>3, <1>4 DEF LostInv

LEMMA LostAllocRead ==
    ASSUME IndInv, LostInv, NEW p \in Proc, AllocRead(p)
    PROVE  LostInv'
<1> USE FreeAssumption DEF AllocRead
<1>b. PICK b \in Block : b = call[p].bno
  BY BlockInHand DEF Is, IndInv
<1>0. /\ Is(p, "alloc", "bread") /\ s_nfree = 0 /\ b \in Links /\ b # Zero /\ InHand(p)
      /\ \A q \in Proc : q # p => ~Holder(q)
  BY <1>b DEF IndInv, Lock, Holder, Is, InHand
<1>a. content[b].nfree \in 0 .. NICFREE
  BY <1>0 DEF IndInv, TypeOK, Links, Array
<1>1. /\ call'[p] # NoCall /\ call'[p].op = "alloc" /\ call'[p].at = "getblk" /\ call'[p].bno = b
      /\ \A q \in Proc : q # p => call'[q] = call[q]
  BY <1>0, <1>b, GoesTo DEF IndInv, TypeOK, Is
<1>2. Links' = Links \ {b}
  <2>1. ASSUME NEW c \in Block PROVE c \in Links' <=> c \in Links /\ c # b
    BY <1>0, <1>1 DEF Links, Is
  <2> QED BY <2>1 DEF Links
<1>3. Solid'
  <2>1. ASSUME NEW i \in Index, Listed(Zero, i)'
        PROVE  Listed(b, i) /\ Nr(Zero, i)' = Nr(b, i)
    <3>1. Zero \notin Links'
      BY DEF Links
    <3> QED BY <1>0, <1>b, <2>1, <3>1 DEF Listed, Nr
  <2>2. ASSUME NEW a \in Block, NEW i \in Index, Listed(a, i)'
        PROVE  Listed(a, i) /\ Nr(a, i)' = Nr(a, i)
    BY <1>2, <2>2 DEF Listed, Nr
  <2> QED BY <2>1, <2>2 DEF LostInv, Solid
<1>4. ASSUME Kept PROVE Kept'
  <2>1. Heads = {b}
    BY <1>0, <1>b, HeadsMoving
  <2>2. \A i \in Index : i < content[b].nfree => content[b].free[i] \in Heads'
    <3>1. \A i \in Index : i < s_nfree' => s_free'[i] \in Heads'
      BY <1>a, <1>b DEF Heads
    <3> QED BY <1>b, <3>1
  <2>3. Free' \subseteq Free \ {b}
    BY <1>0, <1>1, <1>b, FreeAfter DEF InHand
  <2>4. \A S : Closed(S)' => Closed(S \cup {b}) /\ Free' \subseteq (Free \cup S) \ {b}
    <3>1. ASSUME NEW S, Closed(S)' PROVE Closed(S \cup {b})
      <4>1. \A i \in Index : i < content[b].nfree => content[b].free[i] \in S
        BY <2>2, <3>1 DEF Closed
      <4>2. \A a \in S \cap Links : a # b =>
              \A i \in Index : i < content[a].nfree => content[a].free[i] \in S
        BY <1>2, <3>1 DEF Closed
      <4> QED BY <2>1, <4>1, <4>2 DEF Closed
    <3> QED BY <2>3, <3>1
  <2> QED BY <1>4, <2>4, KeptStep
<1> QED BY <1>3, <1>4 DEF LostInv

LEMMA LostAllocReadFails ==
    ASSUME IndInv, LostInv, NEW p \in Proc, AllocReadFails(p)
    PROVE  LostInv'
<1> USE FreeAssumption DEF AllocReadFails, superVars
<1>0. Is(p, "alloc", "bread") /\ s_nfree \in Nat
  BY DEF IndInv, TypeOK
<1>1. /\ call'[p] = NoCall /\ \A q \in Proc : q # p => call'[q] = call[q]
  BY Returns DEF IndInv, TypeOK
<1>2. Links' = Links
  BY <1>0, <1>1, SameLinks DEF Is
<1>3. s_nfree' \in 0 .. s_nfree
  BY <1>0
<1>4. Solid'
  BY <1>2, <1>3, NumbersStay, SolidKept DEF LostInv, IndInv
<1> QED BY <1>4 DEF LostInv

LEMMA LostAllocDone ==
    ASSUME IndInv, LostInv, NEW p \in Proc, AllocDone(p)
    PROVE  LostInv'
<1> USE FreeAssumption DEF AllocDone
<1>b. PICK b \in Block : b = call[p].bno
  BY BlockInHand DEF Is, IndInv
<1>0. Is(p, "alloc", "getblk") /\ b \notin Links
  BY <1>b DEF Links
<1>a. /\ content'[b] = NoLink /\ \A c \in Block : c # b => content'[c] = content[c]
  BY <1>b DEF IndInv, TypeOK
<1>1. /\ call'[p] = NoCall /\ \A q \in Proc : q # p => call'[q] = call[q]
  BY Returns DEF IndInv, TypeOK
<1>2. Links' = Links
  <2>1. ASSUME NEW c \in Block PROVE c \in Links' <=> c \in Links
    <3>1. CASE c = b
      BY <1>0, <1>a, <3>1 DEF Links
    <3>2. CASE c # b
      BY <1>0, <1>1, <1>a, <1>b, <3>2 DEF Links, Is
    <3> QED BY <3>1, <3>2
  <2> QED BY <2>1 DEF Links
<1>5. \A a \in Links : content'[a] = content[a]
  BY <1>0, <1>a DEF Links
<1>3. Solid'
  <2>1. \A a \in Number, i \in Index : Listed(a, i)' => Listed(a, i) /\ Nr(a, i)' = Nr(a, i)
    BY <1>2, <1>5 DEF Listed, Nr
  <2> QED BY <2>1, SolidKept DEF LostInv
<1>4. ASSUME Kept PROVE Kept'
  <2>1. Heads' = Heads
    <3>1. \A q \in Proc : (Is(q, "alloc", "bread") \/ Is(q, "free", "bwrite"))'
                          <=> Is(q, "alloc", "bread") \/ Is(q, "free", "bwrite")
      BY <1>0, <1>1 DEF Is
    <3>2. \A q \in Proc : Is(q, "alloc", "bread") \/ Is(q, "free", "bwrite") => call'[q] = call[q]
      BY <1>0, <1>1 DEF Is
    <3>3. {call[q].bno : q \in {r \in Proc : Is(r, "alloc", "bread") \/ Is(r, "free", "bwrite")}}'
          = {call[q].bno : q \in {r \in Proc : Is(r, "alloc", "bread") \/ Is(r, "free", "bwrite")}}
      BY <3>1, <3>2
    <3> QED BY <3>3 DEF Heads
  <2>2. Free' \subseteq Free
    <3>1. ASSUME NEW c \in Free' PROVE c \in Free
      <4>1. c \in Block /\ c \notin used /\ c # b /\ \A q \in Proc : InHand(q)' => call'[q].bno # c
        BY <1>b DEF Free
      <4>2. \A q \in Proc : InHand(q) => call[q].bno # c
        BY <1>1, <1>b, <4>1 DEF InHand
      <4> QED BY <4>1, <4>2, FreeIs
    <3> QED BY <3>1
  <2>3. \A S : Closed(S)' => Closed(S \cup {}) /\ Free' \subseteq (Free \cup S) \ {}
    BY <1>2, <1>5, <2>1, <2>2 DEF Closed
  <2> QED BY <1>4, <2>3, KeptStep
<1> QED BY <1>3, <1>4 DEF LostInv

LEMMA LostFreePuts ==
    ASSUME IndInv, LostInv, NEW p \in Proc, FreePuts(p)
    PROVE  LostInv'
<1> USE FreeAssumption DEF FreePuts
<1>b. PICK b \in Block : b = call[p].bno
  BY BlockInHand DEF Is, Looks, IndInv
<1>n. PICK n \in Int : n = Count
  BY DEF IndInv, TypeOK, Count
<1>0. /\ Is(p, "free", "flock") /\ \A q \in Proc : ~Holder(q)
      /\ b # Zero /\ InHand(p)
  BY <1>b, NoHolder, BlockInHand DEF IndInv, Looks, Is
<1>a. /\ n \in 1 .. NICFREE - 1 /\ s_nfree \in Int /\ s_nfree <= n /\ s_nfree' = n + 1
      /\ s_free'[n] = b
      /\ \A i \in Index : i < s_nfree => s_free'[i] = s_free[i] /\ i < n + 1
      /\ \A i \in Index : i < n + 1 /\ i # n /\ i > 0 => i < s_nfree
  <2>1. CASE s_nfree = 0
    BY <1>b, <1>n, <2>1 DEF IndInv, TypeOK, Count, Numbers
  <2>2. CASE s_nfree # 0
    BY <1>b, <1>n, <2>2 DEF IndInv, TypeOK, Count, Numbers
  <2> QED BY <2>1, <2>2
<1>1. /\ call'[p] = NoCall /\ \A q \in Proc : q # p => call'[q] = call[q]
  BY Returns DEF IndInv, TypeOK
<1>2. Links' = Links
  BY <1>0, <1>1, SameLinks DEF Is
<1>3. Solid'
  <2>1. ASSUME NEW i \in Index, Listed(Zero, i)', i > 0
        PROVE  \/ Listed(Zero, i) /\ Nr(Zero, i)' = Nr(Zero, i)
               \/ Nr(Zero, i)' # Zero
    <3>1. Zero \notin Links'
      BY DEF Links
    <3>2. i < n + 1
      BY <1>a, <2>1, <3>1 DEF Listed
    <3>3. CASE i = n
      BY <1>0, <1>a, <3>3 DEF Nr
    <3>4. CASE i # n
      <4>1. i < s_nfree /\ s_free'[i] = s_free[i]
        BY <1>a, <2>1, <3>2, <3>4
      <4> QED BY <4>1 DEF Listed, Nr
    <3> QED BY <3>3, <3>4
  <2>2. ASSUME NEW a \in Block, NEW i \in Index, Listed(a, i)'
        PROVE  Listed(a, i) /\ Nr(a, i)' = Nr(a, i)
    BY <1>2, <2>2 DEF Listed, Nr
  <2> QED BY <2>1, <2>2, SolidKept DEF LostInv
<1>4. ASSUME Kept PROVE Kept'
  <2>1. Heads \subseteq Heads'
    <3>1. ASSUME NEW i \in 0 .. s_nfree - 1 PROVE s_free[i] \in Heads'
      <4>1. i \in Index /\ i < s_nfree /\ i \in 0 .. s_nfree' - 1
        BY <1>a
      <4> QED BY <1>a, <4>1 DEF Heads
    <3> QED BY <1>0, <3>1, HeadsOf
  <2>2. b \in Heads'
    BY <1>a DEF Heads
  <2>3. Free' \subseteq Free \cup {b}
    BY <1>1, <1>b, FreeAfter
  <2>4. \A S : Closed(S)' => Closed(S \cup {}) /\ Free' \subseteq (Free \cup S) \ {}
    BY <1>2, <2>1, <2>2, <2>3 DEF Closed
  <2> QED BY <1>4, <2>4, KeptStep
<1> QED BY <1>3, <1>4 DEF LostInv

LEMMA LostFreeLink ==
    ASSUME IndInv, LostInv, NEW p \in Proc, FreeLink(p)
    PROVE  LostInv'
<1> USE FreeAssumption DEF FreeLink
<1>b. PICK b \in Block : b = call[p].bno
  BY BlockInHand DEF Is, IndInv
<1>0. /\ Is(p, "free", "getblk") /\ \A q \in Proc : q # p => ~Holder(q)
      /\ s_nfree = NICFREE /\ b # Zero /\ InHand(p)
  BY <1>b DEF IndInv, Lock, Holder, Is, InHand
<1>1. /\ call'[p] # NoCall /\ call'[p].op = "free" /\ call'[p].at = "bwrite" /\ call'[p].bno = b
      /\ \A q \in Proc : q # p => call'[q] = call[q]
  BY <1>0, <1>b, GoesTo DEF IndInv, TypeOK
<1>a. /\ content'[b] # NoLink
      /\ content'[b].nfree = s_nfree /\ content'[b].free = s_free
      /\ \A c \in Block : c # b => content'[c] = content[c]
  <2>1. [nfree |-> s_nfree, free |-> s_free] \in Array
    BY <1>0 DEF IndInv, TypeOK, Array
  <2> QED BY <1>b, <2>1 DEF IndInv, TypeOK
<1>c. b \notin Links
  BY <1>0, <1>b DEF IndInv, Chain, Freeing, Links
<1>2. Links' = Links \cup {b}
  <2>1. ASSUME NEW c \in Block PROVE c \in Links' <=> c \in Links \/ c = b
    <3>1. CASE c = b
      <4>1. \A q \in Proc : Is(q, "alloc", "getblk")' => call'[q].bno # b
        BY <1>0, <1>1, <1>b DEF IndInv, Once, InHand, Held, Is
      <4> QED BY <1>a, <3>1, <4>1 DEF Links
    <3>2. CASE c # b
      BY <1>0, <1>1, <1>a, <1>b, <3>2 DEF Links, Is
    <3> QED BY <3>1, <3>2
  <2> QED BY <1>b, <2>1 DEF Links
<1>3. Solid'
  <2>1. ASSUME NEW i \in Index PROVE ~Listed(Zero, i)'
    BY <2>1 DEF Listed, Links
  <2>2. ASSUME NEW i \in Index, Listed(b, i)', i > 0 PROVE Nr(b, i)' # Zero
    <3>1. Listed(Zero, i) /\ Nr(b, i)' = Nr(Zero, i)
      BY <1>0, <1>a, <2>2 DEF Listed, Nr
    <3> QED BY <2>2, <3>1 DEF LostInv, Solid
  <2>3. ASSUME NEW a \in Block, a # b, NEW i \in Index, Listed(a, i)'
        PROVE  Listed(a, i) /\ Nr(a, i)' = Nr(a, i)
    BY <1>2, <1>a, <2>3 DEF Listed, Nr
  <2> QED BY <2>1, <2>2, <2>3, SolidKept DEF LostInv
<1>4. ASSUME Kept PROVE Kept'
  <2>1. b \in Heads'
    BY <1>1 DEF Heads, Is
  <2>2. \A x : x \in Heads => \E i \in Index : i < s_nfree /\ x = s_free[i]
    BY <1>0 DEF Heads, Holder, Is
  <2>3. Free' \subseteq Free
    BY <1>0, <1>1, <1>b, FreeAfter DEF InHand
  <2>4. \A a \in Links : a # b /\ content'[a] = content[a]
    BY <1>a, <1>c DEF Links
  <2>5. ASSUME NEW S, Closed(S)' PROVE Closed(S \cup {})
    <3>1. b \in S \cap Links'
      BY <1>2, <1>b, <2>1, <2>5 DEF Closed
    <3>2. \A i \in Index : i < s_nfree => s_free[i] \in S
      BY <1>a, <2>5, <3>1 DEF Closed
    <3>3. \A a \in S \cap Links :
            \A i \in Index : i < content[a].nfree => content[a].free[i] \in S
      BY <1>2, <2>4, <2>5 DEF Closed
    <3> QED BY <2>2, <3>2, <3>3 DEF Closed
  <2>6. \A S : Closed(S)' => Closed(S \cup {}) /\ Free' \subseteq (Free \cup S) \ {}
    BY <2>3, <2>5
  <2> QED BY <1>4, <2>6, KeptStep
<1> QED BY <1>3, <1>4 DEF LostInv

LEMMA LostFreeDone ==
    ASSUME IndInv, LostInv, NEW p \in Proc, FreeDone(p)
    PROVE  LostInv'
<1> USE FreeAssumption DEF FreeDone
<1>b. PICK b \in Block : b = call[p].bno
  BY BlockInHand DEF Is, IndInv
<1>0. /\ Is(p, "free", "bwrite") /\ \A q \in Proc : q # p => ~Holder(q)
      /\ s_nfree = 0 /\ b # Zero
  BY <1>b DEF IndInv, Lock, Holder, Is
<1>a. s_nfree' = 1 /\ s_free'[0] = b
  BY <1>0, <1>b DEF IndInv, TypeOK
<1>1. /\ call'[p] = NoCall /\ \A q \in Proc : q # p => call'[q] = call[q]
  BY Returns DEF IndInv, TypeOK
<1>2. Links' = Links
  BY <1>0, <1>1, SameLinks DEF Is
<1>3. Solid'
  <2>1. ASSUME NEW i \in Index, i > 0 PROVE ~Listed(Zero, i)'
    BY <1>a, <2>1 DEF Listed, Links
  <2>2. ASSUME NEW a \in Block, NEW i \in Index, Listed(a, i)'
        PROVE  Listed(a, i) /\ Nr(a, i)' = Nr(a, i)
    BY <1>2, <2>2 DEF Listed, Nr
  <2> QED BY <2>1, <2>2, SolidKept DEF LostInv
<1>4. ASSUME Kept PROVE Kept'
  <2>1. Heads = {b}
    BY <1>0, <1>b, HeadsMoving
  <2>2. b \in Heads'
    BY <1>a DEF Heads
  <2>3. Free' \subseteq Free \cup {b}
    BY <1>1, <1>b, FreeAfter
  <2>4. \A S : Closed(S)' => Closed(S \cup {}) /\ Free' \subseteq (Free \cup S) \ {}
    BY <1>2, <2>1, <2>2, <2>3 DEF Closed
  <2> QED BY <1>4, <2>4, KeptStep
<1> QED BY <1>3, <1>4 DEF LostInv

LEMMA LostStep == IndInv /\ LostInv /\ [Next]_vars => LostInv'
BY LostBeginAlloc, LostBeginFree, LostWaits, LostAllocNospace, LostAllocTakes,
   LostAllocTakesLink, LostAllocRead, LostAllocReadFails, LostAllocDone,
   LostFreePuts, LostFreeFull, LostFreeLink, LostFreeDone, LostStutter DEF Next

LEMMA LostInvHolds == Spec => [](IndInv /\ LostInv)
BY InitInv, StepInv, LostInit, LostStep, PTL DEF Spec

LEMMA NoneLostFrom == IndInv /\ LostInv => NoneLost
<1> SUFFICES ASSUME IndInv, LostInv, ~failed
             PROVE  Block = used \cup {call[p].bno : p \in {q \in Proc : InHand(q)}} \cup Found
  BY DEF NoneLost
<1>0. TypeOK /\ Zero \notin Block
  BY FreeAssumption DEF IndInv
<1>1. Free \subseteq Found
  <2>1. Free \subseteq Found \cup {Zero}
    BY <1>0, FoundClosed DEF LostInv, Kept
  <2> QED BY <1>0, <2>1 DEF Free
<1>2. Found \subseteq Block
  <2>1. Zero \notin Found
    BY FoundRounds
  <2> QED BY <1>0, <2>1, NumbersClosed, FoundLeast
<1>3. used \subseteq Block
  BY <1>0 DEF TypeOK
<1>4. \A p \in Proc : InHand(p) => call[p].bno \in Block
  BY <1>0 DEF TypeOK, InHand, Call
<1> QED BY <1>1, <1>2, <1>3, <1>4 DEF Free

(* Wherever calls of alloc() and free() are, every block is in a file, in  *)
(* the hands of one of them, or found from the super block and the array   *)
(* that is being moved; only an array that could not be read loses blocks. *)
THEOREM NoBlockLost == Spec => []NoneLost
BY LostInvHolds, NoneLostFrom, PTL

(* alloc() says "no space" only when no block can be found: the last       *)
(* number is 0 in no array that has another one, and nobody is reading or  *)
(* writing an array when s_flock is free.                                  *)
THEOREM NospaceTrue == Spec => NospaceWhenEmpty
<1>1. ASSUME IndInv, Solid, NEW p \in Proc, AllocNospace(p)
      PROVE  Found = {}
  <2>1. Found \subseteq {Zero}
    BY <1>1, NothingLeft, FoundLeast DEF IndInv
  <2>2. Zero \notin Found
    BY FoundRounds
  <2> QED BY <2>1, <2>2
<1>2. IndInv /\ LostInv => [(\E p \in Proc : AllocNospace(p)) => Found = {}]_vars
  BY <1>1 DEF LostInv
<1> QED BY <1>2, LostInvHolds, PTL DEF NospaceWhenEmpty
=============================================================================
