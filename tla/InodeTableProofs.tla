-------------------------- MODULE InodeTableProofs --------------------------
(***************************************************************************)
(* Proofs about InodeTable: the counts, the locks, the wakeups, the copies *)
(* on the device and the links are right for any number of processes,      *)
(* slots, inodes and names.                                                *)
(***************************************************************************)
EXTENDS InodeTable, ListLemmas, FiniteSetTheorems, TLAPS

(* The references that registers r have to slot s. *)
Tally(r, s) == One(r.dp = s) + One(r.ip = s) + One(r.res = s) + One(r.cur = s)
               + One(r.ref = s) + One(r.file = s) + One(r.wfile = s)

(* What is known of the registers of a process, and of the constants.      *)
At(p) ==
    /\ pc \in [Proc -> Label] /\ reg \in [Proc -> Reg] /\ reg[p] \in Reg
    /\ Placed(pc[p], reg[p])
    /\ reg[p].call \in Calls /\ Calls \subseteq Call
    /\ RootSlot \in Slot /\ NoSlot \notin Slot
    /\ NoIno \notin Ino /\ ROOTINO \notin Ino /\ ROOTINO # NoIno

(* What a step of process p does to its registers,                         *)
Goes(p) ==
    /\ pc' = [pc EXCEPT ![p] = pc'[p]] /\ pc'[p] \in Label
    /\ reg' = [reg EXCEPT ![p] = reg'[p]] /\ reg'[p] \in Reg
    /\ reg'[p].call \in Calls
    /\ cpu' \in Proc \cup {NoProc}

Settles(p) == Goes(p) /\ Placed(pc'[p], reg'[p])

(* to its references: as many as before, or d more to slot s,              *)
Same(p) == \A t \in Slot : Tally(reg'[p], t) = Tally(reg[p], t)
Shifts(p, s, d) ==
    \A t \in Slot : Tally(reg'[p], t) = Tally(reg[p], t) + (IF t = s THEN d ELSE 0)

(* and whether it begins to give up a last reference.                      *)
Parting(l, r) == AfterUpdate(l, r) \in {"dealloc", "idle", "release"}
Onward(p) == Parting(pc'[p], reg'[p]) => Parting(pc[p], reg[p]) /\ reg'[p].cur = reg[p].cur

Moves(p) == Settles(p) /\ Same(p) /\ Onward(p)
-----------------------------------------------------------------------------
(* Where the processes are. *)

(* What IndInv says of one process. *)
LEMMA AtPlace ==
    ASSUME IndInv, NEW p \in Proc
    PROVE  At(p)
BY ConstantAssumption DEF IndInv, OneSlotPerInode, TypeOK, At, Slot, RootSlot, NoSlot, Ino,
   ROOTINO, NoIno

(* The labels that registers are given. *)
LEMMA Labels ==
    {"user", "iget", "iread", "iput", "dealloc", "idle", "release", "iupdat", "isync", "dir",
     "search", "file", "opened", "linked", "exists", "wdir", "created", "relock", "victim",
     "clear", "cleared", "parent", "close", "dopen", "dclosed", "ialloc", "scan", "scanned",
     "new", "made", "again", "sync", "syncput"} \subseteq Label
BY DEF Label

(* Outside the kernel a process refers to its open files only. *)
LEMMA IdleType ==
    ASSUME NEW f \in Slot \cup {NoSlot}, NEW w \in Slot \cup {NoSlot}, RootSlot \notin {f, w}
    PROVE  /\ Idle(f, w) \in Reg /\ Idle(f, w).call \in Calls
           /\ Placed("user", Idle(f, w)) /\ AfterUpdate("user", Idle(f, w)) = "user"
           /\ \A s \in Slot : Tally(Idle(f, w), s) = One(f = s) + One(w = s)
<1> DEFINE r == Idle(f, w)
<1>0. RootSlot \in Slot /\ NoSlot \notin Slot /\ NoSlot # RootSlot /\ Calls \subseteq Call
  BY ConstantAssumption DEF Slot, RootSlot, NoSlot
<1>1. PICK c \in Calls : c = CHOOSE d \in Calls : TRUE
  BY ConstantAssumption
<1>2. c \in Call /\ c.name \in Name
  BY ConstantAssumption DEF Call
<1>3. PICK n \in Name : n = CHOOSE m \in Name : TRUE
  BY <1>2
<1>4. r = [call |-> c, name |-> n, second |-> FALSE, error |-> FALSE,
           dp |-> NoSlot, ip |-> NoSlot, res |-> NoSlot, cur |-> NoSlot,
           ref |-> NoSlot, file |-> f, wfile |-> w, ino |-> NoIno, scan |-> 0,
           iget |-> "user", iput |-> "user", iupdat |-> "user"]
  BY <1>1, <1>3, Zenon DEF Idle
<1> HIDE DEF r
<1>5. r \in Reg /\ r.call \in Calls
  BY <1>2, <1>4, Labels DEF Reg
<1>6. AfterUpdate("user", r) = "user"
  BY DEF AfterUpdate
<1>7. Home("user", r) = "user" /\ ~InPut("user", r) /\ ~InGet("user", r)
  BY <1>6 DEF Home, InGet, AfterPut, InPut
<1>8. Keeps("user", r)
  BY <1>0, <1>4 DEF Keeps, Allocating
<1>9. Placed("user", r)
  BY <1>0, <1>4, <1>6, <1>7, <1>8 DEF Placed, Returns, Handles
<1>10. \A s \in Slot : Tally(r, s) = One(f = s) + One(w = s)
  BY <1>0, <1>4 DEF Tally, One
<1> QED BY <1>5, <1>6, <1>9, <1>10 DEF r

(* A step that sets the label and the registers of p to given values. *)
LEMMA GoesTo ==
    ASSUME NEW p \in Proc, At(p), NEW l \in Label, NEW r \in Reg, r.call \in Calls,
           pc' = [pc EXCEPT ![p] = l], reg' = [reg EXCEPT ![p] = r],
           cpu' \in Proc \cup {NoProc}
    PROVE  Goes(p) /\ pc'[p] = l /\ reg'[p] = r
BY DEF Goes, At
-----------------------------------------------------------------------------
(* The number of references: by process and register, those of the others  *)
(* than p, and those of p.                                                 *)

Field == {"dp", "ip", "res", "cur", "ref", "file", "wfile"}
Pairs(R, s) == {u \in Proc \X Field : R[u[1]][u[2]] = s}
Rest(R, p, s) == {u \in (Proc \ {p}) \X Field : R[u[1]][u[2]] = s}
Mine(p, r, s) == {u \in {p} \X Field : r[u[2]] = s}

(* A set with one element more, or the same one. *)
LEMMA OneMore ==
    ASSUME NEW S, IsFiniteSet(S), NEW x, x \notin S, NEW b \in BOOLEAN
    PROVE  LET T == S \cup (IF b THEN {x} ELSE {})
           IN  IsFiniteSet(T) /\ Cardinality(T) = Cardinality(S) + One(b)
<1>1. Cardinality(S) \in Nat
  BY FS_CardinalityType
<1>2. CASE b
  <2>1. IsFiniteSet(S \cup {x}) /\ Cardinality(S \cup {x}) = Cardinality(S) + 1
    BY FS_AddElement
  <2> QED BY <1>2, <2>1 DEF One
<1>3. CASE ~b
  BY <1>1, <1>3 DEF One
<1> QED BY <1>2, <1>3

(* One process has as many references to s as its registers say.           *)
LEMMA TallyIs ==
    ASSUME NEW p, NEW r, NEW s
    PROVE  IsFiniteSet(Mine(p, r, s)) /\ Cardinality(Mine(p, r, s)) = Tally(r, s)
<1> DEFINE M == Mine(p, r, s)
           Add(S, f) == S \cup (IF r[f] = s THEN {<<p, f>>} ELSE {})
           S1 == Add({}, "dp")
           S2 == Add(S1, "ip")
           S3 == Add(S2, "res")
           S4 == Add(S3, "cur")
           S5 == Add(S4, "ref")
           S6 == Add(S5, "file")
           S7 == Add(S6, "wfile")
<1>0. IsFiniteSet({}) /\ Cardinality({}) = 0
  BY FS_EmptySet
<1>1. IsFiniteSet(S1) /\ Cardinality(S1) = Cardinality({}) + One(r.dp = s)
  <2>1. <<p, "dp">> \notin {} /\ (r.dp = s) \in BOOLEAN
    OBVIOUS
  <2> QED BY <1>0, <2>1, OneMore
<1>2. IsFiniteSet(S2) /\ Cardinality(S2) = Cardinality(S1) + One(r.ip = s)
  <2>1. <<p, "ip">> \notin S1
    OBVIOUS
  <2> HIDE DEF S1
  <2> QED BY <1>1, <2>1, OneMore
<1>3. IsFiniteSet(S3) /\ Cardinality(S3) = Cardinality(S2) + One(r.res = s)
  <2>1. <<p, "res">> \notin S2
    OBVIOUS
  <2> HIDE DEF S2
  <2> QED BY <1>2, <2>1, OneMore
<1>4. IsFiniteSet(S4) /\ Cardinality(S4) = Cardinality(S3) + One(r.cur = s)
  <2>1. <<p, "cur">> \notin S3
    OBVIOUS
  <2> HIDE DEF S3
  <2> QED BY <1>3, <2>1, OneMore
<1>5. IsFiniteSet(S5) /\ Cardinality(S5) = Cardinality(S4) + One(r.ref = s)
  <2>1. <<p, "ref">> \notin S4
    OBVIOUS
  <2> HIDE DEF S4
  <2> QED BY <1>4, <2>1, OneMore
<1>6. IsFiniteSet(S6) /\ Cardinality(S6) = Cardinality(S5) + One(r.file = s)
  <2>1. <<p, "file">> \notin S5
    OBVIOUS
  <2> HIDE DEF S5
  <2> QED BY <1>5, <2>1, OneMore
<1>7. IsFiniteSet(S7) /\ Cardinality(S7) = Cardinality(S6) + One(r.wfile = s)
  <2>1. <<p, "wfile">> \notin S6
    OBVIOUS
  <2> HIDE DEF S6
  <2> QED BY <1>6, <2>1, OneMore
<1>8. M = S7
  <2>1. ASSUME NEW u \in M PROVE u \in S7
    BY DEF Mine, Field
  <2>2. ASSUME NEW u \in S7 PROVE u \in M
    BY DEF Mine, Field
  <2> QED BY <2>1, <2>2
<1> HIDE DEF M, S1, S2, S3, S4, S5, S6, S7
<1>9. Cardinality(S7) = Tally(r, s)
  BY <1>0, <1>1, <1>2, <1>3, <1>4, <1>5, <1>6, <1>7 DEF Tally, One
<1> QED BY <1>7, <1>8, <1>9 DEF M

(* There are finitely many references, *)
LEMMA PairsFinite ==
    ASSUME NEW R, NEW s
    PROVE  IsFiniteSet(Pairs(R, s)) /\ Cardinality(Pairs(R, s)) \in Nat
<1>1. IsFiniteSet(Field)
  <2>1. \A S, x : IsFiniteSet(S) => IsFiniteSet(S \cup {x})
    BY FS_AddElement
  <2>2. Field = {} \cup {"dp"} \cup {"ip"} \cup {"res"} \cup {"cur"} \cup {"ref"}
                \cup {"file"} \cup {"wfile"}
    BY DEF Field
  <2> QED BY <2>1, <2>2, FS_EmptySet
<1>2. IsFiniteSet(Proc \X Field)
  BY <1>1, ConstantAssumption, FS_Product
<1>3. Pairs(R, s) \subseteq Proc \X Field
  BY DEF Pairs
<1>4. IsFiniteSet(Pairs(R, s))
  BY <1>2, <1>3, FS_Subset
<1> QED BY <1>4, FS_CardinalityType

(* The references to a slot are finitely many. *)
LEMMA ReferencesNat ==
    ASSUME NEW s
    PROVE  References(s) = Cardinality(Pairs(reg, s)) /\ References(s) \in Nat
BY PairsFinite, ZenonT(40) DEF References, Pairs, Field

(* those of process p and those of the others.                             *)
LEMMA PairsSplit ==
    ASSUME NEW R, NEW p \in Proc, NEW s
    PROVE  /\ Cardinality(Rest(R, p, s)) \in Nat
           /\ Cardinality(Pairs(R, s)) = Cardinality(Rest(R, p, s)) + Tally(R[p], s)
<1> DEFINE O == Rest(R, p, s)
           M == Mine(p, R[p], s)
<1>1. IsFiniteSet(O) /\ IsFiniteSet(M) /\ Cardinality(M) = Tally(R[p], s)
  <2>1. O \subseteq Pairs(R, s)
    BY DEF Pairs, Rest
  <2>2. IsFiniteSet(O)
    BY <2>1, PairsFinite, FS_Subset
  <2>3. IsFiniteSet(M) /\ Cardinality(M) = Tally(R[p], s)
    BY TallyIs
  <2> QED BY <2>2, <2>3
<1>2. Pairs(R, s) = O \cup M /\ O \cap M = {}
  BY DEF Pairs, Rest, Mine
<1>3. Cardinality(O \cup M) = Cardinality(O) + Cardinality(M) - Cardinality({})
  BY <1>1, <1>2, FS_Union
<1>4. Cardinality({}) = 0 /\ Cardinality(O) \in Nat /\ Cardinality(M) \in Nat
  BY <1>1, FS_EmptySet, FS_CardinalityType
<1> HIDE DEF O, M
<1>5. Cardinality(Pairs(R, s)) = Cardinality(O) + Cardinality(M)
  BY <1>2, <1>3, <1>4
<1> QED BY <1>1, <1>4, <1>5 DEF O

(* A step of p changes the number by what it changes in its registers.     *)
LEMMA ReferencesStep ==
    ASSUME NEW p \in Proc, reg \in [Proc -> Reg], Goes(p),
           NEW s \in Slot, NEW d \in Int, Shifts(p, s, d), NEW t \in Slot
    PROVE  References(t)' = References(t) + (IF t = s THEN d ELSE 0)
<1>1. References(t) = Cardinality(Pairs(reg, t)) /\ References(t)' = Cardinality(Pairs(reg', t))
  BY DEF References, Pairs, Field
<1>2. Rest(reg', p, t) = Rest(reg, p, t)
  BY DEF Rest, Goes
<1>3. /\ Cardinality(Pairs(reg, t)) = Cardinality(Rest(reg, p, t)) + Tally(reg[p], t)
      /\ Cardinality(Rest(reg, p, t)) \in Nat
  BY PairsSplit
<1>4. Cardinality(Pairs(reg', t)) = Cardinality(Rest(reg, p, t)) + Tally(reg'[p], t)
  BY <1>2, PairsSplit
<1>5. /\ Tally(reg'[p], t) = Tally(reg[p], t) + (IF t = s THEN d ELSE 0)
      /\ Tally(reg[p], t) \in Int
  BY DEF Shifts, Tally, One
<1> QED BY <1>1, <1>3, <1>4, <1>5

(* Two references make a count of two. *)
LEMMA TwoReferences ==
    ASSUME IndInv, NEW s \in Slot, NEW p \in Proc, NEW f \in Field, reg[p][f] = s
    PROVE  /\ i_count[s] \in Nat /\ i_count[s] >= 1
           /\ s = RootSlot => i_count[s] >= 2
           /\ \A q \in Proc, g \in Field :
                 reg[q][g] = s /\ i_count[s] < 2 => q = p /\ g = f
<1>1. i_count[s] = References(s) + (IF s = RootSlot THEN 1 ELSE 0)
  BY DEF IndInv, CountsReferences
<1> DEFINE P == Pairs(reg, s)
<1>2. References(s) = Cardinality(P) /\ IsFiniteSet(P) /\ Cardinality(P) \in Nat
  BY ReferencesNat, PairsFinite
<1>3. IsFiniteSet({<<p, f>>}) /\ Cardinality({<<p, f>>}) = 1
  BY FS_Singleton
<1>4. Cardinality(P) >= 1
  <2>1. {<<p, f>>} \subseteq P
    BY DEF Pairs
  <2>2. Cardinality({<<p, f>>}) <= Cardinality(P)
    BY <1>2, <2>1, FS_Subset
  <2> QED BY <1>2, <1>3, <2>2
<1>5. ASSUME NEW q \in Proc, NEW g \in Field, reg[q][g] = s, ~(q = p /\ g = f)
      PROVE  Cardinality(P) >= 2
  <2>1. {<<p, f>>} \cup {<<q, g>>} \subseteq P /\ <<q, g>> \notin {<<p, f>>}
    BY <1>5 DEF Pairs
  <2>2. Cardinality({<<p, f>>} \cup {<<q, g>>}) = 2
    <3> DEFINE S == {<<p, f>>}
               x == <<q, g>>
    <3>1. IsFiniteSet(S) /\ Cardinality(S) = 1 /\ x \notin S
      BY <1>3, <2>1
    <3> HIDE DEF S, x
    <3>2. Cardinality(S \cup {x}) = 2
      BY <3>1, FS_AddElement
    <3> QED BY <3>2 DEF S, x
  <2>3. Cardinality({<<p, f>>} \cup {<<q, g>>}) <= Cardinality(P)
    BY <1>2, <2>1, FS_Subset
  <2> QED BY <1>2, <2>2, <2>3
<1> HIDE DEF P
<1>6. i_count[s] \in Nat /\ i_count[s] >= 1 /\ (s = RootSlot => i_count[s] >= 2)
  BY <1>1, <1>2, <1>4
<1>7. ASSUME NEW q \in Proc, NEW g \in Field, reg[q][g] = s, i_count[s] < 2
      PROVE  q = p /\ g = f
  <2> SUFFICES ASSUME ~(q = p /\ g = f) PROVE FALSE
    OBVIOUS
  <2>1. Cardinality(P) >= 2
    BY <1>5, <1>7
  <2> QED BY <1>1, <1>2, <1>7, <2>1
<1> QED BY <1>6, <1>7
-----------------------------------------------------------------------------
(* The steps that change the references. *)

(* iget() returns slot s, locked. *)
LEMMA IgetReturnShifts ==
    ASSUME IndInv, NEW p \in Proc, pc[p] = "iget", NEW s \in Hashed(reg[p].ino), IgetReturn(p, s)
    PROVE  Settles(p) /\ Shifts(p, s, 1) /\ ~Parting(pc'[p], reg'[p])
<1> USE DEF Placed, Returns, Keeps, Handles, Home, InGet, AfterPut, InPut, AfterUpdate,
            Allocating
<1> DEFINE r == reg[p]
           n == [r EXCEPT !.res = s, !.ino = NoIno, !.iget = "user"]
<1>0. At(p)
  BY AtPlace
<1>1. r \in Reg /\ r.call \in Calls
  BY <1>0 DEF At
<1>2. /\ r.iget \in {"dir", "file", "exists", "victim", "new"}
      /\ r.ino \in IF r.iget = "dir" THEN {ROOTINO} ELSE Ino
  BY <1>0 DEF At
<1>3. s \in Slot /\ (r.iget = "dir" <=> s = RootSlot) /\ NoSlot \notin Slot
  BY <1>0, <1>2 DEF At, Hashed, IndInv, OneSlotPerInode, Named
<1>4. n \in Reg /\ n.call \in Calls /\ r.iget \in Label
  BY <1>1, <1>2, <1>3, Labels DEF Reg
<1>5. /\ pc' = [pc EXCEPT ![p] = r.iget] /\ reg' = [reg EXCEPT ![p] = n]
      /\ cpu' \in Proc \cup {NoProc}
  BY <1>2 DEF IgetReturn, Return, Goto
<1>6. Goes(p) /\ pc'[p] = r.iget /\ reg'[p] = n
  <2> HIDE DEF n
  <2> QED BY <1>0, <1>4, <1>5, GoesTo
<1>7. Placed(r.iget, n) /\ ~Parting(r.iget, n)
  BY <1>0, <1>1, <1>2, <1>3 DEF At, Reg, Parting
<1>8. \A t \in Slot : Tally(n, t) = Tally(r, t) + (IF t = s THEN 1 ELSE 0)
  <2>1. r.res = NoSlot
    BY <1>0 DEF At
  <2> QED BY <1>1, <1>3, <2>1 DEF Tally, One, Reg
<1> HIDE DEF n, Placed
<1> QED BY <1>6, <1>7, <1>8 DEF Settles, Shifts

(* iget() takes a slot for the inode. *)
LEMMA IgetAssignShifts ==
    ASSUME IndInv, NEW p \in Proc, IgetAssign(p)
    PROVE  /\ Settles(p) /\ Shifts(p, Head(ifreelist), 1) /\ ~Parting(pc'[p], reg'[p])
           /\ Head(ifreelist) \in Slot /\ reg[p].ino \in Ino
<1> USE DEF Placed, Returns, Keeps, Handles, Home, InGet, AfterPut, InPut, AfterUpdate,
            Allocating
<1> DEFINE r == reg[p]
           s == Head(ifreelist)
           n == [r EXCEPT !.res = s]
<1>0. At(p)
  BY AtPlace
<1>1. r \in Reg /\ r.call \in Calls
  BY <1>0 DEF At
<1>2. pc[p] = "iget" /\ Hashed(r.ino) = {} /\ ifreelist # <<>>
  BY DEF IgetAssign, Iget
<1>3. r.iget \in {"file", "exists", "victim", "new"} /\ r.ino \in Ino /\ NoSlot \notin Slot
  BY <1>0, <1>2 DEF At, Hashed, IndInv, Named
<1>4. s \in Slot /\ s # RootSlot
  <2>1. ifreelist \in Seq(Slot) /\ IsInjective(ifreelist)
    BY DEF IndInv, OneSlotPerInode, TypeOK, CountsReferences
  <2>2. s \in Slot /\ Contains(ifreelist, s)
    BY <1>2, <2>1, TailList
  <2>3. i_count[s] = 0
    BY <2>2 DEF IndInv, CountsReferences
  <2>4. i_count[RootSlot] = References(RootSlot) + 1 /\ References(RootSlot) \in Nat
    BY <1>0, ReferencesNat DEF IndInv, CountsReferences, At
  <2> QED BY <2>2, <2>3, <2>4
<1>5. n \in Reg /\ n.call \in Calls /\ "iread" \in Label
  BY <1>1, <1>4, Labels DEF Reg
<1>6. /\ pc' = [pc EXCEPT ![p] = "iread"] /\ reg' = [reg EXCEPT ![p] = n]
      /\ cpu' \in Proc \cup {NoProc}
  BY DEF IgetAssign, Pause
<1> HIDE DEF s
<1>7. Goes(p) /\ pc'[p] = "iread" /\ reg'[p] = n
  BY <1>0, <1>5, <1>6, GoesTo
<1>8. Placed("iread", n) /\ ~Parting("iread", n)
  BY <1>0, <1>1, <1>2, <1>3, <1>4 DEF At, Reg, Parting
<1>9. \A t \in Slot : Tally(n, t) = Tally(r, t) + (IF t = s THEN 1 ELSE 0)
  <2>1. r.res = NoSlot
    BY <1>0, <1>2 DEF At
  <2> QED BY <1>1, <1>3, <1>4, <2>1 DEF Tally, One, Reg
<1>10. Settles(p) /\ Shifts(p, s, 1) /\ ~Parting(pc'[p], reg'[p])
  BY <1>7, <1>8, <1>9 DEF Settles, Shifts
<1> QED BY <1>3, <1>4, <1>10 DEF s

(* The end of iput(). *)
LEMMA IputReturnShifts ==
    ASSUME IndInv, NEW p \in Proc, pc[p] \in {"iput", "idle", "release"}, IputReturn(p)
    PROVE  /\ Settles(p) /\ Shifts(p, reg[p].cur, -1) /\ ~Parting(pc'[p], reg'[p])
           /\ reg[p].cur \in Slot
<1> USE DEF Placed, Returns, Keeps, Handles, Home, InGet, AfterPut, InPut, AfterUpdate,
            Allocating
<1> DEFINE r == reg[p]
           s == r.cur
<1>0. At(p)
  BY AtPlace
<1>1. r \in Reg /\ r.call \in Calls
  BY <1>0 DEF At
<1>2. /\ s \in Slot /\ r.res = NoSlot /\ NoSlot \notin Slot
      /\ r.iput \in {"user", "iget", "created", "relock", "ialloc", "sync", "parent",
                     "file", "exists", "victim", "new"}
  BY <1>0, <1>1 DEF At, Reg
<1>3. CASE r.iput # "user"
  <2> DEFINE n == [r EXCEPT !.cur = NoSlot, !.iput = "user"]
  <2>1. n \in Reg /\ n.call \in Calls /\ r.iput \in Label
    BY <1>1, <1>2, Labels DEF Reg
  <2>2. /\ pc' = [pc EXCEPT ![p] = r.iput] /\ reg' = [reg EXCEPT ![p] = n]
        /\ cpu' \in Proc \cup {NoProc}
    BY <1>3 DEF IputReturn, Return, Goto
  <2>3. Goes(p) /\ pc'[p] = r.iput /\ reg'[p] = n
    BY <1>0, <2>1, <2>2, GoesTo
  <2>4. Placed(r.iput, n) /\ ~Parting(r.iput, n)
    BY <1>0, <1>1, <1>2, <1>3 DEF At, Reg, Parting
  <2>5. \A t \in Slot : Tally(n, t) = Tally(r, t) + (IF t = s THEN -1 ELSE 0)
    BY <1>1, <1>2 DEF Tally, One, Reg
  <2> QED BY <1>2, <2>3, <2>4, <2>5 DEF Settles, Shifts
<1>4. CASE r.iput = "user"
  <2> DEFINE n == Idle(r.file, r.wfile)
  <2>1. /\ {r.file, r.wfile} \subseteq Slot \cup {NoSlot} /\ RootSlot \notin {r.file, r.wfile}
        /\ r.dp = NoSlot /\ r.ip = NoSlot /\ r.ref = NoSlot
    BY <1>0, <1>1, <1>4 DEF At, Reg
  <2>2. n \in Reg /\ n.call \in Calls /\ "user" \in Label
    BY <1>0, <2>1, IdleType, Labels
  <2>3. /\ Placed("user", n) /\ ~Parting("user", n)
        /\ \A t \in Slot : Tally(n, t) = One(r.file = t) + One(r.wfile = t)
    <3> HIDE DEF Placed, Returns, Keeps, Handles, Home, InGet, AfterPut, InPut, AfterUpdate,
                 Allocating
    <3>1. PICK f \in Slot \cup {NoSlot}, w \in Slot \cup {NoSlot} :
             f = r.file /\ w = r.wfile /\ RootSlot \notin {f, w}
      BY <2>1
    <3>2. /\ Placed("user", Idle(f, w)) /\ AfterUpdate("user", Idle(f, w)) = "user"
          /\ \A t \in Slot : Tally(Idle(f, w), t) = One(f = t) + One(w = t)
      <4>1. RootSlot \notin {f, w}
        BY <3>1
      <4> QED BY <4>1, IdleType
    <3>3. n = Idle(f, w)
      BY <3>1
    <3> HIDE DEF n
    <3>4. ~Parting("user", n)
      BY <3>2, <3>3 DEF Parting
    <3> QED BY <3>1, <3>2, <3>3, <3>4
  <2>4. /\ pc' = [pc EXCEPT ![p] = "user"] /\ reg' = [reg EXCEPT ![p] = n]
        /\ cpu' \in Proc \cup {NoProc}
    BY <1>4 DEF IputReturn, Return, Goto
  <2> HIDE DEF n
  <2>5. \A t \in Slot : Tally(n, t) = Tally(r, t) + (IF t = s THEN -1 ELSE 0)
    BY <1>2, <2>1, <2>3 DEF Tally, One
  <2>6. Goes(p) /\ pc'[p] = "user" /\ reg'[p] = n
    BY <1>0, <2>2, <2>4, GoesTo
  <2> QED BY <1>2, <2>3, <2>5, <2>6 DEF Settles, Shifts
<1> QED BY <1>3, <1>4

(* pipe() has two references to its inode. *)
LEMMA PipeMadeShifts ==
    ASSUME IndInv, NEW p \in Proc, PipeMade(p)
    PROVE  /\ Settles(p) /\ Shifts(p, reg[p].ip, 1) /\ ~Parting(pc'[p], reg'[p])
           /\ reg[p].ip \in Slot
<1> USE DEF Placed, Returns, Keeps, Handles, Home, InGet, AfterPut, InPut, AfterUpdate,
            Allocating
<1> DEFINE r == reg[p]
           n == Idle(r.ip, r.ip)
<1>0. At(p)
  BY AtPlace
<1>1. r \in Reg /\ pc[p] = "made" /\ r.call.op = "pipe"
  BY <1>0 DEF At, PipeMade
<1>2. /\ r.ip \in Slot /\ RootSlot # r.ip /\ NoSlot \notin Slot
      /\ r.dp = NoSlot /\ r.res = NoSlot /\ r.cur = NoSlot /\ r.ref = NoSlot
      /\ r.file = NoSlot /\ r.wfile = NoSlot
  BY <1>0, <1>1 DEF At, Reg
<1>3. n \in Reg /\ n.call \in Calls /\ "user" \in Label
  BY <1>0, <1>2, IdleType, Labels
<1>4. /\ Placed("user", n) /\ ~Parting("user", n)
      /\ \A t \in Slot : Tally(n, t) = One(r.ip = t) + One(r.ip = t)
  BY <1>0, <1>2, IdleType DEF Parting
<1>5. /\ pc' = [pc EXCEPT ![p] = "user"] /\ reg' = [reg EXCEPT ![p] = n]
      /\ cpu' \in Proc \cup {NoProc}
  BY DEF PipeMade, Return, Goto
<1> HIDE DEF n
<1>6. \A t \in Slot : Tally(n, t) = Tally(r, t) + (IF t = r.ip THEN 1 ELSE 0)
  BY <1>2, <1>4 DEF Tally, One
<1>7. Goes(p) /\ pc'[p] = "user" /\ reg'[p] = n
  BY <1>0, <1>3, <1>5, GoesTo
<1> QED BY <1>2, <1>4, <1>6, <1>7 DEF Settles, Shifts

(* update() takes a slot. *)
LEMMA UpdateInodeShifts ==
    ASSUME IndInv, NEW p \in Proc, pc[p] = "sync", NEW s \in Slot, s >= reg[p].scan,
           CallIupdat(p, [reg[p] EXCEPT !.cur = s, !.scan = s + 1], "syncput")
    PROVE  Settles(p) /\ Shifts(p, s, 1) /\ ~Parting(pc'[p], reg'[p])
<1> USE DEF Placed, Returns, Keeps, Handles, Home, InGet, AfterPut, InPut, AfterUpdate,
            Allocating
<1> DEFINE r == reg[p]
           n == [r EXCEPT !.cur = s, !.scan = s + 1, !.iupdat = "syncput"]
<1>0. At(p)
  BY AtPlace
<1>1. r \in Reg /\ r.call \in Calls /\ s + 1 \in Nat
  BY <1>0 DEF At, Slot
<1>2. n \in Reg /\ n.call \in Calls /\ "iupdat" \in Label
  BY <1>1, Labels DEF Reg
<1>3. /\ pc' = [pc EXCEPT ![p] = "iupdat"] /\ reg' = [reg EXCEPT ![p] = n]
      /\ cpu' \in Proc \cup {NoProc}
  BY DEF CallIupdat, Pause
<1>4. Goes(p) /\ pc'[p] = "iupdat" /\ reg'[p] = n
  BY <1>0, <1>2, <1>3, GoesTo
<1>5. Placed("iupdat", n) /\ ~Parting("iupdat", n)
  BY <1>0, <1>1 DEF At, Reg, Parting
<1>6. \A t \in Slot : Tally(n, t) = Tally(r, t) + (IF t = s THEN 1 ELSE 0)
  <2>1. r.cur = NoSlot /\ NoSlot \notin Slot
    BY <1>0 DEF At
  <2> QED BY <1>1, <2>1 DEF Tally, One, Reg
<1> QED BY <1>4, <1>5, <1>6 DEF Settles, Shifts
-----------------------------------------------------------------------------
(* The steps that keep the references: iget(), *)
LEMMA IgetMoves ==
    ASSUME IndInv, NEW p \in Proc, IgetLocked(p) \/ IgetOverflow(p) \/ Iread(p) \/ IreadError(p)
    PROVE  Moves(p)
<1> USE DEF Placed, Returns, Keeps, Handles, Home, InGet, AfterPut, InPut, AfterUpdate,
            Allocating
<1> DEFINE r == reg[p]
<1>0. At(p)
  BY AtPlace
<1>1. r \in Reg /\ r.call \in Calls
  BY <1>0 DEF At
<1>2. CASE IgetLocked(p)
  <2>0. pc[p] = "iget"
    BY <1>0, <1>2 DEF At, IgetLocked, Iget
  <2> DEFINE n == r
  <2>1. n \in Reg /\ n.call \in Calls /\ "iget" \in Label
    BY <1>1, <2>0, Labels DEF Reg
  <2>2. /\ pc' = [pc EXCEPT ![p] = "iget"] /\ reg' = [reg EXCEPT ![p] = n]
       /\ cpu' \in Proc \cup {NoProc}
    BY <1>0, <2>0, <1>2 DEF At, IgetLocked, Iget, AwaitLock, Sleep, Pause, Hashed
  <2>3. Goes(p) /\ pc'[p] = "iget" /\ reg'[p] = n
    BY <1>0, <2>1, <2>2, GoesTo
  <2>4. Placed("iget", n) /\ ~Parting("iget", n)
    BY <1>0, <1>1, <2>0 DEF At, Reg, Parting
  <2>5. \A s \in Slot : Tally(n, s) = Tally(r, s)
    OBVIOUS
  <2> QED BY <2>3, <2>4, <2>5 DEF Settles, Same, Onward, Moves
<1>3. CASE IgetOverflow(p)
  <2>0. pc[p] = "iget" /\ r.iget \in {"file", "exists", "victim", "new"}
    BY <1>0, <1>3 DEF At, IgetOverflow, Iget, Hashed, IndInv, Named
  <2> DEFINE n == [r EXCEPT !.error = TRUE, !.ino = NoIno, !.iget = "user"]
  <2>1. n \in Reg /\ n.call \in Calls /\ r.iget \in Label
    BY <1>1, <2>0, Labels DEF Reg
  <2>2. /\ pc' = [pc EXCEPT ![p] = r.iget] /\ reg' = [reg EXCEPT ![p] = n]
       /\ cpu' \in Proc \cup {NoProc}
    BY <1>0, <2>0, <1>3 DEF At, IgetOverflow, Iget, Return, Goto
  <2>3. Goes(p) /\ pc'[p] = r.iget /\ reg'[p] = n
    BY <1>0, <2>1, <2>2, GoesTo
  <2>4. Placed(r.iget, n) /\ ~Parting(r.iget, n)
    BY <1>0, <1>1, <2>0 DEF At, Reg, Parting
  <2>5. \A s \in Slot : Tally(n, s) = Tally(r, s)
    BY <1>0, <1>1, <2>0 DEF At, Tally, One, Reg
  <2> QED BY <2>3, <2>4, <2>5 DEF Settles, Same, Onward, Moves
<1>4. CASE Iread(p)
  <2>0. pc[p] = "iread" /\ r.iget \in {"file", "exists", "victim", "new"}
    BY <1>0, <1>4 DEF At, Iread
  <2> DEFINE n == [r EXCEPT !.res = r.res, !.ino = NoIno, !.iget = "user"]
  <2>1. n \in Reg /\ n.call \in Calls /\ r.iget \in Label
    BY <1>1, <2>0, Labels DEF Reg
  <2>2. /\ pc' = [pc EXCEPT ![p] = r.iget] /\ reg' = [reg EXCEPT ![p] = n]
       /\ cpu' \in Proc \cup {NoProc}
    BY <1>0, <2>0, <1>4 DEF At, Iread, IgetReturn, Return, Goto
  <2>3. Goes(p) /\ pc'[p] = r.iget /\ reg'[p] = n
    BY <1>0, <2>1, <2>2, GoesTo
  <2>4. Placed(r.iget, n) /\ ~Parting(r.iget, n)
    BY <1>0, <1>1, <2>0 DEF At, Reg, Parting
  <2>5. \A s \in Slot : Tally(n, s) = Tally(r, s)
    BY <1>0, <1>1, <2>0 DEF At, Tally, One, Reg
  <2> HIDE DEF n, Placed
  <2> QED BY <2>3, <2>4, <2>5 DEF Settles, Same, Onward, Moves
<1>5. CASE IreadError(p)
  <2>0. pc[p] = "iread" /\ r.iget \in {"file", "exists", "victim", "new"} /\ r.res # NoSlot
    BY <1>0, <1>5 DEF At, IreadError
  <2> DEFINE n == [r EXCEPT !.res = NoSlot, !.error = TRUE, !.ino = NoIno, !.iget = "user", !.cur = r.res, !.iput = r.iget]
  <2>1. n \in Reg /\ n.call \in Calls /\ "iput" \in Label
    BY <1>1, <2>0, Labels DEF Reg
  <2>2. /\ pc' = [pc EXCEPT ![p] = "iput"] /\ reg' = [reg EXCEPT ![p] = n]
       /\ cpu' \in Proc \cup {NoProc}
    BY <1>0, <2>0, <1>5 DEF At, IreadError, CallIput, Goto
  <2>3. Goes(p) /\ pc'[p] = "iput" /\ reg'[p] = n
    BY <1>0, <2>1, <2>2, GoesTo
  <2>4. Placed("iput", n) /\ ~Parting("iput", n)
    BY <1>0, <1>1, <2>0 DEF At, Reg, Parting
  <2>5. \A s \in Slot : Tally(n, s) = Tally(r, s)
    BY <1>0, <1>1, <2>0 DEF At, Tally, One, Reg
  <2> QED BY <2>3, <2>4, <2>5 DEF Settles, Same, Onward, Moves
<1> QED BY <1>2, <1>3, <1>4, <1>5

(* iput() and iupdat(), *)
LEMMA IputMoves ==
    ASSUME IndInv, NEW p \in Proc, Iupdat(p) \/ IupdatError(p) \/ IupdatWritten(p) \/
           IputDealloc(p) \/ IputUpdate(p)
    PROVE  Moves(p)
<1> USE DEF Placed, Returns, Keeps, Handles, Home, InGet, AfterPut, InPut, AfterUpdate,
            Allocating
<1> DEFINE r == reg[p]
<1>0. At(p)
  BY AtPlace
<1>1. r \in Reg /\ r.call \in Calls
  BY <1>0 DEF At
<1>2. CASE Iupdat(p)
  <2>0. pc[p] = "iupdat" /\ r.iupdat \in {"dealloc", "release", "made", "again", "opened", "linked", "syncput"}
    BY <1>0, <1>2 DEF At, Iupdat
  <2>1. CASE "ISYN" \in i_flag[Target(p)]
    <3> DEFINE n == r
    <3>1. n \in Reg /\ n.call \in Calls /\ "isync" \in Label
      BY <1>1, <2>0, Labels DEF Reg
    <3>2. /\ pc' = [pc EXCEPT ![p] = "isync"] /\ reg' = [reg EXCEPT ![p] = n]
         /\ cpu' \in Proc \cup {NoProc}
      BY <1>0, <2>0, <1>2, <2>1 DEF At, Iupdat, IupdatReturn, Return, Pause, Goto
    <3>3. Goes(p) /\ pc'[p] = "isync" /\ reg'[p] = n
      BY <1>0, <3>1, <3>2, GoesTo
    <3>4. Placed("isync", n) /\ (Parting("isync", n) => Parting(pc[p], r) /\ n.cur = r.cur)
      BY <1>0, <1>1, <2>0, <2>1 DEF At, Reg, Parting
    <3>5. \A s \in Slot : Tally(n, s) = Tally(r, s)
      OBVIOUS
    <3> QED BY <3>3, <3>4, <3>5 DEF Settles, Same, Onward, Moves
  <2>2. CASE "ISYN" \notin i_flag[Target(p)]
    <3> DEFINE n == [r EXCEPT !.iupdat = "user"]
    <3>1. n \in Reg /\ n.call \in Calls /\ r.iupdat \in Label
      BY <1>1, <2>0, Labels DEF Reg
    <3>2. /\ pc' = [pc EXCEPT ![p] = r.iupdat] /\ reg' = [reg EXCEPT ![p] = n]
         /\ cpu' \in Proc \cup {NoProc}
      BY <1>0, <2>0, <1>2, <2>2 DEF At, Iupdat, IupdatReturn, Return, Pause, Goto
    <3>3. Goes(p) /\ pc'[p] = r.iupdat /\ reg'[p] = n
      BY <1>0, <3>1, <3>2, GoesTo
    <3>4. Placed(r.iupdat, n) /\ (Parting(r.iupdat, n) => Parting(pc[p], r) /\ n.cur = r.cur)
      BY <1>0, <1>1, <2>0, <2>2 DEF At, Reg, Parting
    <3>5. \A s \in Slot : Tally(n, s) = Tally(r, s)
      BY <1>0, <1>1, <2>0, <2>2 DEF At, Tally, One, Reg
    <3> QED BY <3>3, <3>4, <3>5 DEF Settles, Same, Onward, Moves
  <2> QED BY <2>1, <2>2
<1>3. CASE IupdatError(p)
  <2>0. pc[p] = "iupdat" /\ r.iupdat \in {"dealloc", "release", "made", "again", "opened", "linked", "syncput"}
    BY <1>0, <1>3 DEF At, IupdatError
  <2> DEFINE n == [r EXCEPT !.error = TRUE, !.iupdat = "user"]
  <2>1. n \in Reg /\ n.call \in Calls /\ r.iupdat \in Label
    BY <1>1, <2>0, Labels DEF Reg
  <2>2. /\ pc' = [pc EXCEPT ![p] = r.iupdat] /\ reg' = [reg EXCEPT ![p] = n]
       /\ cpu' \in Proc \cup {NoProc}
    BY <1>0, <2>0, <1>3 DEF At, IupdatError, Return, Goto
  <2>3. Goes(p) /\ pc'[p] = r.iupdat /\ reg'[p] = n
    BY <1>0, <2>1, <2>2, GoesTo
  <2>4. Placed(r.iupdat, n) /\ (Parting(r.iupdat, n) => Parting(pc[p], r) /\ n.cur = r.cur)
    BY <1>0, <1>1, <2>0 DEF At, Reg, Parting
  <2>5. \A s \in Slot : Tally(n, s) = Tally(r, s)
    BY <1>0, <1>1, <2>0 DEF At, Tally, One, Reg
  <2> QED BY <2>3, <2>4, <2>5 DEF Settles, Same, Onward, Moves
<1>4. CASE IupdatWritten(p)
  <2>0. pc[p] = "isync" /\ r.iupdat \in {"dealloc", "release", "made", "again", "opened", "linked", "syncput"}
    BY <1>0, <1>4 DEF At, IupdatWritten
  <2> DEFINE n == [r EXCEPT !.iupdat = "user"]
  <2>1. n \in Reg /\ n.call \in Calls /\ r.iupdat \in Label
    BY <1>1, <2>0, Labels DEF Reg
  <2>2. /\ pc' = [pc EXCEPT ![p] = r.iupdat] /\ reg' = [reg EXCEPT ![p] = n]
       /\ cpu' \in Proc \cup {NoProc}
    BY <1>0, <2>0, <1>4 DEF At, IupdatWritten, IupdatReturn, Return, Goto
  <2>3. Goes(p) /\ pc'[p] = r.iupdat /\ reg'[p] = n
    BY <1>0, <2>1, <2>2, GoesTo
  <2>4. Placed(r.iupdat, n) /\ (Parting(r.iupdat, n) => Parting(pc[p], r) /\ n.cur = r.cur)
    BY <1>0, <1>1, <2>0 DEF At, Reg, Parting
  <2>5. \A s \in Slot : Tally(n, s) = Tally(r, s)
    BY <1>0, <1>1, <2>0 DEF At, Tally, One, Reg
  <2> QED BY <2>3, <2>4, <2>5 DEF Settles, Same, Onward, Moves
<1>5. CASE IputDealloc(p)
  <2>0. pc[p] = "dealloc"
    BY <1>0, <1>5 DEF At, IputDealloc
  <2> DEFINE n == r
  <2>1. n \in Reg /\ n.call \in Calls /\ "idle" \in Label
    BY <1>1, <2>0, Labels DEF Reg
  <2>2. /\ pc' = [pc EXCEPT ![p] = "idle"] /\ reg' = [reg EXCEPT ![p] = n]
       /\ cpu' \in Proc \cup {NoProc}
    BY <1>0, <2>0, <1>5 DEF At, IputDealloc, Goto
  <2>3. Goes(p) /\ pc'[p] = "idle" /\ reg'[p] = n
    BY <1>0, <2>1, <2>2, GoesTo
  <2>4. Placed("idle", n) /\ (Parting("idle", n) => Parting(pc[p], r) /\ n.cur = r.cur)
    BY <1>0, <1>1, <2>0 DEF At, Reg, Parting
  <2>5. \A s \in Slot : Tally(n, s) = Tally(r, s)
    OBVIOUS
  <2> QED BY <2>3, <2>4, <2>5 DEF Settles, Same, Onward, Moves
<1>6. CASE IputUpdate(p)
  <2>0. pc[p] = "idle"
    BY <1>0, <1>6 DEF At, IputUpdate
  <2> DEFINE n == [r EXCEPT !.iupdat = "release"]
  <2>1. n \in Reg /\ n.call \in Calls /\ "iupdat" \in Label
    BY <1>1, <2>0, Labels DEF Reg
  <2>2. /\ pc' = [pc EXCEPT ![p] = "iupdat"] /\ reg' = [reg EXCEPT ![p] = n]
       /\ cpu' \in Proc \cup {NoProc}
    BY <1>0, <2>0, <1>6 DEF At, IputUpdate, CallIupdat, Pause
  <2>3. Goes(p) /\ pc'[p] = "iupdat" /\ reg'[p] = n
    BY <1>0, <2>1, <2>2, GoesTo
  <2>4. Placed("iupdat", n) /\ (Parting("iupdat", n) => Parting(pc[p], r) /\ n.cur = r.cur)
    BY <1>0, <1>1, <2>0 DEF At, Reg, Parting
  <2>5. \A s \in Slot : Tally(n, s) = Tally(r, s)
    BY <1>0, <1>1, <2>0 DEF At, Tally, One, Reg
  <2> QED BY <2>3, <2>4, <2>5 DEF Settles, Same, Onward, Moves
<1> QED BY <1>2, <1>3, <1>4, <1>5, <1>6

(* (which begin to give up the last reference here), *)
LEMMA IputStarts ==
    ASSUME IndInv, NEW p \in Proc, IputLast(p) \/ IputRemoved(p)
    PROVE  Settles(p) /\ Same(p)
<1> USE DEF Placed, Returns, Keeps, Handles, Home, InGet, AfterPut, InPut, AfterUpdate,
            Allocating
<1> DEFINE r == reg[p]
<1>0. At(p)
  BY AtPlace
<1>1. r \in Reg /\ r.call \in Calls
  BY <1>0 DEF At
<1>2. CASE IputLast(p)
  <2>0. pc[p] = "iput"
    BY <1>0, <1>2 DEF At, IputLast
  <2> DEFINE n == r
  <2>1. n \in Reg /\ n.call \in Calls /\ "idle" \in Label
    BY <1>1, <2>0, Labels DEF Reg
  <2>2. /\ pc' = [pc EXCEPT ![p] = "idle"] /\ reg' = [reg EXCEPT ![p] = n]
       /\ cpu' \in Proc \cup {NoProc}
    BY <1>0, <2>0, <1>2 DEF At, IputLast, Goto
  <2>3. Goes(p) /\ pc'[p] = "idle" /\ reg'[p] = n
    BY <1>0, <2>1, <2>2, GoesTo
  <2>4. Placed("idle", n)
    BY <1>0, <1>1, <2>0 DEF At, Reg, Parting
  <2>5. \A s \in Slot : Tally(n, s) = Tally(r, s)
    OBVIOUS
  <2> QED BY <2>3, <2>4, <2>5 DEF Settles, Same
<1>3. CASE IputRemoved(p)
  <2>0. pc[p] = "iput"
    BY <1>0, <1>3 DEF At, IputRemoved
  <2>1. CASE i_mode[r.cur] = "reg"
    <3> DEFINE n == [r EXCEPT !.iupdat = "dealloc"]
    <3>1. n \in Reg /\ n.call \in Calls /\ "iupdat" \in Label
      BY <1>1, <2>0, Labels DEF Reg
    <3>2. /\ pc' = [pc EXCEPT ![p] = "iupdat"] /\ reg' = [reg EXCEPT ![p] = n]
         /\ cpu' \in Proc \cup {NoProc}
      BY <1>0, <2>0, <1>3, <2>1 DEF At, IputRemoved, Goto, CallIupdat, Pause
    <3>3. Goes(p) /\ pc'[p] = "iupdat" /\ reg'[p] = n
      BY <1>0, <3>1, <3>2, GoesTo
    <3>4. Placed("iupdat", n)
      BY <1>0, <1>1, <2>0, <2>1 DEF At, Reg, Parting
    <3>5. \A s \in Slot : Tally(n, s) = Tally(r, s)
      BY <1>0, <1>1, <2>0, <2>1 DEF At, Tally, One, Reg
    <3> QED BY <3>3, <3>4, <3>5 DEF Settles, Same
  <2>2. CASE i_mode[r.cur] # "reg"
    <3> DEFINE n == r
    <3>1. n \in Reg /\ n.call \in Calls /\ "dealloc" \in Label
      BY <1>1, <2>0, Labels DEF Reg
    <3>2. /\ pc' = [pc EXCEPT ![p] = "dealloc"] /\ reg' = [reg EXCEPT ![p] = n]
         /\ cpu' \in Proc \cup {NoProc}
      BY <1>0, <2>0, <1>3, <2>2 DEF At, IputRemoved, Goto, CallIupdat, Pause
    <3>3. Goes(p) /\ pc'[p] = "dealloc" /\ reg'[p] = n
      BY <1>0, <3>1, <3>2, GoesTo
    <3>4. Placed("dealloc", n)
      BY <1>0, <1>1, <2>0, <2>2 DEF At, Reg, Parting
    <3>5. \A s \in Slot : Tally(n, s) = Tally(r, s)
      OBVIOUS
    <3> QED BY <3>3, <3>4, <3>5 DEF Settles, Same
  <2> QED BY <2>1, <2>2
<1> QED BY <1>2, <1>3

(* ialloc(), *)
LEMMA IallocMoves ==
    ASSUME IndInv, NEW p \in Proc, IallocWait(p) \/ IallocPop(p) \/ IallocFilled(p) \/
           IallocNone(p) \/ IallocFails(p) \/ IallocTake(p) \/
           IallocUsed(p) \/ IallocAgain(p)
    PROVE  Moves(p)
<1> USE DEF Placed, Returns, Keeps, Handles, Home, InGet, AfterPut, InPut, AfterUpdate,
            Allocating
<1> DEFINE r == reg[p]
<1>0. At(p)
  BY AtPlace
<1>1. r \in Reg /\ r.call \in Calls
  BY <1>0 DEF At
<1>2. CASE IallocWait(p)
  <2>0. pc[p] = "ialloc"
    BY <1>0, <1>2 DEF At, IallocWait
  <2> DEFINE n == r
  <2>1. n \in Reg /\ n.call \in Calls /\ "ialloc" \in Label
    BY <1>1, <2>0, Labels DEF Reg
  <2>2. /\ pc' = [pc EXCEPT ![p] = "ialloc"] /\ reg' = [reg EXCEPT ![p] = n]
       /\ cpu' \in Proc \cup {NoProc}
    BY <1>0, <2>0, <1>2 DEF At, IallocWait, Sleep, Pause
  <2>3. Goes(p) /\ pc'[p] = "ialloc" /\ reg'[p] = n
    BY <1>0, <2>1, <2>2, GoesTo
  <2>4. Placed("ialloc", n) /\ ~Parting("ialloc", n)
    BY <1>0, <1>1, <2>0 DEF At, Reg, Parting
  <2>5. \A s \in Slot : Tally(n, s) = Tally(r, s)
    OBVIOUS
  <2> QED BY <2>3, <2>4, <2>5 DEF Settles, Same, Onward, Moves
<1>3. CASE IallocPop(p)
  <2>0. pc[p] = "ialloc" /\ s_inode[s_ninode - 1] \in Ino
    BY <1>0, <1>3, ConstantAssumption DEF At, IallocPop, TypeOK, IndInv, OneSlotPerInode
  <2> DEFINE n == [r EXCEPT !.ino = s_inode[s_ninode - 1], !.iget = "new"]
  <2>1. n \in Reg /\ n.call \in Calls /\ "iget" \in Label
    BY <1>1, <2>0, Labels DEF Reg
  <2>2. /\ pc' = [pc EXCEPT ![p] = "iget"] /\ reg' = [reg EXCEPT ![p] = n]
       /\ cpu' \in Proc \cup {NoProc}
    BY <1>0, <2>0, <1>3 DEF At, IallocPop, Goto
  <2>3. Goes(p) /\ pc'[p] = "iget" /\ reg'[p] = n
    BY <1>0, <2>1, <2>2, GoesTo
  <2>4. Placed("iget", n) /\ ~Parting("iget", n)
    BY <1>0, <1>1, <2>0 DEF At, Reg, Parting
  <2>5. \A s \in Slot : Tally(n, s) = Tally(r, s)
    BY <1>0, <1>1, <2>0 DEF At, Tally, One, Reg
  <2> QED BY <2>3, <2>4, <2>5 DEF Settles, Same, Onward, Moves
<1>4. CASE IallocFilled(p)
  <2>0. pc[p] = "scanned"
    BY <1>0, <1>4 DEF At, IallocFilled
  <2> DEFINE n == r
  <2>1. n \in Reg /\ n.call \in Calls /\ "ialloc" \in Label
    BY <1>1, <2>0, Labels DEF Reg
  <2>2. /\ pc' = [pc EXCEPT ![p] = "ialloc"] /\ reg' = [reg EXCEPT ![p] = n]
       /\ cpu' \in Proc \cup {NoProc}
    BY <1>0, <2>0, <1>4 DEF At, IallocFilled, Goto
  <2>3. Goes(p) /\ pc'[p] = "ialloc" /\ reg'[p] = n
    BY <1>0, <2>1, <2>2, GoesTo
  <2>4. Placed("ialloc", n) /\ ~Parting("ialloc", n)
    BY <1>0, <1>1, <2>0 DEF At, Reg, Parting
  <2>5. \A s \in Slot : Tally(n, s) = Tally(r, s)
    OBVIOUS
  <2> QED BY <2>3, <2>4, <2>5 DEF Settles, Same, Onward, Moves
<1>5. CASE IallocNone(p)
  <2>0. pc[p] = "scanned"
    BY <1>0, <1>5 DEF At, IallocNone
  <2>1. CASE r.dp = NoSlot
    <3> DEFINE n == Idle(r.file, r.wfile)
    <3>1. /\ {r.file, r.wfile} \subseteq Slot \cup {NoSlot} /\ RootSlot \notin {r.file, r.wfile} /\ NoSlot \notin Slot
         /\ r.dp = NoSlot /\ r.ip = NoSlot /\ r.res = NoSlot /\ r.cur = NoSlot /\ r.ref = NoSlot
      BY <1>0, <2>0, <2>1 DEF At, Reg
    <3>2. n \in Reg /\ n.call \in Calls /\ "user" \in Label
      BY <1>0, <3>1, IdleType, Labels
    <3>3. /\ Placed("user", n) /\ ~Parting("user", n)
         /\ \A s \in Slot : Tally(n, s) = One(r.file = s) + One(r.wfile = s)
      BY <1>0, <3>1, IdleType DEF Parting
    <3>4. /\ pc' = [pc EXCEPT ![p] = "user"] /\ reg' = [reg EXCEPT ![p] = n]
         /\ cpu' \in Proc \cup {NoProc}
      BY <1>5, <2>1 DEF IallocNone, IallocNull, Return, CallIput, Goto
    <3> HIDE DEF n
    <3>5. \A s \in Slot : Tally(n, s) = Tally(r, s)
      BY <3>1, <3>3 DEF Tally, One
    <3>6. Goes(p) /\ pc'[p] = "user" /\ reg'[p] = n
      BY <1>0, <3>2, <3>4, GoesTo
    <3> QED BY <3>3, <3>5, <3>6 DEF Settles, Same, Onward, Moves
  <2>2. CASE r.dp # NoSlot
    <3> DEFINE n == [r EXCEPT !.dp = NoSlot, !.cur = r.dp, !.iput = "user"]
    <3>1. n \in Reg /\ n.call \in Calls /\ "iput" \in Label
      BY <1>1, <2>0, Labels DEF Reg
    <3>2. /\ pc' = [pc EXCEPT ![p] = "iput"] /\ reg' = [reg EXCEPT ![p] = n]
         /\ cpu' \in Proc \cup {NoProc}
      BY <1>0, <2>0, <1>5, <2>2 DEF At, IallocNone, IallocNull, Return, CallIput, Goto
    <3>3. Goes(p) /\ pc'[p] = "iput" /\ reg'[p] = n
      BY <1>0, <3>1, <3>2, GoesTo
    <3>4. Placed("iput", n) /\ ~Parting("iput", n)
      BY <1>0, <1>1, <2>0, <2>2 DEF At, Reg, Parting
    <3>5. \A s \in Slot : Tally(n, s) = Tally(r, s)
      BY <1>0, <1>1, <2>0, <2>2 DEF At, Tally, One, Reg
    <3> QED BY <3>3, <3>4, <3>5 DEF Settles, Same, Onward, Moves
  <2> QED BY <2>1, <2>2
<1>6. CASE IallocFails(p)
  <2>0. pc[p] = "new" /\ r.res = NoSlot
    BY <1>0, <1>6 DEF At, IallocFails
  <2>1. CASE r.dp = NoSlot
    <3> DEFINE n == Idle(r.file, r.wfile)
    <3>1. /\ {r.file, r.wfile} \subseteq Slot \cup {NoSlot} /\ RootSlot \notin {r.file, r.wfile} /\ NoSlot \notin Slot
         /\ r.dp = NoSlot /\ r.ip = NoSlot /\ r.res = NoSlot /\ r.cur = NoSlot /\ r.ref = NoSlot
      BY <1>0, <2>0, <2>1 DEF At, Reg
    <3>2. n \in Reg /\ n.call \in Calls /\ "user" \in Label
      BY <1>0, <3>1, IdleType, Labels
    <3>3. /\ Placed("user", n) /\ ~Parting("user", n)
         /\ \A s \in Slot : Tally(n, s) = One(r.file = s) + One(r.wfile = s)
      BY <1>0, <3>1, IdleType DEF Parting
    <3>4. /\ pc' = [pc EXCEPT ![p] = "user"] /\ reg' = [reg EXCEPT ![p] = n]
         /\ cpu' \in Proc \cup {NoProc}
      BY <1>6, <2>1 DEF IallocFails, IallocNull, Return, CallIput, Goto
    <3> HIDE DEF n
    <3>5. \A s \in Slot : Tally(n, s) = Tally(r, s)
      BY <3>1, <3>3 DEF Tally, One
    <3>6. Goes(p) /\ pc'[p] = "user" /\ reg'[p] = n
      BY <1>0, <3>2, <3>4, GoesTo
    <3> QED BY <3>3, <3>5, <3>6 DEF Settles, Same, Onward, Moves
  <2>2. CASE r.dp # NoSlot
    <3> DEFINE n == [r EXCEPT !.dp = NoSlot, !.cur = r.dp, !.iput = "user"]
    <3>1. n \in Reg /\ n.call \in Calls /\ "iput" \in Label
      BY <1>1, <2>0, Labels, ZenonT(40) DEF Reg
    <3>2. /\ pc' = [pc EXCEPT ![p] = "iput"] /\ reg' = [reg EXCEPT ![p] = n]
         /\ cpu' \in Proc \cup {NoProc}
      BY <1>0, <2>0, <1>6, <2>2 DEF At, IallocFails, IallocNull, Return, CallIput, Goto
    <3>3. Goes(p) /\ pc'[p] = "iput" /\ reg'[p] = n
      BY <1>0, <3>1, <3>2, GoesTo
    <3>4. Placed("iput", n) /\ ~Parting("iput", n)
      BY <1>0, <1>1, <2>0, <2>2 DEF At, Reg, Parting
    <3>5. \A s \in Slot : Tally(n, s) = Tally(r, s)
      BY <1>0, <1>1, <2>0, <2>2 DEF At, Tally, One, Reg
    <3> QED BY <3>3, <3>4, <3>5 DEF Settles, Same, Onward, Moves
  <2> QED BY <2>1, <2>2
<1>7. CASE IallocTake(p)
  <2>0. pc[p] = "new" /\ r.res # NoSlot
    BY <1>0, <1>7 DEF At, IallocTake
  <2> DEFINE n == [r EXCEPT !.ip = r.res, !.res = NoSlot, !.iupdat = "made"]
  <2>1. n \in Reg /\ n.call \in Calls /\ "iupdat" \in Label
    BY <1>1, <2>0, Labels DEF Reg
  <2>2. /\ pc' = [pc EXCEPT ![p] = "iupdat"] /\ reg' = [reg EXCEPT ![p] = n]
       /\ cpu' \in Proc \cup {NoProc}
    BY <1>0, <2>0, <1>7 DEF At, IallocTake, CallIupdat, Pause
  <2>3. Goes(p) /\ pc'[p] = "iupdat" /\ reg'[p] = n
    BY <1>0, <2>1, <2>2, GoesTo
  <2>4. Placed("iupdat", n) /\ ~Parting("iupdat", n)
    BY <1>0, <1>1, <2>0 DEF At, Reg, Parting
  <2>5. \A s \in Slot : Tally(n, s) = Tally(r, s)
    BY <1>0, <1>1, <2>0 DEF At, Tally, One, Reg
  <2> QED BY <2>3, <2>4, <2>5 DEF Settles, Same, Onward, Moves
<1>8. CASE IallocUsed(p)
  <2>0. pc[p] = "new" /\ r.res # NoSlot
    BY <1>0, <1>8 DEF At, IallocUsed
  <2> DEFINE n == [r EXCEPT !.cur = r.res, !.res = NoSlot, !.iupdat = "again"]
  <2>1. n \in Reg /\ n.call \in Calls /\ "iupdat" \in Label
    BY <1>1, <2>0, Labels DEF Reg
  <2>2. /\ pc' = [pc EXCEPT ![p] = "iupdat"] /\ reg' = [reg EXCEPT ![p] = n]
       /\ cpu' \in Proc \cup {NoProc}
    BY <1>0, <2>0, <1>8 DEF At, IallocUsed, CallIupdat, Pause
  <2>3. Goes(p) /\ pc'[p] = "iupdat" /\ reg'[p] = n
    BY <1>0, <2>1, <2>2, GoesTo
  <2>4. Placed("iupdat", n) /\ ~Parting("iupdat", n)
    BY <1>0, <1>1, <2>0 DEF At, Reg, Parting
  <2>5. \A s \in Slot : Tally(n, s) = Tally(r, s)
    BY <1>0, <1>1, <2>0 DEF At, Tally, One, Reg
  <2> QED BY <2>3, <2>4, <2>5 DEF Settles, Same, Onward, Moves
<1>9. CASE IallocAgain(p)
  <2>0. pc[p] = "again"
    BY <1>0, <1>9 DEF At, IallocAgain
  <2> DEFINE n == [r EXCEPT !.cur = r.cur, !.iput = "ialloc"]
  <2>1. n \in Reg /\ n.call \in Calls /\ "iput" \in Label
    BY <1>1, <2>0, Labels DEF Reg
  <2>2. /\ pc' = [pc EXCEPT ![p] = "iput"] /\ reg' = [reg EXCEPT ![p] = n]
       /\ cpu' \in Proc \cup {NoProc}
    BY <1>0, <2>0, <1>9 DEF At, IallocAgain, CallIput, Goto
  <2>3. Goes(p) /\ pc'[p] = "iput" /\ reg'[p] = n
    BY <1>0, <2>1, <2>2, GoesTo
  <2>4. Placed("iput", n) /\ ~Parting("iput", n)
    BY <1>0, <1>1, <2>0 DEF At, Reg, Parting
  <2>5. \A s \in Slot : Tally(n, s) = Tally(r, s)
    BY <1>0, <1>1, <2>0 DEF At, Tally, One, Reg
  <2> QED BY <2>3, <2>4, <2>5 DEF Settles, Same, Onward, Moves
<1> QED BY <1>2, <1>3, <1>4, <1>5, <1>6, <1>7, <1>8, <1>9

(* namei(), *)
LEMMA NameiMoves ==
    ASSUME IndInv, NEW p \in Proc, NameiDir(p) \/ NameiError(p) \/ NameiFails(p) \/
           NameiVictim(p) \/ NameiNew(p)
    PROVE  Moves(p)
<1> USE DEF Placed, Returns, Keeps, Handles, Home, InGet, AfterPut, InPut, AfterUpdate,
            Allocating
<1> DEFINE r == reg[p]
<1>0. At(p)
  BY AtPlace
<1>1. r \in Reg /\ r.call \in Calls
  BY <1>0 DEF At
<1>2. CASE NameiDir(p)
  <2>0. pc[p] = "dir" /\ r.dp = NoSlot /\ r.res = RootSlot
    BY <1>0, <1>2 DEF At, NameiDir
  <2> DEFINE n == [r EXCEPT !.dp = r.res, !.res = NoSlot]
  <2>1. n \in Reg /\ n.call \in Calls /\ "search" \in Label
    BY <1>1, <2>0, Labels, ZenonT(40) DEF Reg
  <2>2. /\ pc' = [pc EXCEPT ![p] = "search"] /\ reg' = [reg EXCEPT ![p] = n]
       /\ cpu' \in Proc \cup {NoProc}
    BY <1>0, <2>0, <1>2 DEF At, NameiDir, Pause
  <2>3. Goes(p) /\ pc'[p] = "search" /\ reg'[p] = n
    BY <1>0, <2>1, <2>2, GoesTo
  <2>4. Placed("search", n) /\ ~Parting("search", n)
    BY <1>0, <1>1, <2>0 DEF At, Reg, Parting
  <2>5. \A s \in Slot : Tally(n, s) = Tally(r, s)
    BY <1>0, <1>1, <2>0 DEF At, Tally, One, Reg
  <2> QED BY <2>3, <2>4, <2>5 DEF Settles, Same, Onward, Moves
<1>3. CASE NameiError(p)
  <2>0. pc[p] = "dir" /\ Failed(p) = IF r.second THEN "relock" ELSE "user"
    BY <1>0, <1>3 DEF At, NameiError, Failed
  <2> DEFINE n == [r EXCEPT !.res = NoSlot, !.cur = r.res, !.iput = Failed(p)]
  <2>1. n \in Reg /\ n.call \in Calls /\ "iput" \in Label
    BY <1>1, <2>0, Labels, ZenonT(40) DEF Reg
  <2>2. /\ pc' = [pc EXCEPT ![p] = "iput"] /\ reg' = [reg EXCEPT ![p] = n]
       /\ cpu' \in Proc \cup {NoProc}
    BY <1>0, <2>0, <1>3 DEF At, NameiError, CallIput, Goto, Failed
  <2>3. Goes(p) /\ pc'[p] = "iput" /\ reg'[p] = n
    BY <1>0, <2>1, <2>2, GoesTo
  <2>4. Placed("iput", n) /\ ~Parting("iput", n)
    BY <1>0, <1>1, <2>0 DEF At, Reg, Parting
  <2>5. \A s \in Slot : Tally(n, s) = Tally(r, s)
    BY <1>0, <1>1, <2>0 DEF At, Tally, One, Reg
  <2> QED BY <2>3, <2>4, <2>5 DEF Settles, Same, Onward, Moves
<1>4. CASE NameiFails(p)
  <2>0. pc[p] = "search" /\ Failed(p) = IF r.second THEN "relock" ELSE "user"
    BY <1>0, <1>4 DEF At, NameiFails, Failed
  <2> DEFINE n == [r EXCEPT !.dp = NoSlot, !.error = TRUE, !.cur = r.dp, !.iput = Failed(p)]
  <2>1. n \in Reg /\ n.call \in Calls /\ "iput" \in Label
    BY <1>1, <2>0, Labels, ZenonT(40) DEF Reg
  <2>2. /\ pc' = [pc EXCEPT ![p] = "iput"] /\ reg' = [reg EXCEPT ![p] = n]
       /\ cpu' \in Proc \cup {NoProc}
    BY <1>0, <2>0, <1>4 DEF At, NameiFails, CallIput, Goto, Failed
  <2>3. Goes(p) /\ pc'[p] = "iput" /\ reg'[p] = n
    BY <1>0, <2>1, <2>2, GoesTo
  <2>4. Placed("iput", n) /\ ~Parting("iput", n)
    BY <1>0, <1>1, <2>0 DEF At, Reg, Parting
  <2>5. \A s \in Slot : Tally(n, s) = Tally(r, s)
    BY <1>0, <1>1, <2>0 DEF At, Tally, One, Reg
  <2> QED BY <2>3, <2>4, <2>5 DEF Settles, Same, Onward, Moves
<1>5. CASE NameiVictim(p)
  <2>0. pc[p] = "search" /\ Entry(p) \in Ino /\ r.call.op = "unlink"
    BY <1>0, <1>5, ConstantAssumption DEF At, NameiVictim, Entry, Entry, Reg, TypeOK, IndInv,
       OneSlotPerInode
  <2> DEFINE n == [r EXCEPT !.ino = Entry(p), !.iget = "victim"]
  <2>1. n \in Reg /\ n.call \in Calls /\ "iget" \in Label
    BY <1>1, <2>0, Labels DEF Reg
  <2>2. /\ pc' = [pc EXCEPT ![p] = "iget"] /\ reg' = [reg EXCEPT ![p] = n]
       /\ cpu' \in Proc \cup {NoProc}
    BY <1>0, <2>0, <1>5 DEF At, NameiVictim, Goto, Entry
  <2>3. Goes(p) /\ pc'[p] = "iget" /\ reg'[p] = n
    BY <1>0, <2>1, <2>2, GoesTo
  <2>4. Placed("iget", n) /\ ~Parting("iget", n)
    BY <1>0, <1>1, <2>0 DEF At, Reg, Parting
  <2>5. \A s \in Slot : Tally(n, s) = Tally(r, s)
    BY <1>0, <1>1, <2>0 DEF At, Tally, One, Reg
  <2> QED BY <2>3, <2>4, <2>5 DEF Settles, Same, Onward, Moves
<1>6. CASE NameiNew(p)
  <2>0. pc[p] = "search" /\ (~r.second => r.call.op = "creat")
    BY <1>0, <1>6 DEF At, NameiNew, Creating
  <2>1. CASE r.second
    <3> DEFINE n == r
    <3>1. n \in Reg /\ n.call \in Calls /\ "wdir" \in Label
      BY <1>1, <2>0, Labels DEF Reg
    <3>2. /\ pc' = [pc EXCEPT ![p] = "wdir"] /\ reg' = [reg EXCEPT ![p] = n]
         /\ cpu' \in Proc \cup {NoProc}
      BY <1>0, <2>0, <1>6, <2>1 DEF At, NameiNew, Pause, Creating
    <3>3. Goes(p) /\ pc'[p] = "wdir" /\ reg'[p] = n
      BY <1>0, <3>1, <3>2, GoesTo
    <3>4. Placed("wdir", n) /\ ~Parting("wdir", n)
      BY <1>0, <1>1, <2>0, <2>1 DEF At, Reg, Parting
    <3>5. \A s \in Slot : Tally(n, s) = Tally(r, s)
      OBVIOUS
    <3> QED BY <3>3, <3>4, <3>5 DEF Settles, Same, Onward, Moves
  <2>2. CASE ~r.second
    <3> DEFINE n == r
    <3>1. n \in Reg /\ n.call \in Calls /\ "ialloc" \in Label
      BY <1>1, <2>0, Labels DEF Reg
    <3>2. /\ pc' = [pc EXCEPT ![p] = "ialloc"] /\ reg' = [reg EXCEPT ![p] = n]
         /\ cpu' \in Proc \cup {NoProc}
      BY <1>0, <2>0, <1>6, <2>2 DEF At, NameiNew, Pause, Creating
    <3>3. Goes(p) /\ pc'[p] = "ialloc" /\ reg'[p] = n
      BY <1>0, <3>1, <3>2, GoesTo
    <3>4. Placed("ialloc", n) /\ ~Parting("ialloc", n)
      BY <1>0, <1>1, <2>0, <2>2 DEF At, Reg, Parting
    <3>5. \A s \in Slot : Tally(n, s) = Tally(r, s)
      OBVIOUS
    <3> QED BY <3>3, <3>4, <3>5 DEF Settles, Same, Onward, Moves
  <2> QED BY <2>1, <2>2
<1> QED BY <1>2, <1>3, <1>4, <1>5, <1>6

(* open(), creat() and pipe(), *)
LEMMA OpenMoves ==
    ASSUME IndInv, NEW p \in Proc, FileNone(p) \/ FileRefused(p) \/ FileOpen(p) \/ Opened(p) \/
           DeviceOpened(p) \/ DeviceRefused(p) \/ DeviceInterrupted(p) \/
           PipeRefused(p) \/ Wdir(p) \/ WdirFails(p) \/ Made(p) \/ Created(p) \/
           CreatedRefused(p)
    PROVE  Moves(p)
<1> USE DEF Placed, Returns, Keeps, Handles, Home, InGet, AfterPut, InPut, AfterUpdate,
            Allocating
<1> DEFINE r == reg[p]
<1>0. At(p)
  BY AtPlace
<1>1. r \in Reg /\ r.call \in Calls
  BY <1>0 DEF At
<1>2. CASE FileNone(p)
  <2>0. pc[p] = "file" /\ r.res = NoSlot
    BY <1>0, <1>2 DEF At, FileNone
  <2> DEFINE n == Idle(r.file, r.wfile)
  <2>1. /\ {r.file, r.wfile} \subseteq Slot \cup {NoSlot} /\ RootSlot \notin {r.file, r.wfile} /\ NoSlot \notin Slot
       /\ r.dp = NoSlot /\ r.ip = NoSlot /\ r.res = NoSlot /\ r.cur = NoSlot /\ r.ref = NoSlot
    BY <1>0, <2>0 DEF At, Reg
  <2>2. n \in Reg /\ n.call \in Calls /\ "user" \in Label
    BY <1>0, <2>1, IdleType, Labels
  <2>3. /\ Placed("user", n) /\ ~Parting("user", n)
       /\ \A s \in Slot : Tally(n, s) = One(r.file = s) + One(r.wfile = s)
    BY <1>0, <2>1, IdleType DEF Parting
  <2>4. /\ pc' = [pc EXCEPT ![p] = "user"] /\ reg' = [reg EXCEPT ![p] = n]
       /\ cpu' \in Proc \cup {NoProc}
    BY <1>2 DEF FileNone, Return, Goto
  <2> HIDE DEF n
  <2>5. \A s \in Slot : Tally(n, s) = Tally(r, s)
    BY <2>1, <2>3 DEF Tally, One
  <2>6. Goes(p) /\ pc'[p] = "user" /\ reg'[p] = n
    BY <1>0, <2>2, <2>4, GoesTo
  <2> QED BY <2>3, <2>5, <2>6 DEF Settles, Same, Onward, Moves
<1>3. CASE FileRefused(p)
  <2>0. pc[p] = "file" /\ r.res # NoSlot
    BY <1>0, <1>3 DEF At, FileRefused
  <2> DEFINE n == [r EXCEPT !.res = NoSlot, !.cur = r.res, !.iput = "user"]
  <2>1. n \in Reg /\ n.call \in Calls /\ "iput" \in Label
    BY <1>1, <2>0, Labels DEF Reg
  <2>2. /\ pc' = [pc EXCEPT ![p] = "iput"] /\ reg' = [reg EXCEPT ![p] = n]
       /\ cpu' \in Proc \cup {NoProc}
    BY <1>0, <2>0, <1>3 DEF At, FileRefused, CallIput, Goto
  <2>3. Goes(p) /\ pc'[p] = "iput" /\ reg'[p] = n
    BY <1>0, <2>1, <2>2, GoesTo
  <2>4. Placed("iput", n) /\ ~Parting("iput", n)
    BY <1>0, <1>1, <2>0 DEF At, Reg, Parting
  <2>5. \A s \in Slot : Tally(n, s) = Tally(r, s)
    BY <1>0, <1>1, <2>0 DEF At, Tally, One, Reg
  <2> QED BY <2>3, <2>4, <2>5 DEF Settles, Same, Onward, Moves
<1>4. CASE FileOpen(p)
  <2>0. pc[p] = "file" /\ r.res # NoSlot /\ r.call.op \in {"open", "creat"}
    BY <1>0, <1>4 DEF At, FileOpen
  <2>1. CASE r.call.op = "creat" /\ i_mode[r.res] = "reg"
    <3> DEFINE n == [r EXCEPT !.ip = r.res, !.res = NoSlot, !.iupdat = "opened"]
    <3>1. n \in Reg /\ n.call \in Calls /\ "iupdat" \in Label
      BY <1>1, <2>0, Labels DEF Reg
    <3>2. /\ pc' = [pc EXCEPT ![p] = "iupdat"] /\ reg' = [reg EXCEPT ![p] = n]
         /\ cpu' \in Proc \cup {NoProc}
      BY <1>0, <2>0, <1>4, <2>1 DEF At, FileOpen, CallIupdat, Pause, Goto
    <3>3. Goes(p) /\ pc'[p] = "iupdat" /\ reg'[p] = n
      BY <1>0, <3>1, <3>2, GoesTo
    <3>4. Placed("iupdat", n) /\ ~Parting("iupdat", n)
      BY <1>0, <1>1, <2>0, <2>1 DEF At, Reg, Parting
    <3>5. \A s \in Slot : Tally(n, s) = Tally(r, s)
      BY <1>0, <1>1, <2>0, <2>1 DEF At, Tally, One, Reg
    <3> QED BY <3>3, <3>4, <3>5 DEF Settles, Same, Onward, Moves
  <2>2. CASE ~(r.call.op = "creat" /\ i_mode[r.res] = "reg")
    <3> DEFINE n == [r EXCEPT !.ip = r.res, !.res = NoSlot]
    <3>1. n \in Reg /\ n.call \in Calls /\ "opened" \in Label
      BY <1>1, <2>0, Labels DEF Reg
    <3>2. /\ pc' = [pc EXCEPT ![p] = "opened"] /\ reg' = [reg EXCEPT ![p] = n]
         /\ cpu' \in Proc \cup {NoProc}
      BY <1>0, <2>0, <1>4, <2>2 DEF At, FileOpen, CallIupdat, Pause, Goto
    <3>3. Goes(p) /\ pc'[p] = "opened" /\ reg'[p] = n
      BY <1>0, <3>1, <3>2, GoesTo
    <3>4. Placed("opened", n) /\ ~Parting("opened", n)
      BY <1>0, <1>1, <2>0, <2>2 DEF At, Reg, Parting
    <3>5. \A s \in Slot : Tally(n, s) = Tally(r, s)
      BY <1>0, <1>1, <2>0, <2>2 DEF At, Tally, One, Reg
    <3> QED BY <3>3, <3>4, <3>5 DEF Settles, Same, Onward, Moves
  <2> QED BY <2>1, <2>2
<1>5. CASE Opened(p)
  <2>0. pc[p] = "opened"
    BY <1>0, <1>5 DEF At, Opened
  <2>1. CASE i_mode[r.ip] = "chr"
    <3> DEFINE n == [r EXCEPT !.file = r.ip, !.ip = NoSlot]
    <3>1. n \in Reg /\ n.call \in Calls /\ "dopen" \in Label
      BY <1>1, <2>0, Labels DEF Reg
    <3>2. /\ pc' = [pc EXCEPT ![p] = "dopen"] /\ reg' = [reg EXCEPT ![p] = n]
         /\ cpu' \in Proc \cup {NoProc}
      BY <1>0, <2>0, <1>5, <2>1 DEF At, Opened, Return, Goto, Pause
    <3>3. Goes(p) /\ pc'[p] = "dopen" /\ reg'[p] = n
      BY <1>0, <3>1, <3>2, GoesTo
    <3>4. Placed("dopen", n) /\ ~Parting("dopen", n)
      BY <1>0, <1>1, <2>0, <2>1 DEF At, Reg, Parting
    <3>5. \A s \in Slot : Tally(n, s) = Tally(r, s)
      BY <1>0, <1>1, <2>0, <2>1 DEF At, Tally, One, Reg
    <3> QED BY <3>3, <3>4, <3>5 DEF Settles, Same, Onward, Moves
  <2>2. CASE i_mode[r.ip] # "chr"
    <3> DEFINE n == Idle(r.ip, r.wfile)
    <3>1. /\ {r.ip, r.wfile} \subseteq Slot \cup {NoSlot} /\ RootSlot \notin {r.ip, r.wfile} /\ NoSlot \notin Slot
         /\ r.dp = NoSlot /\ r.res = NoSlot /\ r.cur = NoSlot /\ r.ref = NoSlot /\ r.file = NoSlot
      BY <1>0, <2>0, <2>2 DEF At, Reg
    <3>2. n \in Reg /\ n.call \in Calls /\ "user" \in Label
      BY <1>0, <3>1, IdleType, Labels
    <3>3. /\ Placed("user", n) /\ ~Parting("user", n)
         /\ \A s \in Slot : Tally(n, s) = One(r.ip = s) + One(r.wfile = s)
      BY <1>0, <3>1, IdleType DEF Parting
    <3>4. /\ pc' = [pc EXCEPT ![p] = "user"] /\ reg' = [reg EXCEPT ![p] = n]
         /\ cpu' \in Proc \cup {NoProc}
      BY <1>5, <2>2 DEF Opened, Return, Goto, Pause
    <3> HIDE DEF n
    <3>5. \A s \in Slot : Tally(n, s) = Tally(r, s)
      BY <3>1, <3>3 DEF Tally, One
    <3>6. Goes(p) /\ pc'[p] = "user" /\ reg'[p] = n
      BY <1>0, <3>2, <3>4, GoesTo
    <3> QED BY <3>3, <3>5, <3>6 DEF Settles, Same, Onward, Moves
  <2> QED BY <2>1, <2>2
<1>6. CASE DeviceOpened(p)
  <2>0. pc[p] = "dopen" /\ TRUE
    BY <1>0, <1>6 DEF At, DeviceOpened
  <2> DEFINE n == Idle(r.file, r.wfile)
  <2>1. /\ {r.file, r.wfile} \subseteq Slot \cup {NoSlot} /\ RootSlot \notin {r.file, r.wfile} /\ NoSlot \notin Slot
       /\ r.dp = NoSlot /\ r.ip = NoSlot /\ r.res = NoSlot /\ r.cur = NoSlot /\ r.ref = NoSlot
    BY <1>0, <2>0 DEF At, Reg
  <2>2. n \in Reg /\ n.call \in Calls /\ "user" \in Label
    BY <1>0, <2>1, IdleType, Labels
  <2>3. /\ Placed("user", n) /\ ~Parting("user", n)
       /\ \A s \in Slot : Tally(n, s) = One(r.file = s) + One(r.wfile = s)
    BY <1>0, <2>1, IdleType DEF Parting
  <2>4. /\ pc' = [pc EXCEPT ![p] = "user"] /\ reg' = [reg EXCEPT ![p] = n]
       /\ cpu' \in Proc \cup {NoProc}
    BY <1>6 DEF DeviceOpened, Return, Goto
  <2> HIDE DEF n
  <2>5. \A s \in Slot : Tally(n, s) = Tally(r, s)
    BY <2>1, <2>3 DEF Tally, One
  <2>6. Goes(p) /\ pc'[p] = "user" /\ reg'[p] = n
    BY <1>0, <2>2, <2>4, GoesTo
  <2> QED BY <2>3, <2>5, <2>6 DEF Settles, Same, Onward, Moves
<1>7. CASE DeviceRefused(p)
  <2>0. pc[p] = "dopen"
    BY <1>0, <1>7 DEF At, DeviceRefused
  <2> DEFINE n == [r EXCEPT !.file = NoSlot, !.cur = r.file, !.iput = "user"]
  <2>1. n \in Reg /\ n.call \in Calls /\ "iput" \in Label
    BY <1>1, <2>0, Labels DEF Reg
  <2>2. /\ pc' = [pc EXCEPT ![p] = "iput"] /\ reg' = [reg EXCEPT ![p] = n]
       /\ cpu' \in Proc \cup {NoProc}
    BY <1>0, <2>0, <1>7 DEF At, DeviceRefused, CallIput, Goto
  <2>3. Goes(p) /\ pc'[p] = "iput" /\ reg'[p] = n
    BY <1>0, <2>1, <2>2, GoesTo
  <2>4. Placed("iput", n) /\ ~Parting("iput", n)
    BY <1>0, <1>1, <2>0 DEF At, Reg, Parting
  <2>5. \A s \in Slot : Tally(n, s) = Tally(r, s)
    BY <1>0, <1>1, <2>0 DEF At, Tally, One, Reg
  <2> QED BY <2>3, <2>4, <2>5 DEF Settles, Same, Onward, Moves
<1>8. CASE DeviceInterrupted(p)
  <2>0. pc[p] = "dopen"
    BY <1>0, <1>8 DEF At, DeviceInterrupted
  <2> DEFINE n == r
  <2>1. n \in Reg /\ n.call \in Calls /\ "close" \in Label
    BY <1>1, <2>0, Labels DEF Reg
  <2>2. /\ pc' = [pc EXCEPT ![p] = "close"] /\ reg' = [reg EXCEPT ![p] = n]
       /\ cpu' \in Proc \cup {NoProc}
    BY <1>0, <2>0, <1>8 DEF At, DeviceInterrupted, Goto
  <2>3. Goes(p) /\ pc'[p] = "close" /\ reg'[p] = n
    BY <1>0, <2>1, <2>2, GoesTo
  <2>4. Placed("close", n) /\ ~Parting("close", n)
    BY <1>0, <1>1, <2>0 DEF At, Reg, Parting
  <2>5. \A s \in Slot : Tally(n, s) = Tally(r, s)
    OBVIOUS
  <2> QED BY <2>3, <2>4, <2>5 DEF Settles, Same, Onward, Moves
<1>9. CASE PipeRefused(p)
  <2>0. pc[p] = "made" /\ r.call.op = "pipe"
    BY <1>0, <1>9 DEF At, PipeRefused
  <2> DEFINE n == [r EXCEPT !.ip = NoSlot, !.cur = r.ip, !.iput = "user"]
  <2>1. n \in Reg /\ n.call \in Calls /\ "iput" \in Label
    BY <1>1, <2>0, Labels DEF Reg
  <2>2. /\ pc' = [pc EXCEPT ![p] = "iput"] /\ reg' = [reg EXCEPT ![p] = n]
       /\ cpu' \in Proc \cup {NoProc}
    BY <1>0, <2>0, <1>9 DEF At, PipeRefused, CallIput, Goto
  <2>3. Goes(p) /\ pc'[p] = "iput" /\ reg'[p] = n
    BY <1>0, <2>1, <2>2, GoesTo
  <2>4. Placed("iput", n) /\ ~Parting("iput", n)
    BY <1>0, <1>1, <2>0 DEF At, Reg, Parting
  <2>5. \A s \in Slot : Tally(n, s) = Tally(r, s)
    BY <1>0, <1>1, <2>0 DEF At, Tally, One, Reg
  <2> QED BY <2>3, <2>4, <2>5 DEF Settles, Same, Onward, Moves
<1>10. CASE Wdir(p)
  <2>0. pc[p] = "wdir" /\ WdirThen(p) = IF r.second THEN "relock" ELSE "created"
    BY <1>0, <1>10 DEF At, Wdir, WdirThen
  <2> DEFINE n == [r EXCEPT !.dp = NoSlot, !.cur = r.dp, !.iput = WdirThen(p)]
  <2>1. n \in Reg /\ n.call \in Calls /\ "iput" \in Label
    BY <1>1, <2>0, Labels, ZenonT(40) DEF Reg
  <2>2. /\ pc' = [pc EXCEPT ![p] = "iput"] /\ reg' = [reg EXCEPT ![p] = n]
       /\ cpu' \in Proc \cup {NoProc}
    BY <1>0, <2>0, <1>10 DEF At, Wdir, CallIput, Goto, WdirThen
  <2>3. Goes(p) /\ pc'[p] = "iput" /\ reg'[p] = n
    BY <1>0, <2>1, <2>2, GoesTo
  <2>4. Placed("iput", n) /\ ~Parting("iput", n)
    BY <1>0, <1>1, <2>0 DEF At, Reg, Parting
  <2>5. \A s \in Slot : Tally(n, s) = Tally(r, s)
    BY <1>0, <1>1, <2>0 DEF At, Tally, One, Reg
  <2> QED BY <2>3, <2>4, <2>5 DEF Settles, Same, Onward, Moves
<1>11. CASE Made(p)
  <2>0. pc[p] = "made" /\ r.call.op = "creat"
    BY <1>0, <1>11 DEF At, Made
  <2> DEFINE n == r
  <2>1. n \in Reg /\ n.call \in Calls /\ "wdir" \in Label
    BY <1>1, <2>0, Labels DEF Reg
  <2>2. /\ pc' = [pc EXCEPT ![p] = "wdir"] /\ reg' = [reg EXCEPT ![p] = n]
       /\ cpu' \in Proc \cup {NoProc}
    BY <1>0, <2>0, <1>11 DEF At, Made, Pause
  <2>3. Goes(p) /\ pc'[p] = "wdir" /\ reg'[p] = n
    BY <1>0, <2>1, <2>2, GoesTo
  <2>4. Placed("wdir", n) /\ ~Parting("wdir", n)
    BY <1>0, <1>1, <2>0 DEF At, Reg, Parting
  <2>5. \A s \in Slot : Tally(n, s) = Tally(r, s)
    OBVIOUS
  <2> QED BY <2>3, <2>4, <2>5 DEF Settles, Same, Onward, Moves
<1>12. CASE Created(p)
  <2>0. pc[p] = "created"
    BY <1>0, <1>12 DEF At, Created
  <2> DEFINE n == r
  <2>1. n \in Reg /\ n.call \in Calls /\ "opened" \in Label
    BY <1>1, <2>0, Labels DEF Reg
  <2>2. /\ pc' = [pc EXCEPT ![p] = "opened"] /\ reg' = [reg EXCEPT ![p] = n]
       /\ cpu' \in Proc \cup {NoProc}
    BY <1>0, <2>0, <1>12 DEF At, Created, Goto
  <2>3. Goes(p) /\ pc'[p] = "opened" /\ reg'[p] = n
    BY <1>0, <2>1, <2>2, GoesTo
  <2>4. Placed("opened", n) /\ ~Parting("opened", n)
    BY <1>0, <1>1, <2>0 DEF At, Reg, Parting
  <2>5. \A s \in Slot : Tally(n, s) = Tally(r, s)
    OBVIOUS
  <2> QED BY <2>3, <2>4, <2>5 DEF Settles, Same, Onward, Moves
<1>13. CASE CreatedRefused(p)
  <2>0. pc[p] = "created"
    BY <1>0, <1>13 DEF At, CreatedRefused
  <2> DEFINE n == [r EXCEPT !.ip = NoSlot, !.cur = r.ip, !.iput = "user"]
  <2>1. n \in Reg /\ n.call \in Calls /\ "iput" \in Label
    BY <1>1, <2>0, Labels DEF Reg
  <2>2. /\ pc' = [pc EXCEPT ![p] = "iput"] /\ reg' = [reg EXCEPT ![p] = n]
       /\ cpu' \in Proc \cup {NoProc}
    BY <1>0, <2>0, <1>13 DEF At, CreatedRefused, CallIput, Goto
  <2>3. Goes(p) /\ pc'[p] = "iput" /\ reg'[p] = n
    BY <1>0, <2>1, <2>2, GoesTo
  <2>4. Placed("iput", n) /\ ~Parting("iput", n)
    BY <1>0, <1>1, <2>0 DEF At, Reg, Parting
  <2>5. \A s \in Slot : Tally(n, s) = Tally(r, s)
    BY <1>0, <1>1, <2>0 DEF At, Tally, One, Reg
  <2> QED BY <2>3, <2>4, <2>5 DEF Settles, Same, Onward, Moves
<1>14. CASE WdirFails(p)
  <2>0. pc[p] = "wdir" /\ WdirThen(p) = IF r.second THEN "relock" ELSE "created"
    BY <1>0, <1>14 DEF At, WdirFails, WdirThen
  <2> DEFINE n == [r EXCEPT !.dp = NoSlot, !.error = TRUE, !.cur = r.dp, !.iput = WdirThen(p)]
  <2>1. n \in Reg /\ n.call \in Calls /\ "iput" \in Label
    BY <1>1, <2>0, Labels, ZenonT(40) DEF Reg
  <2>2. /\ pc' = [pc EXCEPT ![p] = "iput"] /\ reg' = [reg EXCEPT ![p] = n]
       /\ cpu' \in Proc \cup {NoProc}
    BY <1>0, <2>0, <1>14 DEF At, WdirFails, CallIput, Goto, WdirThen
  <2>3. Goes(p) /\ pc'[p] = "iput" /\ reg'[p] = n
    BY <1>0, <2>1, <2>2, GoesTo
  <2>4. Placed("iput", n) /\ ~Parting("iput", n)
    BY <1>0, <1>1, <2>0 DEF At, Reg, Parting
  <2>5. \A s \in Slot : Tally(n, s) = Tally(r, s)
    BY <1>0, <1>1, <2>0 DEF At, Tally, One, Reg
  <2> QED BY <2>3, <2>4, <2>5 DEF Settles, Same, Onward, Moves
<1> QED BY <1>2, <1>3, <1>4, <1>5, <1>6, <1>7, <1>8, <1>9, <1>10, <1>11, <1>12, <1>13, <1>14

(* link() and unlink(), *)
LEMMA LinkMoves ==
    ASSUME IndInv, NEW p \in Proc, LinkCounted(p) \/ Linked(p) \/ LinkExists(p) \/ RelockWait(p)
           \/ Relock(p) \/ UnlinkNone(p) \/ Unlink(p) \/ UnlinkRefused(p)
           \/ UnlinkClear(p) \/ UnlinkCount(p) \/ UnlinkParent(p)
    PROVE  Moves(p)
<1> USE DEF Placed, Returns, Keeps, Handles, Home, InGet, AfterPut, InPut, AfterUpdate,
            Allocating
<1> DEFINE r == reg[p]
<1>0. At(p)
  BY AtPlace
<1>1. r \in Reg /\ r.call \in Calls
  BY <1>0 DEF At
<1>2. CASE LinkCounted(p)
  <2>0. pc[p] = "file" /\ r.res # NoSlot /\ r.call.op = "link"
    BY <1>0, <1>2 DEF At, LinkCounted
  <2> DEFINE n == [r EXCEPT !.ip = r.res, !.res = NoSlot, !.iupdat = "linked"]
  <2>1. n \in Reg /\ n.call \in Calls /\ "iupdat" \in Label
    BY <1>1, <2>0, Labels DEF Reg
  <2>2. /\ pc' = [pc EXCEPT ![p] = "iupdat"] /\ reg' = [reg EXCEPT ![p] = n]
       /\ cpu' \in Proc \cup {NoProc}
    BY <1>0, <2>0, <1>2 DEF At, LinkCounted, CallIupdat, Pause
  <2>3. Goes(p) /\ pc'[p] = "iupdat" /\ reg'[p] = n
    BY <1>0, <2>1, <2>2, GoesTo
  <2>4. Placed("iupdat", n) /\ ~Parting("iupdat", n)
    BY <1>0, <1>1, <2>0 DEF At, Reg, Parting
  <2>5. \A s \in Slot : Tally(n, s) = Tally(r, s)
    BY <1>0, <1>1, <2>0 DEF At, Tally, One, Reg
  <2> QED BY <2>3, <2>4, <2>5 DEF Settles, Same, Onward, Moves
<1>3. CASE Linked(p)
  <2>0. pc[p] = "linked" /\ r.call.new \in Name
    BY <1>0, <1>3, ConstantAssumption DEF At, Linked, Call
  <2> DEFINE n == [r EXCEPT !.ref = r.ip, !.ip = NoSlot, !.name = r.call.new, !.second = TRUE, !.ino = ROOTINO, !.iget = "dir"]
  <2>1. n \in Reg /\ n.call \in Calls /\ "iget" \in Label
    BY <1>1, <2>0, Labels DEF Reg
  <2>2. /\ pc' = [pc EXCEPT ![p] = "iget"] /\ reg' = [reg EXCEPT ![p] = n]
       /\ cpu' \in Proc \cup {NoProc}
    BY <1>0, <2>0, <1>3 DEF At, Linked, CallNamei, Goto
  <2>3. Goes(p) /\ pc'[p] = "iget" /\ reg'[p] = n
    BY <1>0, <2>1, <2>2, GoesTo
  <2>4. Placed("iget", n) /\ ~Parting("iget", n)
    BY <1>0, <1>1, <2>0 DEF At, Reg, Parting
  <2>5. \A s \in Slot : Tally(n, s) = Tally(r, s)
    BY <1>0, <1>1, <2>0 DEF At, Tally, One, Reg
  <2> QED BY <2>3, <2>4, <2>5 DEF Settles, Same, Onward, Moves
<1>4. CASE LinkExists(p)
  <2>0. pc[p] = "exists"
    BY <1>0, <1>4 DEF At, LinkExists
  <2>1. CASE r.res = NoSlot
    <3> DEFINE n == r
    <3>1. n \in Reg /\ n.call \in Calls /\ "relock" \in Label
      BY <1>1, <2>0, Labels DEF Reg
    <3>2. /\ pc' = [pc EXCEPT ![p] = "relock"] /\ reg' = [reg EXCEPT ![p] = n]
         /\ cpu' \in Proc \cup {NoProc}
      BY <1>0, <2>0, <1>4, <2>1 DEF At, LinkExists, CallIput, Goto
    <3>3. Goes(p) /\ pc'[p] = "relock" /\ reg'[p] = n
      BY <1>0, <3>1, <3>2, GoesTo
    <3>4. Placed("relock", n) /\ ~Parting("relock", n)
      BY <1>0, <1>1, <2>0, <2>1 DEF At, Reg, Parting
    <3>5. \A s \in Slot : Tally(n, s) = Tally(r, s)
      OBVIOUS
    <3> QED BY <3>3, <3>4, <3>5 DEF Settles, Same, Onward, Moves
  <2>2. CASE r.res # NoSlot
    <3> DEFINE n == [r EXCEPT !.res = NoSlot, !.error = TRUE, !.cur = r.res, !.iput = "relock"]
    <3>1. n \in Reg /\ n.call \in Calls /\ "iput" \in Label
      BY <1>1, <2>0, Labels DEF Reg
    <3>2. /\ pc' = [pc EXCEPT ![p] = "iput"] /\ reg' = [reg EXCEPT ![p] = n]
         /\ cpu' \in Proc \cup {NoProc}
      BY <1>0, <2>0, <1>4, <2>2 DEF At, LinkExists, CallIput, Goto
    <3>3. Goes(p) /\ pc'[p] = "iput" /\ reg'[p] = n
      BY <1>0, <3>1, <3>2, GoesTo
    <3>4. Placed("iput", n) /\ ~Parting("iput", n)
      BY <1>0, <1>1, <2>0, <2>2 DEF At, Reg, Parting
    <3>5. \A s \in Slot : Tally(n, s) = Tally(r, s)
      BY <1>0, <1>1, <2>0, <2>2 DEF At, Tally, One, Reg
    <3> QED BY <3>3, <3>4, <3>5 DEF Settles, Same, Onward, Moves
  <2> QED BY <2>1, <2>2
<1>5. CASE RelockWait(p)
  <2>0. pc[p] = "relock"
    BY <1>0, <1>5 DEF At, RelockWait
  <2> DEFINE n == r
  <2>1. n \in Reg /\ n.call \in Calls /\ "relock" \in Label
    BY <1>1, <2>0, Labels DEF Reg
  <2>2. /\ pc' = [pc EXCEPT ![p] = "relock"] /\ reg' = [reg EXCEPT ![p] = n]
       /\ cpu' \in Proc \cup {NoProc}
    BY <1>0, <2>0, <1>5 DEF At, RelockWait, AwaitLock, Sleep, Pause
  <2>3. Goes(p) /\ pc'[p] = "relock" /\ reg'[p] = n
    BY <1>0, <2>1, <2>2, GoesTo
  <2>4. Placed("relock", n) /\ ~Parting("relock", n)
    BY <1>0, <1>1, <2>0 DEF At, Reg, Parting
  <2>5. \A s \in Slot : Tally(n, s) = Tally(r, s)
    OBVIOUS
  <2> QED BY <2>3, <2>4, <2>5 DEF Settles, Same, Onward, Moves
<1>6. CASE Relock(p)
  <2>0. pc[p] = "relock"
    BY <1>0, <1>6 DEF At, Relock
  <2> DEFINE n == [r EXCEPT !.ref = NoSlot, !.cur = r.ref, !.iput = "user"]
  <2>1. n \in Reg /\ n.call \in Calls /\ "iput" \in Label
    BY <1>1, <2>0, Labels DEF Reg
  <2>2. /\ pc' = [pc EXCEPT ![p] = "iput"] /\ reg' = [reg EXCEPT ![p] = n]
       /\ cpu' \in Proc \cup {NoProc}
    BY <1>0, <2>0, <1>6 DEF At, Relock, CallIput, Goto
  <2>3. Goes(p) /\ pc'[p] = "iput" /\ reg'[p] = n
    BY <1>0, <2>1, <2>2, GoesTo
  <2>4. Placed("iput", n) /\ ~Parting("iput", n)
    BY <1>0, <1>1, <2>0 DEF At, Reg, Parting
  <2>5. \A s \in Slot : Tally(n, s) = Tally(r, s)
    BY <1>0, <1>1, <2>0 DEF At, Tally, One, Reg
  <2> QED BY <2>3, <2>4, <2>5 DEF Settles, Same, Onward, Moves
<1>7. CASE UnlinkNone(p)
  <2>0. pc[p] = "victim" /\ r.res = NoSlot
    BY <1>0, <1>7 DEF At, UnlinkNone
  <2> DEFINE n == r
  <2>1. n \in Reg /\ n.call \in Calls /\ "parent" \in Label
    BY <1>1, <2>0, Labels DEF Reg
  <2>2. /\ pc' = [pc EXCEPT ![p] = "parent"] /\ reg' = [reg EXCEPT ![p] = n]
       /\ cpu' \in Proc \cup {NoProc}
    BY <1>0, <2>0, <1>7 DEF At, UnlinkNone, Goto
  <2>3. Goes(p) /\ pc'[p] = "parent" /\ reg'[p] = n
    BY <1>0, <2>1, <2>2, GoesTo
  <2>4. Placed("parent", n) /\ ~Parting("parent", n)
    BY <1>0, <1>1, <2>0 DEF At, Reg, Parting
  <2>5. \A s \in Slot : Tally(n, s) = Tally(r, s)
    OBVIOUS
  <2> QED BY <2>3, <2>4, <2>5 DEF Settles, Same, Onward, Moves
<1>8. CASE Unlink(p)
  <2>0. pc[p] = "victim" /\ r.res # NoSlot
    BY <1>0, <1>8 DEF At, Unlink
  <2> DEFINE n == [r EXCEPT !.ip = r.res, !.res = NoSlot]
  <2>1. n \in Reg /\ n.call \in Calls /\ "clear" \in Label
    BY <1>1, <2>0, Labels DEF Reg
  <2>2. /\ pc' = [pc EXCEPT ![p] = "clear"] /\ reg' = [reg EXCEPT ![p] = n]
       /\ cpu' \in Proc \cup {NoProc}
    BY <1>0, <2>0, <1>8 DEF At, Unlink, Pause
  <2>3. Goes(p) /\ pc'[p] = "clear" /\ reg'[p] = n
    BY <1>0, <2>1, <2>2, GoesTo
  <2>4. Placed("clear", n) /\ ~Parting("clear", n)
    BY <1>0, <1>1, <2>0 DEF At, Reg, Parting
  <2>5. \A s \in Slot : Tally(n, s) = Tally(r, s)
    BY <1>0, <1>1, <2>0 DEF At, Tally, One, Reg
  <2> QED BY <2>3, <2>4, <2>5 DEF Settles, Same, Onward, Moves
<1>9. CASE UnlinkRefused(p)
  <2>0. pc[p] = "clear"
    BY <1>0, <1>9 DEF At, UnlinkRefused
  <2> DEFINE n == [r EXCEPT !.ip = NoSlot, !.error = TRUE, !.cur = r.ip, !.iput = "parent"]
  <2>1. n \in Reg /\ n.call \in Calls /\ "iput" \in Label
    BY <1>1, <2>0, Labels DEF Reg
  <2>2. /\ pc' = [pc EXCEPT ![p] = "iput"] /\ reg' = [reg EXCEPT ![p] = n]
       /\ cpu' \in Proc \cup {NoProc}
    BY <1>0, <2>0, <1>9 DEF At, UnlinkRefused, CallIput, Goto
  <2>3. Goes(p) /\ pc'[p] = "iput" /\ reg'[p] = n
    BY <1>0, <2>1, <2>2, GoesTo
  <2>4. Placed("iput", n) /\ ~Parting("iput", n)
    BY <1>0, <1>1, <2>0 DEF At, Reg, Parting
  <2>5. \A s \in Slot : Tally(n, s) = Tally(r, s)
    BY <1>0, <1>1, <2>0 DEF At, Tally, One, Reg
  <2> QED BY <2>3, <2>4, <2>5 DEF Settles, Same, Onward, Moves
<1>10. CASE UnlinkClear(p)
  <2>0. pc[p] = "clear"
    BY <1>0, <1>10 DEF At, UnlinkClear
  <2> DEFINE n == r
  <2>1. n \in Reg /\ n.call \in Calls /\ "cleared" \in Label
    BY <1>1, <2>0, Labels DEF Reg
  <2>2. /\ pc' = [pc EXCEPT ![p] = "cleared"] /\ reg' = [reg EXCEPT ![p] = n]
       /\ cpu' \in Proc \cup {NoProc}
    BY <1>0, <2>0, <1>10 DEF At, UnlinkClear, Pause
  <2>3. Goes(p) /\ pc'[p] = "cleared" /\ reg'[p] = n
    BY <1>0, <2>1, <2>2, GoesTo
  <2>4. Placed("cleared", n) /\ ~Parting("cleared", n)
    BY <1>0, <1>1, <2>0 DEF At, Reg, Parting
  <2>5. \A s \in Slot : Tally(n, s) = Tally(r, s)
    OBVIOUS
  <2> QED BY <2>3, <2>4, <2>5 DEF Settles, Same, Onward, Moves
<1>11. CASE UnlinkCount(p)
  <2>0. pc[p] = "cleared"
    BY <1>0, <1>11 DEF At, UnlinkCount
  <2> DEFINE n == [r EXCEPT !.ip = NoSlot, !.cur = r.ip, !.iput = "parent"]
  <2>1. n \in Reg /\ n.call \in Calls /\ "iput" \in Label
    BY <1>1, <2>0, Labels DEF Reg
  <2>2. /\ pc' = [pc EXCEPT ![p] = "iput"] /\ reg' = [reg EXCEPT ![p] = n]
       /\ cpu' \in Proc \cup {NoProc}
    BY <1>0, <2>0, <1>11 DEF At, UnlinkCount, CallIput, Goto
  <2>3. Goes(p) /\ pc'[p] = "iput" /\ reg'[p] = n
    BY <1>0, <2>1, <2>2, GoesTo
  <2>4. Placed("iput", n) /\ ~Parting("iput", n)
    BY <1>0, <1>1, <2>0 DEF At, Reg, Parting
  <2>5. \A s \in Slot : Tally(n, s) = Tally(r, s)
    BY <1>0, <1>1, <2>0 DEF At, Tally, One, Reg
  <2> QED BY <2>3, <2>4, <2>5 DEF Settles, Same, Onward, Moves
<1>12. CASE UnlinkParent(p)
  <2>0. pc[p] = "parent"
    BY <1>0, <1>12 DEF At, UnlinkParent
  <2> DEFINE n == [r EXCEPT !.dp = NoSlot, !.cur = r.dp, !.iput = "user"]
  <2>1. n \in Reg /\ n.call \in Calls /\ "iput" \in Label
    BY <1>1, <2>0, Labels DEF Reg
  <2>2. /\ pc' = [pc EXCEPT ![p] = "iput"] /\ reg' = [reg EXCEPT ![p] = n]
       /\ cpu' \in Proc \cup {NoProc}
    BY <1>0, <2>0, <1>12 DEF At, UnlinkParent, CallIput, Goto
  <2>3. Goes(p) /\ pc'[p] = "iput" /\ reg'[p] = n
    BY <1>0, <2>1, <2>2, GoesTo
  <2>4. Placed("iput", n) /\ ~Parting("iput", n)
    BY <1>0, <1>1, <2>0 DEF At, Reg, Parting
  <2>5. \A s \in Slot : Tally(n, s) = Tally(r, s)
    BY <1>0, <1>1, <2>0 DEF At, Tally, One, Reg
  <2> QED BY <2>3, <2>4, <2>5 DEF Settles, Same, Onward, Moves
<1> QED BY <1>2, <1>3, <1>4, <1>5, <1>6, <1>7, <1>8, <1>9, <1>10, <1>11, <1>12

(* close() and update(). *)
LEMMA CloseMoves ==
    ASSUME IndInv, NEW p \in Proc, CloseWait(p) \/ Close(p) \/ CloseDevice(p) \/ DeviceClosed(p)
           \/ UpdatePut(p) \/ UpdateEnd(p)
    PROVE  Moves(p)
<1> USE DEF Placed, Returns, Keeps, Handles, Home, InGet, AfterPut, InPut, AfterUpdate,
            Allocating
<1> DEFINE r == reg[p]
<1>0. At(p)
  BY AtPlace
<1>1. r \in Reg /\ r.call \in Calls
  BY <1>0 DEF At
<1>2. CASE CloseWait(p)
  <2>0. pc[p] = "close"
    BY <1>0, <1>2 DEF At, CloseWait
  <2> DEFINE n == r
  <2>1. n \in Reg /\ n.call \in Calls /\ "close" \in Label
    BY <1>1, <2>0, Labels DEF Reg
  <2>2. /\ pc' = [pc EXCEPT ![p] = "close"] /\ reg' = [reg EXCEPT ![p] = n]
       /\ cpu' \in Proc \cup {NoProc}
    BY <1>0, <2>0, <1>2 DEF At, CloseWait, AwaitLock, Sleep, Pause
  <2>3. Goes(p) /\ pc'[p] = "close" /\ reg'[p] = n
    BY <1>0, <2>1, <2>2, GoesTo
  <2>4. Placed("close", n) /\ ~Parting("close", n)
    BY <1>0, <1>1, <2>0 DEF At, Reg, Parting
  <2>5. \A s \in Slot : Tally(n, s) = Tally(r, s)
    OBVIOUS
  <2> QED BY <2>3, <2>4, <2>5 DEF Settles, Same, Onward, Moves
<1>3. CASE Close(p)
  <2>0. pc[p] = "close"
    BY <1>0, <1>3 DEF At, Close
  <2> DEFINE n == [r EXCEPT !.file = NoSlot, !.cur = r.file, !.iput = "user"]
  <2>1. n \in Reg /\ n.call \in Calls /\ "iput" \in Label
    BY <1>1, <2>0, Labels DEF Reg
  <2>2. /\ pc' = [pc EXCEPT ![p] = "iput"] /\ reg' = [reg EXCEPT ![p] = n]
       /\ cpu' \in Proc \cup {NoProc}
    BY <1>0, <2>0, <1>3 DEF At, Close, CallIput, Goto
  <2>3. Goes(p) /\ pc'[p] = "iput" /\ reg'[p] = n
    BY <1>0, <2>1, <2>2, GoesTo
  <2>4. Placed("iput", n) /\ ~Parting("iput", n)
    BY <1>0, <1>1, <2>0 DEF At, Reg, Parting
  <2>5. \A s \in Slot : Tally(n, s) = Tally(r, s)
    BY <1>0, <1>1, <2>0 DEF At, Tally, One, Reg
  <2> QED BY <2>3, <2>4, <2>5 DEF Settles, Same, Onward, Moves
<1>4. CASE CloseDevice(p)
  <2>0. pc[p] = "close"
    BY <1>0, <1>4 DEF At, CloseDevice
  <2> DEFINE n == [r EXCEPT !.ref = r.file, !.file = NoSlot]
  <2>1. n \in Reg /\ n.call \in Calls /\ "dclosed" \in Label
    BY <1>1, <2>0, Labels DEF Reg
  <2>2. /\ pc' = [pc EXCEPT ![p] = "dclosed"] /\ reg' = [reg EXCEPT ![p] = n]
       /\ cpu' \in Proc \cup {NoProc}
    BY <1>0, <2>0, <1>4 DEF At, CloseDevice, Pause
  <2>3. Goes(p) /\ pc'[p] = "dclosed" /\ reg'[p] = n
    BY <1>0, <2>1, <2>2, GoesTo
  <2>4. Placed("dclosed", n) /\ ~Parting("dclosed", n)
    BY <1>0, <1>1, <2>0 DEF At, Reg, Parting
  <2>5. \A s \in Slot : Tally(n, s) = Tally(r, s)
    BY <1>0, <1>1, <2>0 DEF At, Tally, One, Reg
  <2> QED BY <2>3, <2>4, <2>5 DEF Settles, Same, Onward, Moves
<1>5. CASE DeviceClosed(p)
  <2>0. pc[p] = "dclosed"
    BY <1>0, <1>5 DEF At, DeviceClosed
  <2> DEFINE n == [r EXCEPT !.ref = NoSlot, !.cur = r.ref, !.iput = "user"]
  <2>1. n \in Reg /\ n.call \in Calls /\ "iput" \in Label
    BY <1>1, <2>0, Labels DEF Reg
  <2>2. /\ pc' = [pc EXCEPT ![p] = "iput"] /\ reg' = [reg EXCEPT ![p] = n]
       /\ cpu' \in Proc \cup {NoProc}
    BY <1>0, <2>0, <1>5 DEF At, DeviceClosed, CallIput, Goto
  <2>3. Goes(p) /\ pc'[p] = "iput" /\ reg'[p] = n
    BY <1>0, <2>1, <2>2, GoesTo
  <2>4. Placed("iput", n) /\ ~Parting("iput", n)
    BY <1>0, <1>1, <2>0 DEF At, Reg, Parting
  <2>5. \A s \in Slot : Tally(n, s) = Tally(r, s)
    BY <1>0, <1>1, <2>0 DEF At, Tally, One, Reg
  <2> QED BY <2>3, <2>4, <2>5 DEF Settles, Same, Onward, Moves
<1>6. CASE UpdatePut(p)
  <2>0. pc[p] = "syncput"
    BY <1>0, <1>6 DEF At, UpdatePut
  <2> DEFINE n == [r EXCEPT !.cur = r.cur, !.iput = "sync"]
  <2>1. n \in Reg /\ n.call \in Calls /\ "iput" \in Label
    BY <1>1, <2>0, Labels DEF Reg
  <2>2. /\ pc' = [pc EXCEPT ![p] = "iput"] /\ reg' = [reg EXCEPT ![p] = n]
       /\ cpu' \in Proc \cup {NoProc}
    BY <1>0, <2>0, <1>6 DEF At, UpdatePut, CallIput, Goto
  <2>3. Goes(p) /\ pc'[p] = "iput" /\ reg'[p] = n
    BY <1>0, <2>1, <2>2, GoesTo
  <2>4. Placed("iput", n) /\ ~Parting("iput", n)
    BY <1>0, <1>1, <2>0 DEF At, Reg, Parting
  <2>5. \A s \in Slot : Tally(n, s) = Tally(r, s)
    BY <1>0, <1>1, <2>0 DEF At, Tally, One, Reg
  <2> QED BY <2>3, <2>4, <2>5 DEF Settles, Same, Onward, Moves
<1>7. CASE UpdateEnd(p)
  <2>0. pc[p] = "sync"
    BY <1>0, <1>7 DEF At, UpdateEnd
  <2> DEFINE n == Idle(r.file, r.wfile)
  <2>1. /\ {r.file, r.wfile} \subseteq Slot \cup {NoSlot} /\ RootSlot \notin {r.file, r.wfile} /\ NoSlot \notin Slot
       /\ r.dp = NoSlot /\ r.ip = NoSlot /\ r.res = NoSlot /\ r.cur = NoSlot /\ r.ref = NoSlot
    BY <1>0, <2>0 DEF At, Reg
  <2>2. n \in Reg /\ n.call \in Calls /\ "user" \in Label
    BY <1>0, <2>1, IdleType, Labels
  <2>3. /\ Placed("user", n) /\ ~Parting("user", n)
       /\ \A s \in Slot : Tally(n, s) = One(r.file = s) + One(r.wfile = s)
    BY <1>0, <2>1, IdleType DEF Parting
  <2>4. /\ pc' = [pc EXCEPT ![p] = "user"] /\ reg' = [reg EXCEPT ![p] = n]
       /\ cpu' \in Proc \cup {NoProc}
    BY <1>7 DEF UpdateEnd, Return, Goto
  <2> HIDE DEF n
  <2>5. \A s \in Slot : Tally(n, s) = Tally(r, s)
    BY <2>1, <2>3 DEF Tally, One
  <2>6. Goes(p) /\ pc'[p] = "user" /\ reg'[p] = n
    BY <1>0, <2>2, <2>4, GoesTo
  <2> QED BY <2>3, <2>5, <2>6 DEF Settles, Same, Onward, Moves
<1> QED BY <1>2, <1>3, <1>4, <1>5, <1>6, <1>7

(* ialloc() searches the i-list block by block. *)
LEMMA InosNat ==
    ASSUME NEW x \in Nat
    PROVE  INOS(x) \in Nat
<1>1. x = INOPB * (x \div INOPB) + (x % INOPB) /\ x % INOPB \in Nat /\ x \div INOPB \in Nat
  BY ConstantAssumption
<1> DEFINE q == x \div INOPB
           m == x % INOPB
           y == INOPB * q
<1>2. y \in Nat
  BY <1>1, ConstantAssumption
<1>3. x = y + m /\ m \in Nat
  BY <1>1
<1>4. INOS(x) = x - m + 1
  BY DEF INOS
<1> HIDE DEF q, m, y
<1> QED BY <1>2, <1>3, <1>4

(* (The registers with a search at x, or with the error e, or with a call, *)
(* keep to their type: V hides from the provers that e is a Boolean.)      *)
LEMMA RegError ==
    ASSUME NEW r \in Reg, NEW V, V \subseteq BOOLEAN, NEW e \in V, NEW x \in Nat
    PROVE  /\ [r EXCEPT !.scan = x, !.error = e] \in Reg
           /\ [r EXCEPT !.scan = x, !.error = e].call = r.call
BY DEF Reg

(* A process that enters the kernel has registers of the right type. *)
LEMMA RegCall ==
    ASSUME NEW r \in Reg, NEW c \in Call, NEW m \in Name
    PROVE  /\ [r EXCEPT !.call = c, !.name = m, !.second = FALSE, !.error = FALSE,
                         !.ino = ROOTINO, !.iget = "dir"] \in Reg
           /\ [r EXCEPT !.call = c, !.name = m, !.second = FALSE, !.error = FALSE,
                         !.ino = ROOTINO, !.iget = "dir"].call = c
<1> DEFINE n1 == [r EXCEPT !.call = c, !.name = m]
           n2 == [n1 EXCEPT !.second = FALSE]
           n3 == [n2 EXCEPT !.error = FALSE]
           n4 == [n3 EXCEPT !.ino = ROOTINO, !.iget = "dir"]
<1>1. n1 \in Reg /\ n1.call = c
  BY DEF Reg
<1> HIDE DEF n1
<1>2. n2 \in Reg /\ n2.call = c
  <2>1. n2 \in Reg
    BY <1>1, ZenonT(40) DEF Reg
  <2>2. n2.call = n1.call
    BY <1>1 DEF Reg
  <2> QED BY <1>1, <2>1, <2>2
<1> HIDE DEF n2
<1>3. n3 \in Reg /\ n3.call = c
  <2>1. n3 \in Reg
    BY <1>2, ZenonT(40) DEF Reg
  <2>2. n3.call = n2.call
    BY <1>2 DEF Reg
  <2> QED BY <1>2, <2>1, <2>2
<1> HIDE DEF n3
<1>4. n4 \in Reg /\ n4.call = c
  <2>1. "dir" \in Label
    BY Labels
  <2>2. n4 \in Reg
    BY <1>3, <2>1 DEF Reg
  <2>3. n4.call = n3.call
    BY <1>3 DEF Reg
  <2> QED BY <1>3, <2>2, <2>3
<1> QED BY <1>4, Zenon DEF n1, n2, n3

Searches(p, x, l, e) ==
    /\ pc[p] \in {"ialloc", "scan"} /\ pc' = [pc EXCEPT ![p] = l]
    /\ reg' = [reg EXCEPT ![p] = [reg[p] EXCEPT !.scan = x, !.error = e]]
    /\ cpu' \in Proc \cup {NoProc}

(* ialloc() with no number in the super block: the search begins, *)
LEMMA IallocSearchMoves ==
    ASSUME IndInv, NEW p \in Proc, NEW x \in Nat, NEW l \in {"scan", "scanned"},
           NEW e \in BOOLEAN, Searches(p, x, l, e)
    PROVE  Moves(p)
<1> USE DEF Placed, Returns, Keeps, Handles, Home, InGet, AfterPut, InPut, AfterUpdate,
            Allocating
<1> DEFINE r == reg[p]
           n == [r EXCEPT !.scan = x, !.error = e]
<1>0. At(p)
  BY AtPlace
<1>1. r \in Reg /\ r.call \in Calls
  BY <1>0 DEF At
<1>2. n \in Reg /\ n.call \in Calls /\ l \in Label
  <2>1. n \in Reg /\ n.call = r.call
    BY <1>1, RegError, Zenon
  <2> QED BY <1>1, <2>1, Labels
<1>3. Goes(p) /\ pc'[p] = l /\ reg'[p] = n
  BY <1>0, <1>2, GoesTo DEF Searches
<1>4. Placed(l, n) /\ ~Parting(l, n)
  BY <1>0, <1>1 DEF At, Reg, Parting, Searches
<1>5. \A s \in Slot : Tally(n, s) = Tally(r, s)
  BY <1>1 DEF Tally, One, Reg
<1> QED BY <1>3, <1>4, <1>5 DEF Settles, Same, Onward, Moves

(* and goes on, block by block, whether or not a block can be read. *)
LEMMA IallocScanMoves ==
    ASSUME IndInv, NEW p \in Proc, IallocSearch(p) \/ IallocScan(p) \/ IallocScanError(p)
    PROVE  Moves(p)
<1> DEFINE r == reg[p]
<1>0. At(p)
  BY AtPlace
<1>1. r \in Reg /\ r.scan \in Nat /\ r.error \in BOOLEAN
  BY <1>0 DEF At, Reg
<1>2. CASE IallocSearch(p)
  <2> DEFINE x == INOS(s_inode[0])
             l == IF x <= NIno THEN "scan" ELSE "scanned"
  <2>1. x \in Nat
    <3>1. s_inode[0] \in Nat
      <4>1. s_inode \in [0 .. NICINOD - 1 -> Ino \cup {NoIno}] /\ 0 \in 0 .. NICINOD - 1
        BY ConstantAssumption DEF IndInv, OneSlotPerInode, TypeOK
      <4>2. Ino \cup {NoIno} \subseteq Nat
        BY ConstantAssumption DEF Ino, NoIno, ROOTINO
      <4> QED BY <4>1, <4>2
    <3> QED BY <3>1, InosNat
  <2>2. reg' = [reg EXCEPT ![p] = [r EXCEPT !.scan = x, !.error = r.error]]
    <3>1. reg' = [reg EXCEPT ![p] = [r EXCEPT !.scan = x]]
      BY <1>2, <1>0 DEF IallocSearch, At
    <3>2. [r EXCEPT !.scan = x] = [r EXCEPT !.scan = x, !.error = r.error]
      <4> HIDE DEF x, r
      <4> QED BY <1>1 DEF Reg
    <3> QED BY <3>1, <3>2
  <2>3. /\ pc' = [pc EXCEPT ![p] = l] /\ cpu' \in Proc \cup {NoProc} /\ pc[p] = "ialloc"
        /\ l \in {"scan", "scanned"}
    BY <1>2 DEF IallocSearch, Goto, Pause
  <2>4. Searches(p, x, l, r.error)
    BY <2>2, <2>3 DEF Searches
  <2> HIDE DEF x, l
  <2> QED BY <1>1, <2>1, <2>3, <2>4, IallocSearchMoves
<1>3. ASSUME pc[p] = "scan", NEW left, NEW e \in BOOLEAN, IallocNextBlock(p, left, e)
      PROVE  Moves(p)
  <2> DEFINE x == r.scan + INOPB
             l == IF left > 0 /\ x <= NIno THEN "scan" ELSE "scanned"
  <2>1. x \in Nat
    BY <1>1, ConstantAssumption
  <2>2. reg' = [reg EXCEPT ![p] = [r EXCEPT !.scan = x, !.error = e]]
    BY <1>3, <1>0 DEF IallocNextBlock, At
  <2>3. /\ pc' = [pc EXCEPT ![p] = l] /\ cpu' \in Proc \cup {NoProc}
        /\ l \in {"scan", "scanned"}
    BY <1>3 DEF IallocNextBlock, Goto, Pause
  <2>4. Searches(p, x, l, e)
    BY <1>3, <2>2, <2>3 DEF Searches
  <2> HIDE DEF x, l
  <2> QED BY <1>3, <2>1, <2>3, <2>4, IallocSearchMoves
<1>4. CASE IallocScan(p)
  <2>1. pc[p] = "scan" /\ \E left : IallocNextBlock(p, left, FALSE)
    BY <1>4 DEF IallocScan
  <2> QED BY <1>3, <2>1
<1>5. CASE IallocScanError(p)
  BY <1>3, <1>5 DEF IallocScanError
<1> QED BY <1>2, <1>4, <1>5

(* namei() has found the name. *)
LEMMA NameiFoundMoves ==
    ASSUME IndInv, NEW p \in Proc, NameiFound(p)
    PROVE  Moves(p)
<1> USE DEF Placed, Returns, Keeps, Handles, Home, InGet, AfterPut, InPut, AfterUpdate,
            Allocating
<1> DEFINE r == reg[p]
           l == IF r.second THEN "exists" ELSE "file"
           n == [r EXCEPT !.dp = NoSlot, !.ino = Entry(p), !.iget = l, !.cur = r.dp,
                          !.iput = "iget"]
<1>0. At(p)
  BY AtPlace
<1>1. r \in Reg /\ r.call \in Calls
  BY <1>0 DEF At
<1>2. pc[p] = "search" /\ Entry(p) \in Ino /\ r.call.op # "unlink"
  BY <1>0, <1>1, SMTT(30) DEF At, NameiFound, Entry, Reg, IndInv, OneSlotPerInode, TypeOK
<1>3. n \in Reg /\ n.call \in Calls /\ "iput" \in Label
  <2>1. l \in Label /\ "iget" \in Label /\ "iput" \in Label
    BY Labels
  <2> HIDE DEF l
  <2>2. n \in Reg /\ n.call = r.call
    BY <1>1, <1>2, <2>1 DEF Reg
  <2> QED BY <1>1, <2>1, <2>2
<1>4. /\ pc' = [pc EXCEPT ![p] = "iput"] /\ reg' = [reg EXCEPT ![p] = n]
      /\ cpu' \in Proc \cup {NoProc}
  BY DEF NameiFound, CallIput, Goto
<1>5. Goes(p) /\ pc'[p] = "iput" /\ reg'[p] = n
  BY <1>0, <1>3, <1>4, GoesTo
<1>6. Placed("iput", n) /\ ~Parting("iput", n)
  BY <1>0, <1>1, <1>2 DEF At, Reg, Parting
<1>7. \A s \in Slot : Tally(n, s) = Tally(r, s)
  BY <1>0, <1>1, <1>2 DEF At, Tally, One, Reg
<1> QED BY <1>5, <1>6, <1>7 DEF Settles, Same, Onward, Moves

(* A process calls the system. *)
LEMMA EnterMoves ==
    ASSUME IndInv, NEW p \in Proc, EnterStep(p)
    PROVE  Moves(p)
<1> USE DEF Placed, Returns, Keeps, Handles, Home, InGet, AfterPut, InPut, AfterUpdate,
            Allocating
<1> DEFINE r == reg[p]
<1>0. At(p)
  BY AtPlace
<1>1. r \in Reg /\ r.call \in Calls
  BY <1>0 DEF At
<1>2. /\ \A c \in Calls : c \in Call /\ c.op \in Op /\ c.name \in Name
      /\ 1 \in Nat
  BY <1>0 DEF At, Call
<1>3. CASE EnterNamei(p)
  <2>1. PICK c \in Calls :
            /\ pc[p] = "user" /\ Runs(p)
            /\ c.op \in {"open", "creat", "unlink", "link"}
            /\ c.op \in {"open", "creat"} => r.file = NoSlot
            /\ CallNamei(p, [r EXCEPT !.call = c, !.name = c.name, !.second = FALSE,
                                      !.error = FALSE])
            /\ UNCHANGED <<fsVars, wchan>>
    BY <1>3, Zenon DEF EnterNamei
  <2> DEFINE n == [r EXCEPT !.call = c, !.name = c.name, !.second = FALSE,
                            !.error = FALSE, !.ino = ROOTINO, !.iget = "dir"]
  <2>2. n \in Reg /\ n.call \in Calls /\ "iget" \in Label /\ pc[p] = "user"
    <3>1. "iget" \in Label /\ pc[p] = "user"
      BY <1>3, Labels DEF EnterNamei
    <3>2. n \in Reg /\ n.call = c
      <4>1. c \in Call /\ c.name \in Name
        BY <1>2
      <4> QED BY <1>1, <4>1, RegCall, Zenon
    <3> QED BY <3>1, <3>2
  <2>3. /\ pc' = [pc EXCEPT ![p] = "iget"] /\ reg' = [reg EXCEPT ![p] = n]
        /\ cpu' \in Proc \cup {NoProc}
    BY <2>1 DEF CallNamei, Goto
  <2>4. Goes(p) /\ pc'[p] = "iget" /\ reg'[p] = n
    BY <1>0, <2>2, <2>3, GoesTo
  <2>5. Placed("iget", n) /\ ~Parting("iget", n)
    BY <1>0, <1>1, <2>1, <2>2 DEF At, Reg, Parting
  <2>6. \A s \in Slot : Tally(n, s) = Tally(r, s)
    BY <1>1 DEF Tally, One, Reg
  <2> QED BY <2>4, <2>5, <2>6 DEF Settles, Same, Onward, Moves
<1>4. CASE EnterPipe(p)
  <2>1. PICK c \in Calls : /\ c.op = "pipe" /\ r.file = NoSlot /\ r.wfile = NoSlot
                           /\ reg' = [reg EXCEPT ![p].call = c]
    BY <1>4 DEF EnterPipe
  <2> DEFINE n == [r EXCEPT !.call = c]
  <2>2. n \in Reg /\ n.call \in Calls /\ "ialloc" \in Label /\ pc[p] = "user"
    BY <1>1, <1>2, <1>4, Labels DEF Reg, EnterPipe
  <2>3. /\ pc' = [pc EXCEPT ![p] = "ialloc"] /\ reg' = [reg EXCEPT ![p] = n]
        /\ cpu' \in Proc \cup {NoProc}
    BY <1>0, <1>4, <2>1 DEF At, EnterPipe, Goto
  <2>4. Goes(p) /\ pc'[p] = "ialloc" /\ reg'[p] = n
    BY <1>0, <2>2, <2>3, GoesTo
  <2>5. Placed("ialloc", n) /\ ~Parting("ialloc", n)
    BY <1>0, <1>1, <2>1, <2>2 DEF At, Reg, Parting
  <2>6. \A s \in Slot : Tally(n, s) = Tally(r, s)
    BY <1>1 DEF Tally, One, Reg
  <2> QED BY <2>4, <2>5, <2>6 DEF Settles, Same, Onward, Moves
<1>5. CASE EnterUpdate(p)
  <2>1. PICK c \in Calls : c.op = "sync" /\ reg' = [reg EXCEPT ![p].call = c, ![p].scan = 1]
    BY <1>5 DEF EnterUpdate
  <2> DEFINE n == [r EXCEPT !.call = c, !.scan = 1]
  <2>2. n \in Reg /\ n.call \in Calls /\ "sync" \in Label /\ pc[p] = "user"
    BY <1>1, <1>2, <1>5, Labels DEF Reg, EnterUpdate
  <2>3. /\ pc' = [pc EXCEPT ![p] = "sync"] /\ reg' = [reg EXCEPT ![p] = n]
        /\ cpu' \in Proc \cup {NoProc}
    BY <1>0, <1>5, <2>1 DEF At, EnterUpdate, Pause
  <2>4. Goes(p) /\ pc'[p] = "sync" /\ reg'[p] = n
    BY <1>0, <2>2, <2>3, GoesTo
  <2>5. Placed("sync", n) /\ ~Parting("sync", n)
    BY <1>0, <1>1, <2>1, <2>2 DEF At, Reg, Parting
  <2>6. \A s \in Slot : Tally(n, s) = Tally(r, s)
    BY <1>1 DEF Tally, One, Reg
  <2> QED BY <2>4, <2>5, <2>6 DEF Settles, Same, Onward, Moves
<1>6. CASE EnterClose(p)
  <2>1. /\ pc' = [pc EXCEPT ![p] = "close"] /\ cpu' \in Proc \cup {NoProc}
        /\ "close" \in Label /\ pc[p] = "user"
    BY <1>6, Labels DEF EnterClose, Goto
  <2>2. ASSUME NEW c \in Calls, c.op = "close", r.file # NoSlot,
             reg' = [reg EXCEPT ![p] = [r EXCEPT !.call = c]]
        PROVE  Moves(p)
    <3> DEFINE n == [r EXCEPT !.call = c]
    <3>1. n \in Reg /\ n.call \in Calls
      <4>1. c \in Call
        BY <1>2
      <4> QED BY <1>1, <4>1 DEF Reg
    <3>2. Goes(p) /\ pc'[p] = "close" /\ reg'[p] = n
      BY <1>0, <2>1, <2>2, <3>1, GoesTo
    <3>3. Placed("close", n) /\ ~Parting("close", n)
      BY <1>0, <1>1, <2>1, <2>2 DEF At, Reg, Parting
    <3>4. \A s \in Slot : Tally(n, s) = Tally(r, s)
      BY <1>1 DEF Tally, One, Reg
    <3> QED BY <3>2, <3>3, <3>4 DEF Settles, Same, Onward, Moves
  <2>3. ASSUME NEW c \in Calls, c.op = "close", r.wfile # NoSlot,
             reg' = [reg EXCEPT ![p] = [r EXCEPT !.call = c, !.file = r.wfile, !.wfile = r.file]]
        PROVE  Moves(p)
    <3> DEFINE n == [r EXCEPT !.call = c, !.file = r.wfile, !.wfile = r.file]
    <3>1. n \in Reg /\ n.call \in Calls
      <4>1. c \in Call
        BY <1>2
      <4> QED BY <1>1, <4>1 DEF Reg
    <3>2. Goes(p) /\ pc'[p] = "close" /\ reg'[p] = n
      BY <1>0, <2>1, <2>3, <3>1, GoesTo
    <3>3. Placed("close", n) /\ ~Parting("close", n)
      BY <1>0, <1>1, <2>1, <2>3 DEF At, Reg, Parting
    <3>4. \A s \in Slot : Tally(n, s) = Tally(r, s)
      BY <1>1 DEF Tally, One, Reg
    <3> QED BY <3>2, <3>3, <3>4 DEF Settles, Same, Onward, Moves
  <2> QED BY <1>6, <2>2, <2>3, Zenon DEF EnterClose
<1> QED BY <1>3, <1>4, <1>5, <1>6 DEF EnterStep
-----------------------------------------------------------------------------
(* What the steps do to the slots: the flags of slot s become f, and its   *)
(* count grows by d, with the references that p has to it.                 *)

(* The variables that only have to keep to their types.                    *)
Tables ==
    /\ i_mode \in [Slot -> Mode] /\ i_nlink \in [Slot -> Int]
    /\ di_mode \in [Ino -> Mode] /\ di_nlink \in [Ino -> Int]
    /\ d_ino \in [Name -> Ino \cup {NoIno}]
    /\ s_inode \in [0 .. NICINOD - 1 -> Ino \cup {NoIno}]
    /\ s_ninode \in 0 .. NICINOD
    /\ s_ilock \in BOOLEAN /\ uinode \in BOOLEAN

slotNames == <<i_number, i_flag, i_count, ifreelist>>

(* A slot gets the number of an inode that no slot has, or keeps its own. *)
Renames(s) ==
    \/ UNCHANGED i_number
    \/ /\ \E i \in Ino : Hashed(i) = {} /\ i_number' = [i_number EXCEPT ![s] = i]
       /\ s # RootSlot /\ \A q \in Proc : wchan[q] # s

Does(p, s, d, f) ==
    /\ Settles(p) /\ Shifts(p, s, d) /\ Tables' /\ Renames(s)
    /\ i_count' = [i_count EXCEPT ![s] = @ + d] /\ i_count'[s] \in Nat
    /\ i_flag' = [i_flag EXCEPT ![s] = f] /\ f \subseteq Flag

(* The free list holds the slots that nobody uses, without flags;          *)
Frees(s, f) ==
    /\ ifreelist' \in Seq(Slot) /\ IsInjective(ifreelist')
    /\ \A t \in Slot : i_count'[t] = 0 <=> Contains(ifreelist', t)
    /\ i_count'[s] = 0 => f = {}
    /\ i_count'[s] # 0 => i_number'[s] # NoIno

(* who gives up a last reference keeps its lock;                           *)
Parts(p, s, d, f) ==
    /\ Parting(pc'[p], reg'[p]) =>
           i_count'[reg'[p].cur] = 1 /\ "ILOCK" \in i_flag'[reg'[p].cur]
    /\ \A q \in Proc \ {p} : Parting(pc[q], reg[q]) /\ reg[q].cur = s =>
           d = 0 /\ "ILOCK" \in f

(* and who sleeps on a lock still has somebody to wake it up.              *)
Sleeps(p, s, f) ==
    /\ wchan' \in [Proc -> Slot \cup {ILockChan, Awake}]
    /\ \A q \in Proc \ {p} : wchan'[q] \in {wchan[q], Awake}
    /\ \A q \in Proc : wchan'[q] = s => {"ILOCK", "IWANT"} \subseteq f
    /\ \A q \in Proc : wchan'[q] = ILockChan => s_ilock'
    /\ wchan'[p] \in Slot =>
           /\ wchan'[p] = s
           /\ \/ pc'[p] = "iget" /\ i_number'[s] = reg'[p].ino
              \/ pc'[p] = "relock" /\ s = reg'[p].ref
              \/ pc'[p] = "close" /\ s = reg'[p].file
    /\ wchan'[p] = ILockChan => pc'[p] = "ialloc"

(* The registers of the others stay.                                       *)
LEMMA OthersStay ==
    ASSUME IndInv, NEW p \in Proc, Settles(p)
    PROVE  /\ pc' \in [Proc -> Label] /\ reg' \in [Proc -> Reg]
           /\ cpu' \in Proc \cup {NoProc}
           /\ \A q \in Proc \ {p} : pc'[q] = pc[q] /\ reg'[q] = reg[q]
           /\ \A q \in Proc : Placed(pc'[q], reg'[q]) /\ reg'[q].call \in Calls
<1>1. /\ pc \in [Proc -> Label] /\ reg \in [Proc -> Reg]
      /\ \A q \in Proc : Placed(pc[q], reg[q]) /\ reg[q].call \in Calls
  BY DEF IndInv, OneSlotPerInode, TypeOK
<1>2. /\ pc' = [pc EXCEPT ![p] = pc'[p]] /\ pc'[p] \in Label
      /\ reg' = [reg EXCEPT ![p] = reg'[p]] /\ reg'[p] \in Reg
      /\ Placed(pc'[p], reg'[p]) /\ reg'[p].call \in Calls
      /\ cpu' \in Proc \cup {NoProc}
  BY DEF Settles, Goes
<1>3. \A q \in Proc \ {p} : pc'[q] = pc[q] /\ reg'[q] = reg[q]
  BY <1>1, <1>2
<1>4. pc' \in [Proc -> Label]
  BY <1>1, <1>2
<1>5. reg' \in [Proc -> Reg]
  BY <1>1, <1>2
<1>6. ASSUME NEW q \in Proc PROVE Placed(pc'[q], reg'[q]) /\ reg'[q].call \in Calls
  BY <1>1, <1>2, <1>3
<1> QED BY <1>2, <1>3, <1>4, <1>5, <1>6

(* What a step has to keep, part by part, for IndInv to hold after it. *)
LEMMA IndInvKept ==
    ASSUME IndInv, NEW p \in Proc, NEW s \in Slot, NEW d \in Int, NEW f,
           Does(p, s, d, f), Frees(s, f), Parts(p, s, d, f), Sleeps(p, s, f)
    PROVE  IndInv'
<1>1. /\ pc' \in [Proc -> Label] /\ reg' \in [Proc -> Reg] /\ cpu' \in Proc \cup {NoProc}
      /\ \A q \in Proc \ {p} : pc'[q] = pc[q] /\ reg'[q] = reg[q]
      /\ \A q \in Proc : Placed(pc'[q], reg'[q]) /\ reg'[q].call \in Calls
  BY OthersStay DEF Does
<1>2. /\ i_flag \in [Slot -> SUBSET Flag] /\ i_count \in [Slot -> Nat]
      /\ i_number \in [Slot -> Ino \cup {NoIno, ROOTINO}]
      /\ i_flag' \in [Slot -> SUBSET Flag] /\ i_count' \in [Slot -> Nat]
      /\ i_flag'[s] = f /\ \A t \in Slot \ {s} : i_flag'[t] = i_flag[t]
      /\ i_count'[s] = i_count[s] + d /\ \A t \in Slot \ {s} : i_count'[t] = i_count[t]
  BY DEF Does, IndInv, OneSlotPerInode, TypeOK
<1>10. /\ i_number' \in [Slot -> Ino \cup {NoIno, ROOTINO}]
       /\ \A t \in Slot \ {s} : i_number'[t] = i_number[t]
       /\ \A t, u \in Slot : i_number'[t] = i_number'[u] /\ i_number'[t] # NoIno => t = u
       /\ i_number'[RootSlot] = ROOTINO
       /\ \A q \in Proc : wchan[q] = s => i_number' = i_number
  <2>1. /\ \A t, u \in Slot : i_number[t] = i_number[u] /\ i_number[t] # NoIno => t = u
        /\ i_number[RootSlot] = ROOTINO
    BY DEF IndInv, OneSlotPerInode, Named
  <2>2. CASE UNCHANGED i_number
    BY <1>2, <2>1, <2>2
  <2>3. CASE /\ \E i \in Ino : Hashed(i) = {} /\ i_number' = [i_number EXCEPT ![s] = i]
             /\ s # RootSlot /\ \A q \in Proc : wchan[q] # s
    BY <1>2, <2>1, <2>3 DEF Hashed
  <2> QED BY <2>2, <2>3 DEF Does, Renames
<1>3. OneSlotPerInode'
  <2>1. TypeOK'
    BY <1>1, <1>2, <1>10 DEF Does, Frees, Sleeps, Tables, TypeOK
  <2>2. (\A t, u \in Slot : i_number[t] = i_number[u] /\ i_number[t] # NoIno => t = u)'
    BY <1>10
  <2> QED BY <2>1, <2>2 DEF OneSlotPerInode
<1>4. CountsReferences'
  <2>1. ASSUME NEW t \in Slot
        PROVE  i_count'[t] = References(t)' + (IF t = RootSlot THEN 1 ELSE 0)
    <3>1. References(t)' = References(t) + (IF t = s THEN d ELSE 0)
      BY ReferencesStep DEF Does, Settles, IndInv, OneSlotPerInode, TypeOK
    <3>2. i_count[t] = References(t) + (IF t = RootSlot THEN 1 ELSE 0) /\ References(t) \in Nat
      BY ReferencesNat DEF IndInv, CountsReferences
    <3> QED BY <1>2, <3>1, <3>2
  <2> QED BY <2>1 DEF CountsReferences, Frees
<1>5. NoLostWakeup'
  <2>1. ASSUME NEW q \in Proc, wchan'[q] \in Slot
        PROVE  {"ILOCK", "IWANT"} \subseteq i_flag'[wchan'[q]]
    <3>1. CASE wchan'[q] = s
      BY <1>2, <3>1 DEF Sleeps
    <3>2. CASE wchan'[q] # s
      <4>1. q # p /\ wchan'[q] = wchan[q]
        BY <2>1, <3>2 DEF Sleeps, Slot, Awake
      <4> QED BY <1>2, <2>1, <3>2, <4>1 DEF IndInv, NoLostWakeup
    <3> QED BY <3>1, <3>2
  <2> QED BY <2>1 DEF NoLostWakeup, Sleeps
<1>6. Named'
  BY <1>2, <1>10 DEF Named, IndInv, Frees
<1>7. LastOne'
  <2> SUFFICES ASSUME NEW q \in Proc, Parting(pc'[q], reg'[q])
               PROVE  i_count'[reg'[q].cur] = 1 /\ "ILOCK" \in i_flag'[reg'[q].cur]
    BY DEF LastOne, Parting
  <2>1. CASE q = p
    BY <2>1 DEF Parts
  <2>2. CASE q # p
    <3>1. Parting(pc[q], reg[q]) /\ reg'[q].cur = reg[q].cur
      BY <1>1, <2>2
    <3>2. i_count[reg[q].cur] = 1 /\ "ILOCK" \in i_flag[reg[q].cur] /\ reg[q].cur \in Slot
      <4>1. At(q)
        BY AtPlace
      <4>2. reg[q].cur \in Slot
        BY <3>1, <4>1 DEF At, Placed, Handles, Parting, InPut, Reg
      <4> QED BY <3>1, <4>2 DEF IndInv, LastOne, Parting
    <3> QED BY <1>2, <2>2, <3>1, <3>2 DEF Parts
  <2> QED BY <2>1, <2>2
<1>8. FreeUnmarked'
  BY <1>2 DEF FreeUnmarked, IndInv, Frees
<1>9. Asleep'
  <2>1. ASSUME NEW q \in Proc, wchan'[q] \in Slot
        PROVE  \/ pc'[q] = "iget" /\ i_number'[wchan'[q]] = reg'[q].ino
               \/ pc'[q] = "relock" /\ wchan'[q] = reg'[q].ref
               \/ pc'[q] = "close" /\ wchan'[q] = reg'[q].file
    <3>1. CASE q = p
      BY <1>2, <2>1, <3>1 DEF Sleeps
    <3>2. CASE q # p
      <4>1. wchan'[q] = wchan[q]
        BY <2>1, <3>2 DEF Sleeps, Slot, Awake
      <4> QED BY <1>1, <1>10, <2>1, <3>2, <4>1 DEF IndInv, Asleep
    <3> QED BY <3>1, <3>2
  <2>2. ASSUME NEW q \in Proc, wchan'[q] = ILockChan PROVE pc'[q] = "ialloc"
    <3>1. CASE q = p
      BY <2>2, <3>1 DEF Sleeps
    <3>2. CASE q # p
      <4>1. wchan'[q] = wchan[q]
        BY <2>2, <3>2 DEF Sleeps, ILockChan, Awake
      <4> QED BY <1>1, <2>2, <3>2, <4>1 DEF IndInv, Asleep
    <3> QED BY <3>1, <3>2
  <2> QED BY <2>1, <2>2 DEF Asleep
<1> QED BY <1>1, <1>3, <1>4, <1>5, <1>6, <1>7, <1>8, <1>9 DEF IndInv

(* The flags of one slot in use change, its lock and who waits for it not; *)
(* the counts stay.                                                        *)
LEMMA FlagsKept ==
    ASSUME IndInv, NEW p \in Proc, NEW s \in Slot, NEW f,
           Settles(p), Same(p), Tables',
           UNCHANGED <<i_number, i_count, ifreelist>>, i_count[s] # 0,
           i_flag' = [i_flag EXCEPT ![s] = f], f \subseteq Flag,
           i_flag[s] \cap {"ILOCK", "IWANT"} \subseteq f,
           Onward(p) \/ (reg'[p].cur = s /\ i_count[s] = 1 /\ "ILOCK" \in f),
           Sleeps(p, s, f)
    PROVE  IndInv'
<1>1. /\ i_flag \in [Slot -> SUBSET Flag] /\ i_count \in [Slot -> Nat]
      /\ i_flag'[s] = f /\ \A t \in Slot \ {s} : i_flag'[t] = i_flag[t]
  BY DEF IndInv, OneSlotPerInode, TypeOK
<1>2. \A q \in Proc : Parting(pc[q], reg[q]) =>
          /\ reg[q].cur \in Slot /\ i_count[reg[q].cur] = 1 /\ "ILOCK" \in i_flag[reg[q].cur]
  <2>1. ASSUME NEW q \in Proc, Parting(pc[q], reg[q]) PROVE reg[q].cur \in Slot
    <3>1. At(q)
      BY AtPlace
    <3> QED BY <2>1, <3>1 DEF At, Placed, Handles, Parting, InPut, Reg
  <2> QED BY <2>1 DEF IndInv, LastOne, Parting
<1>3. Does(p, s, 0, f)
  <2>1. Shifts(p, s, 0)
    <3>1. ASSUME NEW t \in Slot PROVE Tally(reg'[p], t) = Tally(reg[p], t) /\ Tally(reg[p], t) \in Int
      BY DEF Same, Tally, One
    <3> QED BY <3>1 DEF Shifts
  <2>2. i_count' = [i_count EXCEPT ![s] = @ + 0] /\ i_count'[s] \in Nat
    BY <1>1
  <2> QED BY <2>1, <2>2 DEF Does, Renames
<1>4. Frees(s, f)
  BY DEF Frees, IndInv, OneSlotPerInode, TypeOK, CountsReferences, Named
<1>5. Parts(p, s, 0, f)
  <2>1. Parting(pc'[p], reg'[p]) =>
            i_count'[reg'[p].cur] = 1 /\ "ILOCK" \in i_flag'[reg'[p].cur]
    BY <1>1, <1>2 DEF Onward
  <2>2. \A q \in Proc \ {p} : Parting(pc[q], reg[q]) /\ reg[q].cur = s => "ILOCK" \in f
    BY <1>2
  <2> QED BY <2>1, <2>2 DEF Parts
<1>6. 0 \in Int
  OBVIOUS
<1> QED BY <1>3, <1>4, <1>5, <1>6, IndInvKept

(* Nobody is woken up. *)
LEMMA NobodyWoken ==
    ASSUME IndInv, NEW p \in Proc, NEW s \in Slot, NEW f, Runs(p), UNCHANGED wchan,
           s_ilock => s_ilock', i_flag[s] \cap {"ILOCK", "IWANT"} \subseteq f
    PROVE  Sleeps(p, s, f)
<1>1. wchan \in [Proc -> Slot \cup {ILockChan, Awake}] /\ wchan[p] = Awake
  BY DEF IndInv, OneSlotPerInode, TypeOK, Runs
<1>2. Awake \notin Slot /\ Awake # ILockChan
  BY DEF Awake, Slot, ILockChan
<1> QED BY <1>1, <1>2 DEF Sleeps, IndInv, NoLostWakeup

(* A step that leaves the flags and the sleepers as they are. *)
LEMMA MarksKept ==
    ASSUME IndInv, NEW p \in Proc, NEW s \in Slot, NEW f, Runs(p),
           Settles(p), Same(p), Tables',
           UNCHANGED <<i_number, i_count, ifreelist, wchan, s_ilock>>, i_count[s] # 0,
           i_flag' = [i_flag EXCEPT ![s] = f], f \subseteq Flag,
           i_flag[s] \cap {"ILOCK", "IWANT"} \subseteq f,
           Onward(p) \/ (reg'[p].cur = s /\ i_count[s] = 1 /\ "ILOCK" \in f)
    PROVE  IndInv'
<1>1. Sleeps(p, s, f)
  BY NobodyWoken
<1> QED BY <1>1, FlagsKept

(* The slots stay as they are. *)
LEMMA RootUsed ==
    ASSUME IndInv
    PROVE  RootSlot \in Slot /\ i_count[RootSlot] \in Nat /\ i_count[RootSlot] # 0
<1>1. RootSlot \in Slot
  BY ConstantAssumption DEF RootSlot, Slot
<1> QED BY <1>1, ReferencesNat DEF IndInv, CountsReferences

(* A step that leaves the identities and the counts of the slots alone. *)
LEMMA SlotsKept ==
    ASSUME IndInv, NEW p \in Proc, Moves(p), Tables',
           UNCHANGED <<i_number, i_flag, i_count, ifreelist>>,
           wchan' \in [Proc -> Slot \cup {ILockChan, Awake}],
           \A q \in Proc \ {p} : wchan'[q] \in {wchan[q], Awake},
           wchan'[p] \in {Awake, ILockChan},
           \A q \in Proc : wchan'[q] = ILockChan => s_ilock',
           wchan'[p] = ILockChan => pc'[p] = "ialloc"
    PROVE  IndInv'
<1> DEFINE s == RootSlot
           f == i_flag[s]
<1>1. s \in Slot /\ i_count[s] # 0
  BY RootUsed
<1>2. f \subseteq Flag /\ i_flag' = [i_flag EXCEPT ![s] = f]
  BY <1>1 DEF IndInv, OneSlotPerInode, TypeOK
<1>3. Sleeps(p, s, f)
  <2>1. Awake \notin Slot /\ ILockChan \notin Slot
    BY DEF Awake, Slot, ILockChan
  <2>2. \A q \in Proc : wchan'[q] = s => {"ILOCK", "IWANT"} \subseteq f
    BY <1>1, <2>1 DEF IndInv, NoLostWakeup
  <2> QED BY <2>1, <2>2 DEF Sleeps
<1> HIDE DEF s
<1>4. i_flag[s] \cap {"ILOCK", "IWANT"} \subseteq f
  OBVIOUS
<1> HIDE DEF f
<1> QED BY <1>1, <1>2, <1>3, <1>4, FlagsKept DEF Moves

(* A step that keeps the references and changes the device, the super      *)
(* block or the copies of inodes only.                                     *)
LEMMA InnerKept ==
    ASSUME IndInv, NEW p \in Proc, Runs(p), Moves(p), Tables',
           UNCHANGED <<slotNames, wchan>>, s_ilock => s_ilock'
    PROVE  IndInv'
<1>1. wchan \in [Proc -> Slot \cup {ILockChan, Awake}] /\ wchan[p] = Awake
  BY DEF IndInv, OneSlotPerInode, TypeOK, Runs
<1>2. Awake # ILockChan
  BY DEF Awake, ILockChan
<1>3. \A q \in Proc : wchan[q] = ILockChan => s_ilock'
  BY DEF IndInv, NoLostWakeup
<1> QED BY <1>1, <1>2, <1>3, SlotsKept DEF slotNames

(* Process p waits for the lock of slot s. *)
LEMMA AwaitKept ==
    ASSUME IndInv, NEW p \in Proc, NEW s \in Slot, NEW l, Moves(p), Tables',
           AwaitLock(p, s, l), UNCHANGED <<i_number, i_count, ifreelist, s_ilock>>,
           \/ pc'[p] = "iget" /\ i_number[s] = reg'[p].ino
           \/ pc'[p] = "relock" /\ s = reg'[p].ref
           \/ pc'[p] = "close" /\ s = reg'[p].file
    PROVE  IndInv'
<1> DEFINE f == i_flag[s] \cup {"IWANT"}
<1>1. /\ "ILOCK" \in i_flag[s] /\ i_flag' = [i_flag EXCEPT ![s] = f]
      /\ wchan' = [wchan EXCEPT ![p] = s]
  BY DEF AwaitLock, Sleep
<1>2. f \subseteq Flag /\ wchan \in [Proc -> Slot \cup {ILockChan, Awake}]
  BY DEF IndInv, OneSlotPerInode, TypeOK, Flag
<1>3. i_count[s] # 0
  BY <1>1 DEF IndInv, FreeUnmarked
<1>4. Sleeps(p, s, f)
  <2>1. ILockChan \notin Slot
    BY DEF Slot, ILockChan
  <2>2. /\ wchan'[p] = s /\ \A q \in Proc \ {p} : wchan'[q] = wchan[q]
        /\ wchan' \in [Proc -> Slot \cup {ILockChan, Awake}]
    BY <1>1, <1>2
  <2>3. \A q \in Proc : wchan'[q] = s => {"ILOCK", "IWANT"} \subseteq f
    BY <1>1
  <2>4. \A q \in Proc : wchan'[q] = ILockChan => s_ilock'
    BY <2>1, <2>2 DEF IndInv, NoLostWakeup
  <2> QED BY <2>1, <2>2, <2>3, <2>4 DEF Sleeps
<1>5. i_flag[s] \cap {"ILOCK", "IWANT"} \subseteq f
  OBVIOUS
<1> HIDE DEF f
<1> QED BY <1>1, <1>2, <1>3, <1>4, <1>5, FlagsKept DEF Moves

(* Process p lets go of the lock of slot s, and perhaps of a reference.    *)
LEMMA UnlockKept ==
    ASSUME IndInv, NEW p \in Proc, NEW s \in Slot, NEW d \in Int, NEW g \in Field,
           reg[p][g] = s, g # "cur" \/ ~Parting(pc[p], reg[p]), Runs(p),
           Settles(p), Shifts(p, s, d), ~Parting(pc'[p], reg'[p]), Tables',
           UNCHANGED <<i_number, ifreelist, s_ilock>>,
           i_count' = [i_count EXCEPT ![s] = @ + d], i_count[s] + d >= 1,
           Prele(s, i_flag[s])
    PROVE  IndInv'
<1> DEFINE f == i_flag[s] \ {"ILOCK", "IWANT"}
<1>1. /\ i_flag \in [Slot -> SUBSET Flag] /\ i_count \in [Slot -> Nat]
      /\ wchan \in [Proc -> Slot \cup {ILockChan, Awake}] /\ wchan[p] = Awake
  BY DEF IndInv, OneSlotPerInode, TypeOK, Runs
<1>2. /\ i_flag' = [i_flag EXCEPT ![s] = f] /\ f \subseteq Flag
      /\ wchan' = IF "IWANT" \in i_flag[s] THEN Wakeup(s) ELSE wchan
  BY <1>1 DEF Prele
<1>3. /\ i_count[s] >= 1 /\ i_count'[s] = i_count[s] + d /\ i_count'[s] \in Nat
      /\ i_count'[s] # 0
  BY <1>1, TwoReferences
<1>4. Does(p, s, d, f)
  BY <1>2, <1>3 DEF Does, Renames
<1>5. Frees(s, f)
  <2>1. \A t \in Slot : i_count'[t] = 0 <=> i_count[t] = 0
    BY <1>1, <1>3
  <2>2. i_number[s] # NoIno
    BY <1>1, <1>3 DEF IndInv, Named
  <2> QED BY <1>3, <2>1, <2>2 DEF Frees, IndInv, OneSlotPerInode, TypeOK, CountsReferences
<1>6. Parts(p, s, d, f)
  <2>1. ASSUME NEW q \in Proc \ {p}, Parting(pc[q], reg[q]), reg[q].cur = s PROVE FALSE
    <3>1. i_count[s] = 1
      BY <2>1 DEF IndInv, LastOne, Parting
    <3>2. "cur" \in Field
      BY DEF Field
    <3> QED BY <2>1, <3>1, <3>2, TwoReferences
  <2> QED BY <2>1 DEF Parts
<1>7. Sleeps(p, s, f)
  <2>1. Awake \notin Slot /\ ILockChan \notin Slot /\ Awake # ILockChan
    BY DEF Awake, Slot, ILockChan
  <2>2. \A q \in Proc : wchan'[q] \in {wchan[q], Awake} /\ wchan'[q] # s
    BY <1>1, <1>2, <2>1 DEF Wakeup, IndInv, NoLostWakeup
  <2>3. wchan' \in [Proc -> Slot \cup {ILockChan, Awake}]
    BY <1>1, <1>2 DEF Wakeup
  <2>4. \A q \in Proc : wchan'[q] = ILockChan => s_ilock'
    BY <2>1, <2>2 DEF IndInv, NoLostWakeup
  <2> QED BY <1>1, <2>1, <2>2, <2>3, <2>4 DEF Sleeps
<1> HIDE DEF f
<1> QED BY <1>4, <1>5, <1>6, <1>7, IndInvKept

(* Process p locks slot s, and has one more reference.                     *)
LEMMA TakeKept ==
    ASSUME IndInv, NEW p \in Proc, NEW s \in Slot, Runs(p),
           Settles(p), Shifts(p, s, 1), ~Parting(pc'[p], reg'[p]), Tables',
           UNCHANGED <<i_number, wchan, s_ilock>>, i_number[s] # NoIno,
           "ILOCK" \notin i_flag[s],
           i_flag' = [i_flag EXCEPT ![s] = @ \cup {"ILOCK"}],
           i_count' = [i_count EXCEPT ![s] = @ + 1],
           IF i_count[s] = 0
           THEN \E k \in DOMAIN ifreelist :
                    ifreelist[k] = s /\ ifreelist' = RemoveAt(ifreelist, k)
           ELSE UNCHANGED ifreelist
    PROVE  IndInv'
<1> DEFINE f == i_flag[s] \cup {"ILOCK"}
<1>1. i_flag \in [Slot -> SUBSET Flag] /\ i_count \in [Slot -> Nat]
  BY DEF IndInv, OneSlotPerInode, TypeOK
<1>2. i_flag' = [i_flag EXCEPT ![s] = f] /\ f \subseteq Flag
  BY <1>1 DEF Flag
<1>3. i_count'[s] \in Nat /\ i_count'[s] # 0
  BY <1>1
<1>4. Does(p, s, 1, f)
  BY <1>2, <1>3 DEF Does, Renames
<1>5. Frees(s, f)
  <2>1. /\ ifreelist \in Seq(Slot) /\ IsInjective(ifreelist)
        /\ \A t \in Slot : i_count[t] = 0 <=> Contains(ifreelist, t)
    BY DEF IndInv, OneSlotPerInode, TypeOK, CountsReferences
  <2>2. \A t \in Slot : i_count'[t] = 0 <=> i_count[t] = 0 /\ t # s
    BY <1>1, <1>3
  <2>3. CASE i_count[s] = 0
    <3>1. PICK k \in DOMAIN ifreelist : ifreelist[k] = s /\ ifreelist' = RemoveAt(ifreelist, k)
      BY <2>3
    <3>2. /\ ifreelist' \in Seq(Slot) /\ IsInjective(ifreelist')
          /\ \A x : Contains(ifreelist', x) <=> Contains(ifreelist, x) /\ x # s
      BY <2>1, <3>1, RemoveAtList
    <3> QED BY <1>3, <2>1, <2>2, <3>2 DEF Frees
  <2>4. CASE i_count[s] # 0
    BY <1>3, <2>1, <2>2, <2>4 DEF Frees
  <2> QED BY <2>3, <2>4
<1>6. Parts(p, s, 1, f)
  BY DEF Parts, IndInv, LastOne, Parting
<1>7. Sleeps(p, s, f)
  BY NobodyWoken
<1>8. 1 \in Int
  OBVIOUS
<1> HIDE DEF f
<1> QED BY <1>4, <1>5, <1>6, <1>7, <1>8, IndInvKept

(* Process p gives up the last reference. *)
LEMMA ReleaseKept ==
    ASSUME IndInv, NEW p \in Proc, IputRelease(p),
           Settles(p), Shifts(p, reg[p].cur, -1), ~Parting(pc'[p], reg'[p]),
           reg[p].cur \in Slot, Tables'
    PROVE  IndInv'
<1> DEFINE s == reg[p].cur
<1>0. /\ pc[p] \in {"idle", "release"} /\ Runs(p)
      /\ i_flag' = [i_flag EXCEPT ![s] = {}]
      /\ wchan' = IF "IWANT" \in i_flag[s] THEN Wakeup(s) ELSE wchan
      /\ i_count' = [i_count EXCEPT ![s] = 0]
      /\ ifreelist' = Append(ifreelist, s)
      /\ UNCHANGED <<i_number, s_ilock>>
  BY DEF IputRelease, sbVars
<1>1. /\ i_flag \in [Slot -> SUBSET Flag] /\ i_count \in [Slot -> Nat]
      /\ wchan \in [Proc -> Slot \cup {ILockChan, Awake}] /\ wchan[p] = Awake
  BY <1>0 DEF IndInv, OneSlotPerInode, TypeOK, Runs
<1>2. s \in Slot /\ "cur" \in Field
  BY DEF Field
<1>3. i_count[s] = 1
  BY <1>0 DEF IndInv, LastOne, AfterUpdate
<1> HIDE DEF s
<1>4. i_count' = [i_count EXCEPT ![s] = @ + (-1)] /\ i_count'[s] = 0
  <2>1. i_count[s] + (-1) = 0
    BY <1>3
  <2>2. i_count' = [i_count EXCEPT ![s] = i_count[s] + (-1)]
    BY <1>0, <2>1, Zenon DEF s
  <2>3. i_count'[s] = 0
    BY <1>0, <1>1, <1>2 DEF s
  <2> QED BY <2>2, <2>3
<1>5. Does(p, s, -1, {})
  <2>1. Settles(p) /\ Shifts(p, s, -1) /\ Tables' /\ UNCHANGED i_number
    BY <1>0, Zenon DEF s
  <2>2. i_flag' = [i_flag EXCEPT ![s] = {}] /\ {} \subseteq Flag
    BY <1>0 DEF s
  <2>3. i_count'[s] \in Nat
    BY <1>4
  <2> QED BY <1>4, <2>1, <2>2, <2>3, Zenon DEF Does, Renames
<1>6. Frees(s, {})
  <2>1. /\ ifreelist \in Seq(Slot) /\ IsInjective(ifreelist)
        /\ \A t \in Slot : i_count[t] = 0 <=> Contains(ifreelist, t)
    BY DEF IndInv, OneSlotPerInode, TypeOK, CountsReferences
  <2>2. /\ ifreelist' \in Seq(Slot) /\ IsInjective(ifreelist')
        /\ \A x : Contains(ifreelist', x) <=> Contains(ifreelist, x) \/ x = s
    BY <1>0, <1>2, <1>3, <2>1, AppendList
  <2>3. \A t \in Slot : i_count'[t] = 0 <=> i_count[t] = 0 \/ t = s
    BY <1>0, <1>1, <1>2, <1>4
  <2> QED BY <1>4, <2>1, <2>2, <2>3 DEF Frees
<1>7. Parts(p, s, -1, {})
  <2>1. ASSUME NEW q \in Proc \ {p}, Parting(pc[q], reg[q]), reg[q].cur = s PROVE FALSE
    <3>1. reg[p].cur = s
      BY DEF s
    <3> QED BY <1>2, <1>3, <2>1, <3>1, TwoReferences
  <2> QED BY <2>1 DEF Parts
<1>8. Sleeps(p, s, {})
  <2>1. Awake \notin Slot /\ ILockChan \notin Slot /\ Awake # ILockChan
    BY DEF Awake, Slot, ILockChan
  <2>2. \A q \in Proc : wchan'[q] \in {wchan[q], Awake} /\ wchan'[q] # s
    BY <1>0, <1>1, <1>2, <2>1 DEF Wakeup, IndInv, NoLostWakeup
  <2>3. wchan' \in [Proc -> Slot \cup {ILockChan, Awake}]
    BY <1>0, <1>1 DEF Wakeup
  <2>4. \A q \in Proc : wchan'[q] = ILockChan => s_ilock'
    BY <1>0, <2>1, <2>2 DEF IndInv, NoLostWakeup
  <2> QED BY <1>1, <2>1, <2>2, <2>3, <2>4 DEF Sleeps
<1>9. -1 \in Int
  OBVIOUS
<1> QED BY <1>2, <1>5, <1>6, <1>7, <1>8, <1>9, IndInvKept

(* iget() gives slot s, which nobody has used, the number of inode i. *)
LEMMA AssignKept ==
    ASSUME IndInv, NEW p \in Proc, IgetAssign(p), Settles(p),
           Shifts(p, Head(ifreelist), 1), ~Parting(pc'[p], reg'[p]),
           Head(ifreelist) \in Slot, reg[p].ino \in Ino, Tables'
    PROVE  IndInv'
<1> DEFINE s == Head(ifreelist)
           f == {"ILOCK"}
<1>0. /\ Runs(p) /\ Hashed(reg[p].ino) = {} /\ ifreelist # <<>>
      /\ ifreelist' = Tail(ifreelist)
      /\ i_number' = [i_number EXCEPT ![s] = reg[p].ino]
      /\ i_flag' = [i_flag EXCEPT ![s] = f]
      /\ i_count' = [i_count EXCEPT ![s] = 1]
      /\ UNCHANGED <<s_ilock, wchan>>
  BY DEF IgetAssign, Iget, sbVars
<1>1. /\ i_flag \in [Slot -> SUBSET Flag] /\ i_count \in [Slot -> Nat]
      /\ i_number \in [Slot -> Ino \cup {NoIno, ROOTINO}]
      /\ ifreelist \in Seq(Slot) /\ IsInjective(ifreelist)
      /\ \A t \in Slot : i_count[t] = 0 <=> Contains(ifreelist, t)
  BY DEF IndInv, OneSlotPerInode, TypeOK, CountsReferences
<1>2. /\ s \in Slot /\ Contains(ifreelist, s)
      /\ Tail(ifreelist) \in Seq(Slot) /\ IsInjective(Tail(ifreelist))
      /\ \A x : Contains(Tail(ifreelist), x) <=> Contains(ifreelist, x) /\ x # s
  BY <1>0, <1>1, TailList
<1> HIDE DEF s
<1>3. i_count[s] = 0 /\ i_flag[s] = {} /\ s # RootSlot
  BY <1>1, <1>2, RootUsed DEF IndInv, FreeUnmarked
<1>4. Renames(s)
  <2>1. \A q \in Proc : wchan[q] # s
    BY <1>2, <1>3 DEF IndInv, NoLostWakeup
  <2>2. \E i \in Ino : Hashed(i) = {} /\ i_number' = [i_number EXCEPT ![s] = i]
    BY <1>0 DEF s
  <2> QED BY <1>3, <2>1, <2>2 DEF Renames
<1>5. i_count' = [i_count EXCEPT ![s] = @ + 1] /\ i_count'[s] = 1
  <2>1. i_count' = [i_count EXCEPT ![s] = 1]
    BY <1>0 DEF s
  <2> QED BY <1>1, <1>2, <1>3, <2>1
<1>6. i_flag' = [i_flag EXCEPT ![s] = f] /\ f \subseteq Flag
  BY <1>0 DEF s, Flag
<1> HIDE DEF f
<1>7. Does(p, s, 1, f)
  BY <1>4, <1>5, <1>6 DEF Does, s
<1>8. Frees(s, f)
  <2>1. \A t \in Slot : i_count'[t] = 0 <=> i_count[t] = 0 /\ t # s
    BY <1>1, <1>2, <1>5
  <2>2. i_number'[s] # NoIno
    <3>1. i_number' = [i_number EXCEPT ![s] = reg[p].ino]
      BY <1>0 DEF s
    <3> QED BY <1>1, <1>2, <3>1 DEF Ino, ROOTINO, NoIno
  <2> QED BY <1>0, <1>1, <1>2, <1>5, <2>1, <2>2 DEF Frees
<1>9. Parts(p, s, 1, f)
  <2>1. ASSUME NEW q \in Proc \ {p}, Parting(pc[q], reg[q]), reg[q].cur = s PROVE FALSE
    BY <1>3, <2>1 DEF IndInv, LastOne, Parting
  <2> QED BY <2>1 DEF Parts
<1>10. Sleeps(p, s, f)
  <2>1. i_flag[s] \cap {"ILOCK", "IWANT"} \subseteq f
    BY <1>3
  <2> QED BY <1>0, <1>2, <2>1, NobodyWoken
<1>11. 1 \in Int
  OBVIOUS
<1> QED BY <1>2, <1>7, <1>8, <1>9, <1>10, <1>11, IndInvKept
-----------------------------------------------------------------------------
(* The steps, one group after the other. *)

(* The part of TypeOK that is about the tables. *)
LEMMA TablesHold ==
    ASSUME IndInv
    PROVE  Tables
BY DEF IndInv, OneSlotPerInode, TypeOK, Tables

(* A step that changes the registers of p only. *)
LEMMA QuietKept ==
    ASSUME IndInv, NEW p \in Proc, Runs(p), Moves(p), UNCHANGED <<fsVars, wchan>>
    PROVE  IndInv'
<1>1. UNCHANGED <<slotNames, wchan, s_ilock>>
  BY DEF fsVars, slotVars, sbVars, slotNames
<1>2. Tables'
  BY TablesHold DEF Tables, fsVars, slotVars, diskVars, sbVars
<1> QED BY <1>1, <1>2, InnerKept

(* A slot that a register names is in use. *)
LEMMA Used ==
    ASSUME IndInv, NEW p \in Proc, NEW f \in Field, reg[p][f] # NoSlot
    PROVE  /\ reg[p][f] \in Slot /\ i_count[reg[p][f]] # 0
           /\ i_flag[reg[p][f]] \subseteq Flag
           /\ i_number[reg[p][f]] \in Ino \cup {ROOTINO}
           /\ reg[p][f] # RootSlot => i_number[reg[p][f]] \in Ino
           /\ f \in {"ip", "ref", "file", "wfile"} => reg[p][f] # RootSlot
<1>1. At(p)
  BY AtPlace
<1>2. reg[p][f] \in Slot
  BY <1>1 DEF At, Reg, Field
<1>3. i_count[reg[p][f]] # 0
  BY <1>2, TwoReferences
<1>4. /\ i_flag[reg[p][f]] \subseteq Flag /\ RootSlot \in Slot
      /\ i_number[reg[p][f]] \in Ino \cup {NoIno, ROOTINO}
      /\ reg[p][f] # RootSlot => i_number[reg[p][f]] # ROOTINO
      /\ i_number[reg[p][f]] # NoIno
  BY <1>1, <1>2, <1>3 DEF IndInv, OneSlotPerInode, TypeOK, Named, At
<1>5. f \in {"ip", "ref", "file", "wfile"} => reg[p][f] # RootSlot
  BY <1>1 DEF At, Placed, Keeps
<1> QED BY <1>2, <1>3, <1>4, <1>5

(* Process p lets go of a lock, with as many references as before.         *)
LEMMA PreleKept ==
    ASSUME IndInv, NEW p \in Proc, NEW s, NEW g \in Field, reg[p][g] = s, s # NoSlot,
           g # "cur", Runs(p), Moves(p), ~Parting(pc'[p], reg'[p]), Tables',
           UNCHANGED <<i_number, i_count, ifreelist, s_ilock>>,
           Prele(s, i_flag[s])
    PROVE  IndInv'
<1>1. s \in Slot /\ i_count \in [Slot -> Nat] /\ i_count[s] # 0
  BY Used DEF IndInv, OneSlotPerInode, TypeOK
<1>2. i_count[s] + 0 >= 1 /\ i_count' = [i_count EXCEPT ![s] = @ + 0] /\ 0 \in Int
  BY <1>1
<1>3. Shifts(p, s, 0)
  <2>1. ASSUME NEW t \in Slot PROVE Tally(reg'[p], t) = Tally(reg[p], t) /\ Tally(reg[p], t) \in Int
    BY DEF Moves, Same, Tally, One
  <2> QED BY <2>1 DEF Shifts
<1> QED BY <1>1, <1>2, <1>3, UnlockKept DEF Moves

(* Every step of iget() keeps IndInv, *)
LEMMA IgetStepKept ==
    ASSUME IndInv, NEW p \in Proc, IgetStep(p)
    PROVE  IndInv'
<1>1. CASE IgetOverflow(p) \/ IreadError(p)
  <2>1. Moves(p)
    BY <1>1, IgetMoves
  <2>2. Runs(p) /\ UNCHANGED <<fsVars, wchan>>
    BY <1>1 DEF IgetOverflow, IreadError, Iget
  <2> QED BY <2>1, <2>2, QuietKept
<1>2. CASE IgetLocked(p)
  <2>1. PICK s \in Hashed(reg[p].ino) : AwaitLock(p, s, "iget")
    BY <1>2 DEF IgetLocked
  <2>2. s \in Slot /\ i_number[s] = reg[p].ino
    BY <2>1 DEF Hashed
  <2>3. UNCHANGED <<i_number, i_count, i_mode, i_nlink, ifreelist, diskVars, sbVars, uinode, reg>>
    BY <1>2 DEF IgetLocked
  <2>4. Tables'
    BY <2>3, TablesHold DEF Tables, diskVars, sbVars
  <2>5. pc'[p] = "iget" /\ i_number[s] = reg'[p].ino
    <3>1. At(p)
      BY AtPlace
    <3> QED BY <2>1, <2>2, <2>3, <3>1 DEF AwaitLock, Sleep, Pause, At
  <2>6. Moves(p)
    BY <1>2, IgetMoves
  <2> QED BY <2>1, <2>2, <2>3, <2>4, <2>5, <2>6, AwaitKept DEF sbVars
<1>3. CASE IgetFound(p)
  <2>1. PICK s \in Hashed(reg[p].ino) :
          /\ "ILOCK" \notin i_flag[s]
          /\ IF i_count[s] = 0
             THEN \E k \in DOMAIN ifreelist :
                      ifreelist[k] = s /\ ifreelist' = RemoveAt(ifreelist, k)
             ELSE UNCHANGED ifreelist
          /\ i_count' = [i_count EXCEPT ![s] = @ + 1]
          /\ i_flag' = [i_flag EXCEPT ![s] = @ \cup {"ILOCK"}]
          /\ IgetReturn(p, s)
    BY <1>3, Zenon DEF IgetFound
  <2>2. /\ UNCHANGED <<i_number, i_mode, i_nlink, diskVars, sbVars, uinode, wchan>>
        /\ pc[p] = "iget" /\ Runs(p)
    BY <1>3 DEF IgetFound, Iget
  <2>3. Tables'
    BY <2>2, TablesHold DEF Tables, diskVars, sbVars
  <2>4. s \in Slot /\ i_number[s] # NoIno
    <3>1. At(p)
      BY AtPlace
    <3>2. reg[p].ino # NoIno
      BY <2>2, <3>1 DEF At, Placed, Handles, InGet, AfterPut, InPut, AfterUpdate
    <3> QED BY <3>2 DEF Hashed
  <2>5. Settles(p) /\ Shifts(p, s, 1) /\ ~Parting(pc'[p], reg'[p])
    BY <2>1, <2>2, IgetReturnShifts
  <2> QED BY <2>1, <2>2, <2>3, <2>4, <2>5, TakeKept DEF sbVars
<1>4. CASE IgetAssign(p)
  <2>1. Tables'
    BY <1>4, TablesHold DEF IgetAssign, Tables, diskVars, sbVars
  <2> QED BY <1>4, <2>1, IgetAssignShifts, AssignKept
<1>5. CASE Iread(p)
  <2>1. Moves(p)
    BY <1>5, IgetMoves
  <2>2. /\ UNCHANGED <<i_number, i_flag, i_count, ifreelist, diskVars, sbVars, uinode, wchan>>
        /\ pc[p] = "iread" /\ Runs(p)
        /\ i_mode' = [i_mode EXCEPT ![reg[p].res] = di_mode[reg[p].ino]]
        /\ i_nlink' = [i_nlink EXCEPT ![reg[p].res] = di_nlink[reg[p].ino]]
    BY <1>5 DEF Iread
  <2>3. reg[p].ino \in Ino
    <3>1. At(p)
      BY AtPlace
    <3> QED BY <2>2, <3>1 DEF At, Placed, Handles, InGet, AfterPut, InPut, AfterUpdate
  <2>4. Tables'
    BY <2>2, <2>3, TablesHold DEF Tables, diskVars, sbVars
  <2> QED BY <2>1, <2>2, <2>4, InnerKept DEF slotNames, sbVars
<1> QED BY <1>1, <1>2, <1>3, <1>4, <1>5 DEF IgetStep

(* The inode that iupdat() copies out. *)
LEMMA TargetUsed ==
    ASSUME IndInv, NEW p \in Proc, pc[p] \in {"iupdat", "isync"}
    PROVE  /\ Target(p) \in Slot /\ i_count[Target(p)] # 0 /\ i_flag[Target(p)] \subseteq Flag
           /\ i_number[Target(p)] \in Ino \cup {ROOTINO}
<1>1. At(p)
  BY AtPlace
<1>2. reg[p].cur # NoSlot \/ reg[p].ip # NoSlot
  BY <1>1 DEF At, Placed, Returns, Keeps, Handles, Home, InGet, AfterPut, InPut, AfterUpdate
<1>3. "cur" \in Field /\ "ip" \in Field
  BY DEF Field
<1>4. CASE reg[p].cur # NoSlot
  BY <1>3, <1>4, Used DEF Target
<1>5. CASE reg[p].cur = NoSlot
  BY <1>2, <1>3, <1>5, Used DEF Target
<1> QED BY <1>4, <1>5

(* The reference that iput() gives up. *)
LEMMA CurUsed ==
    ASSUME IndInv, NEW p \in Proc, pc[p] \in {"iput", "dealloc", "idle", "release"}
    PROVE  /\ reg[p].cur \in Slot /\ i_count[reg[p].cur] # 0 /\ i_flag[reg[p].cur] \subseteq Flag
           /\ i_count[reg[p].cur] = 1 => i_number[reg[p].cur] \in Ino
<1>1. At(p)
  BY AtPlace
<1>2. reg[p].cur # NoSlot /\ "cur" \in Field
  BY <1>1 DEF At, Placed, Handles, InPut, AfterUpdate, Field
<1>3. /\ reg[p].cur \in Slot /\ i_count[reg[p].cur] # 0 /\ i_flag[reg[p].cur] \subseteq Flag
      /\ reg[p].cur # RootSlot => i_number[reg[p].cur] \in Ino
  BY <1>2, Used
<1>4. reg[p].cur = RootSlot => i_count[reg[p].cur] >= 2 /\ i_count[reg[p].cur] \in Nat
  BY <1>2, <1>3, TwoReferences
<1> QED BY <1>3, <1>4

(* and so does every step of iput() and iupdat(), *)
LEMMA IputStepKept ==
    ASSUME IndInv, NEW p \in Proc, IputStep(p)
    PROVE  IndInv'
<1>1. CASE IupdatError(p) \/ IputUpdate(p)
  <2>1. Moves(p)
    BY <1>1, IputMoves
  <2>2. Runs(p) /\ UNCHANGED <<fsVars, wchan>>
    BY <1>1 DEF IupdatError, IputUpdate
  <2> QED BY <2>1, <2>2, QuietKept
<1>2. CASE Iupdat(p)
  <2> DEFINE s == Target(p)
  <2>1. Moves(p)
    BY <1>2, IputMoves
  <2>2. /\ pc[p] = "iupdat" /\ Runs(p) /\ CopyOut(s)
        /\ UNCHANGED <<i_number, i_count, i_mode, i_nlink, ifreelist, d_ino, sbVars, uinode, wchan>>
        /\ \/ UNCHANGED i_flag
           \/ i_flag' = [i_flag EXCEPT ![s] = @ \ {"IUPD", "ISYN"}]
    BY <1>2 DEF Iupdat, Updated
  <2>3. /\ s \in Slot /\ i_count[s] # 0 /\ i_flag[s] \subseteq Flag
        /\ i_number[s] \in Ino \cup {ROOTINO}
    BY <2>2, TargetUsed
  <2>4. Tables'
    <3>1. CASE i_number[s] = ROOTINO
      BY <2>2, <3>1, TablesHold DEF Tables, CopyOut, sbVars
    <3>2. CASE i_number[s] # ROOTINO
      BY <2>2, <2>3, <3>2, TablesHold DEF Tables, CopyOut, sbVars
    <3> QED BY <3>1, <3>2
  <2>5. CASE UNCHANGED i_flag
    BY <2>1, <2>2, <2>4, <2>5, InnerKept DEF slotNames, sbVars
  <2>6. CASE i_flag' = [i_flag EXCEPT ![s] = @ \ {"IUPD", "ISYN"}]
    <3> DEFINE f == i_flag[s] \ {"IUPD", "ISYN"}
    <3>1. /\ i_flag' = [i_flag EXCEPT ![s] = f] /\ f \subseteq Flag
          /\ i_flag[s] \cap {"ILOCK", "IWANT"} \subseteq f
      BY <2>3, <2>6
    <3> HIDE DEF f, s
    <3> QED BY <2>1, <2>2, <2>3, <2>4, <3>1, MarksKept DEF Moves, sbVars
  <2> QED BY <2>2, <2>5, <2>6
<1>3. CASE IupdatWritten(p)
  <2> DEFINE s == Target(p)
             f == i_flag[s] \ {"IUPD", "ISYN"}
  <2>1. Moves(p)
    BY <1>3, IputMoves
  <2>2. /\ pc[p] = "isync" /\ Runs(p) /\ i_flag' = [i_flag EXCEPT ![s] = f]
        /\ UNCHANGED <<i_number, i_count, i_mode, i_nlink, ifreelist, diskVars, sbVars, uinode, wchan>>
    BY <1>3 DEF IupdatWritten, Updated
  <2>3. /\ s \in Slot /\ i_count[s] # 0 /\ i_flag[s] \subseteq Flag
    BY <2>2, TargetUsed
  <2>4. Tables'
    BY <2>2, TablesHold DEF Tables, diskVars, sbVars
  <2>5. f \subseteq Flag /\ i_flag[s] \cap {"ILOCK", "IWANT"} \subseteq f
    BY <2>3
  <2> HIDE DEF f, s
  <2> QED BY <2>1, <2>2, <2>3, <2>4, <2>5, MarksKept DEF Moves, sbVars
<1>4. CASE IputMore(p)
  <2> DEFINE s == reg[p].cur
  <2>1. /\ pc[p] = "iput" /\ Runs(p) /\ i_count[s] # 1
        /\ i_count' = [i_count EXCEPT ![s] = @ - 1] /\ Prele(s, i_flag[s]) /\ IputReturn(p)
        /\ UNCHANGED <<i_number, i_mode, i_nlink, ifreelist, diskVars, sbVars, uinode>>
    BY <1>4 DEF IputMore
  <2>2. Settles(p) /\ Shifts(p, s, -1) /\ ~Parting(pc'[p], reg'[p])
    BY <2>1, IputReturnShifts
  <2>3. s \in Slot /\ i_count[s] # 0 /\ "cur" \in Field /\ reg[p]["cur"] = s
    BY <2>1, CurUsed DEF Field
  <2>4. Tables'
    BY <2>1, TablesHold DEF Tables, diskVars, sbVars
  <2>5. ~Parting(pc[p], reg[p])
    BY <2>1 DEF Parting, AfterUpdate
  <2>6. i_count \in [Slot -> Nat]
    BY DEF IndInv, OneSlotPerInode, TypeOK
  <2> HIDE DEF s
  <2>7. i_count[s] + (-1) >= 1 /\ -1 \in Int
    BY <2>1, <2>3, <2>6
  <2>8. i_count' = [i_count EXCEPT ![s] = @ + (-1)]
    <3>1. i_count[s] - 1 = i_count[s] + (-1)
      BY <2>3, <2>6
    <3> QED BY <2>1, <3>1
  <2> QED BY <2>1, <2>2, <2>3, <2>4, <2>5, <2>7, <2>8, UnlockKept DEF sbVars
<1>5. CASE IputLast(p) \/ IputRemoved(p)
  <2> DEFINE s == reg[p].cur
  <2>1. Settles(p) /\ Same(p)
    BY <1>5, IputStarts
  <2>2. /\ pc[p] = "iput" /\ Runs(p) /\ i_count[s] = 1
        /\ UNCHANGED <<i_number, i_count, i_mode, i_nlink, ifreelist, diskVars, sbVars, uinode, wchan>>
        /\ \/ i_flag' = [i_flag EXCEPT ![s] = @ \cup {"ILOCK"}]
           \/ i_flag' = [i_flag EXCEPT ![s] = @ \cup {"ILOCK", "IUPD", "ISYN"}]
    BY <1>5 DEF IputLast, IputRemoved
  <2>3. reg'[p].cur = s
    <3>1. At(p)
      BY AtPlace
    <3> QED BY <1>5, <3>1 DEF IputLast, IputRemoved, CallIupdat, At, Reg
  <2>4. s \in Slot /\ i_count[s] # 0 /\ i_flag[s] \subseteq Flag
    BY <2>2, CurUsed
  <2>5. Tables'
    BY <2>2, TablesHold DEF Tables, diskVars, sbVars
  <2>6. PICK F \in {{"ILOCK"}, {"ILOCK", "IUPD", "ISYN"}} : i_flag' = [i_flag EXCEPT ![s] = @ \cup F]
    BY <2>2
  <2> DEFINE f == i_flag[s] \cup F
  <2>7. /\ i_flag' = [i_flag EXCEPT ![s] = f] /\ f \subseteq Flag /\ "ILOCK" \in f
        /\ i_flag[s] \cap {"ILOCK", "IWANT"} \subseteq f
    BY <2>4, <2>6 DEF Flag
  <2> HIDE DEF f, s
  <2> QED BY <2>1, <2>2, <2>3, <2>4, <2>5, <2>7, MarksKept DEF sbVars
<1>6. CASE IputDealloc(p)
  <2> DEFINE s == reg[p].cur
             f == i_flag[s] \cup {"IUPD"}
             i == i_number[s]
  <2>1. Moves(p)
    BY <1>6, IputMoves
  <2>2. /\ pc[p] = "dealloc" /\ Runs(p) /\ i_flag' = [i_flag EXCEPT ![s] = f]
        /\ i_mode' = [i_mode EXCEPT ![s] = "free"] /\ Ifree(i)
        /\ UNCHANGED <<i_number, i_count, i_nlink, ifreelist, diskVars, s_ilock, uinode, wchan>>
    BY <1>6 DEF IputDealloc
  <2>3. s \in Slot /\ i_count[s] # 0 /\ i_flag[s] \subseteq Flag /\ i \in Ino
    <3>1. i_count[s] = 1
      BY <2>2 DEF IndInv, LastOne, AfterUpdate
    <3> QED BY <2>2, <3>1, CurUsed
  <2>4. f \subseteq Flag /\ i_flag[s] \cap {"ILOCK", "IWANT"} \subseteq f
    BY <2>3 DEF Flag
  <2>5. s_inode' \in [0 .. NICINOD - 1 -> Ino \cup {NoIno}] /\ s_ninode' \in 0 .. NICINOD
    <3>1. /\ s_inode \in [0 .. NICINOD - 1 -> Ino \cup {NoIno}] /\ s_ninode \in 0 .. NICINOD
      BY TablesHold DEF Tables
    <3>2. NICINOD \in Nat \ {0} /\ i \in Ino /\ Ifree(i)
      BY <2>2, <2>3, ConstantAssumption
    <3> HIDE DEF i
    <3>3. CASE s_ilock
      BY <3>1, <3>2, <3>3 DEF Ifree
    <3>4. CASE ~s_ilock /\ s_ninode >= NICINOD
      BY <3>1, <3>2, <3>4 DEF Ifree
    <3>5. CASE ~s_ilock /\ ~(s_ninode >= NICINOD)
      BY <3>1, <3>2, <3>5 DEF Ifree
    <3> QED BY <3>3, <3>4, <3>5
  <2>6. Tables'
    <3> HIDE DEF f
    <3>1. i_mode' \in [Slot -> Mode]
      BY <2>2, TablesHold DEF Tables, Mode
    <3>2. UNCHANGED <<i_nlink, di_mode, di_nlink, d_ino, s_ilock, uinode>>
      BY <2>2 DEF diskVars
    <3> QED BY <2>5, <3>1, <3>2, TablesHold DEF Tables
  <2> HIDE DEF f, s
  <2> QED BY <2>1, <2>2, <2>3, <2>4, <2>6, MarksKept DEF Moves
<1>7. CASE IputRelease(p)
  <2>1. pc[p] \in {"iput", "idle", "release"} /\ IputReturn(p)
    BY <1>7 DEF IputRelease
  <2>2. Tables'
    BY <1>7, TablesHold DEF IputRelease, Tables, diskVars, sbVars
  <2> QED BY <1>7, <2>1, <2>2, IputReturnShifts, ReleaseKept
<1> QED BY <1>1, <1>2, <1>3, <1>4, <1>5, <1>6, <1>7 DEF IputStep

(* The numbers that a block of the i-list gives. *)
LEMMA FreeInFinite ==
    ASSUME NEW first \in Nat
    PROVE  IsFiniteSet(FreeIn(first)) /\ Cardinality(FreeIn(first)) \in Nat
<1>1. IsFiniteSet(first .. first + INOPB - 1)
  BY ConstantAssumption, FS_Interval
<1>2. FreeIn(first) \subseteq first .. first + INOPB - 1
  BY DEF FreeIn
<1> QED BY <1>1, <1>2, FS_Subset, FS_CardinalityType

(* of ialloc(), *)
LEMMA IallocStepKept ==
    ASSUME IndInv, NEW p \in Proc, IallocStep(p)
    PROVE  IndInv'
<1>0. /\ s_inode \in [0 .. NICINOD - 1 -> Ino \cup {NoIno}] /\ s_ninode \in 0 .. NICINOD
      /\ NICINOD \in Nat \ {0}
      /\ wchan \in [Proc -> Slot \cup {ILockChan, Awake}]
  BY TablesHold, ConstantAssumption DEF Tables, IndInv, OneSlotPerInode, TypeOK
<1>1. CASE IallocScanError(p) \/ IallocFails(p) \/ IallocUsed(p) \/ IallocAgain(p)
  <2>1. Moves(p)
    BY <1>1, IallocMoves, IallocScanMoves
  <2>2. Runs(p) /\ UNCHANGED <<fsVars, wchan>>
    BY <1>1 DEF IallocScanError, IallocFails, IallocUsed, IallocAgain
  <2> QED BY <2>1, <2>2, QuietKept
<1>2. CASE IallocWait(p)
  <2>1. Moves(p)
    BY <1>2, IallocMoves
  <2>2. /\ s_ilock /\ wchan' = [wchan EXCEPT ![p] = ILockChan] /\ UNCHANGED fsVars
        /\ pc' = [pc EXCEPT ![p] = "ialloc"]
    BY <1>2 DEF IallocWait, Sleep, Pause
  <2>3. Tables' /\ s_ilock' /\ UNCHANGED <<i_number, i_flag, i_count, ifreelist>>
    BY <2>2, TablesHold DEF Tables, fsVars, slotVars, diskVars, sbVars
  <2>4. pc'[p] = "ialloc"
    BY <2>2 DEF IndInv, OneSlotPerInode, TypeOK
  <2>5. /\ wchan' \in [Proc -> Slot \cup {ILockChan, Awake}] /\ wchan'[p] = ILockChan
        /\ \A q \in Proc \ {p} : wchan'[q] = wchan[q]
    BY <1>0, <2>2
  <2> QED BY <2>1, <2>3, <2>4, <2>5, SlotsKept
<1>3. CASE IallocPop(p)
  <2>1. Moves(p)
    BY <1>3, IallocMoves
  <2>2. /\ Runs(p) /\ s_ninode > 0 /\ s_ninode' = s_ninode - 1
        /\ UNCHANGED <<slotVars, diskVars, s_inode, s_ilock, uinode, wchan>>
    BY <1>3 DEF IallocPop
  <2>3. s_ninode' \in 0 .. NICINOD
    BY <1>0, <2>2
  <2>4. Tables'
    BY <2>2, <2>3, TablesHold DEF Tables, slotVars, diskVars
  <2> QED BY <2>1, <2>2, <2>4, InnerKept DEF slotNames, slotVars
<1>4. CASE IallocSearch(p)
  <2>1. Moves(p)
    BY <1>4, IallocScanMoves
  <2>2. /\ Runs(p) /\ s_ninode' = NICINOD /\ s_ilock' = TRUE
        /\ UNCHANGED <<slotVars, diskVars, s_inode, uinode, wchan>>
    BY <1>4 DEF IallocSearch
  <2>3. s_ninode' \in 0 .. NICINOD /\ s_ilock' \in BOOLEAN
    BY <1>0, <2>2
  <2>4. Tables'
    BY <2>2, <2>3, TablesHold DEF Tables, slotVars, diskVars
  <2> QED BY <2>1, <2>2, <2>4, InnerKept DEF slotNames, slotVars
<1>5. CASE IallocScan(p)
  <2> DEFINE S == FreeIn(reg[p].scan)
  <2>1. Moves(p)
    BY <1>5, IallocScanMoves
  <2>2. Runs(p) /\ UNCHANGED <<slotVars, diskVars, s_ilock, uinode, wchan>>
    BY <1>5 DEF IallocScan
  <2>3. PICK free \in [1 .. Cardinality(S) -> S] :
          /\ s_ninode' = IF Len(free) > s_ninode THEN 0 ELSE s_ninode - Len(free)
          /\ s_inode' = [k \in DOMAIN s_inode |->
                           IF k \in (IF Len(free) > s_ninode THEN 0 ELSE s_ninode - Len(free))
                                    .. s_ninode - 1
                           THEN free[s_ninode - k] ELSE s_inode[k]]
    BY <1>5 DEF IallocScan
  <2>4. Cardinality(S) \in Nat /\ S \subseteq Ino
    <3>1. reg[p].scan \in Nat
      BY DEF IndInv, OneSlotPerInode, TypeOK, Reg
    <3> QED BY <3>1, FreeInFinite DEF FreeIn
  <2> HIDE DEF S
  <2>5. Len(free) = Cardinality(S)
    BY <2>4
  <2>6. s_ninode' \in 0 .. NICINOD
    BY <1>0, <2>3, <2>4, <2>5
  <2>7. s_inode' \in [0 .. NICINOD - 1 -> Ino \cup {NoIno}]
    <3> DEFINE left == IF Len(free) > s_ninode THEN 0 ELSE s_ninode - Len(free)
    <3>1. ASSUME NEW k \in left .. s_ninode - 1 PROVE free[s_ninode - k] \in Ino
      <4>1. s_ninode - k \in 1 .. Cardinality(S)
        BY <1>0, <2>4, <2>5, <3>1
      <4> QED BY <2>4, <4>1
    <3>2. s_inode' = [k \in 0 .. NICINOD - 1 |->
                        IF k \in left .. s_ninode - 1 THEN free[s_ninode - k] ELSE s_inode[k]]
      BY <1>0, <2>3
    <3> HIDE DEF left
    <3> QED BY <1>0, <3>1, <3>2
  <2>8. Tables'
    BY <2>2, <2>6, <2>7, TablesHold DEF Tables, slotVars, diskVars
  <2> QED BY <2>1, <2>2, <2>8, InnerKept DEF slotNames, slotVars
<1>6. ASSUME IallocFilled(p) \/ IallocNone(p) PROVE IndInv'
  <2>1. Moves(p)
    BY <1>6, IallocMoves
  <2>2. /\ Runs(p) /\ s_ilock' = FALSE /\ wchan' = Wakeup(ILockChan)
        /\ UNCHANGED <<slotVars, diskVars, uinode>>
    BY <1>6 DEF IallocFilled, IallocNone
  <2>3. s_ninode' \in 0 .. NICINOD /\ s_inode' \in [0 .. NICINOD - 1 -> Ino \cup {NoIno}]
    BY <1>0, <1>6 DEF IallocFilled, IallocNone
  <2>4. Tables'
    BY <2>2, <2>3, TablesHold DEF Tables, slotVars, diskVars
  <2>5. Awake # ILockChan
    BY DEF Awake, ILockChan
  <2>6. /\ wchan' \in [Proc -> Slot \cup {ILockChan, Awake}] /\ wchan'[p] = Awake
        /\ \A q \in Proc : wchan'[q] \in {wchan[q], Awake} /\ wchan'[q] # ILockChan
    BY <1>0, <2>2, <2>5 DEF Wakeup, Runs
  <2> QED BY <2>1, <2>2, <2>4, <2>5, <2>6, SlotsKept DEF slotVars
<1>7. CASE IallocTake(p)
  <2> DEFINE s == reg[p].res
             f == i_flag[s] \cup {"IUPD", "ISYN"}
  <2>1. Moves(p)
    BY <1>7, IallocMoves
  <2>2. /\ Runs(p) /\ s # NoSlot /\ i_flag' = [i_flag EXCEPT ![s] = f]
        /\ i_mode' = [i_mode EXCEPT ![s] = IF reg[p].call.op = "pipe" THEN "fifo" ELSE "reg"]
        /\ i_nlink' = [i_nlink EXCEPT ![s] = IF reg[p].call.op = "pipe" THEN 0 ELSE 1]
        /\ UNCHANGED <<i_number, i_count, ifreelist, diskVars, sbVars, uinode, wchan>>
    BY <1>7 DEF IallocTake
  <2>3. s \in Slot /\ i_count[s] # 0 /\ i_flag[s] \subseteq Flag
    <3>1. "res" \in Field
      BY DEF Field
    <3> QED BY <2>2, <3>1, Used
  <2>4. f \subseteq Flag /\ i_flag[s] \cap {"ILOCK", "IWANT"} \subseteq f
    BY <2>3 DEF Flag
  <2>5. i_mode' \in [Slot -> Mode] /\ i_nlink' \in [Slot -> Int]
    <3> DEFINE m == IF reg[p].call.op = "pipe" THEN "fifo" ELSE "reg"
               k == IF reg[p].call.op = "pipe" THEN 0 ELSE 1
    <3>1. m \in Mode /\ k \in Int
      BY DEF Mode
    <3>2. i_mode \in [Slot -> Mode] /\ i_nlink \in [Slot -> Int]
      BY TablesHold DEF Tables
    <3>3. i_mode' = [i_mode EXCEPT ![s] = m] /\ i_nlink' = [i_nlink EXCEPT ![s] = k]
      BY <2>2
    <3> HIDE DEF s, f, m, k
    <3> QED BY <3>1, <3>2, <3>3
  <2>6. Tables'
    <3> HIDE DEF f
    <3> QED BY <2>2, <2>5, TablesHold DEF Tables, diskVars, sbVars
  <2> HIDE DEF f, s
  <2> QED BY <2>1, <2>2, <2>3, <2>4, <2>6, MarksKept DEF Moves, sbVars
<1> QED BY <1>1, <1>2, <1>3, <1>4, <1>5, <1>6, <1>7 DEF IallocStep

(* of namei(), *)
LEMMA NameiStepKept ==
    ASSUME IndInv, NEW p \in Proc, NameiStep(p)
    PROVE  IndInv'
<1>1. Moves(p)
  BY NameiMoves, NameiFoundMoves DEF NameiStep
<1>2. Runs(p) /\ UNCHANGED <<fsVars, wchan>>
  BY DEF NameiStep, NameiDir, NameiError, NameiFails, NameiFound, NameiVictim, NameiNew
<1> QED BY <1>1, <1>2, QuietKept

(* and of open(), creat() and pipe(), which needs PipesAlone. *)
LEMMA OpenStepKept ==
    ASSUME IndInv, PipesAlone, NEW p \in Proc, OpenStep(p)
    PROVE  IndInv'
<1>0. At(p)
  BY AtPlace
<1>1. CASE FileNone(p) \/ FileRefused(p) \/ DeviceOpened(p) \/ DeviceRefused(p)
           \/ DeviceInterrupted(p) \/ PipeRefused(p) \/ Made(p) \/ Created(p) \/ CreatedRefused(p)
  <2>1. Moves(p)
    BY <1>1, OpenMoves
  <2>2. Runs(p) /\ UNCHANGED <<fsVars, wchan>>
    BY <1>1 DEF FileNone, FileRefused, DeviceOpened, DeviceRefused, DeviceInterrupted,
                PipeRefused, Made, Created, CreatedRefused
  <2> QED BY <2>1, <2>2, QuietKept
<1>2. CASE FileOpen(p)
  <2> DEFINE s == reg[p].res
             f == i_flag[s] \cup {"IUPD", "ISYN"}
  <2>1. Moves(p)
    BY <1>2, OpenMoves
  <2>2. /\ Runs(p) /\ s # NoSlot
        /\ i_flag' = [i_flag EXCEPT ![s] = f] \/ UNCHANGED i_flag
        /\ UNCHANGED <<i_number, i_count, i_mode, i_nlink, ifreelist, diskVars, sbVars, uinode, wchan>>
    BY <1>2 DEF FileOpen
  <2>3. s \in Slot /\ i_count[s] # 0 /\ i_flag[s] \subseteq Flag
    <3>1. "res" \in Field
      BY DEF Field
    <3> QED BY <2>2, <3>1, Used
  <2>4. f \subseteq Flag /\ i_flag[s] \cap {"ILOCK", "IWANT"} \subseteq f
    BY <2>3 DEF Flag
  <2>5. Tables'
    <3> HIDE DEF f
    <3> QED BY <2>2, TablesHold DEF Tables, diskVars, sbVars
  <2> HIDE DEF f, s
  <2>6. CASE i_flag' = [i_flag EXCEPT ![s] = f]
    BY <2>1, <2>2, <2>3, <2>4, <2>5, <2>6, MarksKept DEF Moves, sbVars
  <2>7. CASE UNCHANGED i_flag
    BY <2>1, <2>2, <2>5, <2>7, InnerKept DEF slotNames, sbVars
  <2> QED BY <2>2, <2>6, <2>7
<1>3. CASE Opened(p)
  <2> DEFINE s == reg[p].ip
  <2>1. Moves(p)
    BY <1>3, OpenMoves
  <2>2. /\ pc[p] = "opened" /\ Runs(p) /\ Prele(s, i_flag[s])
        /\ UNCHANGED <<i_number, i_count, i_mode, i_nlink, ifreelist, diskVars, sbVars, uinode>>
    BY <1>3 DEF Opened
  <2>3. s # NoSlot /\ ~Parting(pc'[p], reg'[p]) /\ "ip" \in Field /\ reg[p]["ip"] = s
    BY <1>0, <2>1, <2>2 DEF At, Placed, Keeps, Home, InGet, AfterPut, InPut, AfterUpdate,
                            Moves, Onward, Parting, Field
  <2>4. Tables'
    BY <2>2, TablesHold DEF Tables, diskVars, sbVars
  <2> HIDE DEF s
  <2> QED BY <2>1, <2>2, <2>3, <2>4, PreleKept DEF sbVars
<1>4. CASE PipeMade(p)
  <2> DEFINE s == reg[p].ip
  <2>1. Settles(p) /\ Shifts(p, s, 1) /\ ~Parting(pc'[p], reg'[p]) /\ s \in Slot
    BY <1>4, PipeMadeShifts
  <2>2. /\ pc[p] = "made" /\ Runs(p) /\ reg[p].call.op = "pipe"
        /\ i_count' = [i_count EXCEPT ![s] = 2] /\ Prele(s, i_flag[s])
        /\ UNCHANGED <<i_number, i_mode, i_nlink, ifreelist, diskVars, sbVars, uinode>>
    BY <1>4 DEF PipeMade
  <2>3. i_count[s] = 1
    BY <2>2 DEF PipesAlone
  <2>4. "ip" \in Field /\ "ip" # "cur" /\ reg[p]["ip"] = s
    BY DEF Field
  <2>5. Tables'
    BY <2>2, TablesHold DEF Tables, diskVars, sbVars
  <2> HIDE DEF s
  <2>6. i_count' = [i_count EXCEPT ![s] = @ + 1] /\ i_count[s] + 1 >= 1 /\ 1 \in Int
    BY <2>2, <2>3
  <2> QED BY <2>1, <2>2, <2>4, <2>5, <2>6, UnlockKept DEF sbVars
<1>5. CASE Wdir(p)
  <2> DEFINE s == reg[p].dp
             f == i_flag[s] \cup {"IUPD"}
  <2>1. Moves(p)
    BY <1>5, OpenMoves
  <2>2. /\ pc[p] = "wdir" /\ Runs(p)
        /\ \/ UNCHANGED <<d_ino, i_flag>>
           \/ /\ d_ino' = [d_ino EXCEPT ![reg[p].name] = i_number[WdirInode(p)]]
              /\ i_flag' = [i_flag EXCEPT ![s] = f]
        /\ UNCHANGED <<i_number, i_count, i_mode, i_nlink, ifreelist, di_mode, di_nlink, sbVars,
                       uinode, wchan>>
    BY <1>5 DEF Wdir
  <2>3. s # NoSlot /\ WdirInode(p) # NoSlot
    BY <1>0, <2>2 DEF At, Placed, Keeps, Home, InGet, AfterPut, InPut, AfterUpdate, WdirInode
  <2>4. s \in Slot /\ i_count[s] # 0 /\ i_flag[s] \subseteq Flag
    <3>1. "dp" \in Field
      BY DEF Field
    <3> QED BY <2>3, <3>1, Used
  <2>5. i_number[WdirInode(p)] \in Ino
    <3>1. "ref" \in Field /\ "ip" \in Field
      BY DEF Field
    <3>2. CASE reg[p].second
      BY <2>3, <3>1, <3>2, Used DEF WdirInode
    <3>3. CASE ~reg[p].second
      BY <2>3, <3>1, <3>3, Used DEF WdirInode
    <3> QED BY <3>2, <3>3
  <2>6. f \subseteq Flag /\ i_flag[s] \cap {"ILOCK", "IWANT"} \subseteq f
    BY <2>4 DEF Flag
  <2>7. Tables'
    <3>1. d_ino' \in [Name -> Ino \cup {NoIno}]
      BY <2>2, <2>5, TablesHold DEF Tables
    <3> HIDE DEF f
    <3> QED BY <2>2, <3>1, TablesHold DEF Tables, sbVars
  <2> HIDE DEF f, s
  <2>8. CASE i_flag' = [i_flag EXCEPT ![s] = f]
    BY <2>1, <2>2, <2>4, <2>6, <2>7, <2>8, MarksKept DEF Moves, sbVars
  <2>9. CASE UNCHANGED i_flag
    BY <2>1, <2>2, <2>7, <2>9, InnerKept DEF slotNames, sbVars
  <2> QED BY <2>2, <2>8, <2>9
<1>6. CASE WdirFails(p)
  <2>1. PICK F \in SUBSET {"IUPD"} : i_flag' = [i_flag EXCEPT ![reg[p].dp] = @ \cup F]
    BY <1>6 DEF WdirFails
  <2> DEFINE s == reg[p].dp
             f == i_flag[s] \cup F
  <2>2. /\ pc[p] = "wdir" /\ Runs(p) /\ i_flag' = [i_flag EXCEPT ![s] = f]
        /\ UNCHANGED <<i_number, i_count, i_mode, i_nlink, ifreelist, diskVars, sbVars, uinode,
                       wchan>>
    BY <1>6, <2>1 DEF WdirFails
  <2>3. Moves(p)
    BY <1>6, OpenMoves
  <2>4. s # NoSlot
    BY <1>0, <2>2 DEF At, Placed, Keeps, Home, InGet, AfterPut, InPut, AfterUpdate
  <2>5. s \in Slot /\ i_count[s] # 0 /\ i_flag[s] \subseteq Flag
    <3>1. "dp" \in Field
      BY DEF Field
    <3> QED BY <2>4, <3>1, Used
  <2>6. f \subseteq Flag /\ i_flag[s] \cap {"ILOCK", "IWANT"} \subseteq f
    BY <2>5 DEF Flag
  <2>7. Tables'
    <3> HIDE DEF f
    <3> QED BY <2>2, TablesHold DEF Tables, diskVars, sbVars
  <2> HIDE DEF f, s
  <2> QED BY <2>2, <2>3, <2>5, <2>6, <2>7, MarksKept DEF Moves, sbVars
<1> QED BY <1>1, <1>2, <1>3, <1>4, <1>5, <1>6 DEF OpenStep

(* Process p marks or locks a slot that it has a reference to. *)
LEMMA MarkKept ==
    ASSUME IndInv, NEW p \in Proc, NEW g \in Field, NEW s, reg[p][g] = s, s # NoSlot,
           Runs(p), Moves(p), Tables', NEW F, F \subseteq Flag,
           i_flag' = [i_flag EXCEPT ![s] = @ \cup F],
           UNCHANGED <<i_number, i_count, ifreelist, wchan, s_ilock>>
    PROVE  IndInv'
<1> DEFINE f == i_flag[s] \cup F
<1>1. s \in Slot /\ i_count[s] # 0 /\ i_flag[s] \subseteq Flag
  BY Used
<1>2. f \subseteq Flag /\ i_flag[s] \cap {"ILOCK", "IWANT"} \subseteq f
  BY <1>1
<1>3. i_flag' = [i_flag EXCEPT ![s] = f]
  OBVIOUS
<1> HIDE DEF f
<1> QED BY <1>1, <1>2, <1>3, MarksKept DEF Moves

(* A count that grows or shrinks by one stays an integer. *)
LEMMA CountType ==
    ASSUME NEW f \in [Slot -> Int], NEW s, NEW g,
           g = [f EXCEPT ![s] = @ + 1] \/ g = [f EXCEPT ![s] = @ - 1] \/ g = f
    PROVE  g \in [Slot -> Int]
<1>1. CASE s \in Slot
  <2>1. f[s] + 1 \in Int /\ f[s] - 1 \in Int
    BY <1>1
  <2>2. \A v \in Int : [f EXCEPT ![s] = v] \in [Slot -> Int]
    BY <1>1
  <2> QED BY <2>1, <2>2
<1>2. CASE s \notin Slot
  BY <1>2
<1> QED BY <1>1, <1>2

(* The steps of link() and unlink(). *)
LEMMA LinkStepKept ==
    ASSUME IndInv, NEW p \in Proc, LinkStep(p)
    PROVE  IndInv'
<1>0. /\ {"dp", "ip", "res", "ref"} \subseteq Field /\ At(p)
      /\ {"ILOCK", "IUPD", "ISYN"} \subseteq Flag
  BY AtPlace DEF Field, Flag
<1>1. CASE LinkExists(p) \/ UnlinkNone(p) \/ Unlink(p) \/ UnlinkRefused(p) \/ UnlinkParent(p)
  <2>1. Moves(p)
    BY <1>1, LinkMoves
  <2>2. Runs(p) /\ UNCHANGED <<fsVars, wchan>>
    BY <1>1 DEF LinkExists, UnlinkNone, Unlink, UnlinkRefused, UnlinkParent
  <2> QED BY <2>1, <2>2, QuietKept
<1>2. CASE LinkCounted(p)
  <2> DEFINE s == reg[p].res
             F == {"IUPD", "ISYN"}
  <2>1. Moves(p)
    BY <1>2, LinkMoves
  <2>2. /\ Runs(p) /\ s # NoSlot /\ i_nlink' = [i_nlink EXCEPT ![s] = @ + 1]
        /\ i_flag' = [i_flag EXCEPT ![s] = @ \cup F]
        /\ UNCHANGED <<i_number, i_count, i_mode, ifreelist, diskVars, sbVars, uinode, wchan>>
    BY <1>2 DEF LinkCounted
  <2>3. reg[p]["res"] = s /\ F \subseteq Flag
    BY <1>0
  <2> HIDE DEF s, F
  <2>4. Tables'
    <3>1. i_nlink \in [Slot -> Int]
      BY TablesHold DEF Tables
    <3>2. i_nlink' \in [Slot -> Int]
      BY <2>2, <3>1, CountType
    <3>3. UNCHANGED <<i_mode, di_mode, di_nlink, d_ino, s_inode, s_ninode, s_ilock, uinode>>
      BY <2>2 DEF diskVars, sbVars
    <3> QED BY <3>2, <3>3, TablesHold DEF Tables
  <2> QED BY <1>0, <2>1, <2>2, <2>3, <2>4, MarkKept DEF sbVars
<1>3. CASE Linked(p)
  <2> DEFINE s == reg[p].ip
  <2>1. Moves(p)
    BY <1>3, LinkMoves
  <2>2. /\ pc[p] = "linked" /\ Runs(p) /\ Prele(s, i_flag[s])
        /\ UNCHANGED <<i_number, i_count, i_mode, i_nlink, ifreelist, diskVars, sbVars, uinode>>
    BY <1>3 DEF Linked
  <2>3. s # NoSlot
    BY <1>0, <2>2 DEF At, Placed, Keeps, Home, InGet, AfterPut, InPut, AfterUpdate
  <2>4. ~Parting(pc'[p], reg'[p])
    BY <2>1, <2>2 DEF Moves, Onward, Parting, AfterUpdate
  <2>5. Tables'
    BY <2>2, TablesHold DEF Tables, diskVars, sbVars
  <2>6. reg[p]["ip"] = s
    OBVIOUS
  <2> HIDE DEF s
  <2> QED BY <1>0, <2>1, <2>2, <2>3, <2>4, <2>5, <2>6, PreleKept DEF sbVars
<1>4. CASE RelockWait(p)
  <2> DEFINE s == reg[p].ref
  <2>1. Moves(p)
    BY <1>4, LinkMoves
  <2>2. /\ pc[p] = "relock" /\ AwaitLock(p, s, "relock")
        /\ UNCHANGED <<i_number, i_count, i_mode, i_nlink, ifreelist, diskVars, sbVars, uinode, reg>>
    BY <1>4 DEF RelockWait
  <2>3. s # NoSlot
    BY <1>0, <2>2 DEF At, Placed, Keeps, Home, InGet, AfterPut, InPut, AfterUpdate
  <2>4. s \in Slot
    BY <1>0, <2>3 DEF At, Reg
  <2>5. pc'[p] = "relock" /\ s = reg'[p].ref
    BY <1>0, <2>2 DEF AwaitLock, Sleep, Pause, At
  <2>6. Tables'
    BY <2>2, TablesHold DEF Tables, diskVars, sbVars
  <2> HIDE DEF s
  <2> QED BY <2>1, <2>2, <2>4, <2>5, <2>6, AwaitKept DEF sbVars
<1>5. CASE Relock(p)
  <2> DEFINE s == reg[p].ref
  <2>1. Moves(p)
    BY <1>5, LinkMoves
  <2>2. /\ pc[p] = "relock" /\ Runs(p)
        /\ i_flag' = [i_flag EXCEPT ![s] =
              @ \cup {"ILOCK"} \cup (IF reg[p].error THEN {"IUPD"} ELSE {})]
        /\ i_nlink' = [i_nlink EXCEPT ![s] = @ - 1] \/ UNCHANGED i_nlink
        /\ UNCHANGED <<i_number, i_count, i_mode, ifreelist, diskVars, sbVars, uinode, wchan>>
    BY <1>5 DEF Relock
  <2>3. s # NoSlot
    BY <1>0, <2>2 DEF At, Placed, Keeps, Home, InGet, AfterPut, InPut, AfterUpdate
  <2>4. PICK F \in {{"ILOCK"}, {"ILOCK", "IUPD"}} : i_flag' = [i_flag EXCEPT ![s] = @ \cup F]
    <3>1. CASE reg[p].error
      <4>1. i_flag' = [i_flag EXCEPT ![s] = @ \cup {"ILOCK", "IUPD"}]
        BY <2>2, <3>1
      <4> QED BY <4>1
    <3>2. CASE ~reg[p].error
      <4>1. i_flag' = [i_flag EXCEPT ![s] = @ \cup {"ILOCK"}]
        BY <2>2, <3>2
      <4> QED BY <4>1
    <3> QED BY <3>1, <3>2
  <2>5. F \subseteq Flag /\ reg[p]["ref"] = s
    BY <1>0
  <2> HIDE DEF s
  <2>6. Tables'
    <3>1. i_nlink \in [Slot -> Int]
      BY TablesHold DEF Tables
    <3>2. i_nlink' \in [Slot -> Int]
      BY <2>2, <3>1, CountType
    <3>3. UNCHANGED <<i_mode, di_mode, di_nlink, d_ino, s_inode, s_ninode, s_ilock, uinode>>
      BY <2>2 DEF diskVars, sbVars
    <3> QED BY <3>2, <3>3, TablesHold DEF Tables
  <2>7. "ref" \in Field /\ Runs(p) /\ UNCHANGED <<i_number, i_count, ifreelist, wchan, s_ilock>>
    BY <1>0, <2>2 DEF sbVars
  <2> QED BY <2>1, <2>3, <2>4, <2>5, <2>6, <2>7, MarkKept
<1>6. CASE UnlinkClear(p)
  <2> DEFINE s == reg[p].dp
             F == {"IUPD"}
  <2>1. Moves(p)
    BY <1>6, LinkMoves
  <2>2. /\ pc[p] = "clear" /\ Runs(p) /\ d_ino' = [d_ino EXCEPT ![reg[p].name] = NoIno]
        /\ i_flag' = [i_flag EXCEPT ![s] = @ \cup F]
        /\ UNCHANGED <<i_number, i_count, i_mode, i_nlink, ifreelist, di_mode, di_nlink, sbVars,
                       uinode, wchan>>
    BY <1>6 DEF UnlinkClear
  <2>3. s # NoSlot /\ reg[p]["dp"] = s /\ F \subseteq Flag
    BY <1>0, <2>2 DEF At, Placed, Keeps, Home, InGet, AfterPut, InPut, AfterUpdate
  <2> HIDE DEF s, F
  <2>4. Tables'
    BY <2>2, TablesHold DEF Tables, sbVars
  <2> QED BY <1>0, <2>1, <2>2, <2>3, <2>4, MarkKept DEF sbVars
<1>7. CASE UnlinkCount(p)
  <2> DEFINE s == reg[p].ip
             F == {"IUPD"}
  <2>1. Moves(p)
    BY <1>7, LinkMoves
  <2>2. /\ pc[p] = "cleared" /\ Runs(p) /\ i_nlink' = [i_nlink EXCEPT ![s] = @ - 1]
        /\ i_flag' = [i_flag EXCEPT ![s] = @ \cup F]
        /\ UNCHANGED <<i_number, i_count, i_mode, ifreelist, diskVars, sbVars, uinode, wchan>>
    BY <1>7 DEF UnlinkCount
  <2>3. s # NoSlot /\ reg[p]["ip"] = s /\ F \subseteq Flag
    BY <1>0, <2>2 DEF At, Placed, Keeps, Home, InGet, AfterPut, InPut, AfterUpdate
  <2> HIDE DEF s, F
  <2>4. Tables'
    <3>1. i_nlink \in [Slot -> Int]
      BY TablesHold DEF Tables
    <3>2. i_nlink' \in [Slot -> Int]
      BY <2>2, <3>1, CountType
    <3>3. UNCHANGED <<i_mode, di_mode, di_nlink, d_ino, s_inode, s_ninode, s_ilock, uinode>>
      BY <2>2 DEF diskVars, sbVars
    <3> QED BY <3>2, <3>3, TablesHold DEF Tables
  <2> QED BY <1>0, <2>1, <2>2, <2>3, <2>4, MarkKept DEF sbVars
<1> QED BY <1>1, <1>2, <1>3, <1>4, <1>5, <1>6, <1>7 DEF LinkStep

(* The steps of close() and update(). *)
LEMMA CloseStepKept ==
    ASSUME IndInv, NEW p \in Proc, CloseStep(p)
    PROVE  IndInv'
<1>0. "file" \in Field /\ At(p) /\ "ILOCK" \in Flag
  BY AtPlace DEF Field, Flag
<1>1. CASE DeviceClosed(p) \/ UpdatePut(p)
  <2>1. Moves(p)
    BY <1>1, CloseMoves
  <2>2. Runs(p) /\ UNCHANGED <<fsVars, wchan>>
    BY <1>1 DEF DeviceClosed, UpdatePut
  <2> QED BY <2>1, <2>2, QuietKept
<1>2. CASE CloseWait(p)
  <2> DEFINE s == reg[p].file
  <2>1. Moves(p)
    BY <1>2, CloseMoves
  <2>2. /\ pc[p] = "close" /\ AwaitLock(p, s, "close")
        /\ UNCHANGED <<i_number, i_count, i_mode, i_nlink, ifreelist, diskVars, sbVars, uinode, reg>>
    BY <1>2 DEF CloseWait
  <2>3. s # NoSlot
    BY <1>0, <2>2 DEF At, Placed, Keeps, Home, InGet, AfterPut, InPut, AfterUpdate
  <2>4. s \in Slot
    BY <1>0, <2>3 DEF At, Reg
  <2>5. pc'[p] = "close" /\ s = reg'[p].file
    BY <1>0, <2>2 DEF AwaitLock, Sleep, Pause, At
  <2>6. Tables'
    BY <2>2, TablesHold DEF Tables, diskVars, sbVars
  <2> HIDE DEF s
  <2> QED BY <2>1, <2>2, <2>4, <2>5, <2>6, AwaitKept DEF sbVars
<1>3. CASE Close(p)
  <2> DEFINE s == reg[p].file
             F == {"ILOCK"}
  <2>1. Moves(p)
    BY <1>3, CloseMoves
  <2>2. /\ pc[p] = "close" /\ Runs(p) /\ i_flag' = [i_flag EXCEPT ![s] = @ \cup F]
        /\ UNCHANGED <<i_number, i_count, i_mode, i_nlink, ifreelist, diskVars, sbVars, uinode, wchan>>
    BY <1>3 DEF Close
  <2>3. s # NoSlot /\ reg[p]["file"] = s /\ F \subseteq Flag
    BY <1>0, <2>2 DEF At, Placed, Keeps, Home, InGet, AfterPut, InPut, AfterUpdate
  <2> HIDE DEF s, F
  <2>4. Tables'
    BY <2>2, TablesHold DEF Tables, diskVars, sbVars
  <2> QED BY <1>0, <2>1, <2>2, <2>3, <2>4, MarkKept DEF sbVars
<1>4. CASE CloseDevice(p)
  <2> DEFINE s == reg[p].file
  <2>1. Moves(p)
    BY <1>4, CloseMoves
  <2>2. /\ pc[p] = "close" /\ Runs(p) /\ Prele(s, i_flag[s])
        /\ UNCHANGED <<i_number, i_count, i_mode, i_nlink, ifreelist, diskVars, sbVars, uinode>>
    BY <1>4 DEF CloseDevice
  <2>3. s # NoSlot /\ reg[p]["file"] = s
    BY <1>0, <2>2 DEF At, Placed, Keeps, Home, InGet, AfterPut, InPut, AfterUpdate
  <2>4. ~Parting(pc'[p], reg'[p])
    BY <2>1, <2>2 DEF Moves, Onward, Parting, AfterUpdate
  <2>5. Tables'
    BY <2>2, TablesHold DEF Tables, diskVars, sbVars
  <2> HIDE DEF s
  <2> QED BY <1>0, <2>1, <2>2, <2>3, <2>4, <2>5, PreleKept DEF sbVars
<1>5. CASE UpdateInode(p)
  <2>1. PICK s \in Unwritten(p) :
          /\ i_flag' = [i_flag EXCEPT ![s] = @ \cup {"ILOCK"}]
          /\ i_count' = [i_count EXCEPT ![s] = @ + 1]
          /\ CallIupdat(p, [reg[p] EXCEPT !.cur = s, !.scan = s + 1], "syncput")
    BY <1>5, Zenon DEF UpdateInode
  <2>2. /\ pc[p] = "sync" /\ Runs(p)
        /\ UNCHANGED <<i_number, i_mode, i_nlink, ifreelist, diskVars, sbVars, uinode, wchan>>
    BY <1>5 DEF UpdateInode
  <2>3. s \in Slot /\ s >= reg[p].scan /\ "ILOCK" \notin i_flag[s] /\ i_count[s] # 0
    BY DEF Unwritten, Modified
  <2>4. i_number[s] # NoIno
    BY <2>3 DEF IndInv, Named
  <2>5. Settles(p) /\ Shifts(p, s, 1) /\ ~Parting(pc'[p], reg'[p])
    BY <2>1, <2>2, <2>3, UpdateInodeShifts, Zenon
  <2>6. Tables'
    BY <2>2, TablesHold DEF Tables, diskVars, sbVars
  <2> QED BY <2>1, <2>2, <2>3, <2>4, <2>5, <2>6, TakeKept DEF sbVars
<1>6. CASE UpdateEnd(p)
  <2>1. Moves(p)
    BY <1>6, CloseMoves
  <2>2. Runs(p) /\ uinode' = FALSE /\ UNCHANGED <<slotVars, diskVars, sbVars, wchan>>
    BY <1>6 DEF UpdateEnd
  <2>3. Tables'
    BY <2>2, TablesHold DEF Tables, slotVars, diskVars, sbVars
  <2> QED BY <2>1, <2>2, <2>3, InnerKept DEF slotNames, slotVars, sbVars
<1> QED BY <1>1, <1>2, <1>3, <1>4, <1>5, <1>6 DEF CloseStep

(* The entry to a system call. *)
LEMMA EnterStepKept ==
    ASSUME IndInv, NEW p \in Proc, EnterStep(p)
    PROVE  IndInv'
<1>1. Moves(p)
  BY EnterMoves
<1>2. CASE EnterNamei(p) \/ EnterPipe(p) \/ EnterClose(p)
  <2>1. Runs(p) /\ UNCHANGED <<fsVars, wchan>>
    BY <1>2, Zenon DEF EnterNamei, EnterPipe, EnterClose
  <2> QED BY <1>1, <2>1, QuietKept
<1>3. CASE EnterUpdate(p)
  <2>1. Runs(p) /\ uinode' = TRUE /\ UNCHANGED <<slotVars, diskVars, sbVars, wchan>>
    BY <1>3 DEF EnterUpdate
  <2>2. Tables'
    BY <2>1, TablesHold DEF Tables, slotVars, diskVars, sbVars
  <2> QED BY <1>1, <2>1, <2>2, InnerKept DEF slotNames, slotVars, sbVars
<1> QED BY <1>2, <1>3 DEF EnterStep
-----------------------------------------------------------------------------
(* The inductive invariant holds at first, *)
LEMMA InitKept ==
    ASSUME Init
    PROVE  IndInv
<1>1. /\ RootSlot \in Slot /\ NoSlot \notin Slot /\ ROOTINO # NoIno /\ ROOTINO \notin Ino
      /\ NoIno \notin Ino /\ Awake \notin Slot /\ Awake # ILockChan
      /\ NSlot \in Nat \ {0} /\ NICINOD \in Nat \ {0}
  BY ConstantAssumption DEF RootSlot, Slot, NoSlot, ROOTINO, NoIno, Ino, Awake, ILockChan
<1>2. \A p \in Proc : /\ reg[p] = Idle(NoSlot, NoSlot) /\ reg[p] \in Reg /\ reg[p].call \in Calls
                      /\ pc[p] = "user" /\ Placed(pc[p], reg[p])
                      /\ AfterUpdate(pc[p], reg[p]) = "user" /\ wchan[p] = Awake
                      /\ \A s \in Slot : Tally(reg[p], s) = 0
  <2>1. /\ reg = [p \in Proc |-> Idle(NoSlot, NoSlot)] /\ pc = [p \in Proc |-> "user"]
        /\ wchan = [p \in Proc |-> Awake]
    BY DEF Init
  <2>2. RootSlot \notin {NoSlot, NoSlot} /\ NoSlot \in Slot \cup {NoSlot}
    BY <1>1
  <2>3. /\ Idle(NoSlot, NoSlot) \in Reg /\ Idle(NoSlot, NoSlot).call \in Calls
        /\ Placed("user", Idle(NoSlot, NoSlot))
        /\ AfterUpdate("user", Idle(NoSlot, NoSlot)) = "user"
        /\ \A s \in Slot : Tally(Idle(NoSlot, NoSlot), s) = One(NoSlot = s) + One(NoSlot = s)
    BY <2>2, IdleType
  <2>4. \A s \in Slot : Tally(Idle(NoSlot, NoSlot), s) = 0
    BY <1>1, <2>3 DEF One
  <2> QED BY <2>1, <2>3, <2>4
<1>3. TypeOK
  <2>1. /\ i_number \in [Slot -> Ino \cup {NoIno, ROOTINO}] /\ i_flag \in [Slot -> SUBSET Flag]
        /\ i_count \in [Slot -> Nat] /\ i_nlink \in [Slot -> Int]
    BY DEF Init
  <2>2. i_mode \in [Slot -> Mode]
    BY DEF Init, Mode
  <2>3. ifreelist \in Seq(Slot)
    <3>1. /\ ifreelist = [k \in 1 .. NSlot - 1 |-> NSlot + 1 - k] /\ NSlot - 1 \in Nat
          /\ \A k \in 1 .. NSlot - 1 : NSlot + 1 - k \in Slot
      BY <1>1 DEF Init, Slot
    <3> QED BY <3>1
  <2>4. di_nlink \in [Ino -> Int] /\ di_mode \in [Ino -> Mode]
    <3>1. ASSUME NEW i \in Ino PROVE Cardinality({n \in Name : Files[n] = i}) \in Int
      <4>1. IsFiniteSet({n \in Name : Files[n] = i})
        BY ConstantAssumption, FS_Subset
      <4> QED BY <4>1, FS_CardinalityType
    <3>2. di_nlink \in [Ino -> Int]
      BY <3>1 DEF Init
    <3>3. di_mode \in [Ino -> Mode]
      BY DEF Init, Mode
    <3> QED BY <3>2, <3>3
  <2>5. /\ d_ino \in [Name -> Ino \cup {NoIno}]
        /\ s_inode \in [0 .. NICINOD - 1 -> Ino \cup {NoIno}] /\ s_ninode \in 0 .. NICINOD
        /\ s_ilock \in BOOLEAN /\ uinode \in BOOLEAN /\ cpu \in Proc \cup {NoProc}
    <3>1. d_ino = Files /\ s_inode = [k \in 0 .. NICINOD - 1 |-> NoIno] /\ s_ninode = 0
      BY DEF Init
    <3>2. s_ilock = FALSE /\ uinode = FALSE /\ cpu = NoProc
      BY Zenon DEF Init
    <3>3. Files \in [Name -> Ino \cup {NoIno}]
      BY ConstantAssumption
    <3>4. s_ninode \in 0 .. NICINOD
      BY <1>1, <3>1
    <3> QED BY <3>1, <3>2, <3>3, <3>4
  <2>6. /\ wchan \in [Proc -> Slot \cup {ILockChan, Awake}] /\ pc \in [Proc -> Label]
        /\ reg \in [Proc -> Reg]
    BY <1>2, Labels DEF Init
  <2> QED BY <2>1, <2>2, <2>3, <2>4, <2>5, <2>6 DEF TypeOK
<1>4. OneSlotPerInode
  BY <1>1, <1>3 DEF OneSlotPerInode, Init
<1>5. CountsReferences
  <2>1. ASSUME NEW s \in Slot PROVE References(s) = 0
    <3>1. Pairs(reg, s) = {}
      <4>1. ASSUME NEW p \in Proc, NEW f \in Field, reg[p][f] = s PROVE FALSE
        <5>1. /\ NoSlot # s
              /\ reg[p] = [call |-> CHOOSE c \in Calls : TRUE, name |-> CHOOSE n \in Name : TRUE,
                           second |-> FALSE, error |-> FALSE,
                           dp |-> NoSlot, ip |-> NoSlot, res |-> NoSlot, cur |-> NoSlot,
                           ref |-> NoSlot, file |-> NoSlot, wfile |-> NoSlot, ino |-> NoIno,
                           scan |-> 0, iget |-> "user", iput |-> "user", iupdat |-> "user"]
          BY <1>1, <1>2, Zenon DEF Idle
        <5> QED BY <4>1, <5>1 DEF Field
      <4> QED BY <4>1 DEF Pairs
    <3>2. References(s) = Cardinality(Pairs(reg, s))
      BY DEF References, Pairs, Field
    <3> QED BY <3>1, <3>2, FS_EmptySet
  <2>2. \A s \in Slot : i_count[s] = References(s) + (IF s = RootSlot THEN 1 ELSE 0)
    BY <2>1 DEF Init
  <2>3. /\ ifreelist = [k \in 1 .. NSlot - 1 |-> NSlot + 1 - k]
        /\ Len(ifreelist) = NSlot - 1 /\ DOMAIN ifreelist = 1 .. NSlot - 1
    BY <1>1 DEF Init
  <2>4. \A s \in Slot : Contains(ifreelist, s) <=> s # RootSlot
    <3>1. ASSUME NEW s \in Slot, s # RootSlot PROVE Contains(ifreelist, s)
      <4>1. NSlot + 1 - s \in 1 .. NSlot - 1 /\ ifreelist[NSlot + 1 - s] = s
        BY <1>1, <2>3, <3>1 DEF Slot, RootSlot
      <4> QED BY <2>3, <4>1 DEF Contains
    <3>2. ~Contains(ifreelist, RootSlot)
      BY <1>1, <2>3 DEF Contains, RootSlot
    <3> QED BY <3>1, <3>2
  <2>5. IsInjective(ifreelist)
    BY <1>1, <2>3 DEF IsInjective
  <2>6. \A s \in Slot : i_count[s] = 0 <=> s # RootSlot
    BY DEF Init
  <2> QED BY <2>2, <2>4, <2>5, <2>6 DEF CountsReferences
<1>6. NoLostWakeup
  BY <1>1, <1>2 DEF NoLostWakeup
<1>7. Named
  BY <1>1 DEF Named, Init
<1>8. LastOne
  BY <1>2 DEF LastOne
<1>9. FreeUnmarked
  BY DEF FreeUnmarked, Init
<1>10. Asleep
  BY <1>1, <1>2 DEF Asleep
<1> QED BY <1>2, <1>4, <1>5, <1>6, <1>7, <1>8, <1>9, <1>10 DEF IndInv

(* and every step preserves it while each pipe() has its inode to itself.  *)
LEMMA NextKept ==
    ASSUME IndInv, PipesAlone, [Next]_vars
    PROVE  IndInv'
<1>1. CASE UNCHANGED vars
  <2>1. UNCHANGED <<i_number, i_flag, i_count, i_mode, i_nlink, ifreelist, di_mode, di_nlink,
                    d_ino, s_inode, s_ninode, s_ilock, uinode, cpu, wchan, pc, reg>>
    BY <1>1 DEF vars, fsVars, slotVars, diskVars, sbVars
  <2>2. TypeOK' /\ OneSlotPerInode'
    BY <2>1 DEF IndInv, OneSlotPerInode, TypeOK
  <2>3. CountsReferences' /\ NoLostWakeup'
    <3>1. \A s \in Slot : References(s)' = References(s)
      BY <2>1 DEF References
    <3>2. CountsReferences'
      BY <2>1, <3>1 DEF IndInv, CountsReferences
    <3>3. NoLostWakeup'
      BY <2>1 DEF IndInv, NoLostWakeup
    <3> QED BY <3>2, <3>3
  <2>4. (\A p \in Proc : Placed(pc[p], reg[p]) /\ reg[p].call \in Calls)'
    BY <2>1 DEF IndInv
  <2>5. Named' /\ LastOne' /\ FreeUnmarked' /\ Asleep'
    BY <2>1 DEF IndInv, Named, LastOne, FreeUnmarked, Asleep
  <2> QED BY <2>2, <2>3, <2>4, <2>5 DEF IndInv
<1>2. ASSUME NEW p \in Proc, IgetStep(p) PROVE IndInv'
  BY <1>2, IgetStepKept
<1>3. ASSUME NEW p \in Proc, IputStep(p) PROVE IndInv'
  BY <1>3, IputStepKept
<1>4. ASSUME NEW p \in Proc, IallocStep(p) PROVE IndInv'
  BY <1>4, IallocStepKept
<1>5. ASSUME NEW p \in Proc, NameiStep(p) PROVE IndInv'
  BY <1>5, NameiStepKept
<1>6. ASSUME NEW p \in Proc, OpenStep(p) PROVE IndInv'
  BY <1>6, OpenStepKept
<1>7. ASSUME NEW p \in Proc, LinkStep(p) PROVE IndInv'
  BY <1>7, LinkStepKept
<1>8. ASSUME NEW p \in Proc, CloseStep(p) PROVE IndInv'
  BY <1>8, CloseStepKept
<1>9. ASSUME NEW p \in Proc, EnterStep(p) PROVE IndInv'
  BY <1>9, EnterStepKept
<1> QED BY <1>1, <1>2, <1>3, <1>4, <1>5, <1>6, <1>7, <1>8, <1>9 DEF Next

(* The inductive invariant, while each pipe() has its inode to itself. *)
THEOREM IndCorrect == Spec /\ []PipesAlone => []IndInv
<1>1. Init => IndInv
  BY InitKept
<1>2. IndInv /\ PipesAlone /\ [Next]_vars => IndInv'
  BY NextKept
<1> QED BY <1>1, <1>2, PTL DEF Spec

(* An inode is in core once, and every variable keeps to its type. *)
THEOREM OneSlot == Spec /\ []PipesAlone => []OneSlotPerInode
<1>1. IndInv => OneSlotPerInode
  BY DEF IndInv
<1> QED BY <1>1, IndCorrect, PTL

(* i_count is the number of the references to a slot, and the free list    *)
(* holds those that have none.                                             *)
THEOREM CountsExact == Spec /\ []PipesAlone => []CountsReferences
<1>1. IndInv => CountsReferences
  BY DEF IndInv
<1> QED BY <1>1, IndCorrect, PTL

(* Nobody waits for a lock that nobody has or nobody will announce. *)
THEOREM NoWakeupLost == Spec /\ []PipesAlone => []NoLostWakeup
<1>1. IndInv => NoLostWakeup
  BY DEF IndInv
<1> QED BY <1>1, IndCorrect, PTL

(* A process that sleeps on a lock has locked the directory at most, and   *)
(* then it does not wait for that.                                         *)
LEMMA SleepersHold ==
    ASSUME IndInv, NEW p \in Proc, wchan[p] \in Slot
    PROVE  Holds(p) \subseteq {RootSlot} /\ (wchan[p] = RootSlot => Holds(p) = {})
<1>1. At(p)
  BY AtPlace
<1>2. \/ pc[p] = "iget" /\ i_number[wchan[p]] = reg[p].ino
      \/ pc[p] \in {"relock", "close"}
  BY DEF IndInv, Asleep
<1>3. CASE pc[p] \in {"relock", "close"}
  <2>1. /\ reg[p].dp = NoSlot /\ reg[p].ip = NoSlot /\ reg[p].res = NoSlot
        /\ reg[p].cur = NoSlot
    BY <1>1, <1>3 DEF At, Placed, Keeps, Handles, Home, InGet, AfterPut, InPut, AfterUpdate,
                      Allocating
  <2> QED BY <1>3, <2>1 DEF Holds
<1>4. CASE pc[p] = "iget" /\ i_number[wchan[p]] = reg[p].ino
  <2>1. /\ reg[p].dp \in {NoSlot, RootSlot} /\ reg[p].ip = NoSlot /\ reg[p].res = NoSlot
        /\ reg[p].cur = NoSlot
        /\ reg[p].dp # NoSlot => reg[p].ino \in Ino
    BY <1>1, <1>4 DEF At, Placed, Returns, Keeps, Handles, Home, InGet, AfterPut, InPut,
                      AfterUpdate, Allocating
  <2>2. Holds(p) = {reg[p].dp} \ {NoSlot}
    BY <1>4, <2>1 DEF Holds
  <2>3. wchan[p] = RootSlot => reg[p].ino \notin Ino
    BY <1>1, <1>4 DEF IndInv, Named, At
  <2> QED BY <2>1, <2>2, <2>3
<1> QED BY <1>2, <1>3, <1>4

(* No processes wait for locks of each other. *)
THEOREM NoEmbrace == Spec /\ []PipesAlone => []NoDeadlyEmbrace
<1>1. ASSUME IndInv PROVE NoDeadlyEmbrace
  <2> SUFFICES ASSUME NEW P \in SUBSET Proc, P # {},
                      \A p \in P : \E q \in P : WaitsFor(p, q)
               PROVE  FALSE
    BY DEF NoDeadlyEmbrace
  <2>1. ASSUME NEW p \in P PROVE wchan[p] \in Slot \/ wchan[p] = ILockChan
    <3>1. PICK q \in P : WaitsFor(p, q)
      OBVIOUS
    <3>2. At(q)
      BY <1>1, AtPlace
    <3>3. Holds(q) \subseteq Slot
      BY <3>2 DEF Holds, At, Reg
    <3> QED BY <3>1, <3>3 DEF WaitsFor
  <2>2. ASSUME NEW p \in P PROVE wchan[p] \in Slot
    <3>1. PICK q \in P : WaitsFor(p, q)
      OBVIOUS
    <3>2. pc[q] # "scan"
      BY <1>1, <2>1 DEF IndInv, Asleep
    <3>3. At(q)
      BY <1>1, AtPlace
    <3>4. Holds(q) \subseteq Slot
      BY <3>3 DEF Holds, At, Reg
    <3> QED BY <3>1, <3>2, <3>4 DEF WaitsFor
  <2>3. ASSUME NEW p \in P PROVE wchan[p] = RootSlot
    <3>1. PICK q \in P : WaitsFor(p, q)
      OBVIOUS
    <3>2. Holds(q) \subseteq {RootSlot}
      BY <1>1, <2>2, SleepersHold
    <3>3. wchan[p] # ILockChan
      BY <2>2 DEF Slot, ILockChan
    <3> QED BY <3>1, <3>2, <3>3 DEF WaitsFor
  <2>4. PICK p \in P : TRUE
    OBVIOUS
  <2>5. PICK q \in P : WaitsFor(p, q)
    OBVIOUS
  <2>6. Holds(q) = {}
    BY <1>1, <2>2, <2>3, SleepersHold
  <2>7. wchan[p] # ILockChan
    BY <2>2 DEF Slot, ILockChan
  <2> QED BY <2>5, <2>6, <2>7 DEF WaitsFor
<1> QED BY <1>1, IndCorrect, PTL

(* All of this holds without a condition where nobody calls pipe().        *)
THEOREM WithoutPipes ==
    ASSUME \A c \in Calls : c.op # "pipe"
    PROVE  Spec => [](OneSlotPerInode /\ CountsReferences /\ NoLostWakeup /\ NoDeadlyEmbrace)
<1>1. IndInv => PipesAlone
  BY DEF IndInv, PipesAlone
<1>2. Init => IndInv
  BY InitKept
<1>3. IndInv /\ [Next]_vars => IndInv'
  BY <1>1, NextKept
<1>4. Spec => []PipesAlone
  BY <1>1, <1>2, <1>3, PTL DEF Spec
<1> QED BY <1>4, OneSlot, CountsExact, NoWakeupLost, NoEmbrace, PTL
-----------------------------------------------------------------------------
(* The locks of inodes exclude, where there are no device files.          *)

(* A step of process p leaves its open files as they are, and the slot     *)
(* that it only counts unless it leaves the kernel;                        *)
Empty(r) == /\ r.dp = NoSlot /\ r.ip = NoSlot /\ r.res = NoSlot /\ r.cur = NoSlot
            /\ r.ref = NoSlot

Stays(p) == /\ reg'[p].file = reg[p].file /\ reg'[p].wfile = reg[p].wfile
            /\ reg'[p].ref = reg[p].ref \/ Empty(reg'[p])

(* locked slots stay locked;                                               *)
LocksStay == \A t \in Slot : "ILOCK" \in i_flag[t] => "ILOCK" \in i_flag'[t]

(* it has d more registers that name slot s as locked.                     *)
Has(p, s, d) ==
    \A t \in Slot : HeldIn(reg'[p], t) = HeldIn(reg[p], t) + (IF t = s THEN d ELSE 0)
-----------------------------------------------------------------------------
(* The locks that a step keeps, takes and gives up. *)

(* The registers that name a slot as locked are among its references. *)
LEMMA HeldType ==
    ASSUME NEW r, NEW s
    PROVE  /\ HeldIn(r, s) \in Nat
           /\ Tally(r, s) = HeldIn(r, s) + One(r.ref = s) + One(r.file = s) + One(r.wfile = s)
           /\ HeldIn(r, s) = 0 => r.dp # s /\ r.ip # s /\ r.res # s /\ r.cur # s
           /\ r.cur = s => HeldIn(r, s) # 0
BY DEF HeldIn, Tally, One

(* A step that keeps the open files changes both counts alike. *)
LEMMA HeldMoves ==
    ASSUME IndInv, NEW p \in Proc, Stays(p), NEW s, NEW d \in {0, 1, -1}, Shifts(p, s, d),
           reg'[p].ref = reg[p].ref \/ d = 0 \/ (d = -1 /\ reg[p].cur = s)
    PROVE  Has(p, s, d)
<1> SUFFICES ASSUME NEW t \in Slot
             PROVE  HeldIn(reg'[p], t) = HeldIn(reg[p], t) + (IF t = s THEN d ELSE 0)
  BY DEF Has
<1>1. /\ Tally(reg'[p], t) = Tally(reg[p], t) + (IF t = s THEN d ELSE 0)
      /\ HeldIn(reg'[p], t) \in Nat /\ HeldIn(reg[p], t) \in Nat
      /\ Tally(reg'[p], t) = HeldIn(reg'[p], t) + One(reg'[p].ref = t)
                             + One(reg[p].file = t) + One(reg[p].wfile = t)
      /\ Tally(reg[p], t) = HeldIn(reg[p], t) + One(reg[p].ref = t)
                             + One(reg[p].file = t) + One(reg[p].wfile = t)
      /\ reg[p].cur = t => HeldIn(reg[p], t) # 0
  BY HeldType DEF Shifts, Stays
<1>2. CASE reg'[p].ref = reg[p].ref
  BY <1>1, <1>2 DEF One
<1>3. CASE Empty(reg'[p]) /\ (d = 0 \/ (d = -1 /\ reg[p].cur = s))
  <2>1. NoSlot \notin Slot
    BY DEF NoSlot, Slot
  <2>2. HeldIn(reg'[p], t) = 0 /\ One(reg'[p].ref = t) = 0
    BY <1>3, <2>1 DEF HeldIn, Empty, One
  <2> QED BY <1>1, <1>3, <2>2 DEF One
<1> QED BY <1>2, <1>3 DEF Stays

(* A step that takes, keeps or gives up one lock keeps the locks           *)
(* exclusive.                                                              *)
LEMMA LocksKept ==
    ASSUME IndInv, LockInv, NEW p \in Proc, Goes(p), NEW s, NEW d \in {0, 1, -1},
           Has(p, s, d), d # -1 => LocksStay,
           d = 1 => "ILOCK" \notin i_flag[s] /\ "ILOCK" \in i_flag'[s],
           d = -1 => HeldIn(reg[p], s) # 0 /\ \A t \in Slot \ {s} : i_flag'[t] = i_flag[t]
    PROVE  LockInv'
<1>1. /\ \A q \in Proc \ {p} : reg'[q] = reg[q]
      /\ \A q \in Proc, t \in Slot : HeldIn(reg[q], t) \in Nat /\ HeldIn(reg'[q], t) \in Nat
  <2>1. reg \in [Proc -> Reg] /\ reg' = [reg EXCEPT ![p] = reg'[p]]
    BY DEF IndInv, OneSlotPerInode, TypeOK, Goes
  <2> QED BY <2>1, HeldType
<1> SUFFICES ASSUME NEW q \in Proc, NEW t \in Slot, HeldIn(reg'[q], t) # 0
             PROVE  /\ HeldIn(reg'[q], t) = 1 /\ "ILOCK" \in i_flag'[t]
                    /\ \A u \in Proc \ {q} : HeldIn(reg'[u], t) = 0
  BY DEF LockInv
<1>2. HeldIn(reg'[p], t) = HeldIn(reg[p], t) + (IF t = s THEN d ELSE 0)
  BY DEF Has
<1>3. \A u \in Proc : HeldIn(reg[u], t) # 0 =>
          /\ HeldIn(reg[u], t) = 1 /\ "ILOCK" \in i_flag[t]
          /\ \A v \in Proc \ {u} : HeldIn(reg[v], t) = 0
  BY DEF LockInv
<1>4. CASE t # s \/ d = 0
  <2>1. \A u \in Proc : HeldIn(reg'[u], t) = HeldIn(reg[u], t)
    BY <1>1, <1>2, <1>4
  <2>2. "ILOCK" \in i_flag[t] => "ILOCK" \in i_flag'[t]
    BY <1>4 DEF LocksStay
  <2> QED BY <1>3, <2>1, <2>2
<1>5. CASE t = s /\ d = 1
  <2>1. \A u \in Proc : HeldIn(reg[u], t) = 0
    BY <1>3, <1>5
  <2>2. HeldIn(reg'[p], t) = 1 /\ \A u \in Proc \ {p} : HeldIn(reg'[u], t) = 0
    BY <1>1, <1>2, <1>5, <2>1
  <2> QED BY <1>5, <2>2
<1>6. CASE t = s /\ d = -1
  <2>1. HeldIn(reg[p], t) = 1 /\ \A u \in Proc \ {p} : HeldIn(reg[u], t) = 0
    BY <1>3, <1>6
  <2>2. \A u \in Proc : HeldIn(reg'[u], t) = 0
    BY <1>1, <1>2, <1>6, <2>1
  <2> QED BY <2>2
<1> QED BY <1>4, <1>5, <1>6

(* Outside the kernel a process has no lock. *)
LEMMA IdleFields ==
    ASSUME NEW f, NEW w
    PROVE  Idle(f, w).file = f /\ Idle(f, w).wfile = w /\ Empty(Idle(f, w))
BY DEF Idle, Empty

(* A step that keeps the references, the open files and the locks. *)
LEMMA SteadyKept ==
    ASSUME IndInv, LockInv, NEW p \in Proc, Moves(p), Stays(p), LocksStay
    PROVE  LockInv'
<1>1. Shifts(p, NoSlot, 0)
  <2>1. ASSUME NEW t \in Slot PROVE Tally(reg'[p], t) = Tally(reg[p], t) /\ Tally(reg[p], t) \in Int
    BY DEF Moves, Same, Tally, One
  <2> QED BY <2>1 DEF Shifts
<1>2. Has(p, NoSlot, 0)
  BY <1>1, HeldMoves
<1> QED BY <1>2, LocksKept DEF Moves, Settles

(* The functions that leave the open files and the counted slot alone, one *)
(* by one: namei(),                                                        *)
LEMMA NameiStays ==
    ASSUME IndInv, NEW p \in Proc, NameiStep(p)
    PROVE  Stays(p) /\ pc'[p] \notin {"dopen", "dclosed"}
<1>0. At(p)
  BY AtPlace
<1>1. CASE NameiDir(p)
  BY <1>0, <1>1 DEF At, Stays, NameiDir, Pause
<1>2. CASE NameiError(p)
  BY <1>0, <1>2 DEF At, Stays, NameiError, CallIput, Goto
<1>3. CASE NameiFails(p)
  BY <1>0, <1>3 DEF At, Stays, NameiFails, CallIput, Goto
<1>4. CASE NameiFound(p)
  BY <1>0, <1>4 DEF At, Stays, NameiFound, CallIput, Goto
<1>5. CASE NameiVictim(p)
  BY <1>0, <1>5 DEF At, Stays, NameiVictim, Goto
<1>6. CASE NameiNew(p)
  BY <1>0, <1>6 DEF At, Stays, NameiNew, Pause
<1> QED BY <1>1, <1>2, <1>3, <1>4, <1>5, <1>6 DEF NameiStep

(* The steps that keep the open files: iget(), *)
LEMMA IgetStays ==
    ASSUME IndInv, NEW p \in Proc, IgetStep(p)
    PROVE  Stays(p) /\ pc'[p] \notin {"dopen", "dclosed"}
<1>0. At(p)
  BY AtPlace
<1>1. CASE IgetLocked(p)
  BY <1>0, <1>1 DEF At, Stays, IgetLocked, AwaitLock, Sleep, Pause
<1>2. CASE IgetFound(p)
  <2>1. reg[p].iget \notin {"dopen", "dclosed"}
    BY <1>0, <1>2 DEF At, Placed, Returns, InGet, AfterPut, InPut, AfterUpdate, IgetFound, Iget
  <2> QED BY <1>0, <1>2, <2>1, IdleFields DEF At, Stays, IgetFound, IgetReturn, Return, Goto
<1>3. CASE IgetOverflow(p)
  <2>1. reg[p].iget \notin {"dopen", "dclosed"}
    BY <1>0, <1>3 DEF At, Placed, Returns, InGet, AfterPut, InPut, AfterUpdate, IgetOverflow, Iget
  <2> QED BY <1>0, <1>3, <2>1, IdleFields DEF At, Stays, IgetOverflow, Return, Goto
<1>4. CASE IgetAssign(p)
  BY <1>0, <1>4 DEF At, Stays, IgetAssign, Pause
<1>5. CASE Iread(p)
  <2>1. reg[p].iget \notin {"dopen", "dclosed"}
    BY <1>0, <1>5 DEF At, Placed, Returns, InGet, AfterPut, InPut, AfterUpdate, Iread
  <2> QED BY <1>0, <1>5, <2>1, IdleFields DEF At, Stays, Iread, IgetReturn, Return, Goto
<1>6. CASE IreadError(p)
  BY <1>0, <1>6 DEF At, Stays, IreadError, CallIput, Goto
<1> QED BY <1>1, <1>2, <1>3, <1>4, <1>5, <1>6 DEF IgetStep

(* iput() and iupdat(), *)
LEMMA IputStays ==
    ASSUME IndInv, NEW p \in Proc, IputStep(p)
    PROVE  Stays(p) /\ pc'[p] \notin {"dopen", "dclosed"}
<1>0. At(p)
  BY AtPlace
<1>1. CASE Iupdat(p)
  <2>1. reg[p].iupdat \notin {"dopen", "dclosed", "user"}
    BY <1>0, <1>1 DEF At, Placed, Returns, InGet, AfterPut, InPut, AfterUpdate, Iupdat
  <2>2. CASE "ISYN" \in i_flag[Target(p)]
    <3>1. pc' = [pc EXCEPT ![p] = "isync"] /\ reg' = [reg EXCEPT ![p] = reg[p]]
      BY <1>0, <1>1, <2>2 DEF At, Iupdat, IupdatReturn, Return, Goto, Pause
    <3> QED BY <1>0, <3>1, <2>1, IdleFields DEF At, Stays
  <2>3. CASE "ISYN" \notin i_flag[Target(p)]
    <3>1. /\ pc' = [pc EXCEPT ![p] = reg[p].iupdat]
          /\ reg' = [reg EXCEPT ![p] =
                  IF reg[p].iupdat = "user" THEN Idle(reg[p].file, reg[p].wfile)
                  ELSE [reg[p] EXCEPT !.iupdat = "user"]]
      BY <1>0, <1>1, <2>3 DEF At, Iupdat, IupdatReturn, Return, Goto, Pause
    <3> QED BY <1>0, <3>1, <2>1, IdleFields DEF At, Stays
  <2> QED BY <2>2, <2>3
<1>2. CASE IupdatError(p)
  <2>1. reg[p].iupdat \notin {"dopen", "dclosed"}
    BY <1>0, <1>2 DEF At, Placed, Returns, InGet, AfterPut, InPut, AfterUpdate, IupdatError
  <2> QED BY <1>0, <1>2, <2>1, IdleFields DEF At, Stays, IupdatError, Return, Goto
<1>3. CASE IupdatWritten(p)
  <2>1. reg[p].iupdat \notin {"dopen", "dclosed"}
    BY <1>0, <1>3 DEF At, Placed, Returns, InGet, AfterPut, InPut, AfterUpdate, IupdatWritten
  <2> QED BY <1>0, <1>3, <2>1, IdleFields DEF At, Stays, IupdatWritten, IupdatReturn, Return, Goto
<1>4. CASE IputMore(p)
  <2>1. reg[p].iput \notin {"dopen", "dclosed"}
    BY <1>0, <1>4 DEF At, Placed, Returns, InGet, AfterPut, InPut, AfterUpdate, IputMore
  <2> QED BY <1>0, <1>4, <2>1, IdleFields DEF At, Stays, IputMore, IputReturn, Return, Goto
<1>5. CASE IputLast(p)
  BY <1>0, <1>5 DEF At, Stays, IputLast, Goto
<1>6. CASE IputRemoved(p)
  <2>2. CASE i_mode[reg[p].cur] = "reg"
    <3>1. /\ pc' = [pc EXCEPT ![p] = "iupdat"]
          /\ reg' = [reg EXCEPT ![p] = [reg[p] EXCEPT !.iupdat = "dealloc"]]
      BY <1>0, <1>6, <2>2 DEF At, IputRemoved, CallIupdat, Goto, Pause
    <3> QED BY <1>0, <3>1 DEF At, Stays
  <2>3. CASE i_mode[reg[p].cur] # "reg"
    <3>1. pc' = [pc EXCEPT ![p] = "dealloc"] /\ reg' = [reg EXCEPT ![p] = reg[p]]
      BY <1>0, <1>6, <2>3 DEF At, IputRemoved, CallIupdat, Goto, Pause
    <3> QED BY <1>0, <3>1 DEF At, Stays
  <2> QED BY <2>2, <2>3
<1>7. CASE IputDealloc(p)
  BY <1>0, <1>7 DEF At, Stays, IputDealloc, Goto
<1>8. CASE IputUpdate(p)
  BY <1>0, <1>8 DEF At, Stays, IputUpdate, CallIupdat, Pause
<1>9. CASE IputRelease(p)
  <2>1. reg[p].iput \notin {"dopen", "dclosed"}
    BY <1>0, <1>9 DEF At, Placed, Returns, InGet, AfterPut, InPut, AfterUpdate, IputRelease
  <2> QED BY <1>0, <1>9, <2>1, IdleFields DEF At, Stays, IputRelease, IputReturn, Return, Goto
<1> QED BY <1>1, <1>2, <1>3, <1>4, <1>5, <1>6, <1>7, <1>8, <1>9 DEF IputStep

(* ialloc(), *)
LEMMA IallocStays ==
    ASSUME IndInv, NEW p \in Proc, IallocStep(p)
    PROVE  Stays(p) /\ pc'[p] \notin {"dopen", "dclosed"}
<1>0. At(p)
  BY AtPlace
<1>1. CASE IallocWait(p)
  BY <1>0, <1>1 DEF At, Stays, IallocWait, Sleep, Pause
<1>2. CASE IallocPop(p)
  BY <1>0, <1>2 DEF At, Stays, IallocPop, Goto
<1>3. CASE IallocSearch(p)
  BY <1>0, <1>3 DEF At, Stays, IallocSearch, Goto, Pause
<1>4. CASE IallocScan(p)
  BY <1>0, <1>4 DEF At, Stays, IallocScan, IallocNextBlock, Goto, Pause
<1>5. CASE IallocScanError(p)
  BY <1>0, <1>5 DEF At, Stays, IallocScanError, IallocNextBlock, Goto, Pause
<1>6. CASE IallocFilled(p)
  BY <1>0, <1>6 DEF At, Stays, IallocFilled, Goto
<1>7. CASE IallocNone(p)
  <2>2. CASE reg[p].dp = NoSlot
    <3>1. /\ pc' = [pc EXCEPT ![p] = "user"]
          /\ reg' = [reg EXCEPT ![p] = Idle(reg[p].file, reg[p].wfile)]
      BY <1>0, <1>7, <2>2 DEF At, IallocNone, IallocNull, Return, CallIput, Goto
    <3> QED BY <1>0, <3>1, IdleFields DEF At, Stays
  <2>3. CASE reg[p].dp # NoSlot
    <3>1. /\ pc' = [pc EXCEPT ![p] = "iput"]
          /\ reg' = [reg EXCEPT ![p] = [reg[p] EXCEPT !.dp = NoSlot, !.cur = reg[p].dp,
                         !.iput = "user"]]
      BY <1>0, <1>7, <2>3 DEF At, IallocNone, IallocNull, Return, CallIput, Goto
    <3> QED BY <1>0, <3>1, IdleFields DEF At, Stays
  <2> QED BY <2>2, <2>3
<1>8. CASE IallocFails(p)
  <2>2. CASE reg[p].dp = NoSlot
    <3>1. /\ pc' = [pc EXCEPT ![p] = "user"]
          /\ reg' = [reg EXCEPT ![p] = Idle(reg[p].file, reg[p].wfile)]
      BY <1>0, <1>8, <2>2 DEF At, IallocFails, IallocNull, Return, CallIput, Goto
    <3> QED BY <1>0, <3>1, IdleFields DEF At, Stays
  <2>3. CASE reg[p].dp # NoSlot
    <3>1. /\ pc' = [pc EXCEPT ![p] = "iput"]
          /\ reg' = [reg EXCEPT ![p] = [reg[p] EXCEPT !.dp = NoSlot, !.cur = reg[p].dp,
                         !.iput = "user"]]
      BY <1>0, <1>8, <2>3 DEF At, IallocFails, IallocNull, Return, CallIput, Goto
    <3> QED BY <1>0, <3>1, IdleFields DEF At, Stays
  <2> QED BY <2>2, <2>3
<1>9. CASE IallocTake(p)
  BY <1>0, <1>9 DEF At, Stays, IallocTake, CallIupdat, Pause
<1>10. CASE IallocUsed(p)
  BY <1>0, <1>10 DEF At, Stays, IallocUsed, CallIupdat, Pause
<1>11. CASE IallocAgain(p)
  BY <1>0, <1>11 DEF At, Stays, IallocAgain, CallIput, Goto
<1> QED BY <1>1, <1>2, <1>3, <1>4, <1>5, <1>6, <1>7, <1>8, <1>9, <1>10, <1>11 DEF IallocStep

(* open(), creat() and pipe() until they have a file, *)
LEMMA OpenStays ==
    ASSUME IndInv, NEW p \in Proc, FileNone(p) \/ FileRefused(p) \/ FileOpen(p) \/
           DeviceOpened(p) \/ PipeRefused(p) \/ Wdir(p) \/ WdirFails(p) \/ Made(p) \/
           Created(p) \/ CreatedRefused(p)
    PROVE  Stays(p) /\ pc'[p] \notin {"dopen", "dclosed"}
<1>0. At(p)
  BY AtPlace
<1>1. CASE FileNone(p)
  BY <1>0, <1>1, IdleFields DEF At, Stays, FileNone, Return, Goto
<1>2. CASE FileRefused(p)
  BY <1>0, <1>2 DEF At, Stays, FileRefused, CallIput, Goto
<1>3. CASE FileOpen(p)
  <2>2. CASE reg[p].call.op = "creat" /\ i_mode[reg[p].res] = "reg"
    <3>1. /\ pc' = [pc EXCEPT ![p] = "iupdat"]
          /\ reg' = [reg EXCEPT ![p] = [reg[p] EXCEPT !.ip = reg[p].res, !.res = NoSlot,
                         !.iupdat = "opened"]]
      BY <1>0, <1>3, <2>2 DEF At, FileOpen, CallIupdat, Pause, Goto
    <3> QED BY <1>0, <3>1 DEF At, Stays
  <2>3. CASE ~(reg[p].call.op = "creat" /\ i_mode[reg[p].res] = "reg")
    <3>1. /\ pc' = [pc EXCEPT ![p] = "opened"]
          /\ reg' = [reg EXCEPT ![p] = [reg[p] EXCEPT !.ip = reg[p].res, !.res = NoSlot]]
      BY <1>0, <1>3, <2>3 DEF At, FileOpen, CallIupdat, Pause, Goto
    <3> QED BY <1>0, <3>1 DEF At, Stays
  <2> QED BY <2>2, <2>3
<1>4. CASE DeviceOpened(p)
  BY <1>0, <1>4, IdleFields DEF At, Stays, DeviceOpened, Return, Goto
<1>5. CASE PipeRefused(p)
  BY <1>0, <1>5 DEF At, Stays, PipeRefused, CallIput, Goto
<1>6. CASE Wdir(p)
  BY <1>0, <1>6 DEF At, Stays, Wdir, CallIput, Goto, WdirThen
<1>7. CASE Made(p)
  BY <1>0, <1>7 DEF At, Stays, Made, Pause
<1>8. CASE Created(p)
  BY <1>0, <1>8 DEF At, Stays, Created, Goto
<1>9. CASE CreatedRefused(p)
  BY <1>0, <1>9 DEF At, Stays, CreatedRefused, CallIput, Goto
<1>10. CASE WdirFails(p)
  BY <1>0, <1>10 DEF At, Stays, WdirFails, CallIput, Goto, WdirThen
<1> QED BY <1>1, <1>2, <1>3, <1>4, <1>5, <1>6, <1>7, <1>8, <1>9, <1>10

(* link() and unlink(), *)
LEMMA LinkStays ==
    ASSUME IndInv, NEW p \in Proc, LinkCounted(p) \/ LinkExists(p) \/ RelockWait(p) \/
           UnlinkNone(p) \/ Unlink(p) \/ UnlinkRefused(p) \/
           UnlinkClear(p) \/ UnlinkCount(p) \/ UnlinkParent(p)
    PROVE  Stays(p) /\ pc'[p] \notin {"dopen", "dclosed"}
<1>0. At(p)
  BY AtPlace
<1>1. CASE LinkCounted(p)
  BY <1>0, <1>1 DEF At, Stays, LinkCounted, CallIupdat, Pause
<1>2. CASE LinkExists(p)
  <2>2. CASE reg[p].res = NoSlot
    <3>1. pc' = [pc EXCEPT ![p] = "relock"] /\ reg' = [reg EXCEPT ![p] = reg[p]]
      BY <1>0, <1>2, <2>2 DEF At, LinkExists, CallIput, Goto
    <3> QED BY <1>0, <3>1 DEF At, Stays
  <2>3. CASE reg[p].res # NoSlot
    <3>1. /\ pc' = [pc EXCEPT ![p] = "iput"]
          /\ reg' = [reg EXCEPT ![p] = [reg[p] EXCEPT !.res = NoSlot, !.error = TRUE,
                         !.cur = reg[p].res, !.iput = "relock"]]
      BY <1>0, <1>2, <2>3 DEF At, LinkExists, CallIput, Goto
    <3> QED BY <1>0, <3>1 DEF At, Stays
  <2> QED BY <2>2, <2>3
<1>3. CASE RelockWait(p)
  BY <1>0, <1>3 DEF At, Stays, RelockWait, AwaitLock, Sleep, Pause
<1>4. CASE UnlinkNone(p)
  BY <1>0, <1>4 DEF At, Stays, UnlinkNone, Goto
<1>5. CASE Unlink(p)
  BY <1>0, <1>5 DEF At, Stays, Unlink, Pause
<1>6. CASE UnlinkRefused(p)
  BY <1>0, <1>6 DEF At, Stays, UnlinkRefused, CallIput, Goto
<1>7. CASE UnlinkClear(p)
  BY <1>0, <1>7 DEF At, Stays, UnlinkClear, Pause
<1>8. CASE UnlinkCount(p)
  BY <1>0, <1>8 DEF At, Stays, UnlinkCount, CallIput, Goto
<1>9. CASE UnlinkParent(p)
  BY <1>0, <1>9 DEF At, Stays, UnlinkParent, CallIput, Goto
<1> QED BY <1>1, <1>2, <1>3, <1>4, <1>5, <1>6, <1>7, <1>8, <1>9

(* close() while it waits, and update(), *)
LEMMA CloseStays ==
    ASSUME IndInv, NEW p \in Proc, CloseWait(p) \/ UpdateInode(p) \/ UpdatePut(p) \/ UpdateEnd(p)
    PROVE  Stays(p) /\ pc'[p] \notin {"dopen", "dclosed"}
<1>0. At(p)
  BY AtPlace
<1>1. CASE CloseWait(p)
  BY <1>0, <1>1 DEF At, Stays, CloseWait, AwaitLock, Sleep, Pause
<1>2. CASE UpdateInode(p)
  <2> DEFINE r == reg[p]
  <2>1. PICK s \in Unwritten(p) : CallIupdat(p, [r EXCEPT !.cur = s, !.scan = s + 1], "syncput")
    BY <1>2, Zenon DEF UpdateInode
  <2> DEFINE n == [r EXCEPT !.cur = s, !.scan = s + 1, !.iupdat = "syncput"]
  <2>2. r \in Reg /\ pc \in [Proc -> Label] /\ reg \in [Proc -> Reg]
    BY <1>0 DEF At
  <2>3. n.file = r.file /\ n.wfile = r.wfile /\ n.ref = r.ref
    BY <2>2 DEF Reg
  <2>4. pc' = [pc EXCEPT ![p] = "iupdat"] /\ reg' = [reg EXCEPT ![p] = n]
    BY <1>2, <2>1 DEF CallIupdat, Pause
  <2> HIDE DEF n
  <2> QED BY <2>2, <2>3, <2>4 DEF Stays
<1>3. CASE UpdatePut(p)
  BY <1>0, <1>3 DEF At, Stays, UpdatePut, CallIput, Goto
<1>4. CASE UpdateEnd(p)
  BY <1>0, <1>4, IdleFields DEF At, Stays, UpdateEnd, Return, Goto
<1> QED BY <1>1, <1>2, <1>3, <1>4

(* and the entry to a system call. *)
LEMMA EnterStays ==
    ASSUME IndInv, NEW p \in Proc, EnterNamei(p) \/ EnterPipe(p) \/ EnterUpdate(p)
    PROVE  Stays(p) /\ pc'[p] \notin {"dopen", "dclosed"}
<1>0. At(p)
  BY AtPlace
<1>1. CASE EnterNamei(p)
  <2> DEFINE r == reg[p]
  <2>1. PICK c \in Calls : CallNamei(p, [r EXCEPT !.call = c, !.name = c.name, !.second = FALSE,
                                                  !.error = FALSE])
    BY <1>1, Zenon DEF EnterNamei
  <2> DEFINE n == [r EXCEPT !.call = c, !.name = c.name, !.second = FALSE, !.error = FALSE,
                         !.ino = ROOTINO, !.iget = "dir"]
  <2>2. r \in Reg /\ pc \in [Proc -> Label] /\ reg \in [Proc -> Reg]
    BY <1>0 DEF At
  <2>3. n.file = r.file /\ n.wfile = r.wfile /\ n.ref = r.ref
    BY <2>2 DEF Reg
  <2>4. pc' = [pc EXCEPT ![p] = "iget"] /\ reg' = [reg EXCEPT ![p] = n]
    BY <1>1, <2>1 DEF CallNamei, Goto
  <2> HIDE DEF n
  <2> QED BY <2>2, <2>3, <2>4 DEF Stays
<1>2. CASE EnterPipe(p)
  BY <1>0, <1>2 DEF At, Stays, EnterPipe, Goto
<1>3. CASE EnterUpdate(p)
  <2> DEFINE r == reg[p]
  <2>1. PICK c \in Calls : reg' = [reg EXCEPT ![p].call = c, ![p].scan = 1]
    BY <1>3, Zenon DEF EnterUpdate
  <2> DEFINE n == [r EXCEPT !.call = c, !.scan = 1]
  <2>2. r \in Reg /\ pc \in [Proc -> Label] /\ reg \in [Proc -> Reg]
    BY <1>0 DEF At
  <2>3. n.file = r.file /\ n.wfile = r.wfile /\ n.ref = r.ref
    BY <2>2 DEF Reg
  <2>4. pc' = [pc EXCEPT ![p] = "sync"] /\ reg' = [reg EXCEPT ![p] = n]
    BY <1>3, <2>1 DEF EnterUpdate, Pause
  <2> HIDE DEF n
  <2> QED BY <2>2, <2>3, <2>4 DEF Stays
<1> QED BY <1>1, <1>2, <1>3
-----------------------------------------------------------------------------
(* The steps that leave every locked slot locked. *)
LEMMA FlagStays ==
    ASSUME IndInv, NEW x, NEW f, i_flag' = [i_flag EXCEPT ![x] = f],
           "ILOCK" \in i_flag[x] => "ILOCK" \in f
    PROVE  LocksStay
BY DEF LocksStay, IndInv, OneSlotPerInode, TypeOK

(* Nor do iget(), *)
LEMMA IgetLocks ==
    ASSUME IndInv, NEW p \in Proc, IgetStep(p)
    PROVE  LocksStay
<1>1. CASE IgetLocked(p)
  <2>1. PICK s \in Hashed(reg[p].ino) : AwaitLock(p, s, "iget")
    BY <1>1 DEF IgetLocked
  <2> QED BY <2>1, FlagStays DEF AwaitLock
<1>2. CASE IgetFound(p)
  <2>1. PICK s \in Hashed(reg[p].ino) : i_flag' = [i_flag EXCEPT ![s] = @ \cup {"ILOCK"}]
    BY <1>2, Zenon DEF IgetFound
  <2> QED BY <2>1, FlagStays
<1>3. CASE IgetAssign(p)
  <2>1. i_flag' = [i_flag EXCEPT ![Head(ifreelist)] = {"ILOCK"}]
    BY <1>3 DEF IgetAssign
  <2> QED BY <2>1, FlagStays
<1>4. CASE IgetOverflow(p) \/ Iread(p) \/ IreadError(p)
  <2>1. UNCHANGED i_flag
    BY <1>4 DEF IgetOverflow, Iread, IreadError, fsVars, slotVars
  <2> QED BY <2>1 DEF LocksStay
<1> QED BY <1>1, <1>2, <1>3, <1>4 DEF IgetStep

(* Those of iput() and ialloc(), but for the two that give up a lock.      *)
LEMMA IputLocks ==
    ASSUME IndInv, NEW p \in Proc, IputStep(p), ~IputMore(p), ~IputRelease(p)
    PROVE  LocksStay
<1>1. CASE Iupdat(p)
  <2>1. UNCHANGED i_flag \/ i_flag' = [i_flag EXCEPT ![Target(p)] = @ \ {"IUPD", "ISYN"}]
    BY <1>1 DEF Iupdat, Updated
  <2>2. CASE UNCHANGED i_flag
    BY <2>2 DEF LocksStay
  <2>3. CASE i_flag' = [i_flag EXCEPT ![Target(p)] = @ \ {"IUPD", "ISYN"}]
    BY <2>3, FlagStays
  <2> QED BY <2>1, <2>2, <2>3
<1>2. CASE IupdatWritten(p)
  <2>1. i_flag' = [i_flag EXCEPT ![Target(p)] = @ \ {"IUPD", "ISYN"}]
    BY <1>2 DEF IupdatWritten, Updated
  <2> QED BY <2>1, FlagStays
<1>3. CASE IupdatError(p) \/ IputUpdate(p)
  <2>1. UNCHANGED i_flag
    BY <1>3 DEF IupdatError, IputUpdate, fsVars, slotVars
  <2> QED BY <2>1 DEF LocksStay
<1>4. CASE IputLast(p) \/ IputRemoved(p)
  <2>1. \/ i_flag' = [i_flag EXCEPT ![reg[p].cur] = @ \cup {"ILOCK"}]
        \/ i_flag' = [i_flag EXCEPT ![reg[p].cur] = @ \cup {"ILOCK", "IUPD", "ISYN"}]
    BY <1>4 DEF IputLast, IputRemoved
  <2> QED BY <2>1, FlagStays
<1>5. CASE IputDealloc(p)
  <2>1. i_flag' = [i_flag EXCEPT ![reg[p].cur] = @ \cup {"IUPD"}]
    BY <1>5 DEF IputDealloc
  <2> QED BY <2>1, FlagStays
<1> QED BY <1>1, <1>2, <1>3, <1>4, <1>5 DEF IputStep

(* ialloc(), *)
LEMMA IallocLocks ==
    ASSUME IndInv, NEW p \in Proc, IallocStep(p)
    PROVE  LocksStay
<1>1. CASE IallocTake(p)
  <2>1. i_flag' = [i_flag EXCEPT ![reg[p].res] = @ \cup {"IUPD", "ISYN"}]
    BY <1>1 DEF IallocTake
  <2> QED BY <2>1, FlagStays
<1>2. CASE ~IallocTake(p)
  <2>1. UNCHANGED i_flag
    BY <1>2, Zenon DEF IallocStep, IallocWait, IallocPop, IallocSearch, IallocScan, IallocScanError,
                IallocFilled, IallocNone, IallocFails, IallocUsed, IallocAgain, fsVars, slotVars
  <2> QED BY <2>1 DEF LocksStay
<1> QED BY <1>1, <1>2

(* Those of open(), creat() and pipe() until they have a file. *)
LEMMA OpenLocks ==
    ASSUME IndInv, NEW p \in Proc,
           FileNone(p) \/ FileRefused(p) \/ FileOpen(p) \/ PipeRefused(p) \/ Wdir(p)
           \/ WdirFails(p) \/ Made(p) \/ Created(p) \/ CreatedRefused(p)
    PROVE  LocksStay
<1>1. CASE FileOpen(p)
  <2>1. UNCHANGED i_flag \/ i_flag' = [i_flag EXCEPT ![reg[p].res] = @ \cup {"IUPD", "ISYN"}]
    BY <1>1 DEF FileOpen
  <2>2. CASE UNCHANGED i_flag
    BY <2>2 DEF LocksStay
  <2>3. CASE i_flag' = [i_flag EXCEPT ![reg[p].res] = @ \cup {"IUPD", "ISYN"}]
    BY <2>3, FlagStays
  <2> QED BY <2>1, <2>2, <2>3
<1>2. CASE Wdir(p)
  <2>1. UNCHANGED i_flag \/ i_flag' = [i_flag EXCEPT ![reg[p].dp] = @ \cup {"IUPD"}]
    BY <1>2 DEF Wdir
  <2>2. CASE UNCHANGED i_flag
    BY <2>2 DEF LocksStay
  <2>3. CASE i_flag' = [i_flag EXCEPT ![reg[p].dp] = @ \cup {"IUPD"}]
    BY <2>3, FlagStays
  <2> QED BY <2>1, <2>2, <2>3
<1>3. CASE WdirFails(p)
  <2>1. PICK F \in SUBSET {"IUPD"} : i_flag' = [i_flag EXCEPT ![reg[p].dp] = @ \cup F]
    BY <1>3 DEF WdirFails
  <2> QED BY <2>1, FlagStays
<1>4. CASE ~FileOpen(p) /\ ~Wdir(p) /\ ~WdirFails(p)
  <2>1. UNCHANGED i_flag
    BY <1>4 DEF FileNone, FileRefused, PipeRefused, Made, Created, CreatedRefused, fsVars, slotVars
  <2> QED BY <2>1 DEF LocksStay
<1> QED BY <1>1, <1>2, <1>3, <1>4

(* Those of link(), unlink(), close() and update(). *)
LEMMA LinkLocks ==
    ASSUME IndInv, NEW p \in Proc, LinkStep(p), ~Linked(p)
    PROVE  LocksStay
<1>1. CASE LinkCounted(p)
  <2>1. i_flag' = [i_flag EXCEPT ![reg[p].res] = @ \cup {"IUPD", "ISYN"}]
    BY <1>1 DEF LinkCounted
  <2> QED BY <2>1, FlagStays
<1>2. CASE RelockWait(p)
  <2>1. i_flag' = [i_flag EXCEPT ![reg[p].ref] = @ \cup {"IWANT"}]
    BY <1>2 DEF RelockWait, AwaitLock
  <2> QED BY <2>1, FlagStays
<1>3. CASE Relock(p)
  <2>1. i_flag' = [i_flag EXCEPT ![reg[p].ref] =
                      @ \cup {"ILOCK"} \cup (IF reg[p].error THEN {"IUPD"} ELSE {})]
    BY <1>3 DEF Relock
  <2> QED BY <2>1, FlagStays
<1>4. CASE UnlinkClear(p)
  <2>1. i_flag' = [i_flag EXCEPT ![reg[p].dp] = @ \cup {"IUPD"}]
    BY <1>4 DEF UnlinkClear
  <2> QED BY <2>1, FlagStays
<1>5. CASE UnlinkCount(p)
  <2>1. i_flag' = [i_flag EXCEPT ![reg[p].ip] = @ \cup {"IUPD"}]
    BY <1>5 DEF UnlinkCount
  <2> QED BY <2>1, FlagStays
<1>6. CASE LinkExists(p) \/ UnlinkNone(p) \/ Unlink(p) \/ UnlinkRefused(p) \/ UnlinkParent(p)
  <2>1. UNCHANGED i_flag
    BY <1>6 DEF LinkExists, UnlinkNone, Unlink, UnlinkRefused, UnlinkParent, fsVars, slotVars
  <2> QED BY <2>1 DEF LocksStay
<1> QED BY <1>1, <1>2, <1>3, <1>4, <1>5, <1>6 DEF LinkStep

(* close() or update(). *)
LEMMA CloseLocks ==
    ASSUME IndInv, NEW p \in Proc,
           CloseWait(p) \/ Close(p) \/ UpdateInode(p) \/ UpdatePut(p) \/ UpdateEnd(p)
    PROVE  LocksStay
<1>1. CASE CloseWait(p)
  <2>1. i_flag' = [i_flag EXCEPT ![reg[p].file] = @ \cup {"IWANT"}]
    BY <1>1 DEF CloseWait, AwaitLock
  <2> QED BY <2>1, FlagStays
<1>2. CASE Close(p)
  <2>1. i_flag' = [i_flag EXCEPT ![reg[p].file] = @ \cup {"ILOCK"}]
    BY <1>2 DEF Close
  <2> QED BY <2>1, FlagStays
<1>3. CASE UpdateInode(p)
  <2>1. PICK s \in Unwritten(p) : i_flag' = [i_flag EXCEPT ![s] = @ \cup {"ILOCK"}]
    BY <1>3, Zenon DEF UpdateInode
  <2> QED BY <2>1, FlagStays
<1>4. CASE UpdatePut(p) \/ UpdateEnd(p)
  <2>1. UNCHANGED i_flag
    BY <1>4 DEF UpdatePut, UpdateEnd, fsVars, slotVars
  <2> QED BY <2>1 DEF LocksStay
<1> QED BY <1>1, <1>2, <1>3, <1>4
-----------------------------------------------------------------------------
(* No process comes to have a device open. *)

(* The steps of Next that process p takes. *)
Acts(p) == \/ EnterStep(p) \/ IgetStep(p) \/ IputStep(p) \/ IallocStep(p)
           \/ NameiStep(p) \/ OpenStep(p) \/ LinkStep(p) \/ CloseStep(p)

(* No inode becomes a device. *)
LEMMA ModesKept ==
    ASSUME IndInv, NoDevices, NEW p \in Proc, Acts(p)
    PROVE  (\A s \in Slot : i_mode'[s] # "chr") /\ (\A i \in Ino : di_mode'[i] # "chr")
<1>0. /\ \A s \in Slot : i_mode[s] # "chr"
      /\ \A i \in Ino : di_mode[i] # "chr"
      /\ i_mode \in [Slot -> Mode] /\ di_mode \in [Ino -> Mode]
  BY DEF NoDevices, IndInv, OneSlotPerInode, TypeOK
<1>1. CASE Iread(p)
  <2>1. UNCHANGED di_mode /\ i_mode' = [i_mode EXCEPT ![reg[p].res] = di_mode[reg[p].ino]]
    BY <1>1 DEF Iread, diskVars
  <2>2. reg[p].ino \in Ino
    <3>1. At(p) /\ pc[p] = "iread"
      BY <1>1, AtPlace DEF Iread
    <3> QED BY <3>1 DEF At, Placed, Handles, InGet, AfterPut, InPut, AfterUpdate
  <2> QED BY <1>0, <2>1, <2>2
<1>2. CASE Iupdat(p)
  <2>1. UNCHANGED i_mode /\ CopyOut(Target(p)) /\ pc[p] = "iupdat"
    BY <1>2 DEF Iupdat
  <2>2. Target(p) \in Slot
    BY <2>1, TargetUsed
  <2> QED BY <1>0, <2>1, <2>2 DEF CopyOut
<1>3. CASE IputDealloc(p)
  BY <1>0, <1>3 DEF IputDealloc, diskVars
<1>4. CASE IallocTake(p)
  <2> DEFINE m == IF reg[p].call.op = "pipe" THEN "fifo" ELSE "reg"
  <2>1. UNCHANGED di_mode /\ i_mode' = [i_mode EXCEPT ![reg[p].res] = m]
    BY <1>4 DEF IallocTake, diskVars
  <2>2. m # "chr"
    OBVIOUS
  <2> HIDE DEF m
  <2> QED BY <1>0, <2>1, <2>2
<1>5. CASE ~Iread(p) /\ ~Iupdat(p) /\ ~IputDealloc(p) /\ ~IallocTake(p)
  <2> SUFFICES UNCHANGED <<i_mode, di_mode>>
    BY <1>0
  <2> USE DEF fsVars, slotVars, diskVars
  <2>1. CASE EnterStep(p) \/ NameiStep(p)
    BY <2>1, Zenon DEF EnterStep, EnterNamei, EnterPipe, EnterUpdate, EnterClose, NameiStep,
       NameiDir,
                NameiError, NameiFails, NameiFound, NameiVictim, NameiNew
  <2>2. CASE IgetStep(p)
    BY <1>5, <2>2, Zenon DEF IgetStep, IgetLocked, IgetFound, IgetOverflow, IgetAssign, IreadError
  <2>3. CASE IputStep(p)
    BY <1>5, <2>3, Zenon DEF IputStep, IupdatError, IupdatWritten, IputMore, IputLast, IputRemoved,
                             IputUpdate, IputRelease
  <2>4. CASE IallocStep(p)
    BY <1>5, <2>4, Zenon DEF IallocStep, IallocWait, IallocPop, IallocSearch, IallocScan,
                             IallocScanError, IallocFilled, IallocNone, IallocFails, IallocUsed,
                             IallocAgain
  <2>5. CASE OpenStep(p)
    BY <2>5, Zenon DEF OpenStep, FileNone, FileRefused, FileOpen, Opened, DeviceOpened,
                       DeviceRefused, DeviceInterrupted, PipeMade, PipeRefused, Wdir,
                       WdirFails, Made, Created, CreatedRefused
  <2>6. CASE LinkStep(p)
    BY <2>6, Zenon DEF LinkStep, LinkCounted, Linked, LinkExists, RelockWait, Relock, UnlinkNone,
                       Unlink, UnlinkRefused, UnlinkClear, UnlinkCount, UnlinkParent
  <2>7. CASE CloseStep(p)
    BY <2>7, Zenon DEF CloseStep, CloseWait, Close, CloseDevice, DeviceClosed, UpdateInode,
                       UpdatePut, UpdateEnd
  <2> QED BY <2>1, <2>2, <2>3, <2>4, <2>5, <2>6, <2>7 DEF Acts
<1> QED BY <1>1, <1>2, <1>3, <1>4, <1>5

(* The steps on a device are not taken. *)
LEMMA DevicesIdle ==
    ASSUME IndInv, NoDevices, NEW p \in Proc
    PROVE  /\ ~DeviceOpened(p) /\ ~DeviceRefused(p) /\ ~DeviceInterrupted(p)
           /\ ~CloseDevice(p) /\ ~DeviceClosed(p)
           /\ Opened(p) => i_mode[reg[p].ip] # "chr"
<1>0. At(p) /\ (\A s \in Slot : i_mode[s] # "chr") /\ pc[p] \notin {"dopen", "dclosed"}
  BY AtPlace DEF NoDevices
<1>1. ~DeviceOpened(p) /\ ~DeviceRefused(p) /\ ~DeviceInterrupted(p) /\ ~DeviceClosed(p)
  BY <1>0 DEF DeviceOpened, DeviceRefused, DeviceInterrupted, DeviceClosed
<1>2. pc[p] = "close" => reg[p].file \in Slot
  BY <1>0 DEF At, Placed, Keeps, Home, InGet, AfterPut, InPut, AfterUpdate, Reg
<1>3. pc[p] = "opened" => reg[p].ip \in Slot
  BY <1>0 DEF At, Placed, Keeps, Home, InGet, AfterPut, InPut, AfterUpdate, Reg
<1> QED BY <1>0, <1>1, <1>2, <1>3 DEF CloseDevice, Opened

(* The steps that move a lock from one register to another, or end it.     *)
LEMMA OpenedHas ==
    ASSUME IndInv, NEW p \in Proc, (Opened(p) /\ i_mode[reg[p].ip] # "chr") \/ PipeMade(p)
    PROVE  Has(p, reg[p].ip, -1) /\ pc'[p] = "user"
<1> DEFINE r == reg[p]
<1>0. At(p)
  BY AtPlace
<1>1. /\ r.dp = NoSlot /\ r.res = NoSlot /\ r.cur = NoSlot /\ NoSlot \notin Slot
      /\ pc[p] \in {"opened", "made"}
  <2>1. pc[p] = "opened" \/ (pc[p] = "made" /\ r.call.op = "pipe")
    BY DEF Opened, PipeMade
  <2> QED BY <1>0, <2>1 DEF At, Placed, Keeps, Handles, Home, InGet, AfterPut, InPut, AfterUpdate,
                            Allocating
<1>2. \E f, w : reg'[p] = Idle(f, w) /\ pc'[p] = "user"
  BY <1>0 DEF At, Opened, PipeMade, Return, Goto
<1>3. Empty(reg'[p]) /\ pc'[p] = "user"
  BY <1>2, IdleFields
<1>4. ASSUME NEW t \in Slot PROVE HeldIn(reg'[p], t) = 0 /\ HeldIn(r, t) = One(r.ip = t)
  BY <1>1, <1>3, <1>4 DEF HeldIn, Empty, One
<1> QED BY <1>3, <1>4 DEF Has, One

(* link() gives up the lock of the old file, but counts it; *)
LEMMA LinkedHas ==
    ASSUME IndInv, NEW p \in Proc, Linked(p)
    PROVE  Has(p, reg[p].ip, -1) /\ pc'[p] = "iget"
<1> DEFINE r == reg[p]
           n == [r EXCEPT !.ref = r.ip, !.ip = NoSlot, !.name = r.call.new, !.second = TRUE,
                          !.ino = ROOTINO, !.iget = "dir"]
<1>0. At(p) /\ r \in Reg
  BY AtPlace DEF At
<1>1. reg' = [reg EXCEPT ![p] = n] /\ pc' = [pc EXCEPT ![p] = "iget"]
  BY DEF Linked, CallNamei, Goto
<1>2. n.dp = r.dp /\ n.ip = NoSlot /\ n.res = r.res /\ n.cur = r.cur
  BY <1>0 DEF Reg
<1>3. reg'[p] = n /\ pc'[p] = "iget"
  BY <1>0, <1>1 DEF At
<1> HIDE DEF n
<1>4. ASSUME NEW t \in Slot PROVE HeldIn(n, t) = HeldIn(r, t) + (IF t = r.ip THEN -1 ELSE 0)
  BY <1>0, <1>2 DEF HeldIn, One, At
<1> QED BY <1>3, <1>4 DEF Has

(* it locks it again to give up the count. *)
LEMMA RelockHas ==
    ASSUME IndInv, NEW p \in Proc, Relock(p)
    PROVE  Has(p, reg[p].ref, 1) /\ pc'[p] = "iput"
<1> DEFINE r == reg[p]
           n == [r EXCEPT !.ref = NoSlot, !.cur = r.ref, !.iput = "user"]
<1>0. At(p) /\ r \in Reg
  BY AtPlace DEF At
<1>1. reg' = [reg EXCEPT ![p] = n] /\ pc' = [pc EXCEPT ![p] = "iput"] /\ pc[p] = "relock"
  BY DEF Relock, CallIput, Goto
<1>2. n.dp = r.dp /\ n.ip = r.ip /\ n.res = r.res /\ n.cur = r.ref /\ r.cur = NoSlot
  <2>1. r.cur = NoSlot
    BY <1>0, <1>1 DEF At, Placed, Handles, InPut, AfterUpdate
  <2> QED BY <1>0, <2>1 DEF Reg
<1>3. reg'[p] = n /\ pc'[p] = "iput"
  BY <1>0, <1>1 DEF At
<1> HIDE DEF n
<1>4. ASSUME NEW t \in Slot PROVE HeldIn(n, t) = HeldIn(r, t) + (IF t = r.ref THEN 1 ELSE 0)
  BY <1>0, <1>2 DEF HeldIn, One, At
<1> QED BY <1>3, <1>4 DEF Has

(* close() locks the file that iput() is to release, *)
LEMMA CloseHas ==
    ASSUME IndInv, NEW p \in Proc, Close(p)
    PROVE  Has(p, reg[p].file, 1) /\ pc'[p] = "iput"
<1> DEFINE r == reg[p]
           n == [r EXCEPT !.file = NoSlot, !.cur = r.file, !.iput = "user"]
<1>0. At(p) /\ r \in Reg
  BY AtPlace DEF At
<1>1. reg' = [reg EXCEPT ![p] = n] /\ pc' = [pc EXCEPT ![p] = "iput"] /\ pc[p] = "close"
  BY DEF Close, CallIput, Goto
<1>2. n.dp = r.dp /\ n.ip = r.ip /\ n.res = r.res /\ n.cur = r.file /\ r.cur = NoSlot
  <2>1. r.cur = NoSlot
    BY <1>0, <1>1 DEF At, Placed, Handles, InPut, AfterUpdate
  <2> QED BY <1>0, <2>1 DEF Reg
<1>3. reg'[p] = n /\ pc'[p] = "iput"
  BY <1>0, <1>1 DEF At
<1> HIDE DEF n
<1>4. ASSUME NEW t \in Slot PROVE HeldIn(n, t) = HeldIn(r, t) + (IF t = r.file THEN 1 ELSE 0)
  BY <1>0, <1>2 DEF HeldIn, One, At
<1> QED BY <1>3, <1>4 DEF Has

(* and takes no lock before that. *)
LEMMA EnterCloseHas ==
    ASSUME IndInv, NEW p \in Proc, EnterClose(p)
    PROVE  Has(p, NoSlot, 0) /\ pc'[p] = "close"
<1> DEFINE r == reg[p]
<1>0. At(p) /\ r \in Reg
  BY AtPlace DEF At
<1>1. pc'[p] = "close"
  BY <1>0 DEF EnterClose, Goto, At
<1>2. PICK c \in Calls : \/ reg' = [reg EXCEPT ![p] = [r EXCEPT !.call = c]]
                         \/ reg' = [reg EXCEPT ![p] = [r EXCEPT !.call = c, !.file = r.wfile,
                                                                !.wfile = r.file]]
  BY Zenon DEF EnterClose
<1>3. /\ reg'[p].dp = r.dp /\ reg'[p].ip = r.ip /\ reg'[p].res = r.res /\ reg'[p].cur = r.cur
  BY <1>0, <1>2 DEF At, Reg
<1>4. ASSUME NEW t \in Slot PROVE HeldIn(reg'[p], t) = HeldIn(r, t) /\ HeldIn(r, t) \in Nat
  BY <1>3 DEF HeldIn, One
<1> QED BY <1>1, <1>4 DEF Has
-----------------------------------------------------------------------------
(* The steps that keep, take or give up a lock keep the locks exclusive.   *)

(* No step leads into the close or the refused open of a device. *)
LEMMA DeviceFree ==
    ASSUME IndInv, NoDevices, NEW p \in Proc, Acts(p)
    PROVE  pc'[p] \notin {"dopen", "dclosed"}
<1>1. /\ ~DeviceOpened(p) /\ ~DeviceRefused(p) /\ ~DeviceInterrupted(p)
      /\ ~CloseDevice(p) /\ ~DeviceClosed(p)
      /\ Opened(p) => i_mode[reg[p].ip] # "chr"
  BY DevicesIdle
<1>2. CASE IgetStep(p) \/ IputStep(p) \/ IallocStep(p) \/ NameiStep(p)
  BY <1>2, IgetStays, IputStays, IallocStays, NameiStays
<1>3. CASE EnterStep(p)
  BY <1>3, EnterStays, EnterCloseHas DEF EnterStep
<1>4. CASE OpenStep(p)
  BY <1>1, <1>4, OpenStays, OpenedHas DEF OpenStep
<1>5. CASE LinkStep(p)
  BY <1>5, LinkStays, LinkedHas, RelockHas DEF LinkStep
<1>6. CASE CloseStep(p)
  BY <1>1, <1>6, CloseStays, CloseHas DEF CloseStep
<1> QED BY <1>2, <1>3, <1>4, <1>5, <1>6 DEF Acts

(* A step of process p is not one of another process. *)
LEMMA OthersPlaced ==
    ASSUME IndInv, NEW p \in Proc, Acts(p), NEW q \in Proc \ {p}
    PROVE  pc'[q] = pc[q]
<1>0. pc \in [Proc -> Label]
  BY DEF IndInv, OneSlotPerInode, TypeOK
<1> SUFFICES \E l : pc' = [pc EXCEPT ![p] = l]
  BY <1>0
<1> USE DEF Goto, Pause, Sleep, AwaitLock, Return, CallNamei, CallIput, CallIupdat
<1>1. CASE EnterStep(p)
  BY <1>1, Zenon DEF EnterStep, EnterNamei, EnterPipe, EnterUpdate, EnterClose
<1>2. CASE IgetStep(p)
  BY <1>2, Zenon DEF IgetStep, IgetLocked, IgetFound, IgetOverflow, IgetAssign, Iread, IreadError,
                     IgetReturn
<1>3. CASE IputStep(p)
  BY <1>3, Zenon DEF IputStep, Iupdat, IupdatError, IupdatWritten, IupdatReturn, IputReturn,
                     IputMore, IputLast, IputRemoved, IputDealloc, IputUpdate, IputRelease
<1>4. CASE IallocStep(p)
  <2>1. Moves(p)
    BY <1>4, IallocMoves, IallocScanMoves DEF IallocStep
  <2> QED BY <2>1 DEF Moves, Settles, Goes
<1>5. CASE NameiStep(p)
  BY <1>5, Zenon DEF NameiStep, NameiDir, NameiError, NameiFails, NameiFound, NameiVictim, NameiNew
<1>6. CASE OpenStep(p)
  BY <1>6, Zenon DEF OpenStep, FileNone, FileRefused, FileOpen, Opened, DeviceOpened,
                     DeviceRefused, DeviceInterrupted, PipeMade, PipeRefused, Wdir,
                     WdirFails, Made, Created, CreatedRefused
<1>7. CASE LinkStep(p)
  BY <1>7, Zenon DEF LinkStep, LinkCounted, Linked, LinkExists, RelockWait, Relock, UnlinkNone,
                     Unlink, UnlinkRefused, UnlinkClear, UnlinkCount, UnlinkParent
<1>8. CASE CloseStep(p)
  BY <1>8, Zenon DEF CloseStep, CloseWait, Close, CloseDevice, DeviceClosed, UpdateInode,
                     UpdatePut, UpdateEnd
<1> QED BY <1>1, <1>2, <1>3, <1>4, <1>5, <1>6, <1>7, <1>8 DEF Acts

(* So no process comes to have one open. *)
LEMMA NoDevicesKept ==
    ASSUME IndInv, NoDevices, NEW p \in Proc, Acts(p)
    PROVE  NoDevices'
BY DeviceFree, OthersPlaced, ModesKept DEF NoDevices

(* Function by function, the steps keep LockInv: iget(), *)
LEMMA IgetExclusive ==
    ASSUME IndInv, LockInv, NEW p \in Proc, IgetStep(p)
    PROVE  LockInv'
<1>1. Stays(p) /\ LocksStay /\ At(p)
  BY IgetStays, IgetLocks, AtPlace
<1>2. CASE IgetLocked(p) \/ IgetOverflow(p) \/ Iread(p) \/ IreadError(p)
  BY <1>1, <1>2, IgetMoves, SteadyKept
<1>3. CASE IgetFound(p)
  <2>1. PICK s \in Hashed(reg[p].ino) :
          /\ "ILOCK" \notin i_flag[s]
          /\ i_flag' = [i_flag EXCEPT ![s] = @ \cup {"ILOCK"}]
          /\ IgetReturn(p, s)
    BY <1>3, Zenon DEF IgetFound
  <2>2. pc[p] = "iget" /\ s \in Slot
    BY <1>3 DEF IgetFound, Iget, Hashed
  <2>3. Settles(p) /\ Shifts(p, s, 1)
    BY <2>1, <2>2, IgetReturnShifts
  <2>4. "ILOCK" \in i_flag'[s]
    BY <2>1, <2>2 DEF IndInv, OneSlotPerInode, TypeOK
  <2>5. reg'[p].ref = reg[p].ref
    <3>1. reg[p].iget # "user"
      BY <1>1, <2>2 DEF At, Placed, Returns, InGet, AfterPut, InPut, AfterUpdate
    <3> QED BY <1>1, <2>1, <3>1 DEF At, IgetReturn, Return
  <2>6. Has(p, s, 1)
    BY <1>1, <2>3, <2>5, HeldMoves
  <2> QED BY <1>1, <2>1, <2>3, <2>4, <2>6, LocksKept DEF Settles
<1>4. CASE IgetAssign(p)
  <2> DEFINE s == Head(ifreelist)
  <2>1. Settles(p) /\ Shifts(p, s, 1) /\ s \in Slot
    BY <1>4, IgetAssignShifts
  <2>2. /\ i_flag' = [i_flag EXCEPT ![s] = {"ILOCK"}] /\ ifreelist # <<>>
        /\ reg' = [reg EXCEPT ![p].res = s]
    BY <1>4 DEF IgetAssign
  <2>3. i_flag[s] = {}
    <3>1. ifreelist \in Seq(Slot) /\ \A t \in Slot : i_count[t] = 0 <=> Contains(ifreelist, t)
      BY DEF IndInv, OneSlotPerInode, TypeOK, CountsReferences
    <3>2. Contains(ifreelist, s)
      <4>1. 1 \in 1 .. Len(ifreelist) /\ ifreelist[1] = s
        BY <2>2, <3>1
      <4> QED BY <4>1, <3>1 DEF Contains
    <3> QED BY <2>1, <3>1, <3>2 DEF IndInv, FreeUnmarked
  <2>4. "ILOCK" \in i_flag'[s]
    BY <2>1, <2>2 DEF IndInv, OneSlotPerInode, TypeOK
  <2>5. reg'[p].ref = reg[p].ref
    BY <1>1, <2>2 DEF At
  <2> HIDE DEF s
  <2>6. Has(p, s, 1)
    BY <1>1, <2>1, <2>5, HeldMoves
  <2> QED BY <1>1, <2>1, <2>3, <2>4, <2>6, LocksKept DEF Settles
<1> QED BY <1>2, <1>3, <1>4 DEF IgetStep

(* iput() and iupdat(), *)
LEMMA IputExclusive ==
    ASSUME IndInv, LockInv, NEW p \in Proc, IputStep(p)
    PROVE  LockInv'
<1>1. Stays(p) /\ At(p)
  BY IputStays, AtPlace
<1>2. CASE Iupdat(p) \/ IupdatError(p) \/ IupdatWritten(p) \/ IputDealloc(p) \/ IputUpdate(p)
  <2>1. ~IputMore(p) /\ ~IputRelease(p)
    BY <1>2 DEF Iupdat, IupdatError, IupdatWritten, IputDealloc, IputUpdate, IputMore, IputRelease
  <2> QED BY <1>1, <1>2, <2>1, IputMoves, IputLocks, SteadyKept
<1>3. CASE IputLast(p) \/ IputRemoved(p)
  <2>1. Settles(p) /\ Same(p)
    BY <1>3, IputStarts
  <2>2. ~IputMore(p) /\ ~IputRelease(p)
    BY <1>3 DEF IputLast, IputRemoved, IputMore, IputRelease
  <2>3. LocksStay
    BY <2>2, IputLocks
  <2>4. Shifts(p, NoSlot, 0)
    <3>1. ASSUME NEW t \in Slot
          PROVE  Tally(reg'[p], t) = Tally(reg[p], t) /\ Tally(reg[p], t) \in Int
      BY <2>1 DEF Same, Tally, One
    <3> QED BY <3>1 DEF Shifts
  <2>5. Has(p, NoSlot, 0)
    BY <1>1, <2>4, HeldMoves
  <2> QED BY <2>1, <2>3, <2>5, LocksKept DEF Settles
<1>4. CASE IputMore(p) \/ IputRelease(p)
  <2> DEFINE s == reg[p].cur
  <2>1. pc[p] \in {"iput", "idle", "release"} /\ IputReturn(p)
    BY <1>4 DEF IputMore, IputRelease
  <2>2. Settles(p) /\ Shifts(p, s, -1) /\ s \in Slot
    BY <2>1, IputReturnShifts
  <2>3. \A t \in Slot \ {s} : i_flag'[t] = i_flag[t]
    <3>1. i_flag' = [i_flag EXCEPT ![s] = @ \ {"ILOCK", "IWANT"}] \/ i_flag' = [i_flag EXCEPT ![s] = {}]
      BY <1>4 DEF IputMore, IputRelease, Prele
    <3> QED BY <3>1 DEF IndInv, OneSlotPerInode, TypeOK
  <2>4. HeldIn(reg[p], s) # 0
    BY HeldType
  <2>5. Has(p, s, -1)
    <3>1. reg[p].cur = s
      OBVIOUS
    <3> HIDE DEF s
    <3> QED BY <1>1, <2>2, <3>1, HeldMoves
  <2> HIDE DEF s
  <2> QED BY <2>2, <2>3, <2>4, <2>5, LocksKept DEF Settles
<1> QED BY <1>2, <1>3, <1>4 DEF IputStep

(* Prele() of a slot that process p has locked. *)
LEMMA PreleExclusive ==
    ASSUME IndInv, LockInv, NEW p \in Proc, Goes(p), NEW s \in Slot, Prele(s, i_flag[s]),
           Has(p, s, -1), reg[p].ip = s
    PROVE  LockInv'
<1>1. HeldIn(reg[p], s) # 0
  BY DEF HeldIn, One
<1>2. \A t \in Slot \ {s} : i_flag'[t] = i_flag[t]
  BY DEF Prele, IndInv, OneSlotPerInode, TypeOK
<1> QED BY <1>1, <1>2, LocksKept

(* open(), creat() and pipe(), *)
LEMMA OpenExclusive ==
    ASSUME IndInv, LockInv, NoDevices, PipesAlone, NEW p \in Proc, OpenStep(p)
    PROVE  LockInv'
<1>1. /\ ~DeviceOpened(p) /\ ~DeviceRefused(p) /\ ~DeviceInterrupted(p)
      /\ Opened(p) => i_mode[reg[p].ip] # "chr"
      /\ At(p)
  BY DevicesIdle, AtPlace
<1>2. CASE FileNone(p) \/ FileRefused(p) \/ FileOpen(p) \/ PipeRefused(p) \/ Wdir(p)
           \/ WdirFails(p) \/ Made(p) \/ Created(p) \/ CreatedRefused(p)
  BY <1>2, OpenMoves, OpenStays, OpenLocks, SteadyKept
<1>3. CASE Opened(p)
  <2>1. Moves(p) /\ Has(p, reg[p].ip, -1)
    BY <1>1, <1>3, OpenMoves, OpenedHas
  <2>2. reg[p].ip \in Slot
    BY <1>1, <1>3 DEF Opened, At, Placed, Keeps, Home, InGet, AfterPut, InPut, AfterUpdate, Reg
  <2>3. Prele(reg[p].ip, i_flag[reg[p].ip])
    BY <1>3 DEF Opened
  <2> QED BY <2>1, <2>2, <2>3, PreleExclusive DEF Moves, Settles
<1>4. CASE PipeMade(p)
  <2>1. Settles(p) /\ reg[p].ip \in Slot
    BY <1>4, PipeMadeShifts
  <2>2. Has(p, reg[p].ip, -1)
    BY <1>4, OpenedHas
  <2>3. Prele(reg[p].ip, i_flag[reg[p].ip])
    BY <1>4 DEF PipeMade
  <2> QED BY <2>1, <2>2, <2>3, PreleExclusive DEF Settles
<1> QED BY <1>1, <1>2, <1>3, <1>4 DEF OpenStep

(* link() and unlink(), *)
LEMMA LinkExclusive ==
    ASSUME IndInv, LockInv, NEW p \in Proc, LinkStep(p)
    PROVE  LockInv'
<1>0. At(p) /\ Moves(p)
  BY AtPlace, LinkMoves DEF LinkStep
<1>1. CASE LinkCounted(p) \/ LinkExists(p) \/ RelockWait(p) \/ UnlinkNone(p) \/ Unlink(p)
           \/ UnlinkRefused(p) \/ UnlinkClear(p) \/ UnlinkCount(p) \/ UnlinkParent(p)
  <2>1. ~Linked(p)
    BY <1>1 DEF Linked, LinkCounted, LinkExists, RelockWait, UnlinkNone, Unlink, UnlinkRefused,
                UnlinkClear, UnlinkCount, UnlinkParent
  <2> QED BY <1>0, <1>1, <2>1, LinkStays, LinkLocks, SteadyKept
<1>2. CASE Linked(p)
  <2>1. Has(p, reg[p].ip, -1)
    BY <1>2, LinkedHas
  <2>3. Prele(reg[p].ip, i_flag[reg[p].ip])
    BY <1>2 DEF Linked
  <2>2. reg[p].ip \in Slot
    BY <1>0, <1>2 DEF Linked, At, Placed, Keeps, Home, InGet, AfterPut, InPut, AfterUpdate, Reg
  <2> QED BY <1>0, <2>1, <2>2, <2>3, PreleExclusive DEF Moves, Settles
<1>3. CASE Relock(p)
  <2> DEFINE s == reg[p].ref
  <2>1. Has(p, s, 1) /\ "ILOCK" \notin i_flag[s]
    BY <1>3, RelockHas DEF Relock
  <2>2. s \in Slot
    BY <1>0, <1>3 DEF Relock, At, Placed, Keeps, Home, InGet, AfterPut, InPut, AfterUpdate, Reg
  <2>3. "ILOCK" \in i_flag'[s]
    BY <1>3, <2>2 DEF Relock, IndInv, OneSlotPerInode, TypeOK
  <2>4. LocksStay
    <3>1. ~Linked(p)
      BY <1>3 DEF Linked, Relock
    <3> QED BY <3>1, LinkLocks
  <2> HIDE DEF s
  <2> QED BY <1>0, <2>1, <2>3, <2>4, LocksKept DEF Moves, Settles
<1> QED BY <1>1, <1>2, <1>3 DEF LinkStep

(* close() and update(), *)
LEMMA CloseExclusive ==
    ASSUME IndInv, LockInv, NoDevices, NEW p \in Proc, CloseStep(p)
    PROVE  LockInv'
<1>0. At(p) /\ ~CloseDevice(p) /\ ~DeviceClosed(p)
  BY AtPlace, DevicesIdle
<1>1. CASE CloseWait(p) \/ UpdatePut(p) \/ UpdateEnd(p)
  BY <1>1, CloseMoves, CloseStays, CloseLocks, SteadyKept
<1>2. CASE Close(p)
  <2> DEFINE s == reg[p].file
  <2>1. Moves(p) /\ LocksStay /\ Has(p, s, 1) /\ "ILOCK" \notin i_flag[s] /\ pc[p] = "close"
    BY <1>2, CloseMoves, CloseLocks, CloseHas DEF Close
  <2>2. s \in Slot
    BY <1>0, <2>1 DEF At, Placed, Keeps, Home, InGet, AfterPut, InPut, AfterUpdate, Reg
  <2>3. "ILOCK" \in i_flag'[s]
    BY <1>2, <2>2 DEF Close, IndInv, OneSlotPerInode, TypeOK
  <2> HIDE DEF s
  <2> QED BY <2>1, <2>3, LocksKept DEF Moves, Settles
<1>3. CASE UpdateInode(p)
  <2>1. PICK s \in Unwritten(p) :
          /\ i_flag' = [i_flag EXCEPT ![s] = @ \cup {"ILOCK"}]
          /\ CallIupdat(p, [reg[p] EXCEPT !.cur = s, !.scan = s + 1], "syncput")
    BY <1>3, Zenon DEF UpdateInode
  <2>2. s \in Slot /\ s >= reg[p].scan /\ "ILOCK" \notin i_flag[s] /\ pc[p] = "sync"
    BY <1>3 DEF Unwritten, Modified, UpdateInode
  <2>3. Settles(p) /\ Shifts(p, s, 1)
    BY <2>1, <2>2, UpdateInodeShifts, Zenon
  <2>4. Stays(p) /\ LocksStay
    BY <1>3, CloseStays, CloseLocks
  <2>5. "ILOCK" \in i_flag'[s]
    BY <2>1, <2>2 DEF IndInv, OneSlotPerInode, TypeOK
  <2>6. reg'[p].ref = reg[p].ref
    <3>1. reg[p].ref = NoSlot
      BY <1>0, <2>2 DEF At, Placed, Keeps, Home, InGet, AfterPut, InPut, AfterUpdate
    <3> QED BY <2>4, <3>1 DEF Stays, Empty
  <2>7. Has(p, s, 1)
    BY <2>3, <2>4, <2>6, HeldMoves
  <2> QED BY <2>2, <2>3, <2>4, <2>5, <2>7, LocksKept DEF Settles
<1> QED BY <1>0, <1>1, <1>2, <1>3 DEF CloseStep

(* the entry of a system call, *)
LEMMA EnterExclusive ==
    ASSUME IndInv, LockInv, NEW p \in Proc, EnterStep(p)
    PROVE  LockInv'
<1>1. LocksStay /\ Moves(p)
  <2>1. UNCHANGED i_flag
    BY Zenon DEF EnterStep, EnterNamei, EnterPipe, EnterUpdate, EnterClose, fsVars, slotVars
  <2> QED BY <2>1, EnterMoves DEF LocksStay
<1>2. CASE EnterNamei(p) \/ EnterPipe(p) \/ EnterUpdate(p)
  BY <1>1, <1>2, EnterStays, SteadyKept
<1>3. CASE EnterClose(p)
  BY <1>1, <1>3, EnterCloseHas, LocksKept DEF Moves, Settles
<1> QED BY <1>2, <1>3 DEF EnterStep

(* and ialloc() and namei(). *)
LEMMA QuietExclusive ==
    ASSUME IndInv, LockInv, NEW p \in Proc, IallocStep(p) \/ NameiStep(p)
    PROVE  LockInv'
<1>1. CASE IallocStep(p)
  <2>1. Moves(p)
    BY <1>1, IallocMoves, IallocScanMoves DEF IallocStep
  <2> QED BY <1>1, <2>1, IallocStays, IallocLocks, SteadyKept
<1>2. CASE NameiStep(p)
  <2>1. Moves(p)
    BY <1>2, NameiMoves, NameiFoundMoves DEF NameiStep
  <2>2. UNCHANGED i_flag
    BY <1>2 DEF NameiStep, NameiDir, NameiError, NameiFails, NameiFound, NameiVictim, NameiNew,
                fsVars, slotVars
  <2>3. LocksStay
    BY <2>2 DEF LocksStay
  <2> QED BY <1>2, <2>1, <2>3, NameiStays, SteadyKept
<1> QED BY <1>1, <1>2
-----------------------------------------------------------------------------
(* At first there is no device but where Special says so, and no lock;     *)
LEMMA LocksInit ==
    ASSUME Init, Special = {}
    PROVE  NoDevices /\ LockInv
<1>1. \A p \in Proc : pc[p] = "user" /\ reg[p] = Idle(NoSlot, NoSlot)
  BY DEF Init
<1>2. NoSlot \notin Slot
  BY DEF NoSlot, Slot
<1>3. ASSUME NEW p \in Proc, NEW s \in Slot PROVE HeldIn(reg[p], s) = 0
  <2>1. Empty(reg[p])
    BY <1>1, IdleFields
  <2> QED BY <1>2, <2>1 DEF HeldIn, Empty, One
<1>4. (\A s \in Slot : i_mode[s] # "chr") /\ (\A i \in Ino : di_mode[i] # "chr")
  BY DEF Init
<1> QED BY <1>1, <1>3, <1>4 DEF NoDevices, LockInv

(* and every step keeps to that.                                           *)
LEMMA LocksNext ==
    ASSUME IndInv, PipesAlone, NoDevices, LockInv, [Next]_vars
    PROVE  NoDevices' /\ LockInv'
<1>1. CASE UNCHANGED vars
  <2>1. UNCHANGED <<i_flag, i_mode, di_mode, pc, reg>>
    BY <1>1 DEF vars, fsVars, slotVars, diskVars
  <2> QED BY <2>1 DEF NoDevices, LockInv
<1>2. ASSUME NEW p \in Proc, Acts(p) PROVE NoDevices' /\ LockInv'
  <2>1. NoDevices'
    BY <1>2, NoDevicesKept
  <2>2. CASE EnterStep(p)
    BY <2>1, <2>2, EnterExclusive
  <2>3. CASE IgetStep(p)
    BY <2>1, <2>3, IgetExclusive
  <2>4. CASE IputStep(p)
    BY <2>1, <2>4, IputExclusive
  <2>5. CASE IallocStep(p) \/ NameiStep(p)
    BY <2>1, <2>5, QuietExclusive
  <2>6. CASE OpenStep(p)
    BY <2>1, <2>6, OpenExclusive
  <2>7. CASE LinkStep(p)
    BY <2>1, <2>7, LinkExclusive
  <2>8. CASE CloseStep(p)
    BY <2>1, <2>8, CloseExclusive
  <2> QED BY <1>2, <2>2, <2>3, <2>4, <2>5, <2>6, <2>7, <2>8 DEF Acts
<1> QED BY <1>1, <1>2 DEF Next, Acts

(* The four registers hold every lock that a process has. *)
LEMMA HeldLocked ==
    ASSUME IndInv, LockInv
    PROVE  LockExclusive
<1>1. ASSUME NEW p \in Proc, NEW s \in Holds(p) PROVE s \in Slot /\ HeldIn(reg[p], s) # 0
  <2>1. At(p)
    BY AtPlace
  <2>2. s \in {reg[p].dp, reg[p].ip, reg[p].res, reg[p].cur} /\ s # NoSlot
    BY DEF Holds
  <2> QED BY <2>1, <2>2 DEF At, Reg, HeldIn, One
<1> QED BY <1>1 DEF LockInv, LockExclusive

(* What a process has locked is locked and nobody else's, in a file system *)
(* without devices, whose close and refused open let go of an inode that   *)
(* they have not locked (os/fio.c, os/sys2.c), while each pipe() has its   *)
(* inode to itself;                                                        *)
THEOREM LocksExclude ==
    ASSUME Special = {}
    PROVE  Spec /\ []PipesAlone => []LockExclusive
<1>1. Init => NoDevices /\ LockInv
  BY LocksInit
<1>2. IndInv /\ PipesAlone /\ NoDevices /\ LockInv /\ [Next]_vars => NoDevices' /\ LockInv'
  BY LocksNext
<1>3. IndInv /\ LockInv => LockExclusive
  BY HeldLocked
<1> QED BY <1>1, <1>2, <1>3, IndCorrect, PTL DEF Spec

(* nothing else is asked for where nobody calls pipe().                    *)
THEOREM LocksWithoutPipes ==
    ASSUME Special = {}, \A c \in Calls : c.op # "pipe"
    PROVE  Spec => []LockExclusive
<1>1. IndInv => PipesAlone
  BY DEF IndInv, PipesAlone
<1>2. Init => IndInv
  BY InitKept
<1>3. IndInv /\ [Next]_vars => IndInv'
  BY <1>1, NextKept
<1>4. Spec => []PipesAlone
  BY <1>1, <1>2, <1>3, PTL DEF Spec
<1> QED BY <1>4, LocksExclude, PTL
-----------------------------------------------------------------------------
(* The inodes in core and on the device are the same, where there are no   *)
(* devices and no block of inodes fails.                                   *)

WorkingDisk == \A f \in DOMAIN BadBlocks : BadBlocks[f] = {}

(* A call that has set u_error goes back, or has no inode to go on with.   *)
Errs(l, r) ==
    r.error =>
        /\ l # "user" /\ ~InGet(l, r)
        /\ Home(l, r) \in {"user", "relock", "parent", "file", "exists", "victim", "new"}
        /\ Home(l, r) \in {"file", "exists", "victim", "new"} => r.res = NoSlot /\ ~InPut(l, r)

(* A file that a call has made or unlinked, but for its entry or link.     *)
Making(l, r) == \/ Home(l, r) = "made" /\ r.call.op = "creat"
                \/ Home(l, r) = "wdir" /\ ~r.second
                \/ Home(l, r) = "cleared"

(* creat() has found that there is no entry of its name. *)
Absent(l, r) == \/ Home(l, r) \in Allocating /\ r.call.op = "creat"
                \/ Home(l, r) = "wdir" /\ ~r.second

(* A step from l with registers r to m with n keeps to Errs and neither    *)
(* reads nor writes an inode (Calm); it goes on with what it has made,     *)
(* found or given up, or has done with it (Idles).                         *)
Calm(l, r, m, n) ==
    /\ Errs(l, r) => Errs(m, n)
    /\ l # "iread" /\ m \notin {"iread", "isync", "release"}

Idles(l, r, m, n) ==
    /\ Parting(m, n) => /\ Parting(l, r) /\ n.cur = r.cur
                        /\ \/ AfterUpdate(m, n) = AfterUpdate(l, r)
                           \/ AfterUpdate(l, r) = "idle" /\ AfterUpdate(m, n) = "release"
    /\ Making(m, n) <=> Making(l, r)
    /\ Making(l, r) => n.ip = r.ip
    /\ Home(m, n) = "victim" => /\ Home(l, r) = "victim" /\ n.name = r.name
                                /\ InGet(m, n) => InGet(l, r) /\ n.ino = r.ino
                                /\ n.res # NoSlot => n.res = r.res
    /\ Home(m, n) = "clear" => Home(l, r) = "clear" /\ n.name = r.name /\ n.ip = r.ip
    /\ Absent(m, n) => Absent(l, r) /\ n.name = r.name

(* Steps that are both, and that are calm. *)
Still(p) == Calm(pc[p], reg[p], pc'[p], reg'[p]) /\ Idles(pc[p], reg[p], pc'[p], reg'[p])
Quiet(p) == Calm(pc[p], reg[p], pc'[p], reg'[p])

(* A call that has made nothing leaves the kernel.                         *)
LEMMA IdleStill ==
    ASSUME NEW l, NEW r, NEW f, NEW w, l # "iread", ~Making(l, r)
    PROVE  Calm(l, r, "user", Idle(f, w)) /\ Idles(l, r, "user", Idle(f, w))
<1> DEFINE n == Idle(f, w)
<1>1. ~n.error /\ ~n.second
  BY DEF Idle
<1>2. AfterUpdate("user", n) = "user" /\ Home("user", n) = "user"
  BY DEF Home, InGet, AfterPut, InPut, AfterUpdate
<1> HIDE DEF n
<1>3. Calm(l, r, "user", n) /\ Idles(l, r, "user", n)
  BY <1>1, <1>2 DEF Calm, Idles, Errs, Making, Absent, Parting, Allocating
<1> QED BY <1>3, Zenon DEF n

(* A look-up in namei() that fails or finds a file for open() or link(),   *)
LEMMA NameiStill ==
    ASSUME IndInv, NEW p \in Proc,
           NameiDir(p) \/ NameiError(p) \/ NameiFails(p) \/ NameiFound(p)
    PROVE  Still(p)
<1> USE DEF Placed, Returns, Keeps, Handles, Home, InGet, AfterPut, InPut, AfterUpdate,
            Allocating
<1> DEFINE r == reg[p]
<1>0. At(p) /\ r \in Reg
  BY AtPlace DEF At
<1>1. CASE NameiDir(p)
  <2> DEFINE n == [r EXCEPT !.dp = r.res, !.res = NoSlot]
  <2>1. pc[p] = "dir" /\ pc'[p] = "search" /\ reg'[p] = n
    BY <1>0, <1>1 DEF At, NameiDir, Pause
  <2>2. Calm("dir", r, "search", n) /\ Idles("dir", r, "search", n)
    BY <1>0, <2>1 DEF At, Reg, Calm, Idles, Errs, Making, Absent, Parting
  <2> QED BY <2>1, <2>2 DEF Still
<1>2. CASE NameiError(p)
  <2>0. Failed(p) \in {"relock", "user"}
    BY <1>2 DEF Failed
  <2> DEFINE n == [r EXCEPT !.res = NoSlot, !.cur = r.res, !.iput = Failed(p)]
  <2>1. pc[p] = "dir" /\ pc'[p] = "iput" /\ reg'[p] = n
    BY <1>0, <1>2, <2>0 DEF At, NameiError, CallIput, Goto
  <2>2. Calm("dir", r, "iput", n) /\ Idles("dir", r, "iput", n)
    BY <1>0, <2>1, <2>0 DEF At, Reg, Calm, Idles, Errs, Making, Absent, Parting
  <2> QED BY <2>1, <2>2 DEF Still
<1>3. CASE NameiFails(p)
  <2>0. Failed(p) \in {"relock", "user"}
    BY <1>3 DEF Failed
  <2> DEFINE n == [r EXCEPT !.dp = NoSlot, !.error = TRUE, !.cur = r.dp, !.iput = Failed(p)]
  <2>1. pc[p] = "search" /\ pc'[p] = "iput" /\ reg'[p] = n
    BY <1>0, <1>3, <2>0 DEF At, NameiFails, CallIput, Goto
  <2>2. Calm("search", r, "iput", n) /\ Idles("search", r, "iput", n)
    BY <1>0, <2>1, <2>0 DEF At, Reg, Calm, Idles, Errs, Making, Absent, Parting
  <2> QED BY <2>1, <2>2 DEF Still
<1>4. CASE NameiFound(p)
  <2> DEFINE n == [r EXCEPT !.dp = NoSlot, !.ino = Entry(p),
                            !.iget = IF r.second THEN "exists" ELSE "file",
                            !.cur = r.dp, !.iput = "iget"]
  <2>1. pc[p] = "search" /\ pc'[p] = "iput" /\ reg'[p] = n
    BY <1>0, <1>4 DEF At, NameiFound, CallIput, Goto
  <2>2. Calm("search", r, "iput", n) /\ Idles("search", r, "iput", n)
    BY <1>0, <2>1 DEF At, Reg, Calm, Idles, Errs, Making, Absent, Parting
  <2> QED BY <2>1, <2>2 DEF Still
<1> QED BY <1>1, <1>2, <1>3, <1>4

(* and an iget() that waits or has no slot leave these things as they are; *)
LEMMA IgetStill ==
    ASSUME IndInv, NEW p \in Proc,
           IgetLocked(p) \/ IgetOverflow(p)
    PROVE  Still(p)
<1> USE DEF Placed, Returns, Keeps, Handles, Home, InGet, AfterPut, InPut, AfterUpdate,
            Allocating
<1> DEFINE r == reg[p]
<1>0. At(p) /\ r \in Reg
  BY AtPlace DEF At
<1>1. CASE IgetLocked(p)
  <2> DEFINE n == r
  <2>1. pc[p] = "iget" /\ pc'[p] = "iget" /\ reg'[p] = n
    BY <1>0, <1>1 DEF At, IgetLocked, Iget, AwaitLock, Sleep, Pause, Hashed
  <2>2. Calm("iget", r, "iget", n) /\ Idles("iget", r, "iget", n)
    BY <1>0, <2>1 DEF At, Reg, Calm, Idles, Errs, Making, Absent, Parting
  <2> QED BY <2>1, <2>2 DEF Still
<1>2. CASE IgetOverflow(p)
  <2>0. r.iget \in {"file", "exists", "victim", "new"}
    BY <1>0, <1>2 DEF At, IgetOverflow, Iget, Hashed, IndInv, Named
  <2> DEFINE n == [r EXCEPT !.error = TRUE, !.ino = NoIno, !.iget = "user"]
  <2>1. pc[p] = "iget" /\ pc'[p] = r.iget /\ reg'[p] = n
    BY <1>0, <1>2, <2>0 DEF At, IgetOverflow, Iget, Return, Goto
  <2>2. Calm("iget", r, r.iget, n) /\ Idles("iget", r, r.iget, n)
    BY <1>0, <2>1, <2>0 DEF At, Reg, Calm, Idles, Errs, Making, Absent, Parting
  <2> QED BY <2>1, <2>2 DEF Still
<1> QED BY <1>1, <1>2

(* so do the return of iput()                                              *)
LEMMA PutStill ==
    ASSUME IndInv, NEW p \in Proc, pc[p] \in {"iput", "idle", "release"}, IputReturn(p)
    PROVE  Still(p)
<1> USE DEF Placed, Returns, Keeps, Handles, Home, InGet, AfterPut, InPut, AfterUpdate,
            Allocating
<1> DEFINE r == reg[p]
<1>0. At(p) /\ r \in Reg
  BY AtPlace DEF At
<1>1. r.iput \in {"user", "iget", "created", "relock", "ialloc", "sync", "parent",
                  "file", "exists", "victim", "new"}
  BY <1>0 DEF At
<1>2. CASE r.iput = "user"
  <2> DEFINE n == Idle(r.file, r.wfile)
  <2>1. pc'[p] = "user" /\ reg'[p] = n
    BY <1>0, <1>2 DEF At, IputReturn, Return, Goto, Reg
  <2>2. ~Making(pc[p], r) /\ pc[p] # "iread"
    BY <1>0, <1>2 DEF At, Reg, Making
  <2>3. Calm(pc[p], r, "user", n) /\ Idles(pc[p], r, "user", n)
    BY <2>2, IdleStill, Zenon
  <2> QED BY <2>1, <2>3 DEF Still
<1>3. CASE r.iput # "user"
  <2> DEFINE n == [r EXCEPT !.cur = NoSlot, !.iput = "user"]
  <2>1. pc'[p] = r.iput /\ reg'[p] = n
    BY <1>0, <1>3 DEF At, IputReturn, Return, Goto
  <2>2. /\ n.error = r.error /\ n.res = r.res /\ n.call = r.call /\ n.second = r.second
        /\ n.ip = r.ip /\ n.ino = r.ino /\ n.name = r.name /\ n.iget = r.iget
    BY <1>0 DEF Reg
  <2> HIDE DEF n
  <2>3. /\ Home(r.iput, n) = Home(pc[p], r) /\ (InGet(r.iput, n) <=> InGet(pc[p], r))
        /\ ~InPut(r.iput, n) /\ ~Parting(r.iput, n)
    BY <1>1, <2>2 DEF Parting
  <2>4. r.iput \notin {"user", "iread", "isync", "release"}
    BY <1>1, <1>3
  <2>5. Calm(pc[p], r, r.iput, n)
    BY <2>2, <2>3, <2>4 DEF Calm, Errs
  <2>6. Idles(pc[p], r, r.iput, n)
    BY <2>2, <2>3 DEF Idles, Making, Absent
  <2> QED BY <2>1, <2>5, <2>6 DEF Still
<1> QED BY <1>2, <1>3

(* and its last iupdat(),                                                  *)
LEMMA IputStill ==
    ASSUME IndInv, NEW p \in Proc, IputUpdate(p)
    PROVE  Still(p)
<1> USE DEF Placed, Returns, Keeps, Handles, Home, InGet, AfterPut, InPut, AfterUpdate,
            Allocating
<1> DEFINE r == reg[p]
<1>0. At(p) /\ r \in Reg
  BY AtPlace DEF At
<1>1. CASE IputUpdate(p)
  <2> DEFINE n == [r EXCEPT !.iupdat = "release"]
  <2>1. pc[p] = "idle" /\ pc'[p] = "iupdat" /\ reg'[p] = n
    BY <1>0, <1>1 DEF At, IputUpdate, CallIupdat, Pause
  <2>2. Calm("idle", r, "iupdat", n) /\ Idles("idle", r, "iupdat", n)
    BY <1>0, <2>1 DEF At, Reg, Calm, Idles, Errs, Making, Absent, Parting
  <2> QED BY <2>1, <2>2 DEF Still
<1> QED BY <1>1

(* ialloc() until it takes an inode,                                       *)
LEMMA IallocStill ==
    ASSUME IndInv, NEW p \in Proc,
           IallocWait(p) \/ IallocPop(p) \/ IallocSearch(p) \/ IallocFilled(p) \/
           IallocNone(p) \/ IallocFails(p) \/ IallocUsed(p) \/ IallocAgain(p)
    PROVE  Still(p)
<1> USE DEF Placed, Returns, Keeps, Handles, Home, InGet, AfterPut, InPut, AfterUpdate,
            Allocating
<1> DEFINE r == reg[p]
<1>0. At(p) /\ r \in Reg
  BY AtPlace DEF At
<1>1. CASE IallocWait(p)
  <2> DEFINE n == r
  <2>1. pc[p] = "ialloc" /\ pc'[p] = "ialloc" /\ reg'[p] = n
    BY <1>0, <1>1 DEF At, IallocWait, Sleep, Pause
  <2>2. Calm("ialloc", r, "ialloc", n) /\ Idles("ialloc", r, "ialloc", n)
    BY <1>0, <2>1 DEF At, Reg, Calm, Idles, Errs, Making, Absent, Parting
  <2> QED BY <2>1, <2>2 DEF Still
<1>2. CASE IallocPop(p)
  <2> DEFINE n == [r EXCEPT !.ino = s_inode[s_ninode - 1], !.iget = "new"]
  <2>1. pc[p] = "ialloc" /\ pc'[p] = "iget" /\ reg'[p] = n
    BY <1>0, <1>2 DEF At, IallocPop, Goto
  <2>2. Calm("ialloc", r, "iget", n) /\ Idles("ialloc", r, "iget", n)
    BY <1>0, <2>1 DEF At, Reg, Calm, Idles, Errs, Making, Absent, Parting
  <2> QED BY <2>1, <2>2 DEF Still
<1>3. CASE IallocSearch(p)
  <2>1. CASE INOS(s_inode[0]) <= NIno
    <3> DEFINE n == [r EXCEPT !.scan = INOS(s_inode[0])]
    <3>1. pc[p] = "ialloc" /\ pc'[p] = "scan" /\ reg'[p] = n
      BY <1>0, <1>3, <2>1 DEF At, IallocSearch, Pause, Goto
    <3>2. Calm("ialloc", r, "scan", n) /\ Idles("ialloc", r, "scan", n)
      BY <1>0, <3>1 DEF At, Reg, Calm, Idles, Errs, Making, Absent, Parting
    <3> QED BY <3>1, <3>2 DEF Still
  <2>2. CASE ~(INOS(s_inode[0]) <= NIno)
    <3> DEFINE n == [r EXCEPT !.scan = INOS(s_inode[0])]
    <3>1. pc[p] = "ialloc" /\ pc'[p] = "scanned" /\ reg'[p] = n
      BY <1>0, <1>3, <2>2 DEF At, IallocSearch, Pause, Goto
    <3>2. Calm("ialloc", r, "scanned", n) /\ Idles("ialloc", r, "scanned", n)
      BY <1>0, <3>1 DEF At, Reg, Calm, Idles, Errs, Making, Absent, Parting
    <3> QED BY <3>1, <3>2 DEF Still
  <2> QED BY <2>1, <2>2
<1>4. CASE IallocFilled(p)
  <2> DEFINE n == r
  <2>1. pc[p] = "scanned" /\ pc'[p] = "ialloc" /\ reg'[p] = n
    BY <1>0, <1>4 DEF At, IallocFilled, Goto
  <2>2. Calm("scanned", r, "ialloc", n) /\ Idles("scanned", r, "ialloc", n)
    BY <1>0, <2>1 DEF At, Reg, Calm, Idles, Errs, Making, Absent, Parting
  <2> QED BY <2>1, <2>2 DEF Still
<1>5. CASE IallocNone(p)
  <2>1. CASE r.dp = NoSlot
    <3> DEFINE n == Idle(r.file, r.wfile)
    <3>1. pc[p] = "scanned" /\ pc'[p] = "user" /\ reg'[p] = n
      BY <1>0, <1>5, <2>1 DEF At, IallocNone, IallocNull, Return, CallIput, Goto
    <3>2. Calm("scanned", r, "user", n) /\ Idles("scanned", r, "user", n)
      <4>1. ~Making("scanned", r)
        BY <1>0, <3>1 DEF At, Reg, Making
      <4> QED BY <4>1, IdleStill, Zenon
    <3> QED BY <3>1, <3>2 DEF Still
  <2>2. CASE r.dp # NoSlot
    <3> DEFINE n == [r EXCEPT !.dp = NoSlot, !.cur = r.dp, !.iput = "user"]
    <3>1. pc[p] = "scanned" /\ pc'[p] = "iput" /\ reg'[p] = n
      BY <1>0, <1>5, <2>2 DEF At, IallocNone, IallocNull, Return, CallIput, Goto
    <3>2. Calm("scanned", r, "iput", n) /\ Idles("scanned", r, "iput", n)
      BY <1>0, <3>1 DEF At, Reg, Calm, Idles, Errs, Making, Absent, Parting
    <3> QED BY <3>1, <3>2 DEF Still
  <2> QED BY <2>1, <2>2
<1>6. CASE IallocFails(p)
  <2>0. r.res = NoSlot
    BY <1>0, <1>6 DEF IallocFails
  <2>1. CASE r.dp = NoSlot
    <3> DEFINE n == Idle(r.file, r.wfile)
    <3>1. pc[p] = "new" /\ pc'[p] = "user" /\ reg'[p] = n
      BY <1>0, <1>6, <2>1, <2>0 DEF At, IallocFails, IallocNull, Return, CallIput, Goto
    <3>2. Calm("new", r, "user", n) /\ Idles("new", r, "user", n)
      <4>1. ~Making("new", r)
        BY <1>0, <3>1, <2>0 DEF At, Reg, Making
      <4> QED BY <4>1, IdleStill, Zenon
    <3> QED BY <3>1, <3>2 DEF Still
  <2>2. CASE r.dp # NoSlot
    <3> DEFINE n == [r EXCEPT !.dp = NoSlot, !.cur = r.dp, !.iput = "user"]
    <3>1. pc[p] = "new" /\ pc'[p] = "iput" /\ reg'[p] = n
      BY <1>0, <1>6, <2>2, <2>0 DEF At, IallocFails, IallocNull, Return, CallIput, Goto
    <3>2. Calm("new", r, "iput", n) /\ Idles("new", r, "iput", n)
      BY <1>0, <3>1, <2>0 DEF At, Reg, Calm, Idles, Errs, Making, Absent, Parting
    <3> QED BY <3>1, <3>2 DEF Still
  <2> QED BY <2>1, <2>2
<1>7. CASE IallocUsed(p)
  <2>0. r.res # NoSlot
    BY <1>7 DEF IallocUsed
  <2> DEFINE n == [r EXCEPT !.cur = r.res, !.res = NoSlot, !.iupdat = "again"]
  <2>1. pc[p] = "new" /\ pc'[p] = "iupdat" /\ reg'[p] = n
    BY <1>0, <1>7, <2>0 DEF At, IallocUsed, CallIupdat, Pause
  <2>2. Calm("new", r, "iupdat", n) /\ Idles("new", r, "iupdat", n)
    BY <1>0, <2>1, <2>0 DEF At, Reg, Calm, Idles, Errs, Making, Absent, Parting
  <2> QED BY <2>1, <2>2 DEF Still
<1>8. CASE IallocAgain(p)
  <2> DEFINE n == [r EXCEPT !.cur = r.cur, !.iput = "ialloc"]
  <2>1. pc[p] = "again" /\ pc'[p] = "iput" /\ reg'[p] = n
    BY <1>0, <1>8 DEF At, IallocAgain, CallIput, Goto
  <2>2. Calm("again", r, "iput", n) /\ Idles("again", r, "iput", n)
    BY <1>0, <2>1 DEF At, Reg, Calm, Idles, Errs, Making, Absent, Parting
  <2> QED BY <2>1, <2>2 DEF Still
<1> QED BY <1>1, <1>2, <1>3, <1>4, <1>5, <1>6, <1>7, <1>8

(* open(), creat() and pipe() but for the entry,                           *)
LEMMA OpenStill ==
    ASSUME IndInv, NoDevices, NEW p \in Proc,
           FileNone(p) \/ FileRefused(p) \/ FileOpen(p) \/ Opened(p) \/ PipeMade(p) \/
           PipeRefused(p) \/ Made(p) \/ Created(p) \/ CreatedRefused(p)
    PROVE  Still(p)
<1> USE DEF Placed, Returns, Keeps, Handles, Home, InGet, AfterPut, InPut, AfterUpdate,
            Allocating
<1> DEFINE r == reg[p]
<1>0. At(p) /\ r \in Reg
  BY AtPlace DEF At
<1>1. CASE FileNone(p)
  <2> DEFINE n == Idle(r.file, r.wfile)
  <2>1. pc[p] = "file" /\ pc'[p] = "user" /\ reg'[p] = n
    BY <1>0, <1>1 DEF At, FileNone, Return, Goto
  <2>2. Calm("file", r, "user", n) /\ Idles("file", r, "user", n)
    <3>1. ~Making("file", r)
      BY <1>0, <2>1 DEF At, Reg, Making
    <3> QED BY <3>1, IdleStill, Zenon
  <2> QED BY <2>1, <2>2 DEF Still
<1>2. CASE FileRefused(p)
  <2>0. r.res # NoSlot
    BY <1>2 DEF FileRefused
  <2> DEFINE n == [r EXCEPT !.res = NoSlot, !.cur = r.res, !.iput = "user"]
  <2>1. pc[p] = "file" /\ pc'[p] = "iput" /\ reg'[p] = n
    BY <1>0, <1>2, <2>0 DEF At, FileRefused, CallIput, Goto
  <2>2. Calm("file", r, "iput", n) /\ Idles("file", r, "iput", n)
    BY <1>0, <2>1, <2>0 DEF At, Reg, Calm, Idles, Errs, Making, Absent, Parting
  <2> QED BY <2>1, <2>2 DEF Still
<1>3. CASE FileOpen(p)
  <2>0. r.res # NoSlot
    BY <1>3 DEF FileOpen
  <2>1. CASE r.call.op = "creat" /\ i_mode[r.res] = "reg"
    <3> DEFINE n == [r EXCEPT !.ip = r.res, !.res = NoSlot, !.iupdat = "opened"]
    <3>1. pc[p] = "file" /\ pc'[p] = "iupdat" /\ reg'[p] = n
      BY <1>0, <1>3, <2>1, <2>0 DEF At, FileOpen, CallIupdat, Pause, Goto
    <3>2. Calm("file", r, "iupdat", n) /\ Idles("file", r, "iupdat", n)
      BY <1>0, <3>1, <2>0 DEF At, Reg, Calm, Idles, Errs, Making, Absent, Parting
    <3> QED BY <3>1, <3>2 DEF Still
  <2>2. CASE ~(r.call.op = "creat" /\ i_mode[r.res] = "reg")
    <3> DEFINE n == [r EXCEPT !.ip = r.res, !.res = NoSlot]
    <3>1. pc[p] = "file" /\ pc'[p] = "opened" /\ reg'[p] = n
      BY <1>0, <1>3, <2>2, <2>0 DEF At, FileOpen, CallIupdat, Pause, Goto
    <3>2. Calm("file", r, "opened", n) /\ Idles("file", r, "opened", n)
      BY <1>0, <3>1, <2>0 DEF At, Reg, Calm, Idles, Errs, Making, Absent, Parting
    <3> QED BY <3>1, <3>2 DEF Still
  <2> QED BY <2>1, <2>2
<1>4. CASE Opened(p)
  <2>0. i_mode[r.ip] # "chr"
    BY DevicesIdle, <1>4
  <2> DEFINE n == Idle(r.ip, r.wfile)
  <2>1. pc[p] = "opened" /\ pc'[p] = "user" /\ reg'[p] = n
    BY <1>0, <1>4, <2>0 DEF At, Opened, Return, Goto
  <2>2. Calm("opened", r, "user", n) /\ Idles("opened", r, "user", n)
    <3>1. ~Making("opened", r)
      BY <1>0, <2>1, <2>0 DEF At, Reg, Making
    <3> QED BY <3>1, IdleStill, Zenon
  <2> QED BY <2>1, <2>2 DEF Still
<1>5. CASE PipeMade(p)
  <2>0. r.call.op = "pipe"
    BY <1>5 DEF PipeMade
  <2> DEFINE n == Idle(r.ip, r.ip)
  <2>1. pc[p] = "made" /\ pc'[p] = "user" /\ reg'[p] = n
    BY <1>0, <1>5, <2>0 DEF At, PipeMade, Return, Goto
  <2>2. Calm("made", r, "user", n) /\ Idles("made", r, "user", n)
    <3>1. ~Making("made", r)
      BY <1>0, <2>1, <2>0 DEF At, Reg, Making
    <3> QED BY <3>1, IdleStill, Zenon
  <2> QED BY <2>1, <2>2 DEF Still
<1>6. CASE PipeRefused(p)
  <2>0. r.call.op = "pipe"
    BY <1>6 DEF PipeRefused
  <2> DEFINE n == [r EXCEPT !.ip = NoSlot, !.cur = r.ip, !.iput = "user"]
  <2>1. pc[p] = "made" /\ pc'[p] = "iput" /\ reg'[p] = n
    BY <1>0, <1>6, <2>0 DEF At, PipeRefused, CallIput, Goto
  <2>2. Calm("made", r, "iput", n) /\ Idles("made", r, "iput", n)
    BY <1>0, <2>1, <2>0 DEF At, Reg, Calm, Idles, Errs, Making, Absent, Parting
  <2> QED BY <2>1, <2>2 DEF Still
<1>7. CASE Made(p)
  <2>0. r.call.op = "creat"
    BY <1>7 DEF Made
  <2> DEFINE n == r
  <2>1. pc[p] = "made" /\ pc'[p] = "wdir" /\ reg'[p] = n
    BY <1>0, <1>7, <2>0 DEF At, Made, Pause
  <2>2. Calm("made", r, "wdir", n) /\ Idles("made", r, "wdir", n)
    BY <1>0, <2>1, <2>0 DEF At, Reg, Calm, Idles, Errs, Making, Absent, Parting
  <2> QED BY <2>1, <2>2 DEF Still
<1>8. CASE Created(p)
  <2> DEFINE n == r
  <2>1. pc[p] = "created" /\ pc'[p] = "opened" /\ reg'[p] = n
    BY <1>0, <1>8 DEF At, Created, Goto
  <2>2. Calm("created", r, "opened", n) /\ Idles("created", r, "opened", n)
    BY <1>0, <2>1 DEF At, Reg, Calm, Idles, Errs, Making, Absent, Parting
  <2> QED BY <2>1, <2>2 DEF Still
<1>9. CASE CreatedRefused(p)
  <2> DEFINE n == [r EXCEPT !.ip = NoSlot, !.cur = r.ip, !.iput = "user"]
  <2>1. pc[p] = "created" /\ pc'[p] = "iput" /\ reg'[p] = n
    BY <1>0, <1>9 DEF At, CreatedRefused, CallIput, Goto
  <2>2. Calm("created", r, "iput", n) /\ Idles("created", r, "iput", n)
    BY <1>0, <2>1 DEF At, Reg, Calm, Idles, Errs, Making, Absent, Parting
  <2> QED BY <2>1, <2>2 DEF Still
<1> QED BY <1>1, <1>2, <1>3, <1>4, <1>5, <1>6, <1>7, <1>8, <1>9

(* link() and unlink() where they have nothing to do,                      *)
LEMMA LinkStill ==
    ASSUME IndInv, NEW p \in Proc,
           RelockWait(p) \/ UnlinkNone(p) \/ UnlinkRefused(p) \/ UnlinkParent(p)
    PROVE  Still(p)
<1> USE DEF Placed, Returns, Keeps, Handles, Home, InGet, AfterPut, InPut, AfterUpdate,
            Allocating
<1> DEFINE r == reg[p]
<1>0. At(p) /\ r \in Reg
  BY AtPlace DEF At
<1>1. CASE RelockWait(p)
  <2> DEFINE n == r
  <2>1. pc[p] = "relock" /\ pc'[p] = "relock" /\ reg'[p] = n
    BY <1>0, <1>1 DEF At, RelockWait, AwaitLock, Sleep, Pause
  <2>2. Calm("relock", r, "relock", n) /\ Idles("relock", r, "relock", n)
    BY <1>0, <2>1 DEF At, Reg, Calm, Idles, Errs, Making, Absent, Parting
  <2> QED BY <2>1, <2>2 DEF Still
<1>2. CASE UnlinkNone(p)
  <2> DEFINE n == r
  <2>1. pc[p] = "victim" /\ pc'[p] = "parent" /\ reg'[p] = n
    BY <1>0, <1>2 DEF At, UnlinkNone, Goto
  <2>2. Calm("victim", r, "parent", n) /\ Idles("victim", r, "parent", n)
    BY <1>0, <2>1 DEF At, Reg, Calm, Idles, Errs, Making, Absent, Parting
  <2> QED BY <2>1, <2>2 DEF Still
<1>3. CASE UnlinkRefused(p)
  <2> DEFINE n == [r EXCEPT !.ip = NoSlot, !.error = TRUE, !.cur = r.ip, !.iput = "parent"]
  <2>1. pc[p] = "clear" /\ pc'[p] = "iput" /\ reg'[p] = n
    BY <1>0, <1>3 DEF At, UnlinkRefused, CallIput, Goto
  <2>2. Calm("clear", r, "iput", n) /\ Idles("clear", r, "iput", n)
    BY <1>0, <2>1 DEF At, Reg, Calm, Idles, Errs, Making, Absent, Parting
  <2> QED BY <2>1, <2>2 DEF Still
<1>4. CASE UnlinkParent(p)
  <2> DEFINE n == [r EXCEPT !.dp = NoSlot, !.cur = r.dp, !.iput = "user"]
  <2>1. pc[p] = "parent" /\ pc'[p] = "iput" /\ reg'[p] = n
    BY <1>0, <1>4 DEF At, UnlinkParent, CallIput, Goto
  <2>2. Calm("parent", r, "iput", n) /\ Idles("parent", r, "iput", n)
    BY <1>0, <2>1 DEF At, Reg, Calm, Idles, Errs, Making, Absent, Parting
  <2> QED BY <2>1, <2>2 DEF Still
<1> QED BY <1>1, <1>2, <1>3, <1>4

(* close() and the end of update().                                        *)
LEMMA CloseStill ==
    ASSUME IndInv, NEW p \in Proc,
           CloseWait(p) \/ Close(p) \/ UpdatePut(p) \/ UpdateEnd(p)
    PROVE  Still(p)
<1> USE DEF Placed, Returns, Keeps, Handles, Home, InGet, AfterPut, InPut, AfterUpdate,
            Allocating
<1> DEFINE r == reg[p]
<1>0. At(p) /\ r \in Reg
  BY AtPlace DEF At
<1>1. CASE CloseWait(p)
  <2> DEFINE n == r
  <2>1. pc[p] = "close" /\ pc'[p] = "close" /\ reg'[p] = n
    BY <1>0, <1>1 DEF At, CloseWait, AwaitLock, Sleep, Pause
  <2>2. Calm("close", r, "close", n) /\ Idles("close", r, "close", n)
    BY <1>0, <2>1 DEF At, Reg, Calm, Idles, Errs, Making, Absent, Parting
  <2> QED BY <2>1, <2>2 DEF Still
<1>2. CASE Close(p)
  <2> DEFINE n == [r EXCEPT !.file = NoSlot, !.cur = r.file, !.iput = "user"]
  <2>1. pc[p] = "close" /\ pc'[p] = "iput" /\ reg'[p] = n
    BY <1>0, <1>2 DEF At, Close, CallIput, Goto
  <2>2. Calm("close", r, "iput", n) /\ Idles("close", r, "iput", n)
    BY <1>0, <2>1 DEF At, Reg, Calm, Idles, Errs, Making, Absent, Parting
  <2> QED BY <2>1, <2>2 DEF Still
<1>3. CASE UpdatePut(p)
  <2> DEFINE n == [r EXCEPT !.cur = r.cur, !.iput = "sync"]
  <2>1. pc[p] = "syncput" /\ pc'[p] = "iput" /\ reg'[p] = n
    BY <1>0, <1>3 DEF At, UpdatePut, CallIput, Goto
  <2>2. Calm("syncput", r, "iput", n) /\ Idles("syncput", r, "iput", n)
    BY <1>0, <2>1 DEF At, Reg, Calm, Idles, Errs, Making, Absent, Parting
  <2> QED BY <2>1, <2>2 DEF Still
<1>4. CASE UpdateEnd(p)
  <2> DEFINE n == Idle(r.file, r.wfile)
  <2>1. pc[p] = "sync" /\ pc'[p] = "user" /\ reg'[p] = n
    BY <1>0, <1>4 DEF At, UpdateEnd, Return, Goto
  <2>2. Calm("sync", r, "user", n) /\ Idles("sync", r, "user", n)
    <3>1. ~Making("sync", r)
      BY <1>0, <2>1 DEF At, Reg, Making
    <3> QED BY <3>1, IdleStill, Zenon
  <2> QED BY <2>1, <2>2 DEF Still
<1> QED BY <1>1, <1>2, <1>3, <1>4

(* Where an inode is given up or taken no error is forgotten;              *)
LEMMA InodeQuiet ==
    ASSUME IndInv, NEW p \in Proc,
           IputLast(p) \/ IputRemoved(p) \/ IputDealloc(p) \/ IallocTake(p)
    PROVE  Quiet(p)
<1> USE DEF Placed, Returns, Keeps, Handles, Home, InGet, AfterPut, InPut, AfterUpdate,
            Allocating
<1> DEFINE r == reg[p]
<1>0. At(p) /\ r \in Reg
  BY AtPlace DEF At
<1>1. CASE IputLast(p)
  <2> DEFINE n == r
  <2>1. pc[p] = "iput" /\ pc'[p] = "idle" /\ reg'[p] = n
    BY <1>0, <1>1 DEF At, IputLast, Goto
  <2>2. Calm("iput", r, "idle", n)
    BY <1>0, <2>1 DEF At, Reg, Calm, Errs
  <2> QED BY <2>1, <2>2 DEF Quiet
<1>2. CASE IputRemoved(p)
  <2>1. CASE i_mode[r.cur] = "reg"
    <3> DEFINE n == [r EXCEPT !.iupdat = "dealloc"]
    <3>1. pc[p] = "iput" /\ pc'[p] = "iupdat" /\ reg'[p] = n
      BY <1>0, <1>2, <2>1 DEF At, IputRemoved, CallIupdat, Pause, Goto
    <3>2. Calm("iput", r, "iupdat", n)
      BY <1>0, <3>1 DEF At, Reg, Calm, Errs
    <3> QED BY <3>1, <3>2 DEF Quiet
  <2>2. CASE i_mode[r.cur] # "reg"
    <3> DEFINE n == r
    <3>1. pc[p] = "iput" /\ pc'[p] = "dealloc" /\ reg'[p] = n
      BY <1>0, <1>2, <2>2 DEF At, IputRemoved, CallIupdat, Pause, Goto
    <3>2. Calm("iput", r, "dealloc", n)
      BY <1>0, <3>1 DEF At, Reg, Calm, Errs
    <3> QED BY <3>1, <3>2 DEF Quiet
  <2> QED BY <2>1, <2>2
<1>3. CASE IputDealloc(p)
  <2> DEFINE n == r
  <2>1. pc[p] = "dealloc" /\ pc'[p] = "idle" /\ reg'[p] = n
    BY <1>0, <1>3 DEF At, IputDealloc, Goto
  <2>2. Calm("dealloc", r, "idle", n)
    BY <1>0, <2>1 DEF At, Reg, Calm, Errs
  <2> QED BY <2>1, <2>2 DEF Quiet
<1>4. CASE IallocTake(p)
  <2>0. r.res # NoSlot
    BY <1>4 DEF IallocTake
  <2> DEFINE n == [r EXCEPT !.ip = r.res, !.res = NoSlot, !.iupdat = "made"]
  <2>1. pc[p] = "new" /\ pc'[p] = "iupdat" /\ reg'[p] = n
    BY <1>0, <1>4, <2>0 DEF At, IallocTake, CallIupdat, Pause
  <2>2. Calm("new", r, "iupdat", n)
    BY <1>0, <2>1, <2>0 DEF At, Reg, Calm, Errs
  <2> QED BY <2>1, <2>2 DEF Quiet
<1> QED BY <1>1, <1>2, <1>3, <1>4

(* nor where an entry is looked for, made or removed,                      *)
LEMMA NameQuiet ==
    ASSUME IndInv, NEW p \in Proc,
           NameiVictim(p) \/ NameiNew(p) \/ Wdir(p) \/ Unlink(p) \/ UnlinkClear(p) \/
           UnlinkCount(p)
    PROVE  Quiet(p)
<1> USE DEF Placed, Returns, Keeps, Handles, Home, InGet, AfterPut, InPut, AfterUpdate,
            Allocating
<1> DEFINE r == reg[p]
<1>0. At(p) /\ r \in Reg
  BY AtPlace DEF At
<1>1. CASE NameiVictim(p)
  <2> DEFINE n == [r EXCEPT !.ino = Entry(p), !.iget = "victim"]
  <2>1. pc[p] = "search" /\ pc'[p] = "iget" /\ reg'[p] = n
    BY <1>0, <1>1 DEF At, NameiVictim, Goto
  <2>2. Calm("search", r, "iget", n)
    BY <1>0, <2>1 DEF At, Reg, Calm, Errs
  <2> QED BY <2>1, <2>2 DEF Quiet
<1>2. CASE NameiNew(p)
  <2>1. CASE r.second
    <3> DEFINE n == r
    <3>1. pc[p] = "search" /\ pc'[p] = "wdir" /\ reg'[p] = n
      BY <1>0, <1>2, <2>1 DEF At, NameiNew, Pause
    <3>2. Calm("search", r, "wdir", n)
      BY <1>0, <3>1 DEF At, Reg, Calm, Errs
    <3> QED BY <3>1, <3>2 DEF Quiet
  <2>2. CASE ~r.second
    <3> DEFINE n == r
    <3>1. pc[p] = "search" /\ pc'[p] = "ialloc" /\ reg'[p] = n
      BY <1>0, <1>2, <2>2 DEF At, NameiNew, Pause
    <3>2. Calm("search", r, "ialloc", n)
      BY <1>0, <3>1 DEF At, Reg, Calm, Errs
    <3> QED BY <3>1, <3>2 DEF Quiet
  <2> QED BY <2>1, <2>2
<1>3. CASE Wdir(p)
  <2>0. WdirThen(p) \in {"relock", "created"}
    BY <1>3 DEF WdirThen
  <2> DEFINE n == [r EXCEPT !.dp = NoSlot, !.cur = r.dp, !.iput = WdirThen(p)]
  <2>1. pc[p] = "wdir" /\ pc'[p] = "iput" /\ reg'[p] = n
    BY <1>0, <1>3, <2>0 DEF At, Wdir, CallIput, Goto
  <2>2. Calm("wdir", r, "iput", n)
    BY <1>0, <2>1, <2>0 DEF At, Reg, Calm, Errs
  <2> QED BY <2>1, <2>2 DEF Quiet
<1>4. CASE Unlink(p)
  <2>0. r.res # NoSlot
    BY <1>4 DEF Unlink
  <2> DEFINE n == [r EXCEPT !.ip = r.res, !.res = NoSlot]
  <2>1. pc[p] = "victim" /\ pc'[p] = "clear" /\ reg'[p] = n
    BY <1>0, <1>4, <2>0 DEF At, Unlink, Pause
  <2>2. Calm("victim", r, "clear", n)
    BY <1>0, <2>1, <2>0 DEF At, Reg, Calm, Errs
  <2> QED BY <2>1, <2>2 DEF Quiet
<1>5. CASE UnlinkClear(p)
  <2> DEFINE n == r
  <2>1. pc[p] = "clear" /\ pc'[p] = "cleared" /\ reg'[p] = n
    BY <1>0, <1>5 DEF At, UnlinkClear, Pause
  <2>2. Calm("clear", r, "cleared", n)
    BY <1>0, <2>1 DEF At, Reg, Calm, Errs
  <2> QED BY <2>1, <2>2 DEF Quiet
<1>6. CASE UnlinkCount(p)
  <2> DEFINE n == [r EXCEPT !.ip = NoSlot, !.cur = r.ip, !.iput = "parent"]
  <2>1. pc[p] = "cleared" /\ pc'[p] = "iput" /\ reg'[p] = n
    BY <1>0, <1>6 DEF At, UnlinkCount, CallIput, Goto
  <2>2. Calm("cleared", r, "iput", n)
    BY <1>0, <2>1 DEF At, Reg, Calm, Errs
  <2> QED BY <2>1, <2>2 DEF Quiet
<1> QED BY <1>1, <1>2, <1>3, <1>4, <1>5, <1>6

(* nor where a link is counted.                                            *)
LEMMA LinkQuiet ==
    ASSUME IndInv, NEW p \in Proc,
           LinkCounted(p) \/ Linked(p) \/ LinkExists(p) \/ Relock(p)
    PROVE  Quiet(p)
<1> USE DEF Placed, Returns, Keeps, Handles, Home, InGet, AfterPut, InPut, AfterUpdate,
            Allocating
<1> DEFINE r == reg[p]
<1>0. At(p) /\ r \in Reg
  BY AtPlace DEF At
<1>1. CASE LinkCounted(p)
  <2>0. r.res # NoSlot
    BY <1>1 DEF LinkCounted
  <2> DEFINE n == [r EXCEPT !.ip = r.res, !.res = NoSlot, !.iupdat = "linked"]
  <2>1. pc[p] = "file" /\ pc'[p] = "iupdat" /\ reg'[p] = n
    BY <1>0, <1>1, <2>0 DEF At, LinkCounted, CallIupdat, Pause
  <2>2. Calm("file", r, "iupdat", n)
    BY <1>0, <2>1, <2>0 DEF At, Reg, Calm, Errs
  <2> QED BY <2>1, <2>2 DEF Quiet
<1>2. CASE Linked(p)
  <2> DEFINE n == [r EXCEPT !.ref = r.ip, !.ip = NoSlot, !.name = r.call.new,
                            !.second = TRUE, !.ino = ROOTINO, !.iget = "dir"]
  <2>1. pc[p] = "linked" /\ pc'[p] = "iget" /\ reg'[p] = n
    BY <1>0, <1>2 DEF At, Linked, CallNamei, Goto
  <2>2. Calm("linked", r, "iget", n)
    BY <1>0, <2>1 DEF At, Reg, Calm, Errs
  <2> QED BY <2>1, <2>2 DEF Quiet
<1>3. CASE LinkExists(p)
  <2>1. CASE r.res = NoSlot
    <3> DEFINE n == r
    <3>1. pc[p] = "exists" /\ pc'[p] = "relock" /\ reg'[p] = n
      BY <1>0, <1>3, <2>1 DEF At, LinkExists, CallIput, Goto
    <3>2. Calm("exists", r, "relock", n)
      BY <1>0, <3>1 DEF At, Reg, Calm, Errs
    <3> QED BY <3>1, <3>2 DEF Quiet
  <2>2. CASE r.res # NoSlot
    <3> DEFINE n == [r EXCEPT !.res = NoSlot, !.error = TRUE, !.cur = r.res, !.iput = "relock"]
    <3>1. pc[p] = "exists" /\ pc'[p] = "iput" /\ reg'[p] = n
      BY <1>0, <1>3, <2>2 DEF At, LinkExists, CallIput, Goto
    <3>2. Calm("exists", r, "iput", n)
      BY <1>0, <3>1 DEF At, Reg, Calm, Errs
    <3> QED BY <3>1, <3>2 DEF Quiet
  <2> QED BY <2>1, <2>2
<1>4. CASE Relock(p)
  <2> DEFINE n == [r EXCEPT !.ref = NoSlot, !.cur = r.ref, !.iput = "user"]
  <2>1. pc[p] = "relock" /\ pc'[p] = "iput" /\ reg'[p] = n
    BY <1>0, <1>4 DEF At, Relock, CallIput, Goto
  <2>2. Calm("relock", r, "iput", n)
    BY <1>0, <2>1 DEF At, Reg, Calm, Errs
  <2> QED BY <2>1, <2>2 DEF Quiet
<1> QED BY <1>1, <1>2, <1>3, <1>4

(* What a search of the i-list does is still:                              *)
LEMMA SearchStill ==
    ASSUME IndInv, NEW p \in Proc, NEW x \in Nat, NEW l \in {"scan", "scanned"},
           NEW e \in BOOLEAN, Searches(p, x, l, e), e => reg[p].error
    PROVE  Still(p)
<1> USE DEF Placed, Returns, Keeps, Handles, Home, InGet, AfterPut, InPut, AfterUpdate,
            Allocating
<1> DEFINE r == reg[p]
           n == [r EXCEPT !.scan = x, !.error = e]
<1>0. At(p) /\ r \in Reg
  BY AtPlace DEF At
<1>1. pc[p] \in {"ialloc", "scan"} /\ pc'[p] = l /\ reg'[p] = n
  BY <1>0 DEF At, Searches
<1>2. Calm(pc[p], r, l, n) /\ Idles(pc[p], r, l, n)
  BY <1>0, <1>1 DEF At, Reg, Calm, Idles, Errs, Making, Absent, Parting
<1> QED BY <1>1, <1>2 DEF Still

(* it reads blocks and notes numbers.                                      *)
LEMMA ScanStill ==
    ASSUME IndInv, NEW p \in Proc, IallocScan(p)
    PROVE  Still(p)
<1> DEFINE r == reg[p]
<1>0. At(p)
  BY AtPlace
<1>1. r \in Reg /\ r.scan \in Nat
  BY <1>0 DEF At, Reg
<1>2. PICK left : IallocNextBlock(p, left, FALSE)
  BY DEF IallocScan
<1> DEFINE x == r.scan + INOPB
           l == IF left > 0 /\ x <= NIno THEN "scan" ELSE "scanned"
<1>3. x \in Nat
  BY <1>1, ConstantAssumption
<1>4. reg' = [reg EXCEPT ![p] = [r EXCEPT !.scan = x, !.error = FALSE]]
  BY <1>0, <1>2 DEF IallocNextBlock, At
<1>5. /\ pc' = [pc EXCEPT ![p] = l] /\ cpu' \in Proc \cup {NoProc}
      /\ l \in {"scan", "scanned"}
  BY <1>2 DEF IallocNextBlock, Goto, Pause
<1>6. Searches(p, x, l, FALSE)
  BY <1>4, <1>5 DEF Searches, IallocScan
<1> HIDE DEF x, l
<1> QED BY <1>3, <1>5, <1>6, SearchStill

(* So is the beginning of a call                                           *)
LEMMA EnterStill ==
    ASSUME IndInv, NEW p \in Proc, EnterStep(p)
    PROVE  Still(p)
<1> USE DEF Placed, Returns, Keeps, Handles, Home, InGet, AfterPut, InPut, AfterUpdate,
            Allocating
<1> DEFINE r == reg[p]
<1>0. At(p) /\ r \in Reg
  BY AtPlace DEF At
<1>1. CASE EnterNamei(p)
  <2>1. PICK c \in Calls : CallNamei(p, [r EXCEPT !.call = c, !.name = c.name, !.second = FALSE,
                                                  !.error = FALSE])
    BY <1>1, Zenon DEF EnterNamei
  <2> DEFINE n == [r EXCEPT !.call = c, !.name = c.name, !.second = FALSE, !.error = FALSE,
                            !.ino = ROOTINO, !.iget = "dir"]
  <2>2. pc[p] = "user" /\ pc'[p] = "iget" /\ reg'[p] = n
    BY <1>0, <1>1, <2>1 DEF At, EnterNamei, CallNamei, Goto
  <2>3. Calm("user", r, "iget", n) /\ Idles("user", r, "iget", n)
    BY <1>0, <2>2 DEF At, Reg, Calm, Idles, Errs, Making, Absent, Parting
  <2> QED BY <2>2, <2>3 DEF Still
<1>2. CASE EnterPipe(p)
  <2>1. PICK c \in Calls : c.op = "pipe" /\ reg' = [reg EXCEPT ![p].call = c]
    BY <1>2, Zenon DEF EnterPipe
  <2> DEFINE n == [r EXCEPT !.call = c]
  <2>2. pc[p] = "user" /\ pc'[p] = "ialloc" /\ reg'[p] = n
    BY <1>0, <1>2, <2>1 DEF At, EnterPipe, Goto
  <2>3. Calm("user", r, "ialloc", n) /\ Idles("user", r, "ialloc", n)
    BY <1>0, <2>1, <2>2 DEF At, Reg, Calm, Idles, Errs, Making, Absent, Parting
  <2> QED BY <2>2, <2>3 DEF Still
<1>3. CASE EnterUpdate(p)
  <2>1. PICK c \in Calls : reg' = [reg EXCEPT ![p].call = c, ![p].scan = 1]
    BY <1>3, Zenon DEF EnterUpdate
  <2> DEFINE n == [r EXCEPT !.call = c, !.scan = 1]
  <2>2. pc[p] = "user" /\ pc'[p] = "sync" /\ reg'[p] = n
    BY <1>0, <1>3, <2>1 DEF At, EnterUpdate, Pause
  <2>3. Calm("user", r, "sync", n) /\ Idles("user", r, "sync", n)
    BY <1>0, <2>2 DEF At, Reg, Calm, Idles, Errs, Making, Absent, Parting
  <2> QED BY <2>2, <2>3 DEF Still
<1>4. CASE EnterClose(p)
  <2>1. PICK c \in Calls :
            \/ reg' = [reg EXCEPT ![p] = [r EXCEPT !.call = c]]
            \/ reg' = [reg EXCEPT ![p] = [r EXCEPT !.call = c, !.file = r.wfile, !.wfile = r.file]]
    BY <1>4, Zenon DEF EnterClose
  <2>2. pc[p] = "user" /\ pc'[p] = "close"
    BY <1>0, <1>4, <2>1 DEF At, EnterClose, Goto
  <2> DEFINE n1 == [r EXCEPT !.call = c]
             n2 == [r EXCEPT !.call = c, !.file = r.wfile, !.wfile = r.file]
  <2>5. reg'[p] = n1 \/ reg'[p] = n2
    BY <1>0, <2>1 DEF At
  <2>6. n1.error = r.error /\ n2.error = r.error
    BY <1>0 DEF Reg
  <2> HIDE DEF n1, n2
  <2>3. reg'[p].error = r.error
    BY <2>5, <2>6
  <2>4. Calm("user", r, "close", reg'[p]) /\ Idles("user", r, "close", reg'[p])
    BY <2>3 DEF Calm, Idles, Errs, Making, Absent, Parting
  <2> QED BY <2>2, <2>4 DEF Still
<1> QED BY <1>1, <1>2, <1>3, <1>4 DEF EnterStep

(* and the next inode of update().                                         *)
LEMMA UpdateStill ==
    ASSUME IndInv, NEW p \in Proc, UpdateInode(p)
    PROVE  Still(p)
<1> USE DEF Placed, Returns, Keeps, Handles, Home, InGet, AfterPut, InPut, AfterUpdate,
            Allocating
<1> DEFINE r == reg[p]
<1>0. At(p) /\ r \in Reg
  BY AtPlace DEF At
<1>1. PICK s \in Unwritten(p) : CallIupdat(p, [r EXCEPT !.cur = s, !.scan = s + 1], "syncput")
  BY Zenon DEF UpdateInode
<1> DEFINE n == [r EXCEPT !.cur = s, !.scan = s + 1, !.iupdat = "syncput"]
<1>2. pc[p] = "sync" /\ pc'[p] = "iupdat" /\ reg'[p] = n
  BY <1>0, <1>1 DEF At, UpdateInode, CallIupdat, Pause
<1>3. n.error = r.error /\ n.iupdat = "syncput"
  BY <1>0 DEF Reg
<1> HIDE DEF n
<1>4. Calm("sync", r, "iupdat", n) /\ Idles("sync", r, "iupdat", n)
  BY <1>3 DEF Calm, Idles, Errs, Making, Absent, Parting
<1> QED BY <1>2, <1>4 DEF Still

(* Nor is an error in the way of iget() *)
LEMMA GetQuiet ==
    ASSUME IndInv, NEW p \in Proc, NEW s, pc[p] \in {"iget", "iread"}, IgetReturn(p, s),
           Errs(pc[p], reg[p])
    PROVE  /\ Errs(pc'[p], reg'[p]) /\ ~reg'[p].error
           /\ pc'[p] = reg[p].iget
           /\ reg'[p].res = s /\ reg'[p].ip = reg[p].ip /\ reg'[p].cur = reg[p].cur
           /\ reg'[p].name = reg[p].name /\ reg'[p].call = reg[p].call
           /\ reg'[p].second = reg[p].second
           /\ pc'[p] \in {"dir", "file", "exists", "victim", "new"}
<1> USE DEF Placed, Returns, Keeps, Handles, Home, InGet, AfterPut, InPut, AfterUpdate,
            Allocating
<1> DEFINE r == reg[p]
           n == [r EXCEPT !.res = s, !.ino = NoIno, !.iget = "user"]
<1>0. At(p) /\ r \in Reg
  BY AtPlace DEF At
<1>1. r.iget \in {"dir", "file", "exists", "victim", "new"} /\ ~r.error
  BY <1>0 DEF At, Errs
<1>2. pc'[p] = r.iget /\ reg'[p] = n
  BY <1>0, <1>1 DEF At, IgetReturn, Return, Goto
<1>3. /\ n.error = r.error /\ n.res = s /\ n.ip = r.ip /\ n.cur = r.cur
      /\ n.name = r.name /\ n.call = r.call /\ n.second = r.second
  BY <1>0 DEF Reg
<1> HIDE DEF n
<1>4. Errs(r.iget, n)
  BY <1>1, <1>3 DEF Errs
<1> QED BY <1>1, <1>2, <1>3, <1>4

(* A slot with a new inode is read by a process without an error;          *)
LEMMA AssignQuiet ==
    ASSUME IndInv, NEW p \in Proc, IgetAssign(p), Errs(pc[p], reg[p])
    PROVE  /\ Errs(pc'[p], reg'[p]) /\ pc'[p] = "iread" /\ pc[p] = "iget"
           /\ reg'[p] = [reg[p] EXCEPT !.res = Head(ifreelist)]
<1> USE DEF Placed, Returns, Keeps, Handles, Home, InGet, AfterPut, InPut, AfterUpdate,
            Allocating
<1> DEFINE r == reg[p]
           n == [r EXCEPT !.res = Head(ifreelist)]
<1>0. At(p) /\ r \in Reg
  BY AtPlace DEF At
<1>1. pc[p] = "iget" /\ pc'[p] = "iread" /\ reg'[p] = n
  BY <1>0 DEF At, IgetAssign, Iget, Pause
<1>2. ~r.error
  BY <1>1 DEF Errs
<1>3. n.error = r.error
  BY <1>0 DEF Reg
<1> HIDE DEF n
<1>4. Errs("iread", n)
  BY <1>2, <1>3 DEF Errs
<1> QED BY <1>1, <1>4 DEF n

(* iupdat() returns with the errors there were,                            *)
LEMMA UpdateQuiet ==
    ASSUME IndInv, NEW p \in Proc, pc[p] \in {"iupdat", "isync"}, IupdatReturn(p)
    PROVE  /\ Errs(pc[p], reg[p]) => Errs(pc'[p], reg'[p])
           /\ Idles(pc[p], reg[p], pc'[p], reg'[p])
           /\ pc'[p] = reg[p].iupdat /\ reg'[p] = [reg[p] EXCEPT !.iupdat = "user"]
           /\ pc'[p] \in {"dealloc", "release", "made", "again", "opened", "linked", "syncput"}
<1> USE DEF Placed, Returns, Keeps, Handles, Home, InGet, AfterPut, InPut, AfterUpdate,
            Allocating
<1> DEFINE r == reg[p]
           n == [r EXCEPT !.iupdat = "user"]
<1>0. At(p) /\ r \in Reg
  BY AtPlace DEF At
<1>1. r.iupdat \in {"dealloc", "release", "made", "again", "opened", "linked", "syncput"}
  BY <1>0 DEF At
<1>2. pc'[p] = r.iupdat /\ reg'[p] = n
  BY <1>0, <1>1 DEF At, IupdatReturn, Return, Goto
<1>3. /\ n.error = r.error /\ n.res = r.res /\ n.call = r.call /\ n.second = r.second
      /\ n.ip = r.ip /\ n.ino = r.ino /\ n.name = r.name /\ n.iget = r.iget
      /\ n.cur = r.cur /\ n.iput = r.iput
  BY <1>0 DEF Reg
<1> HIDE DEF n
<1>4. /\ AfterUpdate(r.iupdat, n) = AfterUpdate(pc[p], r)
      /\ Home(r.iupdat, n) = Home(pc[p], r) /\ (InGet(r.iupdat, n) <=> InGet(pc[p], r))
      /\ (InPut(r.iupdat, n) <=> InPut(pc[p], r))
      /\ (Parting(r.iupdat, n) <=> Parting(pc[p], r))
  BY <1>1, <1>3 DEF Parting
<1>5. Errs(pc[p], r) => Errs(r.iupdat, n)
  BY <1>1, <1>3, <1>4 DEF Errs
<1>6. Idles(pc[p], r, r.iupdat, n)
  BY <1>3, <1>4 DEF Idles, Making, Absent
<1> QED BY <1>1, <1>2, <1>5, <1>6 DEF n

(* and so it waits for its write.                                          *)
LEMMA SyncQuiet ==
    ASSUME NEW r, Errs("iupdat", r)
    PROVE  Errs("isync", r)
BY DEF Errs, Home, InGet, AfterPut, InPut, AfterUpdate

(* Every step of process p leaves the registers of the others alone. *)
LEMMA ActsSettle ==
    ASSUME IndInv, NEW p \in Proc, Acts(p)
    PROVE  Settles(p)
<1>1. CASE EnterStep(p)
  BY <1>1, EnterMoves DEF Moves
<1>2. CASE IgetStep(p)
  <2>1. CASE IgetFound(p)
    <3>1. PICK s \in Hashed(reg[p].ino) : IgetReturn(p, s)
      BY <2>1, Zenon DEF IgetFound
    <3>2. pc[p] = "iget" /\ s \in Slot
      BY <2>1 DEF IgetFound, Iget, Hashed
    <3> QED BY <3>1, <3>2, IgetReturnShifts
  <2>2. CASE IgetAssign(p)
    BY <2>2, IgetAssignShifts
  <2> QED BY <1>2, <2>1, <2>2, IgetMoves DEF IgetStep, Moves
<1>3. CASE IputStep(p)
  <2>1. CASE IputMore(p) \/ IputRelease(p)
    <3>1. pc[p] \in {"iput", "idle", "release"} /\ IputReturn(p)
      BY <2>1 DEF IputMore, IputRelease
    <3> QED BY <3>1, IputReturnShifts
  <2> QED BY <1>3, <2>1, IputMoves, IputStarts DEF IputStep, Moves
<1>4. CASE IallocStep(p)
  BY <1>4, IallocMoves, IallocScanMoves DEF IallocStep, Moves
<1>5. CASE NameiStep(p)
  BY <1>5, NameiMoves, NameiFoundMoves DEF NameiStep, Moves
<1>6. CASE OpenStep(p)
  BY <1>6, OpenMoves, PipeMadeShifts DEF OpenStep, Moves
<1>7. CASE LinkStep(p)
  BY <1>7, LinkMoves DEF LinkStep, Moves
<1>8. CASE CloseStep(p)
  <2>1. CASE UpdateInode(p)
    <3>1. PICK s \in Unwritten(p) :
              CallIupdat(p, [reg[p] EXCEPT !.cur = s, !.scan = s + 1], "syncput")
      BY <2>1, Zenon DEF UpdateInode
    <3>2. s \in Slot /\ s >= reg[p].scan /\ pc[p] = "sync"
      BY <2>1 DEF Unwritten, UpdateInode
    <3> QED BY <3>1, <3>2, UpdateInodeShifts, Zenon
  <2> QED BY <1>8, <2>1, CloseMoves DEF CloseStep, Moves
<1> QED BY <1>1, <1>2, <1>3, <1>4, <1>5, <1>6, <1>7, <1>8 DEF Acts

-----------------------------------------------------------------------------
(* An inode that is being read into its slot, and one that is the same in  *)
(* core and on the device.                                                 *)
Reading(s) == \E p \in Proc : pc[p] = "iread" /\ reg[p].res = s
SameAs(s) == i_mode[s] = di_mode[i_number[s]] /\ i_nlink[s] = di_nlink[i_number[s]]

(* An inode without a mark is the same on the device, from iget() on and   *)
(* until its slot is given to another one; its writer keeps it that way.   *)
FreshAt(s) == i_number[s] \in Ino /\ "IUPD" \notin i_flag[s] /\ ~Reading(s) => SameAs(s)

StageAt(p) ==
    /\ pc[p] = "iread" => i_number[reg[p].res] = reg[p].ino
    /\ pc[p] = "isync" /\ i_number[Target(p)] \in Ino => SameAs(Target(p))
    /\ pc[p] = "release" => "IUPD" \notin i_flag[reg[p].cur]

(* The invariant of Coherent. *)
Coherence == /\ \A p \in Proc : Errs(pc[p], reg[p]) /\ StageAt(p)
             /\ \A s \in Slot : FreshAt(s)

(* A step of process p changes the inode of slot s only, which nobody else *)
(* has locked.                                                             *)
Like(t) == /\ i_number'[t] = i_number[t] /\ i_mode'[t] = i_mode[t] /\ i_nlink'[t] = i_nlink[t]
           /\ "IUPD" \in i_flag'[t] <=> "IUPD" \in i_flag[t]

Apart(p, s) ==
    /\ \A t \in Slot \ {s} : Like(t)
    /\ \A i \in Ino : s \notin Slot \/ i # i_number[s] =>
           di_mode'[i] = di_mode[i] /\ di_nlink'[i] = di_nlink[i]
    /\ \A q \in Proc \ {p} : s \in Slot => HeldIn(reg[q], s) = 0

(* It keeps the rest coherent.                                             *)
LEMMA CoherenceKept ==
    ASSUME IndInv, LockInv, Coherence, NEW p \in Proc, NEW s, Acts(p), Apart(p, s),
           pc[p] = "iread" => reg[p].res = s,
           Errs(pc'[p], reg'[p]), StageAt(p)', s \in Slot => FreshAt(s)'
    PROVE  Coherence'
<1>0. Settles(p)
  BY ActsSettle
<1>1. \A q \in Proc \ {p} : pc'[q] = pc[q] /\ reg'[q] = reg[q]
  BY <1>0, OthersStay
<1>2. ASSUME NEW t \in Slot \ {s}, i_number[t] \in Ino, SameAs(t)
      PROVE  SameAs(t)'
  <2>1. Like(t)
    BY <1>2 DEF Apart
  <2>2. s \notin Slot \/ i_number[t] # i_number[s]
    BY <1>2 DEF IndInv, OneSlotPerInode, NoIno, Ino, ROOTINO
  <2>3. /\ di_mode'[i_number[t]] = di_mode[i_number[t]]
        /\ di_nlink'[i_number[t]] = di_nlink[i_number[t]]
    BY <1>2, <2>2 DEF Apart
  <2> QED BY <1>2, <2>1, <2>3 DEF SameAs, Like
<1>3. ASSUME NEW t \in Slot, t # s PROVE FreshAt(t)'
  <2>1. Like(t) /\ FreshAt(t)
    BY <1>3 DEF Apart, Coherence
  <2>2. Reading(t) => Reading(t)'
    BY <1>1, <1>3 DEF Reading
  <2> QED BY <1>2, <1>3, <2>1, <2>2 DEF FreshAt, Like
<1>4. ASSUME NEW q \in Proc \ {p} PROVE Errs(pc'[q], reg'[q]) /\ StageAt(q)'
  <2>0. At(q) /\ Errs(pc[q], reg[q]) /\ StageAt(q) /\ pc'[q] = pc[q] /\ reg'[q] = reg[q]
    BY <1>1, AtPlace DEF Coherence
  <2>1. \A t \in Slot : HeldIn(reg[q], t) # 0 => t # s
    BY DEF Apart
  <2>2. \A t \in Slot : HeldIn(reg[q], t) # 0 => Like(t)
    BY <2>1 DEF Apart
  <2>3. ASSUME pc[q] = "iread" PROVE i_number'[reg[q].res] = reg[q].ino
    <3>1. reg[q].res \in Slot /\ HeldIn(reg[q], reg[q].res) # 0
      BY <2>0, <2>3 DEF At, Placed, Handles, Reg, HeldIn, One
    <3> QED BY <2>0, <2>2, <2>3, <3>1 DEF StageAt, Like
  <2>4. ASSUME pc[q] = "isync", i_number'[Target(q)] \in Ino PROVE SameAs(Target(q))'
    <3>1. Target(q) \in Slot /\ HeldIn(reg[q], Target(q)) # 0
      BY <2>4, TargetUsed, HeldType DEF Target
    <3>2. Target(q)' = Target(q)
      BY <2>0 DEF Target
    <3>3. Target(q) # s /\ Like(Target(q))
      BY <2>1, <2>2, <3>1
    <3>4. SameAs(Target(q))
      BY <2>0, <2>4, <3>3 DEF StageAt, Like
    <3>5. \A t \in Slot : t = Target(q) => SameAs(t)'
      BY <1>2, <2>4, <3>1, <3>3, <3>4 DEF Like
    <3> QED BY <3>1, <3>2, <3>5
  <2>5. ASSUME pc[q] = "release" PROVE "IUPD" \notin i_flag'[reg[q].cur]
    <3>1. reg[q].cur \in Slot /\ HeldIn(reg[q], reg[q].cur) # 0
      BY <2>5, <2>0, HeldType DEF At, Placed, Handles, Reg, InPut, AfterUpdate
    <3> QED BY <2>0, <2>2, <2>5, <3>1 DEF StageAt, Like
  <2>6. Target(q)' = Target(q)
    BY <2>0 DEF Target
  <2> QED BY <2>0, <2>3, <2>4, <2>5, <2>6 DEF StageAt
<1> QED BY <1>3, <1>4 DEF Coherence

(* The steps that change no inode and no entry. *)
TablesStay == UNCHANGED <<i_number, i_mode, i_nlink, di_mode, di_nlink, d_ino>>

(* All other steps leave the inodes and the entries alone;                 *)
LEMMA TablesKept ==
    ASSUME NEW p \in Proc, Acts(p), ~IgetAssign(p), ~Iread(p), ~Iupdat(p), ~IputDealloc(p),
           ~IallocTake(p), ~Wdir(p), ~LinkCounted(p), ~Relock(p), ~UnlinkClear(p),
           ~UnlinkCount(p)
    PROVE  TablesStay
<1> USE DEF TablesStay, fsVars, slotVars, diskVars
<1>1. CASE EnterStep(p) \/ NameiStep(p)
  BY <1>1, Zenon DEF EnterStep, EnterNamei, EnterPipe, EnterUpdate, EnterClose, NameiStep,
     NameiDir, NameiError, NameiFails, NameiFound, NameiVictim, NameiNew
<1>2. CASE IgetStep(p)
  BY <1>2, Zenon DEF IgetStep, IgetLocked, IgetFound, IgetOverflow, IreadError
<1>3. CASE IputStep(p)
  BY <1>3, Zenon DEF IputStep, IupdatError, IupdatWritten, IputMore, IputLast, IputRemoved,
                     IputUpdate, IputRelease
<1>4. CASE IallocStep(p)
  BY <1>4, Zenon DEF IallocStep, IallocWait, IallocPop, IallocSearch, IallocScan,
                     IallocScanError, IallocFilled, IallocNone, IallocFails, IallocUsed,
                     IallocAgain
<1>5. CASE OpenStep(p)
  BY <1>5, Zenon DEF OpenStep, FileNone, FileRefused, FileOpen, Opened, DeviceOpened,
                     DeviceRefused, DeviceInterrupted, PipeMade, PipeRefused, WdirFails,
                     Made, Created, CreatedRefused
<1>6. CASE LinkStep(p)
  BY <1>6, Zenon DEF LinkStep, Linked, LinkExists, RelockWait, UnlinkNone,
                     Unlink, UnlinkRefused, UnlinkParent
<1>7. CASE CloseStep(p)
  BY <1>7, Zenon DEF CloseStep, CloseWait, Close, CloseDevice, DeviceClosed, UpdateInode,
                     UpdatePut, UpdateEnd
<1> QED BY <1>1, <1>2, <1>3, <1>4, <1>5, <1>6, <1>7 DEF Acts

(* Those that mark no inode, and take no mark away.                        *)
MarksStay == \A t \in Slot : "IUPD" \in i_flag'[t] <=> "IUPD" \in i_flag[t]

(* those that set or clear other flags keep the marks,                     *)
LEMMA MarkStays ==
    ASSUME IndInv, NEW x, NEW f, i_flag' = [i_flag EXCEPT ![x] = f],
           "IUPD" \in f <=> "IUPD" \in i_flag[x]
    PROVE  MarksStay
BY DEF MarksStay, IndInv, OneSlotPerInode, TypeOK

(* prele() for one,                                                        *)
LEMMA PreleMarks ==
    ASSUME IndInv, NEW x, Prele(x, i_flag[x])
    PROVE  MarksStay
<1>1. i_flag' = [i_flag EXCEPT ![x] = i_flag[x] \ {"ILOCK", "IWANT"}]
  BY DEF Prele
<1> QED BY <1>1, MarkStays

(* and these are the steps that change a mark.                             *)
LEMMA MarksKeptBy ==
    ASSUME IndInv, NEW p \in Proc, Acts(p), ~IgetAssign(p), ~Iupdat(p), ~IupdatWritten(p),
           ~IputRemoved(p), ~IputDealloc(p), ~IputRelease(p), ~IallocTake(p), ~FileOpen(p),
           ~Wdir(p), ~WdirFails(p), ~LinkCounted(p), ~Relock(p), ~UnlinkClear(p),
           ~UnlinkCount(p)
    PROVE  MarksStay
<1> USE DEF fsVars, slotVars
<1>0. UNCHANGED i_flag => MarksStay
  BY DEF MarksStay
<1>1. CASE EnterStep(p) \/ NameiStep(p)
  <2>1. UNCHANGED i_flag
    BY <1>1, Zenon DEF EnterStep, EnterNamei, EnterPipe, EnterUpdate, EnterClose, NameiStep,
       NameiDir, NameiError, NameiFails, NameiFound, NameiVictim, NameiNew
  <2> QED BY <1>0, <2>1
<1>2. CASE IgetStep(p)
  <2>1. CASE IgetLocked(p) \/ IgetFound(p)
    <3>1. \/ \E s : i_flag' = [i_flag EXCEPT ![s] = @ \cup {"IWANT"}]
          \/ \E s : i_flag' = [i_flag EXCEPT ![s] = @ \cup {"ILOCK"}]
      BY <2>1, Zenon DEF IgetLocked, AwaitLock, IgetFound
    <3> QED BY <3>1, MarkStays
  <2>2. CASE IgetOverflow(p) \/ Iread(p) \/ IreadError(p)
    <3>1. UNCHANGED i_flag
      BY <2>2, Zenon DEF IgetOverflow, Iread, IreadError
    <3> QED BY <1>0, <3>1
  <2> QED BY <1>2, <2>1, <2>2 DEF IgetStep
<1>3. CASE IputStep(p)
  <2>1. CASE IputMore(p)
    BY <2>1, PreleMarks DEF IputMore
  <2>2. CASE IputLast(p)
    <3>1. i_flag' = [i_flag EXCEPT ![reg[p].cur] = @ \cup {"ILOCK"}]
      BY <2>2 DEF IputLast
    <3> QED BY <3>1, MarkStays
  <2>3. CASE IupdatError(p) \/ IputUpdate(p)
    <3>1. UNCHANGED i_flag
      BY <2>3, Zenon DEF IupdatError, IputUpdate
    <3> QED BY <1>0, <3>1
  <2> QED BY <1>3, <2>1, <2>2, <2>3 DEF IputStep
<1>4. CASE IallocStep(p)
  <2>1. UNCHANGED i_flag
    BY <1>4, Zenon DEF IallocStep, IallocWait, IallocPop, IallocSearch, IallocScan,
                       IallocScanError, IallocFilled, IallocNone, IallocFails, IallocUsed,
                       IallocAgain
  <2> QED BY <1>0, <2>1
<1>5. CASE OpenStep(p)
  <2>1. CASE Opened(p) \/ PipeMade(p)
    BY <2>1, PreleMarks DEF Opened, PipeMade
  <2>2. CASE ~Opened(p) /\ ~PipeMade(p)
    <3>1. UNCHANGED i_flag
      BY <1>5, <2>2, Zenon DEF OpenStep, FileNone, FileRefused, DeviceOpened,
                     DeviceRefused, DeviceInterrupted, PipeRefused, Made,
                     Created, CreatedRefused
    <3> QED BY <1>0, <3>1
  <2> QED BY <2>1, <2>2
<1>6. CASE LinkStep(p)
  <2>1. CASE Linked(p)
    BY <2>1, PreleMarks DEF Linked
  <2>2. CASE RelockWait(p)
    <3>1. i_flag' = [i_flag EXCEPT ![reg[p].ref] = @ \cup {"IWANT"}]
      BY <2>2 DEF RelockWait, AwaitLock
    <3> QED BY <3>1, MarkStays
  <2>3. CASE ~Linked(p) /\ ~RelockWait(p)
    <3>1. UNCHANGED i_flag
      BY <1>6, <2>3, Zenon DEF LinkStep, LinkExists, UnlinkNone, Unlink, UnlinkRefused, UnlinkParent
    <3> QED BY <1>0, <3>1
  <2> QED BY <2>1, <2>2, <2>3
<1>7. CASE CloseStep(p)
  <2>1. CASE CloseDevice(p)
    BY <2>1, PreleMarks DEF CloseDevice
  <2>2. CASE CloseWait(p) \/ Close(p) \/ UpdateInode(p)
    <3>1. \/ \E s : i_flag' = [i_flag EXCEPT ![s] = @ \cup {"IWANT"}]
          \/ \E s : i_flag' = [i_flag EXCEPT ![s] = @ \cup {"ILOCK"}]
      BY <2>2, Zenon DEF CloseWait, Close, UpdateInode, AwaitLock
    <3> QED BY <3>1, MarkStays
  <2>3. CASE DeviceClosed(p) \/ UpdatePut(p) \/ UpdateEnd(p)
    <3>1. UNCHANGED i_flag
      BY <2>3, Zenon DEF DeviceClosed, UpdatePut, UpdateEnd
    <3> QED BY <1>0, <3>1
  <2> QED BY <1>7, <2>1, <2>2, <2>3 DEF CloseStep
<1> QED BY <1>1, <1>2, <1>3, <1>4, <1>5, <1>6, <1>7 DEF Acts

(* Nobody else has locked what p has locked, nor anybody an unlocked slot. *)
LEMMA Unshared ==
    ASSUME LockInv, NEW p \in Proc, NEW s \in Slot,
           s \in {reg[p].dp, reg[p].ip, reg[p].res, reg[p].cur}
    PROVE  \A q \in Proc \ {p} : HeldIn(reg[q], s) = 0
<1>1. HeldIn(reg[p], s) # 0
  BY DEF HeldIn, One
<1> QED BY <1>1 DEF LockInv

(* A slot without a lock is in none of these registers.                    *)
LEMMA Nobodys ==
    ASSUME LockInv, NEW s \in Slot, "ILOCK" \notin i_flag[s]
    PROVE  \A q \in Proc : HeldIn(reg[q], s) = 0
BY DEF LockInv

(* A step that changes no inode keeps the inodes coherent; *)
LEMMA QuietCoherent ==
    ASSUME IndInv, LockInv, Coherence, NEW p \in Proc, Acts(p), pc[p] # "iread",
           Errs(pc'[p], reg'[p]), pc'[p] \notin {"iread", "isync", "release"},
           TablesStay, MarksStay
    PROVE  Coherence'
<1>1. NoSlot \notin Slot
  BY DEF NoSlot, Slot
<1>2. Apart(p, NoSlot)
  BY <1>1 DEF Apart, Like, TablesStay, MarksStay
<1>3. StageAt(p)'
  BY DEF StageAt
<1> QED BY <1>1, <1>2, <1>3, CoherenceKept

(* and so does one that marks the inode that it changes.                   *)
LEMMA MarkedCoherent ==
    ASSUME IndInv, LockInv, Coherence, NEW p \in Proc, Acts(p), pc[p] # "iread",
           Errs(pc'[p], reg'[p]), pc'[p] \notin {"iread", "isync", "release"},
           NEW s \in Slot, \A q \in Proc \ {p} : HeldIn(reg[q], s) = 0,
           UNCHANGED <<i_number, di_mode, di_nlink>>,
           \A t \in Slot \ {s} : i_mode'[t] = i_mode[t] /\ i_nlink'[t] = i_nlink[t],
           NEW f, i_flag' = [i_flag EXCEPT ![s] = f], "IUPD" \in f
    PROVE  Coherence'
<1>1. i_flag'[s] = f /\ \A t \in Slot \ {s} : i_flag'[t] = i_flag[t]
  BY DEF IndInv, OneSlotPerInode, TypeOK
<1>2. Apart(p, s)
  BY <1>1 DEF Apart, Like
<1>3. StageAt(p)' /\ FreshAt(s)'
  BY <1>1 DEF StageAt, FreshAt
<1> QED BY <1>2, <1>3, CoherenceKept

(* A block that cannot fail, and no error on the way to it. *)
LEMMA NothingFails ==
    ASSUME WorkingDisk, Coherence, NEW p \in Proc
    PROVE  ~IreadError(p) /\ ~IupdatError(p) /\ ~IallocScanError(p) /\ ~WdirFails(p)
<1>1. \A f \in {"iread", "iupdat", "ialloc", "wdir"} : \A i : ~MayFail(f, i)
  BY ConstantAssumption DEF WorkingDisk, MayFail
<1>2. Errs(pc[p], reg[p])
  BY DEF Coherence
<1>3. pc[p] \in {"iread", "scan"} => ~reg[p].error
  BY <1>2 DEF Errs, Home, InGet, AfterPut, InPut, AfterUpdate
<1> QED BY <1>1, <1>3 DEF IreadError, IupdatError, IallocScanError, WdirFails

(* The steps of iget(), *)
LEMMA IgetCoherent ==
    ASSUME IndInv, LockInv, Coherence, WorkingDisk, NEW p \in Proc, IgetStep(p)
    PROVE  Coherence'
<1>0. At(p) /\ Acts(p) /\ Errs(pc[p], reg[p]) /\ StageAt(p)
  BY AtPlace DEF Acts, Coherence
<1>1. CASE IgetLocked(p) \/ IgetOverflow(p) \/ IgetFound(p)
  <2>0. pc[p] = "iget"
    BY <1>1 DEF IgetLocked, IgetOverflow, IgetFound, Iget
  <2>1. TablesStay /\ MarksStay
    <3>1. ~IgetAssign(p) /\ pc[p] = "iget"
      <4>1. ~(Hashed(reg[p].ino) = {} /\ ifreelist # <<>>)
        BY <1>1 DEF IgetLocked, IgetOverflow, IgetFound
      <4> QED BY <2>0, <4>1 DEF IgetAssign
    <3>2. /\ ~Iread(p) /\ ~Iupdat(p) /\ ~IputDealloc(p) /\ ~IallocTake(p) /\ ~Wdir(p)
          /\ ~WdirFails(p) /\ ~LinkCounted(p) /\ ~Relock(p) /\ ~UnlinkClear(p) /\ ~UnlinkCount(p)
          /\ ~IupdatWritten(p) /\ ~IputRemoved(p) /\ ~IputRelease(p) /\ ~FileOpen(p)
      BY <3>1 DEF Iread, Iupdat, IputDealloc, IallocTake, Wdir, WdirFails, LinkCounted,
           Relock, UnlinkClear, UnlinkCount, IupdatWritten, IputRemoved, IputRelease, FileOpen
    <3> QED BY <1>0, <3>1, <3>2, TablesKept, MarksKeptBy
  <2>2. Errs(pc'[p], reg'[p]) /\ pc'[p] \notin {"iread", "isync", "release"}
    <3>1. CASE IgetLocked(p) \/ IgetOverflow(p)
      BY <1>0, <3>1, IgetStill DEF Still, Calm
    <3>2. CASE IgetFound(p)
      <4>1. PICK s \in Hashed(reg[p].ino) : IgetReturn(p, s)
        BY <3>2, Zenon DEF IgetFound
      <4>2. Errs(pc'[p], reg'[p]) /\ pc'[p] \in {"dir", "file", "exists", "victim", "new"}
        <5>1. pc[p] \in {"iget", "iread"} /\ Errs(pc[p], reg[p])
          BY <1>0, <2>0
        <5> QED BY <4>1, <5>1, GetQuiet
      <4> QED BY <4>2
    <3> QED BY <1>1, <3>1, <3>2
  <2> QED BY <1>0, <2>0, <2>1, <2>2, QuietCoherent
<1>2. CASE IgetAssign(p)
  <2>1. PICK s : s = Head(ifreelist)
    OBVIOUS
  <2>2. s \in Slot /\ "ILOCK" \notin i_flag[s]
    <3>1. ifreelist # <<>> /\ s \in Slot
      BY <1>2, <2>1, IgetAssignShifts DEF IgetAssign
    <3>2. ifreelist \in Seq(Slot) /\ \A t \in Slot : i_count[t] = 0 <=> Contains(ifreelist, t)
      BY DEF IndInv, OneSlotPerInode, TypeOK, CountsReferences
    <3>3. Contains(ifreelist, s)
      <4>1. 1 \in 1 .. Len(ifreelist) /\ ifreelist[1] = s
        BY <2>1, <3>1, <3>2
      <4> QED BY <4>1, <3>2 DEF Contains
    <3> QED BY <3>1, <3>2, <3>3 DEF IndInv, FreeUnmarked
  <2>3. /\ Errs(pc'[p], reg'[p]) /\ pc'[p] = "iread" /\ pc[p] = "iget"
        /\ reg'[p] = [reg[p] EXCEPT !.res = s]
    BY <1>0, <1>2, <2>1, AssignQuiet
  <2>4. reg'[p].res = s /\ reg'[p].ino = reg[p].ino
    BY <1>0, <2>3 DEF At, Reg
  <2>5. /\ i_number' = [i_number EXCEPT ![s] = reg[p].ino]
        /\ i_flag' = [i_flag EXCEPT ![s] = {"ILOCK"}]
        /\ UNCHANGED <<i_mode, i_nlink, di_mode, di_nlink>>
    BY <1>2, <2>1 DEF IgetAssign, diskVars
  <2>6. /\ i_number'[s] = reg[p].ino
        /\ \A t \in Slot \ {s} : i_number'[t] = i_number[t] /\ i_flag'[t] = i_flag[t]
    <3>1. i_number \in [Slot -> Ino \cup {NoIno, ROOTINO}] /\ i_flag \in [Slot -> SUBSET Flag]
      BY DEF IndInv, OneSlotPerInode, TypeOK
    <3> QED BY <2>2, <2>5, <3>1
  <2>7. Apart(p, s)
    <3>1. \A q \in Proc \ {p} : HeldIn(reg[q], s) = 0
      BY <2>2, Nobodys
    <3> QED BY <2>5, <2>6, <3>1 DEF Apart, Like
  <2>8. StageAt(p)'
    BY <2>3, <2>4, <2>6 DEF StageAt
  <2>9. FreshAt(s)'
    BY <2>3, <2>4 DEF FreshAt, Reading
  <2> QED BY <1>0, <2>3, <2>7, <2>8, <2>9, CoherenceKept
<1>3. CASE Iread(p)
  <2>1. PICK s : s = reg[p].res
    OBVIOUS
  <2>2. pc[p] = "iread" /\ s \in Slot /\ i_number[s] = reg[p].ino /\ reg[p].ino \in Ino
    BY <1>0, <1>3, <2>1 DEF At, Placed, Handles, Reg, Iread, StageAt, InGet, AfterPut, InPut,
                      AfterUpdate
  <2>3. /\ i_mode' = [i_mode EXCEPT ![s] = di_mode[reg[p].ino]]
        /\ i_nlink' = [i_nlink EXCEPT ![s] = di_nlink[reg[p].ino]]
        /\ UNCHANGED <<i_number, i_flag, di_mode, di_nlink>> /\ IgetReturn(p, s)
    BY <1>3, <2>1 DEF Iread, diskVars
  <2>4. Errs(pc'[p], reg'[p]) /\ pc'[p] \notin {"iread", "isync", "release"}
    <3>1. Errs(pc'[p], reg'[p]) /\ pc'[p] \in {"dir", "file", "exists", "victim", "new"}
      <4>1. pc[p] \in {"iget", "iread"} /\ Errs(pc[p], reg[p]) /\ IgetReturn(p, s)
        BY <1>0, <2>2, <2>3
      <4> QED BY <4>1, GetQuiet
    <3> QED BY <3>1
  <2>5. /\ i_mode'[s] = di_mode[i_number[s]] /\ i_nlink'[s] = di_nlink[i_number[s]]
        /\ \A t \in Slot \ {s} : i_mode'[t] = i_mode[t] /\ i_nlink'[t] = i_nlink[t]
    <3>1. i_mode \in [Slot -> Mode] /\ i_nlink \in [Slot -> Int]
      BY DEF IndInv, OneSlotPerInode, TypeOK
    <3> QED BY <2>2, <2>3, <3>1
  <2>6. Apart(p, s)
    <3>1. \A q \in Proc \ {p} : HeldIn(reg[q], s) = 0
      BY <2>1, <2>2, Unshared
    <3> QED BY <2>3, <2>5, <3>1 DEF Apart, Like
  <2>7. FreshAt(s)'
    BY <2>3, <2>5 DEF FreshAt, SameAs
  <2>8. StageAt(p)'
    BY <2>4 DEF StageAt
  <2> QED BY <1>0, <2>1, <2>4, <2>6, <2>7, <2>8, CoherenceKept
<1> QED BY <1>1, <1>2, <1>3, NothingFails DEF IgetStep

(* A step away from an iread() changes no inode, *)
LEMMA KeptQuiet ==
    ASSUME IndInv, LockInv, Coherence, NEW p \in Proc, Acts(p), Quiet(p), TablesStay, MarksStay
    PROVE  Coherence'
<1>1. Errs(pc[p], reg[p])
  BY DEF Coherence
<1> QED BY <1>1, QuietCoherent DEF Quiet, Calm

(* or marks the one that it changes.                                       *)
LEMMA KeptMarked ==
    ASSUME IndInv, LockInv, Coherence, NEW p \in Proc, Acts(p), Quiet(p),
           NEW s \in Slot, \A q \in Proc \ {p} : HeldIn(reg[q], s) = 0,
           UNCHANGED <<i_number, di_mode, di_nlink>>,
           \A t \in Slot \ {s} : i_mode'[t] = i_mode[t] /\ i_nlink'[t] = i_nlink[t],
           NEW f, i_flag' = [i_flag EXCEPT ![s] = f], "IUPD" \in f
    PROVE  Coherence'
<1>1. Errs(pc[p], reg[p])
  BY DEF Coherence
<1> QED BY <1>1, MarkedCoherent DEF Quiet, Calm

(* What is still is quiet.                                                 *)
LEMMA StillQuiet ==
    ASSUME NEW p, Still(p)
    PROVE  Quiet(p)
BY DEF Still, Quiet

(* The steps of processes elsewhere than where an inode is changed. *)
Elsewhere == Label \ {"iget", "iread", "iput", "dealloc", "idle", "release", "iupdat", "isync",
                      "file", "wdir", "relock", "clear", "cleared", "new"}

(* From there a step changes neither inodes nor marks,                     *)
LEMMA ElsewhereStays ==
    ASSUME IndInv, NEW p \in Proc, Acts(p), pc[p] \in Elsewhere
    PROVE  TablesStay /\ MarksStay
<1>1. /\ ~IgetAssign(p) /\ ~Iread(p) /\ ~Iupdat(p) /\ ~IupdatWritten(p) /\ ~IputRemoved(p)
      /\ ~IputDealloc(p) /\ ~IputRelease(p) /\ ~IallocTake(p) /\ ~FileOpen(p) /\ ~Wdir(p)
      /\ ~WdirFails(p) /\ ~LinkCounted(p) /\ ~Relock(p) /\ ~UnlinkClear(p) /\ ~UnlinkCount(p)
  BY DEF Elsewhere, IgetAssign, Iget, Iread, Iupdat, IupdatWritten, IputRemoved, IputDealloc,
         IputRelease, IallocTake, FileOpen, Wdir, WdirFails, LinkCounted, Relock, UnlinkClear,
         UnlinkCount
<1> QED BY <1>1, TablesKept, MarksKeptBy

(* and so what is coherent stays so.                                       *)
LEMMA ElsewhereCoherent ==
    ASSUME IndInv, LockInv, Coherence, NEW p \in Proc, Acts(p), pc[p] \in Elsewhere, Quiet(p)
    PROVE  Coherence'
BY ElsewhereStays, KeptQuiet

(* The steps that leave the inodes and the marks, by what they say. *)
LEMMA SameCoherent ==
    ASSUME IndInv, LockInv, Coherence, NEW p \in Proc, Acts(p), Quiet(p),
           UNCHANGED <<fsVars, wchan>>
    PROVE  Coherence'
<1>1. TablesStay /\ MarksStay
  BY DEF fsVars, slotVars, diskVars, TablesStay, MarksStay
<1> QED BY <1>1, KeptQuiet

(* The steps of iupdat(), *)
LEMMA IupdatCoherent ==
    ASSUME IndInv, LockInv, Coherence, NEW p \in Proc, Iupdat(p) \/ IupdatWritten(p)
    PROVE  Coherence'
<1>0. At(p) /\ Acts(p) /\ Errs(pc[p], reg[p]) /\ StageAt(p) /\ pc[p] \in {"iupdat", "isync"}
  BY AtPlace DEF Acts, IputStep, Coherence, Iupdat, IupdatWritten
<1>1. PICK s : s = Target(p)
  OBVIOUS
<1>2. s \in Slot /\ i_number[s] \in Ino \cup {ROOTINO}
  BY <1>0, <1>1, TargetUsed
<1>3. \A q \in Proc \ {p} : HeldIn(reg[q], s) = 0
  BY <1>1, <1>2, Unshared DEF Target
<1>4. i_flag \in [Slot -> SUBSET Flag] /\ di_mode \in [Ino -> Mode] /\ di_nlink \in [Ino -> Int]
  BY DEF IndInv, OneSlotPerInode, TypeOK
<1>5. UNCHANGED <<i_number, i_mode, i_nlink>>
  BY <1>0 DEF Iupdat, IupdatWritten
<1>6. ASSUME IupdatReturn(p), Updated(s),
             i_number[s] \in Ino => SameAs(s)'
      PROVE  /\ Errs(pc'[p], reg'[p]) /\ StageAt(p)' /\ FreshAt(s)'
             /\ \A t \in Slot \ {s} : i_flag'[t] = i_flag[t]
  <2>1. /\ pc'[p] = reg[p].iupdat /\ reg'[p] = [reg[p] EXCEPT !.iupdat = "user"]
        /\ Errs(pc'[p], reg'[p])
        /\ pc'[p] \in {"dealloc", "release", "made", "again", "opened", "linked", "syncput"}
    BY <1>0, <1>6, UpdateQuiet
  <2>2. reg'[p].cur = reg[p].cur
    BY <1>0, <2>1 DEF At, Reg
  <2>3. i_flag' = [i_flag EXCEPT ![s] = i_flag[s] \ {"IUPD", "ISYN"}]
    BY <1>6 DEF Updated
  <2>4. "IUPD" \notin i_flag'[s] /\ \A t \in Slot \ {s} : i_flag'[t] = i_flag[t]
    BY <1>2, <1>4, <2>3
  <2>5. pc'[p] = "release" => reg'[p].cur = s
    <3>1. pc'[p] = "release" => reg[p].cur # NoSlot
      BY <1>0, <2>1 DEF At, Placed, Handles, InPut, AfterUpdate
    <3> QED BY <1>1, <2>2, <3>1 DEF Target
  <2>6. StageAt(p)'
    BY <2>1, <2>4, <2>5 DEF StageAt
  <2>7. FreshAt(s)'
    BY <1>5, <1>6 DEF FreshAt
  <2> QED BY <2>1, <2>4, <2>6, <2>7
<1>7. CASE Iupdat(p)
  <2>1. CopyOut(s)
    BY <1>1, <1>7 DEF Iupdat
  <2>2. i_number[s] \in Ino => /\ di_mode' = [di_mode EXCEPT ![i_number[s]] = i_mode[s]]
                               /\ di_nlink' = [di_nlink EXCEPT ![i_number[s]] = i_nlink[s]]
    BY <1>0, <2>1 DEF CopyOut, At
  <2>3. i_number[s] \in Ino => SameAs(s)'
    BY <1>4, <1>5, <2>2 DEF SameAs
  <2>4. \A i \in Ino : i # i_number[s] => di_mode'[i] = di_mode[i] /\ di_nlink'[i] = di_nlink[i]
    <3>1. i_number[s] = ROOTINO => UNCHANGED <<di_mode, di_nlink>>
      BY <2>1 DEF CopyOut
    <3> QED BY <1>2, <1>4, <2>2, <3>1
  <2>5. Errs(pc'[p], reg'[p]) /\ StageAt(p)' /\ FreshAt(s)'
        /\ \A t \in Slot \ {s} : i_flag'[t] = i_flag[t]
    <3>1. CASE "ISYN" \in i_flag[s]
      <4>1. pc'[p] = "isync" /\ reg' = reg /\ i_flag' = i_flag /\ pc[p] = "iupdat"
        BY <1>0, <1>1, <1>7, <3>1 DEF Iupdat, Pause, At
      <4>2. Errs(pc'[p], reg'[p])
        BY <1>0, <4>1, SyncQuiet
      <4>3. Target(p)' = s
        BY <1>1, <4>1 DEF Target
      <4>4. StageAt(p)'
        BY <1>5, <2>3, <4>1, <4>3 DEF StageAt
      <4>5. FreshAt(s)'
        BY <1>5, <2>3 DEF FreshAt
      <4> QED BY <4>1, <4>2, <4>4, <4>5
    <3>2. CASE "ISYN" \notin i_flag[s]
      BY <1>1, <1>6, <1>7, <2>3, <3>2 DEF Iupdat
    <3> QED BY <3>1, <3>2
  <2>6. Apart(p, s)
    <3>1. \A t \in Slot \ {s} : Like(t)
      BY <1>5, <2>5 DEF Like
    <3>2. \A i \in Ino : s \notin Slot \/ i # i_number[s] =>
              di_mode'[i] = di_mode[i] /\ di_nlink'[i] = di_nlink[i]
      BY <1>2, <2>4
    <3> QED BY <1>3, <3>1, <3>2 DEF Apart
  <2>7. pc[p] # "iread"
    BY <1>0
  <2> QED BY <1>0, <2>5, <2>6, <2>7, CoherenceKept
<1>8. CASE IupdatWritten(p)
  <2>1. IupdatReturn(p) /\ Updated(s) /\ UNCHANGED <<di_mode, di_nlink>> /\ pc[p] = "isync"
    BY <1>1, <1>8 DEF IupdatWritten, diskVars
  <2>2. i_number[s] \in Ino => SameAs(s)'
    BY <1>0, <1>1, <1>5, <2>1 DEF StageAt, SameAs
  <2>3. Errs(pc'[p], reg'[p]) /\ StageAt(p)' /\ FreshAt(s)'
        /\ \A t \in Slot \ {s} : i_flag'[t] = i_flag[t]
    BY <1>6, <2>1, <2>2
  <2>4. Apart(p, s)
    BY <1>3, <1>5, <2>1, <2>3 DEF Apart, Like
  <2> QED BY <1>0, <2>1, <2>3, <2>4, CoherenceKept
<1> QED BY <1>7, <1>8

(* of iput(), *)
LEMMA IputCoherent ==
    ASSUME IndInv, LockInv, Coherence, WorkingDisk, NEW p \in Proc, IputStep(p)
    PROVE  Coherence'
<1>0. At(p) /\ Acts(p) /\ StageAt(p)
  BY AtPlace DEF Acts, Coherence
<1>1. CASE Iupdat(p) \/ IupdatWritten(p)
  BY <1>1, IupdatCoherent
<1>2. CASE IputMore(p) \/ IputRelease(p)
  <2>1. pc[p] \in {"iput", "idle", "release"} /\ IputReturn(p)
    BY <1>2 DEF IputMore, IputRelease
  <2>2. Quiet(p)
    BY <2>1, PutStill, StillQuiet
  <2>3. TablesStay
    BY <1>2 DEF IputMore, IputRelease, TablesStay, diskVars
  <2>4. MarksStay
    <3>1. CASE IputMore(p)
      BY <3>1, PreleMarks DEF IputMore
    <3>2. CASE IputRelease(p)
      <4>1. i_flag' = [i_flag EXCEPT ![reg[p].cur] = {}] /\ "IUPD" \notin i_flag[reg[p].cur]
        BY <1>0, <3>2 DEF IputRelease, StageAt
      <4> QED BY <4>1, MarkStays
    <3> QED BY <1>2, <3>1, <3>2
  <2> QED BY <1>0, <2>2, <2>3, <2>4, KeptQuiet
<1>3. CASE IputUpdate(p)
  <2>1. Quiet(p) /\ UNCHANGED <<fsVars, wchan>>
    BY <1>3, IputStill, StillQuiet DEF IputUpdate
  <2> QED BY <1>0, <2>1, SameCoherent
<1>4. CASE IputLast(p) \/ IputRemoved(p) \/ IputDealloc(p)
  <2>0. PICK s : s = reg[p].cur
    OBVIOUS
  <2>1. Quiet(p) /\ pc[p] \in {"iput", "dealloc"}
    BY <1>4, InodeQuiet DEF IputLast, IputRemoved, IputDealloc
  <2>2. s \in Slot
    BY <2>0, <2>1, CurUsed
  <2>3. \A q \in Proc \ {p} : HeldIn(reg[q], s) = 0
    BY <2>0, <2>2, Unshared
  <2>4. i_mode \in [Slot -> Mode]
    BY DEF IndInv, OneSlotPerInode, TypeOK
  <2>5. CASE IputLast(p) \/ (IputRemoved(p) /\ i_mode[s] # "reg")
    <3>1. TablesStay /\ i_flag' = [i_flag EXCEPT ![s] = i_flag[s] \cup {"ILOCK"}]
      BY <2>0, <2>5 DEF IputLast, IputRemoved, TablesStay, diskVars
    <3>2. MarksStay
      BY <3>1, MarkStays
    <3> QED BY <1>0, <2>1, <3>1, <3>2, KeptQuiet
  <2>6. CASE IputRemoved(p) /\ i_mode[s] = "reg"
    <3>1. /\ i_flag' = [i_flag EXCEPT ![s] = i_flag[s] \cup {"ILOCK", "IUPD", "ISYN"}]
          /\ UNCHANGED <<i_number, i_mode, i_nlink, di_mode, di_nlink>>
      BY <2>0, <2>6 DEF IputRemoved, diskVars
    <3>2. "IUPD" \in i_flag[s] \cup {"ILOCK", "IUPD", "ISYN"}
      OBVIOUS
    <3>3. \A t \in Slot \ {s} : i_mode'[t] = i_mode[t] /\ i_nlink'[t] = i_nlink[t]
      BY <3>1
    <3> QED BY <3>2, <3>3, <1>0, <2>1, <2>2, <2>3, <3>1, KeptMarked
  <2>7. CASE IputDealloc(p)
    <3>1. /\ i_flag' = [i_flag EXCEPT ![s] = i_flag[s] \cup {"IUPD"}]
          /\ i_mode' = [i_mode EXCEPT ![s] = "free"]
          /\ UNCHANGED <<i_number, i_nlink, di_mode, di_nlink>>
      BY <2>0, <2>7 DEF IputDealloc, diskVars
    <3>2. \A t \in Slot \ {s} : i_mode'[t] = i_mode[t] /\ i_nlink'[t] = i_nlink[t]
      BY <2>4, <3>1
    <3> QED BY <1>0, <2>1, <2>2, <2>3, <3>1, <3>2, KeptMarked
  <2> QED BY <1>4, <2>5, <2>6, <2>7
<1> QED BY <1>1, <1>2, <1>3, <1>4, NothingFails DEF IputStep

(* of ialloc() and namei(), *)
LEMMA IallocCoherent ==
    ASSUME IndInv, LockInv, Coherence, WorkingDisk, NEW p \in Proc, IallocStep(p)
    PROVE  Coherence'
<1>0. At(p) /\ Acts(p)
  BY AtPlace DEF Acts
<1>1. CASE IallocTake(p)
  <2>1. PICK s : s = reg[p].res
    OBVIOUS
  <2>2. s \in Slot /\ Quiet(p)
    BY <1>0, <1>1, <2>1, InodeQuiet DEF At, Reg, IallocTake
  <2>3. \A q \in Proc \ {p} : HeldIn(reg[q], s) = 0
    BY <2>1, <2>2, Unshared
  <2>4. PICK m, k : i_mode' = [i_mode EXCEPT ![s] = m] /\ i_nlink' = [i_nlink EXCEPT ![s] = k]
    BY <1>1, <2>1 DEF IallocTake
  <2>5. /\ i_flag' = [i_flag EXCEPT ![s] = i_flag[s] \cup {"IUPD", "ISYN"}]
        /\ UNCHANGED <<i_number, di_mode, di_nlink>>
    BY <1>1, <2>1 DEF IallocTake, diskVars
  <2>6. i_mode \in [Slot -> Mode] /\ i_nlink \in [Slot -> Int]
    BY DEF IndInv, OneSlotPerInode, TypeOK
  <2>7. \A t \in Slot \ {s} : i_mode'[t] = i_mode[t] /\ i_nlink'[t] = i_nlink[t]
    BY <2>4, <2>6
  <2>8. "IUPD" \in i_flag[s] \cup {"IUPD", "ISYN"}
    OBVIOUS
  <2> QED BY <1>0, <2>2, <2>3, <2>5, <2>7, <2>8, KeptMarked
<1>2. CASE IallocFails(p) \/ IallocUsed(p)
  <2>1. Still(p) /\ UNCHANGED <<fsVars, wchan>>
    BY <1>2, IallocStill DEF IallocFails, IallocUsed
  <2> QED BY <1>0, <2>1, StillQuiet, SameCoherent
<1>3. CASE IallocScan(p)
  <2>1. pc[p] \in Elsewhere
    BY <1>3 DEF IallocScan, Elsewhere, Label
  <2> QED BY <1>0, <1>3, <2>1, ScanStill, StillQuiet, ElsewhereCoherent
<1>4. CASE IallocWait(p) \/ IallocPop(p) \/ IallocSearch(p) \/ IallocFilled(p) \/
           IallocNone(p) \/ IallocAgain(p)
  <2>1. pc[p] \in {"ialloc", "scanned", "again"}
    BY <1>4 DEF IallocWait, IallocPop, IallocSearch, IallocFilled, IallocNone, IallocAgain
  <2>2. pc[p] \in Elsewhere
    BY <2>1 DEF Elsewhere, Label
  <2> QED BY <1>0, <1>4, <2>2, IallocStill, StillQuiet, ElsewhereCoherent
<1> QED BY <1>1, <1>2, <1>3, <1>4, NothingFails DEF IallocStep

(* those of namei(),                                                       *)
LEMMA NameiCoherent ==
    ASSUME IndInv, LockInv, Coherence, NEW p \in Proc, NameiStep(p)
    PROVE  Coherence'
<1>0. Acts(p)
  BY DEF Acts
<1>1. pc[p] \in Elsewhere
  BY DEF NameiStep, NameiDir, NameiError, NameiFails, NameiFound, NameiVictim, NameiNew,
         Elsewhere, Label
<1>2. Quiet(p)
  BY NameiStill, StillQuiet, NameQuiet DEF NameiStep
<1> QED BY <1>0, <1>1, <1>2, ElsewhereCoherent

(* of open(), creat() and pipe(), *)
LEMMA OpenCoherent ==
    ASSUME IndInv, NoDevices, LockInv, Coherence, WorkingDisk, NEW p \in Proc, OpenStep(p)
    PROVE  Coherence'
<1>0. At(p) /\ Acts(p) /\ Errs(pc[p], reg[p])
  BY AtPlace DEF Acts, Coherence
<1>1. CASE FileNone(p) \/ FileRefused(p)
  <2>1. Still(p) /\ UNCHANGED <<fsVars, wchan>>
    BY <1>1, OpenStill DEF FileNone, FileRefused
  <2> QED BY <1>0, <2>1, StillQuiet, SameCoherent
<1>2. CASE FileOpen(p)
  <2>1. PICK s : s = reg[p].res
    OBVIOUS
  <2>2. s \in Slot /\ Quiet(p)
    BY <1>0, <1>2, <2>1, OpenStill, StillQuiet DEF At, Reg, FileOpen
  <2>3. \A q \in Proc \ {p} : HeldIn(reg[q], s) = 0
    BY <2>1, <2>2, Unshared
  <2>4. TablesStay
    BY <1>2 DEF FileOpen, TablesStay, diskVars
  <2>5. CASE i_flag' = [i_flag EXCEPT ![s] = i_flag[s] \cup {"IUPD", "ISYN"}]
    <3>1. "IUPD" \in i_flag[s] \cup {"IUPD", "ISYN"}
      OBVIOUS
    <3> QED BY <1>0, <2>2, <2>3, <2>4, <2>5, <3>1, KeptMarked DEF TablesStay
  <2>6. CASE UNCHANGED i_flag
    <3>1. MarksStay
      BY <2>6 DEF MarksStay
    <3> QED BY <1>0, <2>2, <2>4, <3>1, KeptQuiet
  <2> QED BY <1>2, <2>1, <2>5, <2>6 DEF FileOpen
<1>3. CASE Opened(p) \/ PipeMade(p) \/ PipeRefused(p) \/ Made(p) \/ Created(p) \/
           CreatedRefused(p)
  <2>1. pc[p] \in {"opened", "made", "created"}
    BY <1>3 DEF Opened, PipeMade, PipeRefused, Made, Created, CreatedRefused
  <2>2. pc[p] \in Elsewhere
    BY <2>1 DEF Elsewhere, Label
  <2> QED BY <1>0, <1>3, <2>2, OpenStill, StillQuiet, ElsewhereCoherent
<1>4. CASE Wdir(p)
  <2>1. pc[p] = "wdir" /\ Quiet(p) /\ reg[p].dp = RootSlot /\ RootSlot \in Slot
    BY <1>0, <1>4, NameQuiet DEF At, Wdir, Placed, Keeps, Home, InGet, AfterPut, InPut,
                                 AfterUpdate
  <2>2. ~reg[p].error
    BY <1>0, <2>1 DEF Errs, Home, InGet, AfterPut, InPut, AfterUpdate
  <2>3. /\ i_flag' = [i_flag EXCEPT ![RootSlot] = i_flag[RootSlot] \cup {"IUPD"}]
        /\ UNCHANGED <<i_number, i_mode, i_nlink, di_mode, di_nlink>>
    BY <1>4, <2>1, <2>2 DEF Wdir
  <2>4. \A q \in Proc \ {p} : HeldIn(reg[q], RootSlot) = 0
    BY <2>1, Unshared
  <2>5. "IUPD" \in i_flag[RootSlot] \cup {"IUPD"}
    OBVIOUS
  <2> QED BY <1>0, <2>1, <2>3, <2>4, <2>5, KeptMarked
<1> QED BY <1>1, <1>2, <1>3, <1>4, DevicesIdle, NothingFails DEF OpenStep

(* of link() and unlink(), *)
LEMMA LinkCoherent ==
    ASSUME IndInv, LockInv, Coherence, NEW p \in Proc, LinkStep(p)
    PROVE  Coherence'
<1>0. At(p) /\ Acts(p)
  BY AtPlace DEF Acts
<1>1. CASE LinkCounted(p)
  <2>1. PICK s : s = reg[p].res
    OBVIOUS
  <2>2. s \in Slot /\ Quiet(p)
    BY <1>0, <1>1, <2>1, LinkQuiet DEF At, Reg, LinkCounted
  <2>3. \A q \in Proc \ {p} : HeldIn(reg[q], s) = 0
    BY <2>1, <2>2, Unshared
  <2>4. /\ i_flag' = [i_flag EXCEPT ![s] = i_flag[s] \cup {"IUPD", "ISYN"}]
        /\ i_nlink' = [i_nlink EXCEPT ![s] = @ + 1]
        /\ UNCHANGED <<i_number, i_mode, di_mode, di_nlink>>
    BY <1>1, <2>1 DEF LinkCounted, diskVars
  <2>5. \A t \in Slot \ {s} : i_mode'[t] = i_mode[t] /\ i_nlink'[t] = i_nlink[t]
    BY <2>4 DEF IndInv, OneSlotPerInode, TypeOK
  <2>6. "IUPD" \in i_flag[s] \cup {"IUPD", "ISYN"}
    OBVIOUS
  <2> QED BY <1>0, <2>2, <2>3, <2>4, <2>5, <2>6, KeptMarked
<1>2. CASE Linked(p) \/ LinkExists(p) \/ Unlink(p)
  <2>1. pc[p] \in Elsewhere
    BY <1>2 DEF Linked, LinkExists, Unlink, Elsewhere, Label
  <2>2. Quiet(p)
    BY <1>2, LinkQuiet, NameQuiet
  <2> QED BY <1>0, <2>1, <2>2, ElsewhereCoherent
<1>3. CASE UnlinkNone(p) \/ UnlinkParent(p)
  <2>1. pc[p] \in Elsewhere
    BY <1>3 DEF UnlinkNone, UnlinkParent, Elsewhere, Label
  <2> QED BY <1>0, <1>3, <2>1, LinkStill, StillQuiet, ElsewhereCoherent
<1>4. CASE UnlinkRefused(p)
  <2>1. Still(p) /\ UNCHANGED <<fsVars, wchan>>
    BY <1>4, LinkStill DEF UnlinkRefused
  <2> QED BY <1>0, <2>1, StillQuiet, SameCoherent
<1>5. CASE RelockWait(p)
  <2>1. Still(p) /\ TablesStay
    BY <1>5, LinkStill DEF RelockWait, TablesStay, diskVars
  <2>2. i_flag' = [i_flag EXCEPT ![reg[p].ref] = i_flag[reg[p].ref] \cup {"IWANT"}]
    BY <1>5 DEF RelockWait, AwaitLock
  <2>3. MarksStay
    BY <2>2, MarkStays
  <2> QED BY <1>0, <2>1, <2>3, StillQuiet, KeptQuiet
<1>6. CASE Relock(p)
  <2>1. PICK s : s = reg[p].ref
    OBVIOUS
  <2>2. s \in Slot /\ Quiet(p) /\ "ILOCK" \notin i_flag[s]
    BY <1>0, <1>6, <2>1, LinkQuiet DEF At, Reg, Relock, Placed, Keeps, Home, InGet, AfterPut,
                                       InPut, AfterUpdate
  <2>3. UNCHANGED <<i_number, i_mode, di_mode, di_nlink, d_ino>>
    BY <1>6 DEF Relock, diskVars
  <2>4. CASE reg[p].error
    <3>1. /\ i_flag' = [i_flag EXCEPT ![s] = i_flag[s] \cup {"ILOCK"} \cup {"IUPD"}]
          /\ i_nlink' = [i_nlink EXCEPT ![s] = @ - 1]
      BY <1>6, <2>1, <2>4 DEF Relock
    <3>2. \A q \in Proc \ {p} : HeldIn(reg[q], s) = 0
      BY <2>2, Nobodys
    <3>3. \A t \in Slot \ {s} : i_mode'[t] = i_mode[t] /\ i_nlink'[t] = i_nlink[t]
      BY <2>3, <3>1 DEF IndInv, OneSlotPerInode, TypeOK
    <3>4. "IUPD" \in i_flag[s] \cup {"ILOCK"} \cup {"IUPD"}
      OBVIOUS
    <3> QED BY <1>0, <2>2, <2>3, <3>1, <3>2, <3>3, <3>4, KeptMarked
  <2>5. CASE ~reg[p].error
    <3>1. UNCHANGED i_nlink /\ i_flag' = [i_flag EXCEPT ![s] = i_flag[s] \cup {"ILOCK"} \cup {}]
      BY <1>6, <2>1, <2>5 DEF Relock
    <3>2. TablesStay
      BY <2>3, <3>1 DEF TablesStay
    <3>3. MarksStay
      BY <3>1, MarkStays
    <3> QED BY <1>0, <2>2, <3>2, <3>3, KeptQuiet
  <2> QED BY <2>4, <2>5
<1>7. CASE UnlinkClear(p)
  <2>1. pc[p] = "clear" /\ Quiet(p) /\ reg[p].dp = RootSlot /\ RootSlot \in Slot
    BY <1>0, <1>7, NameQuiet DEF At, UnlinkClear, Placed, Keeps, Home, InGet, AfterPut, InPut,
                                 AfterUpdate
  <2>2. /\ i_flag' = [i_flag EXCEPT ![RootSlot] = i_flag[RootSlot] \cup {"IUPD"}]
        /\ UNCHANGED <<i_number, i_mode, i_nlink, di_mode, di_nlink>>
    BY <1>7, <2>1 DEF UnlinkClear
  <2>3. \A q \in Proc \ {p} : HeldIn(reg[q], RootSlot) = 0
    BY <2>1, Unshared
  <2>4. "IUPD" \in i_flag[RootSlot] \cup {"IUPD"}
    OBVIOUS
  <2> QED BY <1>0, <2>1, <2>2, <2>3, <2>4, KeptMarked
<1>8. CASE UnlinkCount(p)
  <2>1. PICK s : s = reg[p].ip
    OBVIOUS
  <2>2. s \in Slot /\ Quiet(p)
    BY <1>0, <1>8, <2>1, NameQuiet DEF At, Reg, UnlinkCount, Placed, Keeps, Home, InGet,
                                       AfterPut, InPut, AfterUpdate
  <2>3. \A q \in Proc \ {p} : HeldIn(reg[q], s) = 0
    BY <2>1, <2>2, Unshared
  <2>4. /\ i_flag' = [i_flag EXCEPT ![s] = i_flag[s] \cup {"IUPD"}]
        /\ i_nlink' = [i_nlink EXCEPT ![s] = @ - 1]
        /\ UNCHANGED <<i_number, i_mode, di_mode, di_nlink>>
    BY <1>8, <2>1 DEF UnlinkCount, diskVars
  <2>5. \A t \in Slot \ {s} : i_mode'[t] = i_mode[t] /\ i_nlink'[t] = i_nlink[t]
    BY <2>4 DEF IndInv, OneSlotPerInode, TypeOK
  <2>6. "IUPD" \in i_flag[s] \cup {"IUPD"}
    OBVIOUS
  <2> QED BY <1>0, <2>2, <2>3, <2>4, <2>5, <2>6, KeptMarked
<1> QED BY <1>1, <1>2, <1>3, <1>4, <1>5, <1>6, <1>7, <1>8 DEF LinkStep

(* of close() and update(), and where a call begins. *)
LEMMA CloseCoherent ==
    ASSUME IndInv, NoDevices, LockInv, Coherence, NEW p \in Proc, CloseStep(p) \/ EnterStep(p)
    PROVE  Coherence'
<1>0. Acts(p)
  BY DEF Acts
<1>1. pc[p] \in {"close", "dclosed", "sync", "syncput", "user"}
  BY DEF CloseStep, CloseWait, Close, CloseDevice, DeviceClosed, UpdateInode, UpdatePut,
         UpdateEnd, EnterStep, EnterNamei, EnterPipe, EnterUpdate, EnterClose
<1>2. pc[p] \in Elsewhere
  BY <1>1 DEF Elsewhere, Label
<1>3. Still(p)
  BY CloseStill, UpdateStill, EnterStill, DevicesIdle DEF CloseStep
<1> QED BY <1>0, <1>2, <1>3, StillQuiet, ElsewhereCoherent
-----------------------------------------------------------------------------
(* No file is in core at first;                                            *)
LEMMA CoherenceInit ==
    ASSUME Init
    PROVE  Coherence
<1>1. \A p \in Proc : pc[p] = "user" /\ ~reg[p].error
  BY DEF Init, Idle
<1>2. \A s \in Slot : i_number[s] \notin Ino
  BY DEF Init, Ino, NoIno, ROOTINO
<1> QED BY <1>1, <1>2 DEF Coherence, Errs, StageAt, FreshAt

(* and every step keeps the inodes coherent.                               *)
LEMMA CoherenceNext ==
    ASSUME IndInv, NoDevices, LockInv, WorkingDisk, Coherence, [Next]_vars
    PROVE  Coherence'
<1>1. CASE UNCHANGED vars
  <2>1. UNCHANGED <<i_number, i_flag, i_mode, i_nlink, di_mode, di_nlink, pc, reg>>
    BY <1>1 DEF vars, fsVars, slotVars, diskVars
  <2> QED BY <2>1 DEF Coherence, StageAt, FreshAt, SameAs, Reading, Target
<1>2. ASSUME NEW p \in Proc, Acts(p) PROVE Coherence'
  BY <1>2, IgetCoherent, IputCoherent, IallocCoherent, NameiCoherent, OpenCoherent,
     LinkCoherent, CloseCoherent DEF Acts
<1> QED BY <1>1, <1>2 DEF Next, Acts

(* Who reads an inode has locked its slot. *)
LEMMA UnlockedCoherent ==
    ASSUME IndInv, LockInv, Coherence
    PROVE  Coherent
<1>1. ASSUME NEW s \in Slot, "ILOCK" \notin i_flag[s] PROVE ~Reading(s)
  <2>1. \A q \in Proc : HeldIn(reg[q], s) = 0
    BY <1>1, Nobodys
  <2> QED BY <2>1, HeldType DEF Reading
<1> QED BY <1>1 DEF Coherence, FreshAt, SameAs, Coherent

(* An inode that nobody has locked and that is not marked is the same in   *)
(* core and on the device: where no block of inodes fails, in a file       *)
(* system without devices and while each pipe() has its inode to itself,   *)
(* for any number of processes, slots, names and inodes.                   *)
THEOREM InodesCoherent ==
    ASSUME Special = {}, WorkingDisk
    PROVE  Spec /\ []PipesAlone => []Coherent
<1>1. Init => NoDevices /\ LockInv /\ Coherence
  BY LocksInit, CoherenceInit
<1>2. /\ IndInv /\ PipesAlone /\ NoDevices /\ LockInv /\ Coherence /\ [Next]_vars
      => NoDevices' /\ LockInv' /\ Coherence'
  BY LocksNext, CoherenceNext
<1>3. IndInv /\ LockInv /\ Coherence => Coherent
  BY UnlockedCoherent
<1> QED BY <1>1, <1>2, <1>3, IndCorrect, PTL DEF Spec

-----------------------------------------------------------------------------
(* The links of an inode are the entries that lead to it, where nobody     *)
(* calls link().                                                           *)

(* The entries of inode i; whether process p has an inode in slot s whose  *)
(* links are one more than its entries.                                    *)
Entries(i) == Cardinality(NamesOf(i))
Maker(p, s) == Making(pc[p], reg[p]) /\ reg[p].ip = s
Pend(s) == One(\E p \in Proc : Maker(p, s))

(* What unlink() and creat() know of the directory that they have locked,  *)
(* and iput() of the inode that it gives up.                               *)
Found(p) ==
    LET r == reg[p]
        h == Home(pc[p], r)
    IN  /\ h = "victim" /\ InGet(pc[p], r) => r.ino = d_ino[r.name]
        /\ h = "victim" /\ r.res # NoSlot => i_number[r.res] = d_ino[r.name]
        /\ h = "clear" => i_number[r.ip] = d_ino[r.name]
        /\ Absent(pc[p], r) => d_ino[r.name] = NoIno

Leaves(p) ==
    LET l == AfterUpdate(pc[p], reg[p])
        s == reg[p].cur
    IN  /\ l = "dealloc" => i_nlink[s] <= 0
        /\ l \in {"idle", "release"} => i_mode[s] = "free" \/ i_nlink[s] > 0

(* The links of the inode in slot s, and of inode i on the device.         *)
SlotLinks(s) ==
    i_number[s] \in Ino /\ ~Reading(s) =>
        /\ i_nlink[s] = Entries(i_number[s]) + Pend(s)
        /\ i_mode[s] = "free" => i_nlink[s] = 0
        /\ i_mode[s] # "free" /\ Entries(i_number[s]) = 0 => i_count[s] # 0

DiskLinks(i) ==
    (\A s \in Slot : i_number[s] = i => Reading(s)) =>
        /\ di_nlink[i] = Entries(i)
        /\ di_mode[i] = "free" => di_nlink[i] = 0
        /\ di_mode[i] # "free" => Entries(i) > 0

(* The invariant of LinkedFilesSurvive and LinksExact. *)
LinkInv == /\ \A p \in Proc : Found(p) /\ Leaves(p)
           /\ \A s \in Slot : SlotLinks(s)
           /\ \A i \in Ino : DiskLinks(i)

(* A step of process p touches the inode of slot s only.                   *)
KeepsSlot(t) == i_number'[t] = i_number[t] /\ i_mode'[t] = i_mode[t] /\ i_nlink'[t] = i_nlink[t]
KeepsDisk(i) == /\ NamesOf(i)' = NamesOf(i)
                /\ di_mode'[i] = di_mode[i] /\ di_nlink'[i] = di_nlink[i]

Touches(p, s) ==
    /\ \A t \in Slot \ {s} : /\ KeepsSlot(t)
                             /\ i_count'[t] = 0 => i_count[t] = 0
                             /\ Maker(p, t)' <=> Maker(p, t)
    /\ \A t \in Slot \ {s} : s \in Slot /\ i_number[t] \in Ino =>
           i_number[t] \notin {i_number[s], i_number'[s]}
    /\ \A i \in Ino : s \notin Slot \/ i \notin {i_number[s], i_number'[s]} => KeepsDisk(i)
    /\ \A q \in Proc \ {p} : s \in Slot => HeldIn(reg[q], s) = 0
    /\ UNCHANGED d_ino \/ reg[p].dp = RootSlot
    /\ pc[p] = "iread" => reg[p].res = s
    /\ pc'[p] = "iread" => reg'[p].res = s

(* The links of the other inodes stay right.                               *)
LEMMA LinksKept ==
    ASSUME IndInv, LockInv, LinkInv, NEW p \in Proc, NEW s, Acts(p), Touches(p, s),
           Found(p)', Leaves(p)', s \in Slot => SlotLinks(s)',
           \A i \in Ino : s \in Slot /\ i \in {i_number[s], i_number'[s]} => DiskLinks(i)'
    PROVE  LinkInv'
<1>0. Settles(p)
  BY ActsSettle
<1>1. \A q \in Proc \ {p} : pc'[q] = pc[q] /\ reg'[q] = reg[q]
  BY <1>0, OthersStay
<1>2. ASSUME NEW t \in Slot, t # s
      PROVE  /\ Reading(t)' <=> Reading(t)
             /\ Pend(t)' = Pend(t)
  <2>1. \A q \in Proc : pc'[q] = "iread" /\ reg'[q].res = t <=> pc[q] = "iread" /\ reg[q].res = t
    BY <1>1, <1>2 DEF Touches
  <2>2. \A q \in Proc : Maker(q, t)' <=> Maker(q, t)
    BY <1>1, <1>2 DEF Touches, Maker
  <2>3. Reading(t)' <=> Reading(t)
    BY <2>1 DEF Reading
  <2>4. (\E q \in Proc : Maker(q, t))' <=> (\E q \in Proc : Maker(q, t))
    BY <2>2
  <2>5. Pend(t)' = Pend(t)
    BY <2>4 DEF Pend, One
  <2> QED BY <2>3, <2>5
<1>3. ASSUME NEW t \in Slot, t # s PROVE SlotLinks(t)'
  <2>1. KeepsSlot(t) /\ SlotLinks(t) /\ (i_count'[t] = 0 => i_count[t] = 0)
    BY <1>3 DEF Touches, LinkInv
  <2>2. CASE i_number[t] \in Ino /\ ~Reading(t)
    <3>1. KeepsDisk(i_number[t])
      BY <1>3, <2>2 DEF Touches
    <3>2. Entries(i_number[t])' = Entries(i_number[t])
      BY <2>1, <3>1 DEF Entries, KeepsDisk, KeepsSlot
    <3> QED BY <1>2, <1>3, <2>1, <2>2, <3>2 DEF SlotLinks, KeepsSlot
  <2>3. CASE ~(i_number[t] \in Ino /\ ~Reading(t))
    BY <1>2, <1>3, <2>1, <2>3 DEF SlotLinks, KeepsSlot
  <2> QED BY <2>2, <2>3
<1>4. ASSUME NEW i \in Ino PROVE DiskLinks(i)'
  <2>1. CASE s \in Slot /\ i \in {i_number[s], i_number'[s]}
    BY <2>1
  <2>2. CASE s \notin Slot \/ i \notin {i_number[s], i_number'[s]}
    <3>1. KeepsDisk(i) /\ DiskLinks(i)
      BY <2>2 DEF Touches, LinkInv
    <3>2. \A t \in Slot : (i_number'[t] = i => Reading(t)') <=> (i_number[t] = i => Reading(t))
      <4>1. \A t \in Slot : t # s => i_number'[t] = i_number[t]
        BY DEF Touches, KeepsSlot
      <4> QED BY <1>2, <2>2, <4>1
    <3> QED BY <3>1, <3>2 DEF DiskLinks, KeepsDisk, Entries
  <2> QED BY <2>1, <2>2
<1>5. ASSUME NEW q \in Proc \ {p} PROVE Found(q)' /\ Leaves(q)'
  <2>0. At(q) /\ Found(q) /\ Leaves(q) /\ pc'[q] = pc[q] /\ reg'[q] = reg[q]
    BY <1>1, AtPlace DEF LinkInv
  <2>1. \A t \in Slot : HeldIn(reg[q], t) # 0 => t # s
    BY DEF Touches
  <2>2. \A t \in Slot : t \in {reg[q].dp, reg[q].ip, reg[q].res, reg[q].cur} => KeepsSlot(t)
    <3>1. \A t \in Slot : t \in {reg[q].dp, reg[q].ip, reg[q].res, reg[q].cur} =>
              HeldIn(reg[q], t) # 0
      BY DEF HeldIn, One
    <3> QED BY <2>1, <3>1 DEF Touches
  <2>3. Parting(pc[q], reg[q]) => reg[q].cur \in Slot
    BY <2>0 DEF At, Placed, Handles, InPut, Parting, Reg
  <2>4. Leaves(q)'
    BY <2>0, <2>2, <2>3 DEF Leaves, KeepsSlot, Parting
  <2>5. CASE UNCHANGED d_ino
    <3>1. reg[q].res # NoSlot => i_number'[reg[q].res] = i_number[reg[q].res]
      BY <2>0, <2>2 DEF At, Reg, KeepsSlot
    <3>2. Home(pc[q], reg[q]) = "clear" => i_number'[reg[q].ip] = i_number[reg[q].ip]
      BY <2>0, <2>2 DEF At, Placed, Keeps, Reg, KeepsSlot
    <3> QED BY <2>0, <2>4, <2>5, <3>1, <3>2 DEF Found
  <2>6. CASE reg[p].dp = RootSlot
    <3>1. reg[q].dp # RootSlot /\ reg[q].dp \in {NoSlot, RootSlot}
      <4>1. HeldIn(reg[p], RootSlot) # 0 /\ RootSlot \in Slot
        BY <2>0, <2>6 DEF At, HeldIn, One
      <4>2. HeldIn(reg[q], RootSlot) = 0
        BY <4>1 DEF LockInv
      <4> QED BY <2>0, <4>2, HeldType DEF At, Placed, Keeps
    <3>2. Home(pc[q], reg[q]) \notin {"victim", "clear"} /\ ~Absent(pc[q], reg[q])
      BY <2>0, <3>1 DEF At, Placed, Keeps, Absent
    <3> QED BY <2>0, <2>4, <3>2 DEF Found
  <2> QED BY <2>5, <2>6 DEF Touches
<1> QED BY <1>3, <1>4, <1>5 DEF LinkInv

(* What a process knows stays while it goes on, *)
LEMMA PlaceKept ==
    ASSUME LinkInv, NEW p \in Proc, Idles(pc[p], reg[p], pc'[p], reg'[p]),
           UNCHANGED <<i_number, i_mode, i_nlink, d_ino>>
    PROVE  Found(p)' /\ Leaves(p)' /\ \A t : Maker(p, t)' <=> Maker(p, t)
<1>1. Found(p) /\ Leaves(p)
  BY DEF LinkInv
<1>2. Found(p)'
  <2> DEFINE r == reg[p]
             n == reg'[p]
             l == pc[p]
             m == pc'[p]
  <2>1. Home(m, n) = "victim" /\ InGet(m, n) => n.ino = d_ino[n.name]
    BY <1>1 DEF Idles, Found
  <2>2. Home(m, n) = "victim" /\ n.res # NoSlot => i_number[n.res] = d_ino[n.name]
    BY <1>1 DEF Idles, Found
  <2>3. Home(m, n) = "clear" => i_number[n.ip] = d_ino[n.name]
    BY <1>1 DEF Idles, Found
  <2>4. Absent(m, n) => d_ino[n.name] = NoIno
    BY <1>1 DEF Idles, Found
  <2> QED BY <2>1, <2>2, <2>3, <2>4 DEF Found
<1>3. Leaves(p)'
  <2>1. CASE Parting(pc'[p], reg'[p])
    <3>1. reg'[p].cur = reg[p].cur
      BY <2>1 DEF Idles
    <3>2. \/ AfterUpdate(pc'[p], reg'[p]) = AfterUpdate(pc[p], reg[p])
          \/ AfterUpdate(pc[p], reg[p]) = "idle" /\ AfterUpdate(pc'[p], reg'[p]) = "release"
      BY <2>1 DEF Idles
    <3> QED BY <1>1, <3>1, <3>2 DEF Leaves
  <2>2. CASE ~Parting(pc'[p], reg'[p])
    BY <2>2 DEF Leaves, Parting
  <2> QED BY <2>1, <2>2
<1>4. ASSUME NEW t PROVE Maker(p, t)' <=> Maker(p, t)
  BY DEF Idles, Maker
<1> QED BY <1>2, <1>3, <1>4

(* and the links with it, when no inode and no entry changes, and no slot  *)
(* is given back.                                                          *)
CountsUp == \A t \in Slot : i_count'[t] = 0 => i_count[t] = 0

(* A step that changes no inode and no entry keeps the links right         *)
LEMMA QuietLinks ==
    ASSUME IndInv, LockInv, LinkInv, NEW p \in Proc, Acts(p), CountsUp, TablesStay,
           Found(p)', Leaves(p)', \A t \in Slot : Maker(p, t)' <=> Maker(p, t),
           pc[p] # "iread", pc'[p] # "iread"
    PROVE  LinkInv'
<1>1. NoSlot \notin Slot
  BY DEF NoSlot, Slot
<1>2. \A t \in Slot : KeepsSlot(t)
  BY DEF TablesStay, KeepsSlot
<1>3. \A i \in Ino : KeepsDisk(i)
  BY DEF TablesStay, KeepsDisk, NamesOf
<1>4. UNCHANGED d_ino
  BY DEF TablesStay
<1>5. Touches(p, NoSlot)
  BY <1>1, <1>2, <1>3, <1>4 DEF Touches, CountsUp
<1> QED BY <1>1, <1>5, LinksKept

(* where it goes on as its registers say.                                  *)
LEMMA StillLinks ==
    ASSUME IndInv, LockInv, LinkInv, NEW p \in Proc, Acts(p), Still(p), CountsUp, TablesStay
    PROVE  LinkInv'
<1>1. Idles(pc[p], reg[p], pc'[p], reg'[p]) /\ pc[p] # "iread" /\ pc'[p] # "iread"
  BY DEF Still, Calm
<1>2. UNCHANGED <<i_number, i_mode, i_nlink, d_ino>>
  BY DEF TablesStay
<1> QED BY <1>1, <1>2, PlaceKept, QuietLinks

(* Only the end of iput() takes the last reference from a slot. *)
LEMMA CountsStay ==
    ASSUME IndInv, NEW p \in Proc, Acts(p), ~IputRelease(p)
    PROVE  CountsUp
<1>0. i_count \in [Slot -> Nat]
  BY DEF IndInv, OneSlotPerInode, TypeOK
<1>1. UNCHANGED i_count => CountsUp
  BY DEF CountsUp
<1>2. ASSUME NEW s, NEW k, i_count' = [i_count EXCEPT ![s] = k], k # 0
      PROVE  CountsUp
  BY <1>0, <1>2 DEF CountsUp
<1> USE DEF fsVars, slotVars
<1>3. CASE EnterStep(p) \/ NameiStep(p)
  <2>1. UNCHANGED i_count
    BY <1>3, Zenon DEF EnterStep, EnterNamei, EnterPipe, EnterUpdate, EnterClose, NameiStep,
       NameiDir, NameiError, NameiFails, NameiFound, NameiVictim, NameiNew
  <2> QED BY <1>1, <2>1
<1>4. CASE IgetStep(p)
  <2>1. CASE IgetFound(p)
    <3>1. PICK s \in Hashed(reg[p].ino) : i_count' = [i_count EXCEPT ![s] = i_count[s] + 1]
      BY <2>1 DEF IgetFound
    <3>2. s \in Slot
      BY DEF Hashed
    <3>3. i_count[s] + 1 # 0
      BY <1>0, <3>2
    <3> QED BY <1>2, <3>1, <3>3
  <2>2. CASE IgetAssign(p)
    <3>1. i_count' = [i_count EXCEPT ![Head(ifreelist)] = 1]
      BY <2>2 DEF IgetAssign
    <3> QED BY <1>0, <3>1 DEF CountsUp
  <2>3. CASE IgetLocked(p) \/ IgetOverflow(p) \/ Iread(p) \/ IreadError(p)
    <3>1. UNCHANGED i_count
      BY <2>3, Zenon DEF IgetLocked, IgetOverflow, Iread, IreadError
    <3> QED BY <1>1, <3>1
  <2> QED BY <1>4, <2>1, <2>2, <2>3 DEF IgetStep
<1>5. CASE IputStep(p)
  <2>1. CASE IputMore(p)
    <3>1. i_count' = [i_count EXCEPT ![reg[p].cur] = i_count[reg[p].cur] - 1]
      BY <2>1 DEF IputMore
    <3>2. i_count[reg[p].cur] \in Nat /\ i_count[reg[p].cur] # 1
      <4>1. pc[p] = "iput" /\ i_count[reg[p].cur] # 1
        BY <2>1 DEF IputMore
      <4>2. reg[p].cur \in Slot
        BY <4>1, CurUsed
      <4> QED BY <1>0, <4>1, <4>2
    <3>3. i_count[reg[p].cur] - 1 # 0
      BY <3>2
    <3> QED BY <1>2, <3>1, <3>3
  <2>2. CASE ~IputMore(p)
    <3>1. UNCHANGED i_count
      BY <1>5, <2>2, Zenon DEF IputStep, Iupdat, IupdatError, IupdatWritten, IputLast,
         IputRemoved, IputDealloc, IputUpdate
    <3> QED BY <1>1, <3>1
  <2> QED BY <2>1, <2>2
<1>6. CASE IallocStep(p)
  <2>1. UNCHANGED i_count
    BY <1>6, Zenon DEF IallocStep, IallocWait, IallocPop, IallocSearch, IallocScan,
                       IallocScanError, IallocFilled, IallocNone, IallocFails, IallocTake,
                       IallocUsed, IallocAgain
  <2> QED BY <1>1, <2>1
<1>7. CASE OpenStep(p)
  <2>1. CASE PipeMade(p)
    <3>1. i_count' = [i_count EXCEPT ![reg[p].ip] = 2]
      BY <2>1 DEF PipeMade
    <3> QED BY <1>0, <3>1 DEF CountsUp
  <2>2. CASE ~PipeMade(p)
    <3>1. UNCHANGED i_count
      BY <1>7, <2>2, Zenon DEF OpenStep, FileNone, FileRefused, FileOpen, Opened,
         DeviceOpened, DeviceRefused, DeviceInterrupted, PipeRefused, Wdir, WdirFails,
         Made, Created, CreatedRefused
    <3> QED BY <1>1, <3>1
  <2> QED BY <2>1, <2>2
<1>8. CASE LinkStep(p)
  <2>1. UNCHANGED i_count
    BY <1>8, Zenon DEF LinkStep, LinkCounted, Linked, LinkExists, RelockWait, Relock,
                       UnlinkNone, Unlink, UnlinkRefused, UnlinkClear, UnlinkCount, UnlinkParent
  <2> QED BY <1>1, <2>1
<1>9. CASE CloseStep(p)
  <2>1. CASE UpdateInode(p)
    <3>1. PICK s \in Unwritten(p) : i_count' = [i_count EXCEPT ![s] = i_count[s] + 1]
      BY <2>1 DEF UpdateInode
    <3>2. s \in Slot
      BY DEF Unwritten
    <3>3. i_count[s] + 1 # 0
      BY <1>0, <3>2
    <3> QED BY <1>2, <3>1, <3>3
  <2>2. CASE ~UpdateInode(p)
    <3>1. UNCHANGED i_count
      BY <1>9, <2>2, Zenon DEF CloseStep, CloseWait, Close, CloseDevice, DeviceClosed,
                               UpdatePut, UpdateEnd
    <3> QED BY <1>1, <3>1
  <2> QED BY <2>1, <2>2
<1> QED BY <1>3, <1>4, <1>5, <1>6, <1>7, <1>8, <1>9 DEF Acts

(* No call that adds a name to a file. *)
NoLinks == \A c \in Calls : c.op # "link"

(* Where nobody calls link() these steps do not happen.                    *)
LEMMA LinksIdle ==
    ASSUME IndInv, NoLinks, NEW p \in Proc
    PROVE  /\ ~reg[p].second /\ reg[p].call.op # "link"
           /\ ~LinkCounted(p) /\ ~Linked(p) /\ ~LinkExists(p) /\ ~RelockWait(p) /\ ~Relock(p)
<1>1. At(p) /\ reg[p].call.op # "link"
  BY AtPlace DEF At, NoLinks
<1>2. ~reg[p].second
  BY <1>1 DEF At, Placed, Keeps
<1>3. pc[p] \notin {"linked", "exists", "relock"}
  BY <1>1, <1>2 DEF At, Placed, Keeps, Home, InGet, AfterPut, InPut, AfterUpdate
<1> QED BY <1>1, <1>2, <1>3 DEF LinkCounted, Linked, LinkExists, RelockWait, Relock

(* A slot that p has locked is read by nobody else, and the file in it is  *)
(* made or unlinked by nobody else.                                        *)
LEMMA PendAt ==
    ASSUME IndInv, NEW p \in Proc, Acts(p), NEW s \in Slot,
           \A q \in Proc \ {p} : HeldIn(reg[q], s) = 0
    PROVE  /\ Pend(s) = One(Maker(p, s)) /\ Pend(s)' = One(Maker(p, s)')
           /\ pc[p] # "iread" => ~Reading(s)
           /\ pc'[p] # "iread" => ~Reading(s)'
<1>1. \A q \in Proc \ {p} : pc'[q] = pc[q] /\ reg'[q] = reg[q]
  BY ActsSettle, OthersStay
<1>2. \A q \in Proc \ {p} : reg[q].ip # s /\ reg[q].res # s
  BY HeldType
<1>3. (\E q \in Proc : Maker(q, s)) <=> Maker(p, s)
  BY <1>2 DEF Maker
<1>4. (\E q \in Proc : Maker(q, s))' <=> Maker(p, s)'
  BY <1>1, <1>2 DEF Maker
<1>5. (pc[p] # "iread" => ~Reading(s)) /\ (pc'[p] # "iread" => ~Reading(s)')
  BY <1>1, <1>2 DEF Reading
<1>6. Pend(s) = One(Maker(p, s))
  BY <1>3 DEF Pend, One
<1>7. Pend(s)' = One(Maker(p, s)')
  BY <1>4 DEF Pend, One
<1> QED BY <1>5, <1>6, <1>7

(* A step that leaves the slots their inodes, and changes that of slot s,  *)
(* which it has locked.                                                    *)
LEMMA LinksChanged ==
    ASSUME IndInv, LockInv, LinkInv, NEW p \in Proc, NEW s \in Slot, Acts(p),
           \A q \in Proc \ {p} : HeldIn(reg[q], s) = 0,
           UNCHANGED i_number,
           \A t \in Slot \ {s} : /\ i_mode'[t] = i_mode[t] /\ i_nlink'[t] = i_nlink[t]
                                 /\ i_count'[t] = 0 => i_count[t] = 0
                                 /\ Maker(p, t)' <=> Maker(p, t),
           \A i \in Ino : i # i_number[s] => KeepsDisk(i),
           UNCHANGED d_ino \/ reg[p].dp = RootSlot,
           pc[p] = "iread" => reg[p].res = s, pc'[p] # "iread",
           Found(p)', Leaves(p)', SlotLinks(s)'
    PROVE  LinkInv'
<1>1. ~Reading(s)'
  BY PendAt
<1>2. \A t \in Slot \ {s} : i_number[t] \in Ino => i_number[t] # i_number[s]
  BY DEF IndInv, OneSlotPerInode, NoIno, Ino, ROOTINO
<1>3. Touches(p, s)
  BY <1>2 DEF Touches, KeepsSlot
<1>4. \A i \in Ino : i = i_number[s] => DiskLinks(i)'
  BY <1>1 DEF DiskLinks
<1> QED BY <1>3, <1>4, LinksKept

(* The entries of an inode are counted, *)
LEMMA EntriesNat ==
    ASSUME NEW i
    PROVE  /\ IsFiniteSet(NamesOf(i)) /\ Entries(i) \in Nat
           /\ Entries(i) = 0 <=> NamesOf(i) = {}
<1>1. IsFiniteSet(NamesOf(i))
  BY ConstantAssumption, FS_Subset DEF NamesOf
<1> QED BY <1>1, FS_CardinalityType, FS_EmptySet DEF Entries

(* and one entry made or removed changes the count of its inode only.      *)
LEMMA EntryMade ==
    ASSUME IndInv, NEW n \in Name, NEW i \in Ino, d_ino[n] = NoIno,
           d_ino' = [d_ino EXCEPT ![n] = i]
    PROVE  /\ Entries(i)' = Entries(i) + 1
           /\ \A j \in Ino : j # i => NamesOf(j)' = NamesOf(j)
<1>1. d_ino \in [Name -> Ino \cup {NoIno}] /\ NoIno \notin Ino
  BY DEF IndInv, OneSlotPerInode, TypeOK, NoIno, Ino, ROOTINO
<1>2. NamesOf(i)' = NamesOf(i) \cup {n} /\ n \notin NamesOf(i)
  BY <1>1 DEF NamesOf
<1>3. \A j \in Ino : j # i => NamesOf(j)' = NamesOf(j)
  BY <1>1 DEF NamesOf
<1>4. Entries(i)' = Entries(i) + 1
  BY <1>2, EntriesNat, FS_AddElement DEF Entries
<1> QED BY <1>3, <1>4

(* An entry that is removed takes one from the count.                      *)
LEMMA EntryRemoved ==
    ASSUME IndInv, NEW n \in Name, NEW i \in Ino, d_ino[n] = i,
           d_ino' = [d_ino EXCEPT ![n] = NoIno]
    PROVE  /\ Entries(i)' = Entries(i) - 1
           /\ \A j \in Ino : j # i => NamesOf(j)' = NamesOf(j)
<1>1. d_ino \in [Name -> Ino \cup {NoIno}] /\ NoIno \notin Ino
  BY DEF IndInv, OneSlotPerInode, TypeOK, NoIno, Ino, ROOTINO
<1>2. NamesOf(i)' = NamesOf(i) \ {n} /\ n \in NamesOf(i)
  BY <1>1 DEF NamesOf
<1>3. \A j \in Ino : j # i => NamesOf(j)' = NamesOf(j)
  BY <1>1 DEF NamesOf
<1>4. Entries(i)' = Entries(i) - 1
  BY <1>2, EntriesNat, FS_RemoveElement DEF Entries
<1> QED BY <1>3, <1>4

(* What iget() returns with.                                               *)
LEMMA GetPlaced ==
    ASSUME IndInv, LinkInv, NEW p \in Proc, NEW s \in Slot, pc[p] \in {"iget", "iread"},
           IgetReturn(p, s), Errs(pc[p], reg[p]), UNCHANGED d_ino,
           i_number'[s] = reg[p].ino
    PROVE  /\ Found(p)' /\ Leaves(p)' /\ pc'[p] # "iread"
           /\ \A t : ~Maker(p, t) /\ ~Maker(p, t)'
<1> DEFINE r == reg[p]
<1>0. At(p) /\ Found(p)
  BY AtPlace DEF LinkInv
<1>1. /\ pc'[p] = r.iget /\ reg'[p].res = s /\ reg'[p].name = r.name /\ reg'[p].call = r.call
      /\ reg'[p].second = r.second
      /\ pc'[p] \in {"dir", "file", "exists", "victim", "new"}
  BY GetQuiet
<1>2. Home(pc[p], r) = r.iget /\ InGet(pc[p], r)
  BY <1>0 DEF At, Placed, Home, InGet, AfterPut, InPut, AfterUpdate
<1>3. /\ Home(pc'[p], reg'[p]) = r.iget /\ ~InGet(pc'[p], reg'[p])
      /\ AfterUpdate(pc'[p], reg'[p]) = r.iget
  BY <1>1 DEF Home, InGet, AfterPut, InPut, AfterUpdate
<1>4. Leaves(p)'
  BY <1>1, <1>3 DEF Leaves
<1>5. \A t : ~Maker(p, t) /\ ~Maker(p, t)'
  BY <1>1, <1>2, <1>3 DEF Maker, Making
<1>6. Found(p)'
  <2>1. Home(pc'[p], reg'[p]) = "victim" => i_number'[s] = d_ino[r.name]
    BY <1>0, <1>2, <1>3 DEF Found
  <2>2. Absent(pc'[p], reg'[p]) => d_ino[r.name] = NoIno
    BY <1>0, <1>1, <1>2, <1>3 DEF Found, Absent
  <2> QED BY <1>1, <1>3, <2>1, <2>2 DEF Found
<1> QED BY <1>1, <1>4, <1>5, <1>6

(* The steps of iget() keep the links right: *)
LEMMA IgetFoundLinks ==
    ASSUME IndInv, LockInv, Coherence, LinkInv, NEW p \in Proc, IgetFound(p)
    PROVE  LinkInv'
<1>0. Acts(p) /\ Errs(pc[p], reg[p]) /\ pc[p] = "iget"
  BY DEF Acts, IgetStep, Coherence, IgetFound, Iget
<1>1. PICK s \in Hashed(reg[p].ino) : IgetReturn(p, s)
  BY Zenon DEF IgetFound
<1>2. s \in Slot /\ i_number[s] = reg[p].ino
  BY DEF Hashed
<1>3. TablesStay
  BY DEF IgetFound, TablesStay, diskVars
<1>4. CountsUp
  BY <1>0, CountsStay DEF IputRelease
<1>5. UNCHANGED d_ino /\ i_number'[s] = reg[p].ino
  BY <1>2, <1>3 DEF TablesStay
<1>6. /\ Found(p)' /\ Leaves(p)' /\ pc'[p] # "iread"
      /\ \A t : ~Maker(p, t) /\ ~Maker(p, t)'
  BY <1>0, <1>1, <1>2, <1>5, GetPlaced
<1> QED BY <1>0, <1>3, <1>4, <1>6, QuietLinks

(* the inode that leaves its slot has been written,                        *)
LEMMA IgetAssignLinks ==
    ASSUME IndInv, LockInv, Coherence, LinkInv, NEW p \in Proc, IgetAssign(p)
    PROVE  LinkInv'
<1> DEFINE r == reg[p]
<1>0. At(p) /\ Acts(p) /\ Errs(pc[p], r) /\ Found(p) /\ pc[p] = "iget"
  BY AtPlace DEF Acts, IgetStep, Coherence, LinkInv, IgetAssign, Iget
<1>1. PICK s : s = Head(ifreelist)
  OBVIOUS
<1>2. s \in Slot /\ i_count[s] = 0 /\ i_flag[s] = {}
  <2>1. ifreelist # <<>> /\ s \in Slot
    BY <1>1, IgetAssignShifts DEF IgetAssign
  <2>2. ifreelist \in Seq(Slot) /\ \A t \in Slot : i_count[t] = 0 <=> Contains(ifreelist, t)
    BY DEF IndInv, OneSlotPerInode, TypeOK, CountsReferences
  <2>3. Contains(ifreelist, s)
    <3>1. 1 \in 1 .. Len(ifreelist) /\ ifreelist[1] = s
      BY <1>1, <2>1, <2>2
    <3> QED BY <3>1, <2>2 DEF Contains
  <2> QED BY <2>1, <2>2, <2>3 DEF IndInv, FreeUnmarked
<1>3. \A q \in Proc : HeldIn(reg[q], s) = 0
  BY <1>2, Nobodys
<1>4. /\ pc'[p] = "iread" /\ reg'[p] = [r EXCEPT !.res = s]
  BY <1>0, <1>1, AssignQuiet
<1>5. /\ reg'[p].res = s /\ reg'[p].ino = r.ino /\ reg'[p].name = r.name
      /\ reg'[p].call = r.call /\ reg'[p].second = r.second /\ reg'[p].iget = r.iget
  BY <1>0, <1>4 DEF At, Reg
<1>6. /\ i_number' = [i_number EXCEPT ![s] = r.ino] /\ i_count' = [i_count EXCEPT ![s] = 1]
      /\ UNCHANGED <<i_mode, i_nlink, di_mode, di_nlink, d_ino>> /\ Hashed(r.ino) = {}
  BY <1>1 DEF IgetAssign, diskVars
<1>7. /\ i_number'[s] = r.ino
      /\ \A t \in Slot \ {s} : i_number'[t] = i_number[t] /\ i_count'[t] = i_count[t]
  BY <1>2, <1>6 DEF IndInv, OneSlotPerInode, TypeOK
<1>8. /\ Home(pc[p], r) = r.iget /\ InGet(pc[p], r)
      /\ Home(pc'[p], reg'[p]) = r.iget /\ InGet(pc'[p], reg'[p])
      /\ AfterUpdate(pc'[p], reg'[p]) = "iread"
      /\ r.iget \in {"dir", "file", "exists", "victim", "new"}
  BY <1>0, <1>4, <1>5 DEF At, Placed, Returns, Home, InGet, AfterPut, InPut, AfterUpdate
<1>9. \A t : ~Maker(p, t) /\ ~Maker(p, t)'
  BY <1>8 DEF Maker, Making
<1>10. Leaves(p)'
  BY <1>8 DEF Leaves
<1>11. Found(p)'
  <2>1. r.iget = "victim" => r.ino = d_ino[r.name]
    BY <1>0, <1>8 DEF Found
  <2>2. Absent(pc'[p], reg'[p]) => d_ino[r.name] = NoIno
    BY <1>0, <1>5, <1>8 DEF Found, Absent
  <2> QED BY <1>5, <1>6, <1>7, <1>8, <2>1, <2>2 DEF Found
<1>12. SlotLinks(s)'
  BY <1>4, <1>5 DEF SlotLinks, Reading
<1>13. \A i \in Ino : KeepsDisk(i)
  BY <1>6 DEF KeepsDisk, NamesOf
<1>14. Touches(p, s)
  <2>1. \A t \in Slot \ {s} : i_number[t] \in Ino => i_number[t] \notin {i_number[s], i_number'[s]}
    BY <1>2, <1>6, <1>7 DEF Hashed, IndInv, OneSlotPerInode, NoIno, Ino, ROOTINO
  <2>2. \A t \in Slot \ {s} : KeepsSlot(t) /\ (i_count'[t] = 0 => i_count[t] = 0)
    BY <1>6, <1>7 DEF KeepsSlot
  <2> QED BY <1>0, <1>3, <1>4, <1>5, <1>6, <1>9, <1>13, <2>1, <2>2 DEF Touches
<1>15. ASSUME NEW i \in Ino, i = i_number[s] PROVE DiskLinks(i)'
  <2>1. ~Reading(s) /\ Pend(s) = 0
    BY <1>3, HeldType DEF Reading, Pend, Maker, One
  <2>2. SameAs(s)
    BY <1>2, <1>15, <2>1 DEF Coherence, FreshAt
  <2>3. /\ i_nlink[s] = Entries(i) + 0 /\ (i_mode[s] = "free" => i_nlink[s] = 0)
        /\ (i_mode[s] # "free" => Entries(i) # 0)
    BY <1>2, <1>15, <2>1 DEF LinkInv, SlotLinks
  <2>4. Entries(i) \in Nat /\ Entries(i)' = Entries(i)
    BY <1>13, EntriesNat DEF KeepsDisk, Entries
  <2> QED BY <1>6, <1>15, <2>2, <2>3, <2>4 DEF SameAs, DiskLinks
<1>16. ASSUME NEW i \in Ino, i = r.ino PROVE DiskLinks(i)'
  <2>1. \A t \in Slot : i_number[t] # i
    BY <1>6, <1>16 DEF Hashed
  <2>2. /\ di_nlink[i] = Entries(i) /\ (di_mode[i] = "free" => di_nlink[i] = 0)
        /\ (di_mode[i] # "free" => Entries(i) > 0)
    BY <2>1 DEF LinkInv, DiskLinks
  <2>3. Entries(i)' = Entries(i)
    BY <1>13 DEF KeepsDisk, Entries
  <2> QED BY <1>6, <2>2, <2>3 DEF DiskLinks
<1> QED BY <1>0, <1>7, <1>10, <1>11, <1>12, <1>14, <1>15, <1>16, LinksKept

(* and the one that enters it is as it was on the device.                  *)
LEMMA IreadLinks ==
    ASSUME IndInv, LockInv, Coherence, LinkInv, NEW p \in Proc, Iread(p)
    PROVE  LinkInv'
<1>0. At(p) /\ Acts(p) /\ Errs(pc[p], reg[p]) /\ StageAt(p) /\ pc[p] = "iread"
  BY AtPlace DEF Acts, IgetStep, Coherence, Iread
<1>1. PICK s : s = reg[p].res
  OBVIOUS
<1>2. s \in Slot /\ i_number[s] = reg[p].ino /\ reg[p].ino \in Ino
  BY <1>0, <1>1 DEF At, Placed, Handles, Reg, StageAt, InGet, AfterPut, InPut, AfterUpdate
<1>3. \A q \in Proc \ {p} : HeldIn(reg[q], s) = 0
  BY <1>1, <1>2, Unshared
<1>4. /\ i_mode' = [i_mode EXCEPT ![s] = di_mode[reg[p].ino]]
      /\ i_nlink' = [i_nlink EXCEPT ![s] = di_nlink[reg[p].ino]]
      /\ UNCHANGED <<i_number, i_count, di_mode, di_nlink, d_ino>> /\ IgetReturn(p, s)
  BY <1>1 DEF Iread, diskVars
<1>5. /\ i_mode'[s] = di_mode[i_number[s]] /\ i_nlink'[s] = di_nlink[i_number[s]]
      /\ \A t \in Slot \ {s} : i_mode'[t] = i_mode[t] /\ i_nlink'[t] = i_nlink[t]
  BY <1>2, <1>4 DEF IndInv, OneSlotPerInode, TypeOK
<1>6. /\ Found(p)' /\ Leaves(p)' /\ pc'[p] # "iread"
      /\ \A t : ~Maker(p, t) /\ ~Maker(p, t)'
  BY <1>0, <1>2, <1>4, GetPlaced
<1>7. \A i \in Ino : KeepsDisk(i)
  BY <1>4 DEF KeepsDisk, NamesOf
<1>8. SlotLinks(s)'
  <2> DEFINE i == i_number[s]
  <2>1. \A t \in Slot : i_number[t] = i => Reading(t)
    BY <1>0, <1>1, <1>2 DEF Reading, IndInv, OneSlotPerInode, NoIno, Ino, ROOTINO
  <2>2. /\ di_nlink[i] = Entries(i) /\ (di_mode[i] = "free" => di_nlink[i] = 0)
        /\ (di_mode[i] # "free" => Entries(i) > 0)
    BY <1>2, <2>1 DEF LinkInv, DiskLinks
  <2>3. Pend(s)' = 0
    BY <1>0, <1>2, <1>3, <1>6, PendAt DEF One
  <2>4. Entries(i) \in Nat /\ Entries(i)' = Entries(i) /\ i' = i
    BY <1>2, <1>4, <1>7, EntriesNat DEF KeepsDisk, Entries
  <2> HIDE DEF i
  <2>5. i_nlink'[s] = Entries(i)' + Pend(s)'
    BY <1>5, <2>2, <2>3, <2>4 DEF i
  <2>6. /\ i_mode'[s] = "free" => i_nlink'[s] = 0
        /\ i_mode'[s] # "free" /\ Entries(i)' = 0 => i_count'[s] # 0
    BY <1>5, <2>2, <2>4 DEF i
  <2> QED BY <2>5, <2>6 DEF SlotLinks, i
<1> QED BY <1>0, <1>1, <1>2, <1>3, <1>4, <1>5, <1>6, <1>7, <1>8, LinksChanged

(* All of iget() keeps the links right.                                    *)
LEMMA IgetLinks ==
    ASSUME IndInv, LockInv, Coherence, LinkInv, WorkingDisk, NEW p \in Proc, IgetStep(p)
    PROVE  LinkInv'
<1>1. CASE IgetLocked(p) \/ IgetOverflow(p)
  <2>1. Still(p) /\ Acts(p)
    BY <1>1, IgetStill DEF Acts
  <2>2. TablesStay
    BY <1>1 DEF IgetLocked, IgetOverflow, TablesStay, diskVars, fsVars, slotVars
  <2>3. pc[p] = "iget"
    BY <1>1 DEF IgetLocked, IgetOverflow, Iget
  <2>4. CountsUp
    BY <2>1, <2>3, CountsStay DEF IputRelease
  <2> QED BY <2>1, <2>2, <2>4, StillLinks
<1> QED BY <1>1, IgetFoundLinks, IgetAssignLinks, IreadLinks, NothingFails DEF IgetStep

(* So do the steps that go on elsewhere, or change nothing but registers.  *)
LEMMA ElsewhereLinks ==
    ASSUME IndInv, LockInv, LinkInv, NEW p \in Proc, Acts(p), Still(p), pc[p] \in Elsewhere
    PROVE  LinkInv'
<1>1. ~IputRelease(p)
  BY DEF IputRelease, Elsewhere
<1> QED BY <1>1, CountsStay, ElsewhereStays, StillLinks

(* A step that changes nothing but registers keeps them right.             *)
LEMMA SameLinks ==
    ASSUME IndInv, LockInv, LinkInv, NEW p \in Proc, Acts(p), Still(p), UNCHANGED <<fsVars, wchan>>
    PROVE  LinkInv'
<1>1. TablesStay /\ CountsUp
  BY DEF fsVars, slotVars, diskVars, TablesStay, CountsUp
<1> QED BY <1>1, StillLinks

(* iupdat() writes the inode that p has locked;                            *)
LEMMA SyncIdles ==
    ASSUME NEW r
    PROVE  Idles("iupdat", r, "isync", r)
BY DEF Idles, Parting, Making, Absent, Home, InGet, AfterPut, InPut, AfterUpdate

(* what it writes are the links that the slot has.                         *)
LEMMA IupdatLinks ==
    ASSUME IndInv, LockInv, LinkInv, NEW p \in Proc, Iupdat(p) \/ IupdatWritten(p)
    PROVE  LinkInv'
<1>0. At(p) /\ Acts(p) /\ pc[p] \in {"iupdat", "isync"}
  BY AtPlace DEF Acts, IputStep, Iupdat, IupdatWritten
<1>1. PICK s : s = Target(p)
  OBVIOUS
<1>2. s \in Slot /\ i_number[s] \in Ino \cup {ROOTINO}
  BY <1>0, <1>1, TargetUsed
<1>3. \A q \in Proc \ {p} : HeldIn(reg[q], s) = 0
  BY <1>1, <1>2, Unshared DEF Target
<1>4. UNCHANGED <<i_number, i_count, i_mode, i_nlink, d_ino>>
  BY DEF Iupdat, IupdatWritten, diskVars
<1>5. Idles(pc[p], reg[p], pc'[p], reg'[p]) /\ pc[p] # "iread" /\ pc'[p] # "iread"
  <2>1. CASE IupdatReturn(p)
    <3>1. /\ Idles(pc[p], reg[p], pc'[p], reg'[p])
          /\ pc'[p] \in {"dealloc", "release", "made", "again", "opened", "linked", "syncput"}
      BY <1>0, <2>1, UpdateQuiet
    <3> QED BY <1>0, <3>1
  <2>2. CASE ~IupdatReturn(p)
    <3>1. pc[p] = "iupdat" /\ pc' = [pc EXCEPT ![p] = "isync"] /\ reg' = reg
      BY <2>2 DEF Iupdat, IupdatWritten, Pause
    <3>2. pc'[p] = "isync"
      BY <1>0, <3>1 DEF At
    <3> QED BY <3>1, <3>2, SyncIdles
  <2> QED BY <2>1, <2>2
<1>6. Found(p)' /\ Leaves(p)' /\ \A t \in Slot : Maker(p, t)' <=> Maker(p, t)
  BY <1>4, <1>5, PlaceKept
<1>7. \A i \in Ino : i # i_number[s] => di_mode'[i] = di_mode[i] /\ di_nlink'[i] = di_nlink[i]
  <2>1. CASE Iupdat(p)
    <3>1. CopyOut(s)
      BY <1>1, <2>1 DEF Iupdat
    <3>2. di_mode \in [Ino -> Mode] /\ di_nlink \in [Ino -> Int]
      BY DEF IndInv, OneSlotPerInode, TypeOK
    <3> QED BY <3>1, <3>2 DEF CopyOut
  <2>2. CASE IupdatWritten(p)
    BY <2>2 DEF IupdatWritten, diskVars
  <2> QED BY <2>1, <2>2
<1>8. \A i \in Ino : NamesOf(i)' = NamesOf(i) /\ Entries(i)' = Entries(i)
  BY <1>4 DEF NamesOf, Entries
<1>9. \A i \in Ino : i # i_number[s] => KeepsDisk(i)
  BY <1>7, <1>8 DEF KeepsDisk
<1>10. SlotLinks(s)'
  <2>1. Pend(s)' = Pend(s) /\ ~Reading(s)
    <3>1. Pend(s) = One(Maker(p, s)) /\ Pend(s)' = One(Maker(p, s)') /\ ~Reading(s)
      BY <1>0, <1>2, <1>3, <1>5, PendAt
    <3>2. Maker(p, s)' <=> Maker(p, s)
      BY <1>2, <1>6
    <3> QED BY <3>1, <3>2 DEF One
  <2>2. SlotLinks(s)
    BY <1>2 DEF LinkInv
  <2>3. i_number[s] \in Ino => Entries(i_number[s])' = Entries(i_number[s])
    BY <1>4, <1>8 DEF Entries, NamesOf
  <2> QED BY <1>4, <2>1, <2>2, <2>3 DEF SlotLinks
<1> QED BY <1>0, <1>2, <1>3, <1>4, <1>5, <1>6, <1>9, <1>10, LinksChanged

(* iput() deallocates an inode without links, and gives up the last        *)
(* reference to one with links or to a free one.                           *)
LEMMA PutPlaced ==
    ASSUME LinkInv, NEW p \in Proc, Home(pc'[p], reg'[p]) = Home(pc[p], reg[p]),
           InGet(pc'[p], reg'[p]) <=> InGet(pc[p], reg[p]),
           reg'[p].ip = reg[p].ip, reg'[p].res = reg[p].res, reg'[p].ino = reg[p].ino,
           reg'[p].name = reg[p].name, reg'[p].call = reg[p].call,
           reg'[p].second = reg[p].second, UNCHANGED <<i_number, d_ino>>
    PROVE  Found(p)' /\ \A t : Maker(p, t)' <=> Maker(p, t)
<1>1. Found(p)
  BY DEF LinkInv
<1> QED BY <1>1 DEF Found, Maker, Making, Absent

(* iput() ends with an inode that has links or is free.                    *)
LEMMA IputEndLinks ==
    ASSUME IndInv, LockInv, LinkInv, NEW p \in Proc,
           IputLast(p) \/ IputRemoved(p) \/ IputDealloc(p) \/ IputRelease(p)
    PROVE  LinkInv'
<1> DEFINE r == reg[p]
<1>0. At(p) /\ Acts(p) /\ Leaves(p) /\ pc[p] \in {"iput", "dealloc", "idle", "release"}
  BY AtPlace DEF Acts, IputStep, LinkInv, IputLast, IputRemoved, IputDealloc, IputRelease
<1>1. PICK s : s = r.cur
  OBVIOUS
<1>2. s \in Slot /\ i_count[s] # 0 /\ (i_count[s] = 1 => i_number[s] \in Ino)
  BY <1>0, <1>1, CurUsed
<1>3. \A q \in Proc \ {p} : HeldIn(reg[q], s) = 0
  BY <1>1, <1>2, Unshared
<1>4. UNCHANGED <<i_number, i_nlink, di_mode, di_nlink, d_ino>>
  BY DEF IputLast, IputRemoved, IputDealloc, IputRelease, diskVars
<1>5. \A i \in Ino : KeepsDisk(i) /\ Entries(i)' = Entries(i)
  BY <1>4 DEF KeepsDisk, NamesOf, Entries
<1>6. /\ i_nlink \in [Slot -> Int] /\ i_mode \in [Slot -> Mode] /\ i_count \in [Slot -> Nat]
  BY DEF IndInv, OneSlotPerInode, TypeOK
<1>7. CASE IputLast(p)
  <2>1. pc[p] = "iput" /\ pc'[p] = "idle" /\ reg' = reg /\ i_nlink[s] > 0
    BY <1>0, <1>1, <1>7 DEF IputLast, Goto, At
  <2>2. Home(pc'[p], reg'[p]) = Home(pc[p], r) /\ (InGet(pc'[p], reg'[p]) <=> InGet(pc[p], r))
    BY <2>1 DEF Home, InGet, AfterPut, InPut, AfterUpdate
  <2>3. Found(p)' /\ \A t : Maker(p, t)' <=> Maker(p, t)
    BY <1>4, <2>1, <2>2, PutPlaced
  <2>4. Leaves(p)'
    BY <1>1, <1>4, <2>1 DEF Leaves, AfterUpdate
  <2>5. TablesStay
    BY <1>7 DEF IputLast, TablesStay, diskVars
  <2>6. CountsUp
    BY <1>7 DEF IputLast, CountsUp
  <2> QED BY <1>0, <2>1, <2>3, <2>4, <2>5, <2>6, QuietLinks
<1>8. CASE IputRemoved(p)
  <2>1. pc[p] = "iput" /\ i_nlink[s] <= 0
    BY <1>1, <1>8 DEF IputRemoved
  <2>2. /\ AfterUpdate(pc'[p], reg'[p]) = "dealloc" /\ pc'[p] # "iread"
        /\ reg'[p].iput = r.iput /\ reg'[p].iget = r.iget /\ reg'[p].cur = s
        /\ reg'[p].ip = r.ip /\ reg'[p].res = r.res /\ reg'[p].ino = r.ino
        /\ reg'[p].name = r.name /\ reg'[p].call = r.call /\ reg'[p].second = r.second
    <3>1. CASE i_mode[s] = "reg"
      <4>1. pc'[p] = "iupdat" /\ reg'[p] = [r EXCEPT !.iupdat = "dealloc"]
        BY <1>0, <1>1, <1>8, <3>1 DEF IputRemoved, CallIupdat, Pause, At
      <4> QED BY <1>0, <1>1, <4>1 DEF At, Reg, AfterUpdate
    <3>2. CASE i_mode[s] # "reg"
      <4>1. pc'[p] = "dealloc" /\ reg'[p] = r
        BY <1>0, <1>1, <1>8, <3>2 DEF IputRemoved, Goto, At
      <4> QED BY <1>1, <4>1 DEF AfterUpdate
    <3> QED BY <3>1, <3>2
  <2>3. Home(pc'[p], reg'[p]) = Home(pc[p], r) /\ (InGet(pc'[p], reg'[p]) <=> InGet(pc[p], r))
    BY <2>1, <2>2 DEF Home, InGet, AfterPut, InPut, AfterUpdate
  <2>4. Found(p)' /\ \A t : Maker(p, t)' <=> Maker(p, t)
    BY <1>4, <2>2, <2>3, PutPlaced
  <2>5. Leaves(p)'
    BY <1>4, <2>1, <2>2 DEF Leaves
  <2>6. TablesStay
    BY <1>8 DEF IputRemoved, TablesStay, diskVars
  <2>7. CountsUp
    BY <1>8 DEF IputRemoved, CountsUp
  <2> QED BY <1>0, <2>1, <2>2, <2>4, <2>5, <2>6, <2>7, QuietLinks
<1>9. CASE IputDealloc(p)
  <2>1. pc[p] = "dealloc" /\ pc'[p] = "idle" /\ reg' = reg /\ UNCHANGED i_count
    BY <1>0, <1>9 DEF IputDealloc, Goto, At
  <2>2. i_mode' = [i_mode EXCEPT ![s] = "free"]
    BY <1>1, <1>9 DEF IputDealloc
  <2>3. i_mode'[s] = "free" /\ \A t \in Slot \ {s} : i_mode'[t] = i_mode[t]
    BY <1>2, <1>6, <2>2
  <2>4. Home(pc'[p], reg'[p]) = Home(pc[p], r) /\ (InGet(pc'[p], reg'[p]) <=> InGet(pc[p], r))
    BY <2>1 DEF Home, InGet, AfterPut, InPut, AfterUpdate
  <2>5. Found(p)' /\ \A t : Maker(p, t)' <=> Maker(p, t)
    BY <1>4, <2>1, <2>4, PutPlaced
  <2>6. Leaves(p)'
    BY <1>1, <2>1, <2>3 DEF Leaves, AfterUpdate
  <2>7. SlotLinks(s)'
    <3>1. Pend(s)' = Pend(s) /\ ~Reading(s) /\ Pend(s) \in {0, 1}
      BY <1>0, <1>2, <1>3, <2>1, <2>5, PendAt DEF One
    <3>2. i_number[s] \in Ino
      BY <1>1, <1>2, <2>1 DEF IndInv, LastOne, AfterUpdate
    <3>3. i_nlink[s] <= 0
      BY <1>0, <1>1, <2>1 DEF Leaves, AfterUpdate
    <3>4. i_nlink[s] = Entries(i_number[s]) + Pend(s)
      BY <1>2, <3>1, <3>2 DEF LinkInv, SlotLinks
    <3>5. Entries(i_number[s]) \in Nat
      BY EntriesNat
    <3>6. i_nlink[s] = 0
      BY <3>1, <3>3, <3>4, <3>5
    <3>7. Entries(i_number[s])' = Entries(i_number[s])
      BY <1>4 DEF Entries, NamesOf
    <3> QED BY <1>4, <2>3, <3>1, <3>4, <3>6, <3>7 DEF SlotLinks
  <2> QED BY <1>0, <1>2, <1>3, <1>4, <1>5, <2>1, <2>3, <2>5, <2>6, <2>7, LinksChanged
<1>10. CASE IputRelease(p)
  <2>1. Still(p) /\ pc[p] \in {"idle", "release"}
    BY <1>0, <1>10, PutStill DEF IputRelease
  <2>2. i_count' = [i_count EXCEPT ![s] = 0] /\ UNCHANGED i_mode
    BY <1>1, <1>10 DEF IputRelease
  <2>3. \A t \in Slot \ {s} : i_count'[t] = i_count[t]
    BY <1>6, <2>2
  <2>4. Found(p)' /\ Leaves(p)' /\ \A t : Maker(p, t)' <=> Maker(p, t)
    BY <1>4, <2>1, <2>2, PlaceKept DEF Still
  <2>5. pc[p] # "iread" /\ pc'[p] # "iread"
    BY <2>1 DEF Still, Calm
  <2>6. SlotLinks(s)'
    <3>1. ~Maker(p, s)
      <4>1. HeldIn(r, s) # 0
        BY <1>1, HeldType
      <4>2. HeldIn(r, s) = 1
        BY <1>2, <4>1 DEF LockInv
      <4>3. r.ip # s
        BY <1>1, <4>2 DEF HeldIn, One
      <4> QED BY <4>3 DEF Maker
    <3>2. Pend(s) = 0 /\ Pend(s)' = 0 /\ ~Reading(s)
      BY <1>0, <1>2, <1>3, <2>4, <2>5, <3>1, PendAt DEF One
    <3>3. i_number[s] \in Ino => /\ i_nlink[s] = Entries(i_number[s]) + 0
                                 /\ i_mode[s] = "free" => i_nlink[s] = 0
      BY <1>2, <3>2 DEF LinkInv, SlotLinks
    <3>4. i_mode[s] = "free" \/ i_nlink[s] > 0
      BY <1>0, <1>1, <2>1 DEF Leaves, AfterUpdate
    <3>5. Entries(i_number[s]) \in Nat /\ Entries(i_number[s])' = Entries(i_number[s])
      BY <1>4, EntriesNat DEF Entries, NamesOf
    <3> QED BY <1>4, <2>2, <3>2, <3>3, <3>4, <3>5 DEF SlotLinks
  <2> QED BY <1>0, <1>2, <1>3, <1>4, <1>5, <2>2, <2>3, <2>4, <2>5, <2>6, LinksChanged
<1> QED BY <1>7, <1>8, <1>9, <1>10

(* All of iput() and iupdat() keeps the links right;                       *)
LEMMA IputLinks ==
    ASSUME IndInv, LockInv, Coherence, LinkInv, WorkingDisk, NEW p \in Proc, IputStep(p)
    PROVE  LinkInv'
<1>0. Acts(p)
  BY DEF Acts
<1>1. CASE IputMore(p)
  <2>1. Still(p)
    BY <1>1, PutStill DEF IputMore
  <2>2. TablesStay
    BY <1>1 DEF IputMore, TablesStay, diskVars
  <2>3. CountsUp
    BY <1>0, <1>1, CountsStay DEF IputMore, IputRelease
  <2> QED BY <1>0, <2>1, <2>2, <2>3, StillLinks
<1>2. CASE IputUpdate(p)
  <2>1. Still(p) /\ UNCHANGED <<fsVars, wchan>>
    BY <1>2, IputStill DEF IputUpdate
  <2> QED BY <1>0, <2>1, SameLinks
<1> QED BY <1>1, <1>2, IupdatLinks, IputEndLinks, NothingFails DEF IputStep

(* ialloc() takes an inode that has neither name nor link;                 *)
LEMMA IallocTakeLinks ==
    ASSUME IndInv, LockInv, LinkInv, NEW p \in Proc, IallocTake(p)
    PROVE  LinkInv'
<1> DEFINE r == reg[p]
           n == [r EXCEPT !.ip = r.res, !.res = NoSlot, !.iupdat = "made"]
<1>0. At(p) /\ Acts(p) /\ Found(p) /\ pc[p] = "new"
  BY AtPlace DEF Acts, IallocStep, LinkInv, IallocTake
<1>1. PICK s : s = r.res
  OBVIOUS
<1>2. s \in Slot /\ i_count[s] # 0
  <2>1. "res" \in Field /\ r["res"] # NoSlot
    BY DEF Field, IallocTake
  <2> QED BY <1>1, <2>1, Used
<1>3. \A q \in Proc \ {p} : HeldIn(reg[q], s) = 0
  BY <1>1, <1>2, Unshared
<1>4. pc'[p] = "iupdat" /\ reg'[p] = n
  BY <1>0 DEF At, IallocTake, CallIupdat, Pause
<1>5. /\ n.ip = s /\ n.res = NoSlot /\ n.iupdat = "made" /\ n.name = r.name /\ n.call = r.call
      /\ n.second = r.second
  BY <1>0, <1>1 DEF At, Reg
<1> HIDE DEF n
<1>6. /\ i_mode[s] = "free" /\ UNCHANGED <<i_number, i_count, di_mode, di_nlink, d_ino>>
      /\ i_mode' = [i_mode EXCEPT ![s] = IF r.call.op = "pipe" THEN "fifo" ELSE "reg"]
      /\ i_nlink' = [i_nlink EXCEPT ![s] = IF r.call.op = "pipe" THEN 0 ELSE 1]
  BY <1>1 DEF IallocTake, diskVars
<1>7. /\ i_mode'[s] # "free" /\ i_nlink'[s] = IF r.call.op = "pipe" THEN 0 ELSE 1
      /\ \A t \in Slot \ {s} : i_mode'[t] = i_mode[t] /\ i_nlink'[t] = i_nlink[t]
  BY <1>2, <1>6 DEF IndInv, OneSlotPerInode, TypeOK
<1>8. /\ Home("new", r) = "new" /\ r.call.op \in {"creat", "pipe"}
      /\ Home("iupdat", n) = "made" /\ AfterUpdate("iupdat", n) = "made" /\ ~InGet("iupdat", n)
  BY <1>0, <1>5 DEF At, Placed, Keeps, Home, InGet, AfterPut, InPut, AfterUpdate, Allocating
<1>9. \A t : /\ ~Maker(p, t)
             /\ Maker(p, t)' <=> t = s /\ r.call.op = "creat"
  BY <1>0, <1>4, <1>5, <1>8 DEF Maker, Making
<1>10. Leaves(p)'
  BY <1>4, <1>8 DEF Leaves
<1>11. Found(p)'
  <2>1. r.call.op = "creat" => d_ino[r.name] = NoIno
    BY <1>0, <1>8 DEF Found, Absent, Allocating
  <2>2. Absent("iupdat", n) => r.call.op = "creat"
    BY <1>5, <1>8 DEF Absent
  <2> QED BY <1>4, <1>5, <1>6, <1>8, <2>1, <2>2 DEF Found
<1>12. \A i \in Ino : KeepsDisk(i)
  BY <1>6 DEF KeepsDisk, NamesOf
<1>13. SlotLinks(s)'
  <2>1. Pend(s) = 0 /\ ~Reading(s) /\ Pend(s)' = IF r.call.op = "creat" THEN 1 ELSE 0
    BY <1>0, <1>2, <1>3, <1>9, PendAt DEF One
  <2>2. i_number[s] \in Ino => 0 = Entries(i_number[s]) + 0
    BY <1>2, <1>6, <2>1 DEF LinkInv, SlotLinks
  <2>3. Entries(i_number[s]) \in Nat /\ Entries(i_number[s])' = Entries(i_number[s])
    BY <1>6, EntriesNat DEF Entries, NamesOf
  <2>4. i_number[s] \in Ino => i_nlink'[s] = Entries(i_number[s])' + Pend(s)'
    BY <1>7, <1>8, <2>1, <2>2, <2>3
  <2> QED BY <1>2, <1>6, <1>7, <2>4 DEF SlotLinks
<1> QED BY <1>0, <1>2, <1>3, <1>4, <1>6, <1>7, <1>9, <1>10, <1>11, <1>12, <1>13, LinksChanged

(* so does all of ialloc(),                                                *)
LEMMA IallocLinks ==
    ASSUME IndInv, LockInv, Coherence, LinkInv, WorkingDisk, NEW p \in Proc, IallocStep(p)
    PROVE  LinkInv'
<1>0. Acts(p)
  BY DEF Acts
<1>1. CASE IallocFails(p) \/ IallocUsed(p)
  <2>1. Still(p) /\ UNCHANGED <<fsVars, wchan>>
    BY <1>1, IallocStill DEF IallocFails, IallocUsed
  <2> QED BY <1>0, <2>1, SameLinks
<1>2. CASE IallocScan(p)
  <2>1. pc[p] \in Elsewhere
    BY <1>2 DEF IallocScan, Elsewhere, Label
  <2> QED BY <1>0, <1>2, <2>1, ScanStill, ElsewhereLinks
<1>3. CASE IallocWait(p) \/ IallocPop(p) \/ IallocSearch(p) \/ IallocFilled(p) \/
           IallocNone(p) \/ IallocAgain(p)
  <2>1. pc[p] \in {"ialloc", "scanned", "again"}
    BY <1>3 DEF IallocWait, IallocPop, IallocSearch, IallocFilled, IallocNone, IallocAgain
  <2>2. pc[p] \in Elsewhere
    BY <2>1 DEF Elsewhere, Label
  <2> QED BY <1>0, <1>3, <2>2, IallocStill, ElsewhereLinks
<1> QED BY <1>1, <1>2, <1>3, IallocTakeLinks, NothingFails DEF IallocStep

(* namei() finds an entry or none, with the directory locked;              *)
LEMMA NameiLinks ==
    ASSUME IndInv, LockInv, LinkInv, NoLinks, NEW p \in Proc, NameiStep(p)
    PROVE  LinkInv'
<1> DEFINE r == reg[p]
<1>0. At(p) /\ Acts(p) /\ ~r.second
  BY AtPlace, LinksIdle DEF Acts
<1>1. pc[p] \in Elsewhere
  BY DEF NameiStep, NameiDir, NameiError, NameiFails, NameiFound, NameiVictim, NameiNew,
         Elsewhere, Label
<1>2. TablesStay /\ CountsUp
  <2>1. ~IputRelease(p)
    BY <1>1 DEF IputRelease, Elsewhere
  <2> QED BY <1>0, <1>1, <2>1, CountsStay, ElsewhereStays
<1>3. CASE NameiVictim(p) \/ NameiNew(p)
  <2>1. pc[p] = "search" /\ Home(pc[p], r) = "search" /\ r.res = NoSlot
    BY <1>0, <1>3 DEF NameiVictim, NameiNew, At, Placed, Handles, Home, InGet, AfterPut, InPut,
                      AfterUpdate
  <2>2. UNCHANGED <<d_ino, i_number>>
    BY <1>2 DEF TablesStay
  <2>3. CASE NameiVictim(p)
    <3> DEFINE n == [r EXCEPT !.ino = Entry(p), !.iget = "victim"]
    <3>1. pc'[p] = "iget" /\ reg'[p] = n
      BY <1>0, <2>3 DEF At, NameiVictim, Goto
    <3>2. /\ n.ino = d_ino[r.name] /\ n.iget = "victim" /\ n.name = r.name /\ n.res = NoSlot
          /\ n.call = r.call /\ n.second = r.second
      BY <1>0, <2>1 DEF At, Reg, Entry
    <3> HIDE DEF n
    <3>3. Home("iget", n) = "victim" /\ AfterUpdate("iget", n) = "iget"
      BY <3>2 DEF Home, InGet, AfterPut, InPut, AfterUpdate
    <3>4. Found(p)' /\ Leaves(p)'
      BY <2>2, <3>1, <3>2, <3>3 DEF Found, Leaves, Absent, Allocating
    <3>5. \A t \in Slot : Maker(p, t)' <=> Maker(p, t)
      BY <2>1, <3>1, <3>3 DEF Maker, Making
    <3> QED BY <1>0, <1>2, <2>1, <3>1, <3>4, <3>5, QuietLinks
  <2>4. CASE NameiNew(p)
    <3>1. pc'[p] = "ialloc" /\ reg'[p] = r /\ d_ino[r.name] = NoIno
      BY <1>0, <2>4 DEF At, NameiNew, Pause, Entry
    <3>2. Home("ialloc", r) = "ialloc" /\ AfterUpdate("ialloc", r) = "ialloc"
      BY DEF Home, InGet, AfterPut, InPut, AfterUpdate
    <3>3. Found(p)' /\ Leaves(p)'
      BY <2>2, <3>1, <3>2 DEF Found, Leaves
    <3>4. \A t \in Slot : Maker(p, t)' <=> Maker(p, t)
      BY <2>1, <3>1, <3>2 DEF Maker, Making
    <3> QED BY <1>0, <1>2, <2>1, <3>1, <3>3, <3>4, QuietLinks
  <2> QED BY <1>3, <2>3, <2>4
<1>4. CASE NameiDir(p) \/ NameiError(p) \/ NameiFails(p) \/ NameiFound(p)
  BY <1>0, <1>1, <1>4, NameiStill, ElsewhereLinks
<1> QED BY <1>3, <1>4 DEF NameiStep

(* creat() makes the entry of the file that it has made,                   *)
LEMMA WdirLinks ==
    ASSUME IndInv, LockInv, Coherence, LinkInv, NoLinks, NEW p \in Proc, Wdir(p)
    PROVE  LinkInv'
<1> DEFINE r == reg[p]
           n == [r EXCEPT !.dp = NoSlot, !.cur = r.dp, !.iput = "created"]
<1>0. /\ At(p) /\ Acts(p) /\ ~r.second /\ Found(p) /\ pc[p] = "wdir" /\ ~r.error
      /\ WdirThen(p) = "created" /\ Home("wdir", r) = "wdir"
  <2>1. pc[p] = "wdir" /\ ~r.second /\ At(p) /\ Errs(pc[p], r) /\ Acts(p) /\ Found(p)
    BY AtPlace, LinksIdle DEF Wdir, Coherence, LinkInv, Acts, OpenStep
  <2> QED BY <2>1 DEF Errs, WdirThen, Home, InGet, AfterPut, InPut, AfterUpdate
<1>1. PICK s : s = r.ip
  OBVIOUS
<1>2. s # NoSlot /\ r.dp = RootSlot /\ r.name \in Name
  BY <1>0, <1>1, ConstantAssumption DEF At, Placed, Keeps, Reg
<1>3. s \in Slot /\ i_number[s] \in Ino
  <2>1. "ip" \in Field
    BY DEF Field
  <2> QED BY <1>1, <1>2, <2>1, Used
<1>4. \A q \in Proc \ {p} : HeldIn(reg[q], s) = 0
  BY <1>1, <1>3, Unshared
<1>5. pc'[p] = "iput" /\ reg'[p] = n
  BY <1>0 DEF At, Wdir, CallIput, Goto
<1>6. n.iput = "created"
  BY <1>0 DEF At, Reg
<1> HIDE DEF n
<1>7. Home("iput", n) = "created" /\ AfterUpdate("iput", n) = "iput"
  BY <1>6 DEF Home, InGet, AfterPut, InPut, AfterUpdate
<1>8. Found(p)' /\ Leaves(p)'
  BY <1>5, <1>7 DEF Found, Leaves, Absent, Allocating
<1>9. \A t : (Maker(p, t) <=> t = s) /\ ~Maker(p, t)'
  BY <1>0, <1>1, <1>5, <1>7 DEF Maker, Making
<1>10. /\ d_ino' = [d_ino EXCEPT ![r.name] = i_number[s]]
       /\ UNCHANGED <<i_number, i_count, i_mode, i_nlink, di_mode, di_nlink>>
  BY <1>0, <1>1 DEF Wdir, WdirInode
<1>11. d_ino[r.name] = NoIno
  BY <1>0 DEF Found, Absent
<1>12. PICK i \in Ino : i = i_number[s]
  BY <1>3
<1>13. /\ Entries(i)' = Entries(i) + 1
       /\ \A j \in Ino : j # i => NamesOf(j)' = NamesOf(j)
  BY <1>2, <1>10, <1>11, <1>12, EntryMade
<1>14. \A j \in Ino : j # i_number[s] => KeepsDisk(j)
  BY <1>10, <1>12, <1>13 DEF KeepsDisk
<1>15. SlotLinks(s)'
  <2>1. Pend(s) = 1 /\ Pend(s)' = 0 /\ ~Reading(s)
    BY <1>0, <1>3, <1>4, <1>9, PendAt DEF One
  <2>2. i_nlink[s] = Entries(i) + 1 /\ (i_mode[s] = "free" => i_nlink[s] = 0)
    BY <1>3, <1>12, <2>1 DEF LinkInv, SlotLinks
  <2>3. Entries(i) \in Nat
    BY EntriesNat
  <2>4. Entries(i_number[s])' = Entries(i)'
    BY <1>10, <1>12 DEF Entries, NamesOf
  <2> QED BY <1>10, <1>13, <2>1, <2>2, <2>3, <2>4 DEF SlotLinks
<1>16. \A t \in Slot \ {s} : Maker(p, t)' <=> Maker(p, t)
  BY <1>9
<1> QED BY <1>0, <1>2, <1>3, <1>4, <1>5, <1>8, <1>10, <1>14, <1>15, <1>16, LinksChanged

(* and so do open(), creat() and pipe().                                   *)
LEMMA OpenLinks ==
    ASSUME IndInv, NoDevices, LockInv, Coherence, LinkInv, NoLinks, WorkingDisk, NEW p \in Proc,
           OpenStep(p)
    PROVE  LinkInv'
<1>0. Acts(p)
  BY DEF Acts
<1>1. CASE FileNone(p) \/ FileRefused(p)
  <2>1. Still(p) /\ UNCHANGED <<fsVars, wchan>>
    BY <1>1, OpenStill DEF FileNone, FileRefused
  <2> QED BY <1>0, <2>1, SameLinks
<1>2. CASE FileOpen(p)
  <2>1. Still(p)
    BY <1>2, OpenStill
  <2>2. TablesStay /\ CountsUp
    BY <1>2 DEF FileOpen, TablesStay, diskVars, CountsUp
  <2> QED BY <1>0, <2>1, <2>2, StillLinks
<1>3. CASE Opened(p) \/ PipeMade(p) \/ PipeRefused(p) \/ Made(p) \/ Created(p) \/
           CreatedRefused(p)
  <2>1. pc[p] \in {"opened", "made", "created"}
    BY <1>3 DEF Opened, PipeMade, PipeRefused, Made, Created, CreatedRefused
  <2>2. pc[p] \in Elsewhere
    BY <2>1 DEF Elsewhere, Label
  <2> QED BY <1>0, <1>3, <2>2, OpenStill, ElsewhereLinks
<1> QED BY <1>1, <1>2, <1>3, WdirLinks, DevicesIdle, NothingFails DEF OpenStep

(* unlink() has the inode that the entry leads to,                         *)
LEMMA UnlinkFinds ==
    ASSUME IndInv, LockInv, LinkInv, NEW p \in Proc, Unlink(p)
    PROVE  LinkInv'
<1> DEFINE r == reg[p]
           n == [r EXCEPT !.ip = r.res, !.res = NoSlot]
<1>0. At(p) /\ Acts(p) /\ Found(p) /\ pc[p] = "victim" /\ r.res # NoSlot
  BY AtPlace DEF Acts, LinkStep, LinkInv, Unlink
<1>1. pc'[p] = "clear" /\ reg'[p] = n
  BY <1>0 DEF At, Unlink, Pause
<1>2. n.ip = r.res /\ n.res = NoSlot /\ n.name = r.name
  BY <1>0 DEF At, Reg
<1> HIDE DEF n
<1>3. TablesStay /\ CountsUp
  BY DEF Unlink, fsVars, slotVars, diskVars, TablesStay, CountsUp
<1>4. /\ Home("victim", r) = "victim" /\ Home("clear", n) = "clear" /\ ~InGet("clear", n)
      /\ AfterUpdate("clear", n) = "clear"
  BY DEF Home, InGet, AfterPut, InPut, AfterUpdate
<1>5. UNCHANGED <<d_ino, i_number>>
  BY <1>3 DEF TablesStay
<1>6. i_number[r.res] = d_ino[r.name]
  BY <1>0, <1>4 DEF Found
<1>7. Found(p)' /\ Leaves(p)'
  BY <1>1, <1>2, <1>4, <1>5, <1>6 DEF Found, Leaves, Absent, Allocating
<1>8. \A t \in Slot : Maker(p, t)' <=> Maker(p, t)
  BY <1>0, <1>1, <1>4 DEF Maker, Making
<1> QED BY <1>0, <1>1, <1>3, <1>7, <1>8, QuietLinks

(* empties the entry, and the inode has one link more than entries;        *)
LEMMA UnlinkClears ==
    ASSUME IndInv, LockInv, LinkInv, NEW p \in Proc, UnlinkClear(p)
    PROVE  LinkInv'
<1> DEFINE r == reg[p]
<1>0. At(p) /\ Acts(p) /\ Found(p) /\ pc[p] = "clear" /\ Home("clear", r) = "clear"
  BY AtPlace DEF Acts, LinkStep, LinkInv, UnlinkClear, Home, InGet, AfterPut, InPut, AfterUpdate
<1>1. PICK s : s = r.ip
  OBVIOUS
<1>2. s # NoSlot /\ r.dp = RootSlot /\ r.name \in Name
  BY <1>0, <1>1, ConstantAssumption DEF At, Placed, Keeps, Reg
<1>3. s \in Slot /\ i_number[s] \in Ino /\ i_count[s] # 0
  <2>1. "ip" \in Field
    BY DEF Field
  <2> QED BY <1>1, <1>2, <2>1, Used
<1>4. \A q \in Proc \ {p} : HeldIn(reg[q], s) = 0
  BY <1>1, <1>3, Unshared
<1>5. pc'[p] = "cleared" /\ reg'[p] = r
  BY <1>0 DEF At, UnlinkClear, Pause
<1>6. Home("cleared", r) = "cleared" /\ AfterUpdate("cleared", r) = "cleared"
  BY DEF Home, InGet, AfterPut, InPut, AfterUpdate
<1>7. Found(p)' /\ Leaves(p)'
  BY <1>5, <1>6 DEF Found, Leaves, Absent, Allocating
<1>8. \A t : ~Maker(p, t) /\ (Maker(p, t)' <=> t = s)
  BY <1>0, <1>1, <1>5, <1>6 DEF Maker, Making
<1>9. /\ d_ino' = [d_ino EXCEPT ![r.name] = NoIno]
      /\ UNCHANGED <<i_number, i_count, i_mode, i_nlink, di_mode, di_nlink>>
  BY DEF UnlinkClear
<1>10. PICK i \in Ino : i = i_number[s]
  BY <1>3
<1>11. d_ino[r.name] = i
  BY <1>0, <1>1, <1>10 DEF Found
<1>12. /\ Entries(i)' = Entries(i) - 1
       /\ \A j \in Ino : j # i => NamesOf(j)' = NamesOf(j)
  BY <1>2, <1>9, <1>11, EntryRemoved
<1>13. \A j \in Ino : j # i_number[s] => KeepsDisk(j)
  BY <1>9, <1>10, <1>12 DEF KeepsDisk
<1>14. SlotLinks(s)'
  <2>1. Pend(s) = 0 /\ Pend(s)' = 1 /\ ~Reading(s)
    BY <1>0, <1>3, <1>4, <1>8, PendAt DEF One
  <2>2. i_nlink[s] = Entries(i) /\ (i_mode[s] = "free" => i_nlink[s] = 0)
    <3>1. i_nlink[s] = Entries(i) + 0 /\ (i_mode[s] = "free" => i_nlink[s] = 0)
      BY <1>3, <1>10, <2>1 DEF LinkInv, SlotLinks
    <3> QED BY <3>1, EntriesNat
  <2>3. Entries(i) \in Nat
    BY EntriesNat
  <2>4. Entries(i_number[s])' = Entries(i)'
    BY <1>9, <1>10 DEF Entries, NamesOf
  <2> QED BY <1>3, <1>9, <1>12, <2>1, <2>2, <2>3, <2>4 DEF SlotLinks
<1>15. \A t \in Slot \ {s} : Maker(p, t)' <=> Maker(p, t)
  BY <1>8
<1> QED BY <1>0, <1>2, <1>3, <1>4, <1>5, <1>7, <1>9, <1>13, <1>14, <1>15, LinksChanged

(* and takes that link away.                                               *)
LEMMA UnlinkCounts ==
    ASSUME IndInv, LockInv, LinkInv, NEW p \in Proc, UnlinkCount(p)
    PROVE  LinkInv'
<1> DEFINE r == reg[p]
           n == [r EXCEPT !.ip = NoSlot, !.cur = r.ip, !.iput = "parent"]
<1>0. At(p) /\ Acts(p) /\ pc[p] = "cleared" /\ Home("cleared", r) = "cleared"
  BY AtPlace DEF Acts, LinkStep, UnlinkCount, Home, InGet, AfterPut, InPut, AfterUpdate
<1>1. PICK s : s = r.ip
  OBVIOUS
<1>2. s # NoSlot
  BY <1>0, <1>1 DEF At, Placed, Keeps, Reg
<1>3. s \in Slot /\ i_number[s] \in Ino /\ i_count[s] # 0
  <2>1. "ip" \in Field
    BY DEF Field
  <2> QED BY <1>1, <1>2, <2>1, Used
<1>4. \A q \in Proc \ {p} : HeldIn(reg[q], s) = 0
  BY <1>1, <1>3, Unshared
<1>5. pc'[p] = "iput" /\ reg'[p] = n
  BY <1>0 DEF At, UnlinkCount, CallIput, Goto
<1>6. n.iput = "parent"
  BY <1>0 DEF At, Reg
<1> HIDE DEF n
<1>7. Home("iput", n) = "parent" /\ AfterUpdate("iput", n) = "iput"
  BY <1>6 DEF Home, InGet, AfterPut, InPut, AfterUpdate
<1>8. Found(p)' /\ Leaves(p)'
  BY <1>5, <1>7 DEF Found, Leaves, Absent, Allocating
<1>9. \A t : (Maker(p, t) <=> t = s) /\ ~Maker(p, t)'
  BY <1>0, <1>1, <1>5, <1>7 DEF Maker, Making
<1>10. /\ i_nlink' = [i_nlink EXCEPT ![s] = i_nlink[s] - 1]
       /\ UNCHANGED <<i_number, i_count, i_mode, di_mode, di_nlink, d_ino>>
  BY <1>1 DEF UnlinkCount, diskVars
<1>11. /\ i_nlink'[s] = i_nlink[s] - 1
       /\ \A t \in Slot \ {s} : i_nlink'[t] = i_nlink[t]
  BY <1>3, <1>10 DEF IndInv, OneSlotPerInode, TypeOK
<1>12. \A i \in Ino : KeepsDisk(i)
  BY <1>10 DEF KeepsDisk, NamesOf
<1>13. SlotLinks(s)'
  <2>1. Pend(s) = 1 /\ Pend(s)' = 0 /\ ~Reading(s)
    BY <1>0, <1>3, <1>4, <1>9, PendAt DEF One
  <2>2. i_nlink[s] = Entries(i_number[s]) + 1 /\ (i_mode[s] = "free" => i_nlink[s] = 0)
    BY <1>3, <2>1 DEF LinkInv, SlotLinks
  <2>3. Entries(i_number[s]) \in Nat /\ Entries(i_number[s])' = Entries(i_number[s])
    BY <1>10, EntriesNat DEF Entries, NamesOf
  <2>4. i_nlink'[s] = Entries(i_number[s])' + Pend(s)' /\ i_mode[s] # "free"
    BY <1>11, <2>1, <2>2, <2>3
  <2> QED BY <1>3, <1>10, <2>4 DEF SlotLinks
<1> QED BY <1>0, <1>3, <1>4, <1>5, <1>8, <1>9, <1>10, <1>11, <1>12, <1>13, LinksChanged

(* The other steps of unlink(), close() and update(), and where a call     *)
(* begins, change nothing of that.                                         *)
LEMMA LinkLinks ==
    ASSUME IndInv, LockInv, LinkInv, NoLinks, NEW p \in Proc, LinkStep(p)
    PROVE  LinkInv'
<1>0. Acts(p)
  BY DEF Acts
<1>1. CASE UnlinkNone(p) \/ UnlinkParent(p)
  <2>1. pc[p] \in Elsewhere
    BY <1>1 DEF UnlinkNone, UnlinkParent, Elsewhere, Label
  <2> QED BY <1>0, <1>1, <2>1, LinkStill, ElsewhereLinks
<1>2. CASE UnlinkRefused(p)
  <2>1. Still(p) /\ UNCHANGED <<fsVars, wchan>>
    BY <1>2, LinkStill DEF UnlinkRefused
  <2> QED BY <1>0, <2>1, SameLinks
<1> QED BY <1>1, <1>2, LinksIdle, UnlinkFinds, UnlinkClears, UnlinkCounts DEF LinkStep

(* Nor do close(), update() and the beginning of a call.                   *)
LEMMA CloseLinks ==
    ASSUME IndInv, NoDevices, LockInv, LinkInv, NEW p \in Proc, CloseStep(p) \/ EnterStep(p)
    PROVE  LinkInv'
<1>0. Acts(p)
  BY DEF Acts
<1>1. pc[p] \in {"close", "dclosed", "sync", "syncput", "user"}
  BY DEF CloseStep, CloseWait, Close, CloseDevice, DeviceClosed, UpdateInode, UpdatePut,
         UpdateEnd, EnterStep, EnterNamei, EnterPipe, EnterUpdate, EnterClose
<1>2. pc[p] \in Elsewhere
  BY <1>1 DEF Elsewhere, Label
<1>3. Still(p)
  BY CloseStill, UpdateStill, EnterStill, DevicesIdle DEF CloseStep
<1> QED BY <1>0, <1>2, <1>3, ElsewhereLinks
-----------------------------------------------------------------------------
(* At first the device has as many links as entries of each inode;         *)
LEMMA LinksInit ==
    ASSUME Init
    PROVE  LinkInv
<1>1. ASSUME NEW p \in Proc PROVE Found(p) /\ Leaves(p)
  <2>1. pc[p] = "user"
    BY DEF Init
  <2>2. Home("user", reg[p]) = "user" /\ AfterUpdate("user", reg[p]) = "user"
    BY DEF Home, InGet, AfterPut, InPut, AfterUpdate
  <2> QED BY <2>1, <2>2 DEF Found, Leaves, Absent, Allocating
<1>2. ASSUME NEW s \in Slot PROVE SlotLinks(s)
  BY DEF Init, SlotLinks, Ino, NoIno, ROOTINO
<1>3. ASSUME NEW i \in Ino PROVE DiskLinks(i)
  <2>1. di_nlink[i] = Entries(i)
    BY DEF Init, Entries, NamesOf
  <2>2. di_mode[i] = "free" <=> di_nlink[i] = 0
    BY DEF Init
  <2> QED BY <2>1, <2>2, EntriesNat DEF DiskLinks
<1> QED BY <1>1, <1>2, <1>3 DEF LinkInv

(* and every step keeps the links right.                                   *)
LEMMA LinksNext ==
    ASSUME IndInv, NoDevices, LockInv, WorkingDisk, NoLinks, Coherence, LinkInv, [Next]_vars
    PROVE  LinkInv'
<1>1. CASE UNCHANGED vars
  <2>1. UNCHANGED <<i_number, i_count, i_mode, i_nlink, di_mode, di_nlink, d_ino, pc, reg>>
    BY <1>1 DEF vars, fsVars, slotVars, diskVars
  <2> QED BY <2>1, ZenonT(40) DEF LinkInv, Found, Leaves, SlotLinks, DiskLinks, Entries, NamesOf, Pend,
                      Maker, Reading
<1>2. ASSUME NEW p \in Proc, Acts(p) PROVE LinkInv'
  BY <1>2, IgetLinks, IputLinks, IallocLinks, NameiLinks, OpenLinks, LinkLinks, CloseLinks
     DEF Acts
<1> QED BY <1>1, <1>2 DEF Next, Acts

(* No call is under way. *)
Settled == \A p \in Proc : pc[p] = "user"

(* An inode has as many links as entries, or one more while a call makes   *)
(* or removes its entry; it is free only without links, and is not free    *)
(* without entries only as long as somebody uses it.                       *)
LEMMA LinksAt ==
    ASSUME IndInv, Coherence, LinkInv, NEW i \in Ino
    PROVE  \E k \in {0, 1} :
               /\ LinksOf(i) = Entries(i) + k
               /\ Settled => k = 0
               /\ ModeOf(i) = "free" => LinksOf(i) = 0
               /\ ModeOf(i) # "free" /\ Entries(i) = 0 => \E s \in Hashed(i) : i_count[s] # 0
<1> DEFINE Away == Hashed(i) = {} \/ \E p \in Proc : pc[p] = "iread" /\ reg[p].ino = i
<1>0. Entries(i) \in Nat
  BY EntriesNat
<1>1. CASE Away
  <2>1. ASSUME NEW s \in Slot, i_number[s] = i PROVE Reading(s)
    <3>1. s \in Hashed(i)
      BY <2>1 DEF Hashed
    <3>2. PICK p \in Proc : pc[p] = "iread" /\ reg[p].ino = i
      BY <1>1, <3>1
    <3>3. i_number[reg[p].res] = i /\ reg[p].res \in Slot
      BY <3>2, AtPlace DEF Coherence, StageAt, At, Reg, Placed, Handles
    <3>4. reg[p].res = s
      BY <2>1, <3>3 DEF IndInv, OneSlotPerInode, NoIno, Ino, ROOTINO
    <3> QED BY <3>2, <3>4 DEF Reading
  <2>2. /\ di_nlink[i] = Entries(i)
        /\ di_mode[i] = "free" => di_nlink[i] = 0
        /\ di_mode[i] # "free" => Entries(i) > 0
    BY <2>1 DEF LinkInv, DiskLinks
  <2>3. LinksOf(i) = di_nlink[i] /\ ModeOf(i) = di_mode[i]
    BY <1>1, Zenon DEF LinksOf, ModeOf
  <2>4. LinksOf(i) = Entries(i) + 0
    BY <1>0, <2>2, <2>3
  <2>5. ModeOf(i) # "free" /\ Entries(i) = 0 => FALSE
    BY <1>0, <2>2, <2>3
  <2> QED BY <2>2, <2>3, <2>4, <2>5
<1>2. CASE ~Away
  <2>1. PICK s : s = CHOOSE t \in Slot : t \in Hashed(i)
    OBVIOUS
  <2>2. s \in Slot /\ s \in Hashed(i) /\ i_number[s] = i
    BY <1>2, <2>1 DEF Hashed
  <2>3. LinksOf(i) = i_nlink[s] /\ ModeOf(i) = i_mode[s]
    BY <1>2, <2>1 DEF LinksOf, ModeOf
  <2>4. ~Reading(s)
    <3>1. SUFFICES ASSUME NEW p \in Proc, pc[p] = "iread", reg[p].res = s PROVE FALSE
      BY DEF Reading
    <3>2. reg[p].ino = i
      BY <2>2, <3>1 DEF Coherence, StageAt
    <3> QED BY <1>2, <3>1, <3>2
  <2>5. /\ i_nlink[s] = Entries(i) + Pend(s)
        /\ i_mode[s] = "free" => i_nlink[s] = 0
        /\ i_mode[s] # "free" /\ Entries(i) = 0 => i_count[s] # 0
    BY <2>2, <2>4 DEF LinkInv, SlotLinks
  <2>6. Pend(s) \in {0, 1}
    BY DEF Pend, One
  <2>7. Settled => Pend(s) = 0
    <3>1. \A r : ~Making("user", r)
      BY DEF Making, Home, InGet, AfterPut, InPut, AfterUpdate
    <3>2. ASSUME Settled PROVE ~\E p \in Proc : Maker(p, s)
      BY <3>1, <3>2 DEF Settled, Maker
    <3> QED BY <3>2 DEF Pend, One
  <2> QED BY <2>2, <2>3, <2>5, <2>6, <2>7
<1> QED BY <1>1, <1>2

(* So a file with an entry is not free and has enough links,               *)
LEMMA LinksSurvive ==
    ASSUME IndInv, Coherence, LinkInv
    PROVE  LinkedFilesSurvive
<1> SUFFICES ASSUME NEW i \in Ino, NamesOf(i) # {}
             PROVE  ModeOf(i) # "free" /\ LinksOf(i) >= Cardinality(NamesOf(i))
  BY DEF LinkedFilesSurvive
<1>1. PICK k \in {0, 1} : /\ LinksOf(i) = Entries(i) + k
                          /\ ModeOf(i) = "free" => LinksOf(i) = 0
  BY LinksAt
<1>2. Entries(i) \in Nat /\ Entries(i) # 0
  BY EntriesNat
<1>3. LinksOf(i) >= Entries(i) /\ ModeOf(i) # "free"
  BY <1>1, <1>2
<1> QED BY <1>3 DEF Entries

(* and when no call is under way its links are exact.                      *)
LEMMA LinksSettle ==
    ASSUME IndInv, Coherence, LinkInv
    PROVE  LinksExact
<1> SUFFICES ASSUME Settled, NEW i \in Ino
             PROVE  /\ LinksOf(i) = Cardinality(NamesOf(i))
                    /\ ModeOf(i) # "free" =>
                           NamesOf(i) # {} \/ \E s \in Hashed(i) : i_count[s] > 0
  BY DEF LinksExact, Settled
<1>1. /\ LinksOf(i) = Entries(i) + 0
      /\ ModeOf(i) # "free" /\ Entries(i) = 0 => \E s \in Hashed(i) : i_count[s] # 0
  BY LinksAt
<1>2. Entries(i) \in Nat /\ (NamesOf(i) = {} => Entries(i) = 0)
  BY EntriesNat
<1>3. \A s \in Hashed(i) : i_count[s] # 0 => i_count[s] > 0
  BY DEF IndInv, OneSlotPerInode, TypeOK, Hashed
<1>4. LinksOf(i) = Entries(i)
  BY <1>1, <1>2
<1> QED BY <1>1, <1>2, <1>3, <1>4 DEF Entries

(* A file is deallocated only when no entry of the directory leads to it,  *)
(* and an inode has at least as many links as entries: where no block of   *)
(* inodes fails, in a file system without devices, while each pipe() has   *)
(* its inode to itself and as long as nobody calls link().                 *)
THEOREM LinkedSurvive ==
    ASSUME Special = {}, WorkingDisk, NoLinks
    PROVE  Spec /\ []PipesAlone => []LinkedFilesSurvive
<1>1. Init => NoDevices /\ LockInv /\ Coherence /\ LinkInv
  BY LocksInit, CoherenceInit, LinksInit
<1>2. /\ IndInv /\ PipesAlone /\ NoDevices /\ LockInv /\ Coherence /\ LinkInv /\ [Next]_vars
      => NoDevices' /\ LockInv' /\ Coherence' /\ LinkInv'
  BY LocksNext, CoherenceNext, LinksNext
<1>3. IndInv /\ Coherence /\ LinkInv => LinkedFilesSurvive
  BY LinksSurvive
<1> QED BY <1>1, <1>2, <1>3, IndCorrect, PTL DEF Spec

(* When no call is under way the links of every inode are the entries that *)
(* lead to it, and one without an entry or an opener is free: under the    *)
(* same conditions.                                                        *)
THEOREM LinksCount ==
    ASSUME Special = {}, WorkingDisk, NoLinks
    PROVE  Spec /\ []PipesAlone => []LinksExact
<1>1. Init => NoDevices /\ LockInv /\ Coherence /\ LinkInv
  BY LocksInit, CoherenceInit, LinksInit
<1>2. /\ IndInv /\ PipesAlone /\ NoDevices /\ LockInv /\ Coherence /\ LinkInv /\ [Next]_vars
      => NoDevices' /\ LockInv' /\ Coherence' /\ LinkInv'
  BY LocksNext, CoherenceNext, LinksNext
<1>3. IndInv /\ Coherence /\ LinkInv => LinksExact
  BY LinksSettle
<1> QED BY <1>1, <1>2, <1>3, IndCorrect, PTL DEF Spec

(* All three hold without a condition on the steps where nobody calls      *)
(* pipe() or link() in a file system without devices and bad blocks.       *)
THEOREM PlainFiles ==
    ASSUME Special = {}, WorkingDisk, \A c \in Calls : c.op \notin {"pipe", "link"}
    PROVE  Spec => [](Coherent /\ LinkedFilesSurvive /\ LinksExact)
<1>1. NoLinks
  BY DEF NoLinks
<1>2. IndInv => PipesAlone
  BY DEF IndInv, PipesAlone
<1>3. Init => IndInv
  BY InitKept
<1>4. IndInv /\ [Next]_vars => IndInv'
  BY <1>2, NextKept
<1>5. Spec => []PipesAlone
  BY <1>2, <1>3, <1>4, PTL DEF Spec
<1>6. /\ Spec /\ []PipesAlone => []Coherent
      /\ Spec /\ []PipesAlone => []LinkedFilesSurvive
      /\ Spec /\ []PipesAlone => []LinksExact
  BY <1>1, InodesCoherent, LinkedSurvive, LinksCount
<1> QED BY <1>5, <1>6, PTL
=============================================================================
