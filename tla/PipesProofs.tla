----------------------------- MODULE PipesProofs -----------------------------
(***************************************************************************)
(* Proofs about Pipes: for any number of processes and files, any modes    *)
(* and any size, the counts are exact, nobody sleeps without a reason, and *)
(* the blocks and the pointers into them are a Fifo.                       *)
(***************************************************************************)
EXTENDS Pipes, FiniteSetTheorems, SequenceTheorems, TLAPS

AllModes == Modes \cup {NoFile, {"FREAD"}, {"FWRITE"}}
Op == Ended \cup {"open", "read", "write"}
AnyCall == [op : Op, f : File \cup {NoFile}, left : Seq(Bytes), n : Nat]

(* What of TypeOK the proofs need: all but the places of the bytes.        *)
Types ==
    /\ f_flag \in [File -> AllModes]
    /\ i_frcnt \in Nat /\ i_fwcnt \in Nat /\ i_fflag \subseteq {"IFIR", "IFIW"}
    /\ i_size \in 0 .. PIPSIZ
    /\ call \in [Proc -> AnyCall]
    /\ wchan \in [Proc -> {Awake, "frcnt", "fwcnt"}]

(* Calls use files that are open; a file that is being opened is used by   *)
(* nobody else.                                                            *)
Users ==
    \A p \in Proc :
        /\ Idle(p) => wchan[p] = Awake /\ call[p].f = NoFile
        /\ ~Idle(p) => call[p].f \in File /\ f_flag[call[p].f] # NoFile
        /\ call[p].op = "write" => "FWRITE" \in f_flag[call[p].f]
        /\ call[p].op = "open" => \A q \in Proc \ {p} : call[q].f # call[p].f

IndInv == Types /\ Users /\ CountsExact /\ SleepersBlocked

(* The pointers are places of the pipe, also after an iomove() has failed. *)
Pointers == i_frptr \in Spot /\ i_fwptr \in Spot
-----------------------------------------------------------------------------
(* A free file gets a mode. *)
LEMMA HavingOpened ==
    ASSUME f_flag \in [File -> AllModes], NEW f \in File, NEW m, NEW flag,
           f_flag[f] = NoFile, f_flag' = [f_flag EXCEPT ![f] = m]
    PROVE  /\ Having(flag) \in Nat
           /\ Having(flag)' = Having(flag) + One(flag \in m)
<1> DEFINE S == {g \in File : flag \in f_flag[g]}
<1> DEFINE T == {g \in File : flag \in f_flag'[g]}
<1>1. IsFiniteSet(S) /\ Cardinality(S) \in Nat
  BY FS_Subset, FS_CardinalityType, PipeAssumption
<1>2. f \notin S /\ T = IF flag \in m THEN S \cup {f} ELSE S
  BY DEF NoFile
<1>3. Cardinality(T) = Cardinality(S) + One(flag \in m)
  <2> HIDE DEF S, T
  <2>1. CASE flag \in m
    BY <1>1, <1>2, <2>1, FS_AddElement DEF One
  <2>2. CASE flag \notin m
    BY <1>1, <1>2, <2>2 DEF One
  <2> QED BY <2>1, <2>2
<1> QED BY <1>1, <1>3 DEF Having

(* A file is given back. *)
LEMMA HavingClosed ==
    ASSUME f_flag \in [File -> AllModes], NEW f \in File, NEW flag,
           f_flag' = [f_flag EXCEPT ![f] = NoFile]
    PROVE  /\ Having(flag) \in Nat
           /\ Having(flag)' \in Nat
           /\ Having(flag)' = Having(flag) - One(flag \in f_flag[f])
<1> DEFINE S == {g \in File : flag \in f_flag[g]}
<1> DEFINE T == {g \in File : flag \in f_flag'[g]}
<1>1. IsFiniteSet(S) /\ Cardinality(S) \in Nat
  BY FS_Subset, FS_CardinalityType, PipeAssumption
<1>2. T = S \ {f} /\ (f \in S <=> flag \in f_flag[f])
  BY DEF NoFile
<1>3. Cardinality(T) = Cardinality(S) - One(flag \in f_flag[f]) /\ Cardinality(T) \in Nat
  <2> HIDE DEF S, T
  <2>1. IsFiniteSet(T) /\ Cardinality(T) = IF f \in S THEN Cardinality(S) - 1 ELSE Cardinality(S)
    BY <1>1, <1>2, FS_RemoveElement
  <2> QED BY <1>1, <1>2, <2>1, FS_CardinalityType DEF One
<1> QED BY <1>1, <1>3 DEF Having

(* A file that has a mode is counted. *)
LEMMA HavingOne ==
    ASSUME f_flag \in [File -> AllModes], NEW f \in File, NEW flag, flag \in f_flag[f]
    PROVE  Having(flag) \in Nat /\ Having(flag) > 0
<1> DEFINE S == {g \in File : flag \in f_flag[g]}
<1>1. IsFiniteSet(S) /\ Cardinality(S) \in Nat /\ f \in S
  BY FS_Subset, FS_CardinalityType, PipeAssumption
<1>2. Cardinality(S) # 0
  <2> HIDE DEF S
  <2> QED BY <1>1, FS_EmptySet
<1> QED BY <1>1, <1>2 DEF Having

(* Types of calls. *)
LEMMA CallTypes ==
    ASSUME NEW op \in Op, NEW f \in File \cup {NoFile}, NEW s \in Seq(Bytes), NEW n \in Nat
    PROVE  /\ Call(op, f, s, n) \in AnyCall
           /\ Call(op, f, s, n).op = op /\ Call(op, f, s, n).f = f
           /\ Call(op, f, s, n).left = s /\ Call(op, f, s, n).n = n
BY DEF Call, AnyCall

LEMMA OverTypes ==
    ASSUME NEW how \in Ended
    PROVE  Over(how) \in AnyCall /\ Over(how).op = how /\ Over(how).f = NoFile
<1>1. how \in Op /\ NoFile \in File \cup {NoFile} /\ <<>> \in Seq(Bytes)
  BY DEF Op
<1> QED BY <1>1 DEF Over, Call, AnyCall
-----------------------------------------------------------------------------
LEMMA InitInv == Init => IndInv
<1> SUFFICES ASSUME Init PROVE IndInv
  OBVIOUS
<1> USE PipeAssumption DEF Init
<1>1. Types
  <2>1. Over("done") \in AnyCall
    BY OverTypes DEF Ended
  <2>2. call \in [Proc -> AnyCall] /\ wchan \in [Proc -> {Awake, "frcnt", "fwcnt"}]
    BY <2>1
  <2> QED BY <2>2 DEF Types, AllModes
<1>2. \A p \in Proc : Idle(p) /\ call[p].op = "done" /\ call[p].f = NoFile
  BY OverTypes DEF Idle, Ended
<1>3. ASSUME NEW flag PROVE Having(flag) = 0
  <2> DEFINE S == {f \in File : flag \in f_flag[f]}
  <2>1. S = {}
    BY DEF NoFile
  <2>2. Having(flag) = Cardinality(S)
    BY DEF Having
  <2> HIDE DEF S
  <2> QED BY <2>1, <2>2, FS_EmptySet
<1>4. Users /\ CountsExact /\ SleepersBlocked
  BY <1>2, <1>3 DEF Users, CountsExact, SleepersBlocked
<1> QED BY <1>1, <1>4 DEF IndInv

(* A process that ends its call, and one that sleeps in it.                *)
LEMMA EndsIs ==
    ASSUME call \in [Proc -> AnyCall], NEW p \in Proc, NEW how \in Ended, Ends(p, how)
    PROVE  /\ call' \in [Proc -> AnyCall]
           /\ call'[p].op = how /\ call'[p].f = NoFile
           /\ \A q \in Proc : q # p => call'[q] = call[q]
BY OverTypes DEF Ends

LEMMA WokenIs ==
    ASSUME NEW w \in [Proc -> {Awake, "frcnt", "fwcnt"}], NEW C
    PROVE  /\ Woken(w, C) \in [Proc -> {Awake, "frcnt", "fwcnt"}]
           /\ \A q \in Proc : Woken(w, C)[q] = IF w[q] \in C THEN Awake ELSE w[q]
BY DEF Woken

LEMMA SleepsIs ==
    ASSUME Types, NEW p \in Proc, NEW c \in AnyCall, NEW chan \in {"frcnt", "fwcnt"}, NEW C,
           Sleeps(p, c, chan, C)
    PROVE  /\ call' \in [Proc -> AnyCall] /\ wchan' \in [Proc -> {Awake, "frcnt", "fwcnt"}]
           /\ call'[p] = c /\ wchan'[p] = chan
           /\ \A q \in Proc : q # p =>
                call'[q] = call[q] /\ wchan'[q] = IF wchan[q] \in C THEN Awake ELSE wchan[q]
BY WokenIs DEF Sleeps, Wakeup, Types

(* The calls that read() and write() may be in. *)
LEMMA ReadsAre ==
    ASSUME Types, Users, NEW p \in Proc, NEW c \in Reads(p)
    PROVE  /\ c \in AnyCall /\ c.op = "read" /\ c.f \in File /\ f_flag[c.f] # NoFile
           /\ \A q \in Proc : call[q].op = "open" => call[q].f # c.f
           /\ wchan[p] = Awake /\ call[p].op # "open"
<1>1. CASE Idle(p)
  <2>1. PICK f \in Opened, n \in Counts : c = Call("read", f, <<>>, n)
    BY <1>1 DEF Reads
  <2>2. n \in Nat /\ f \in File /\ "read" \in Op /\ <<>> \in Seq(Bytes)
    BY PipeAssumption DEF Opened, Op
  <2>3. c \in AnyCall /\ c.op = "read" /\ c.f = f
    BY <2>1, <2>2 DEF Call, AnyCall
  <2> QED BY <1>1, <2>2, <2>3 DEF Opened, Users, Idle, Ended
<1>2. CASE ~Idle(p)
  <2>1. c = call[p] /\ call[p].op = "read" /\ wchan[p] = Awake
    BY <1>2 DEF Reads, Ready
  <2> QED BY <1>2, <2>1 DEF Types, Users
<1> QED BY <1>1, <1>2

LEMMA WritesAre ==
    ASSUME Types, Users, NEW p \in Proc, NEW c \in Writes(p)
    PROVE  /\ c \in AnyCall /\ c.op = "write" /\ c.f \in File /\ f_flag[c.f] # NoFile
           /\ "FWRITE" \in f_flag[c.f]
           /\ c.left \in Seq(Bytes)
           /\ \A q \in Proc : call[q].op = "open" => call[q].f # c.f
           /\ wchan[p] = Awake /\ call[p].op # "open"
<1>1. CASE Idle(p)
  <2>1. PICK f \in {g \in Opened : "FWRITE" \in f_flag[g]}, s \in Texts : c = Call("write", f, s, 0)
    BY <1>1 DEF Writes
  <2>2. s \in Seq(Bytes) /\ f \in File /\ f \in Opened /\ "write" \in Op /\ 0 \in Nat
    BY PipeAssumption DEF Opened, Op
  <2>3. c \in AnyCall /\ c.op = "write" /\ c.f = f /\ c.left = s
    BY <2>1, <2>2, CallTypes
  <2> QED BY <1>1, <2>2, <2>3 DEF Opened, Users, Idle, Ended
<1>2. CASE ~Idle(p)
  <2>1. c = call[p] /\ call[p].op = "write" /\ wchan[p] = Awake
    BY <1>2 DEF Writes, Ready
  <2>2. c \in AnyCall /\ c.left \in Seq(Bytes)
    BY <2>1 DEF Types, AnyCall
  <2> QED BY <1>2, <2>1, <2>2 DEF Users
<1> QED BY <1>1, <1>2

(* Why a process sleeps: SleepersBlocked, unfolded. *)
Why(q) ==
    \/ /\ call[q].op = "open" /\ wchan[q] = "fwcnt"
       /\ "FREAD" \in f_flag[call[q].f] /\ "FNDELAY" \notin f_flag[call[q].f]
       /\ i_fwcnt = 0 /\ i_size = 0
    \/ /\ call[q].op = "open" /\ wchan[q] = "frcnt"
       /\ "FREAD" \notin f_flag[call[q].f] /\ "FWRITE" \in f_flag[call[q].f]
       /\ i_frcnt = 0
    \/ /\ call[q].op = "read" /\ wchan[q] = "frcnt"
       /\ i_size = 0 /\ i_fwcnt > 0 /\ "IFIR" \in i_fflag
    \/ /\ call[q].op = "write" /\ wchan[q] = "fwcnt"
       /\ i_frcnt > 0 /\ "IFIW" \in i_fflag
       /\ ~Fits(call[q].left) /\ ~InPart(call[q].left)

LEMMA SleepersFrom ==
    ASSUME \A q \in Proc : wchan'[q] # Awake => Why(q)'
    PROVE  SleepersBlocked'
BY DEF SleepersBlocked, Why, WaitsFor

LEMMA SleepersAre ==
    ASSUME IndInv, NEW q \in Proc, wchan[q] # Awake
    PROVE  Why(q)
<1> USE DEF Why
<1>1. call[q].op \in {"open", "read", "write"}
  BY DEF IndInv, Types, Users, Idle, AnyCall, Op
<1>2. CASE call[q].op = "open"
  <2>1. call[q].f \in File
    BY <1>2 DEF IndInv, Users, Idle, Ended
  <2>2. "FREAD" \in f_flag[call[q].f] => i_frcnt > 0
    BY <2>1, HavingOne DEF IndInv, Types, CountsExact
  <2> DEFINE m == f_flag[call[q].f]
  <2>3. wchan[q] = WaitsFor(m, i_frcnt, i_fwcnt) /\ (wchan[q] = "fwcnt" => i_size = 0)
    BY <1>2 DEF IndInv, SleepersBlocked
  <2> HIDE DEF m
  <2>4. CASE "FREAD" \in m /\ i_fwcnt = 0 /\ "FNDELAY" \notin m /\ i_size = 0
    <3>1. WaitsFor(m, i_frcnt, i_fwcnt) = "fwcnt"
      BY <2>4 DEF WaitsFor
    <3> QED BY <1>2, <2>3, <2>4, <3>1 DEF m
  <2>5. CASE ~("FREAD" \in m /\ i_fwcnt = 0 /\ "FNDELAY" \notin m /\ i_size = 0)
    <3>1. "FWRITE" \in m /\ i_frcnt = 0 /\ wchan[q] = "frcnt"
      BY <2>3, <2>5 DEF WaitsFor, Awake
    <3> QED BY <1>2, <2>2, <3>1 DEF m
  <2> QED BY <2>4, <2>5
<1>3. CASE call[q].op # "open"
  BY <1>1, <1>3 DEF IndInv, SleepersBlocked
<1> QED BY <1>2, <1>3
-----------------------------------------------------------------------------
(* open() goes on, or sleeps, once the file is counted: what holds of the  *)
(* others.                                                                 *)
LEMMA OpenInv ==
    ASSUME IndInv, NEW p \in Proc, NEW f \in File, Open(p, f)
    PROVE  IndInv'
<1> USE PipeAssumption
<1> PICK m \in Modes :
        LET rd == i_frcnt + One("FREAD" \in m)
            wr == i_fwcnt + One("FWRITE" \in m)
        IN  /\ Idle(p) /\ f_flag[f] = NoFile
            /\ ~({"FWRITE", "FNDELAY"} \subseteq m /\ rd = 0)
            /\ f_flag' = [f_flag EXCEPT ![f] = m]
            /\ i_frcnt' = rd /\ i_fwcnt' = wr
            /\ Waiting(p, f, WaitsFor(m, rd, wr),
                   If(rd > 0 /\ i_frcnt = 0, "frcnt") \cup If(wr > 0 /\ i_fwcnt = 0, "fwcnt"))
            /\ UNCHANGED <<i_fflag, bytes>>
  BY DEF Open
<1> DEFINE at == WaitsFor(m, i_frcnt', i_fwcnt')
<1> DEFINE C == If(i_frcnt' > 0 /\ i_frcnt = 0, "frcnt") \cup If(i_fwcnt' > 0 /\ i_fwcnt = 0, "fwcnt")
<1>1. /\ Idle(p) /\ f_flag[f] = NoFile /\ f_flag' = [f_flag EXCEPT ![f] = m]
      /\ i_frcnt' = i_frcnt + One("FREAD" \in m) /\ i_fwcnt' = i_fwcnt + One("FWRITE" \in m)
      /\ Waiting(p, f, at, C)
      /\ UNCHANGED <<i_fflag, i_size, i_frptr, i_fwptr, i_faddr, data>>
  BY DEF bytes
<1>2. /\ i_frcnt \in Nat /\ i_fwcnt \in Nat /\ i_frcnt' \in Nat /\ i_fwcnt' \in Nat
      /\ i_frcnt' >= i_frcnt /\ i_fwcnt' >= i_fwcnt
      /\ wchan[p] = Awake /\ at \in {Awake, "frcnt", "fwcnt"}
  BY <1>1 DEF IndInv, Types, Users, One, WaitsFor
<1>3. /\ call' \in [Proc -> AnyCall] /\ wchan' \in [Proc -> {Awake, "frcnt", "fwcnt"}]
      /\ \A q \in Proc : q # p =>
           call'[q] = call[q] /\ wchan'[q] = IF wchan[q] \in C THEN Awake ELSE wchan[q]
      /\ IF at = Awake THEN call'[p].op = "done" /\ call'[p].f = NoFile /\ wchan'[p] = Awake
         ELSE call'[p].op = "open" /\ call'[p].f = f /\ wchan'[p] = at
  <2> HIDE DEF at, C
  <2>1. CASE at = Awake
    <3>1. Ends(p, "done") /\ wchan' = Wakeup(C)
      BY <1>1, <2>1 DEF Waiting
    <3>2. "done" \in Ended
      BY DEF Ended
    <3> QED BY <1>2, <2>1, <3>1, <3>2, EndsIs, WokenIs DEF IndInv, Types, Wakeup
  <2>2. CASE at # Awake
    <3>1. Sleeps(p, Call("open", f, <<>>, 0), at, C)
      BY <1>1, <2>2 DEF Waiting
    <3>2. /\ Call("open", f, <<>>, 0) \in AnyCall
          /\ Call("open", f, <<>>, 0).op = "open" /\ Call("open", f, <<>>, 0).f = f
      BY DEF Call, AnyCall, Op
    <3> QED BY <1>2, <2>2, <3>1, <3>2, SleepsIs DEF IndInv, Awake
  <2> QED BY <2>1, <2>2
<1>4. Types'
  BY <1>1, <1>2, <1>3 DEF IndInv, Types, AllModes
<1>5. /\ m \in AllModes /\ m # NoFile
      /\ f_flag' \in [File -> AllModes] /\ f_flag'[f] = m
      /\ \A g \in File : g # f => f_flag'[g] = f_flag[g]
  BY <1>1, <1>4 DEF IndInv, Types, AllModes, NoFile
<1>6. \A q \in Proc : q # p => call[q].f # f
  BY <1>1 DEF IndInv, Users
<1>7. Users'
  <2>1. ASSUME NEW q \in Proc, q # p
        PROVE  /\ Idle(q)' => wchan'[q] = Awake /\ call'[q].f = NoFile
               /\ ~Idle(q)' => call'[q].f \in File /\ f_flag'[call'[q].f] # NoFile
               /\ call'[q].op = "write" => "FWRITE" \in f_flag'[call'[q].f]
    BY <1>3, <1>5, <1>6, <2>1 DEF IndInv, Users, Idle, Ended
  <2>2. /\ Idle(p)' => wchan'[p] = Awake /\ call'[p].f = NoFile
        /\ call'[p].op # "write"
        /\ ~Idle(p)' => call'[p].f \in File /\ f_flag'[call'[p].f] # NoFile
    BY <1>3, <1>5 DEF Idle, Ended
  <2>3. ASSUME NEW q \in Proc, call'[q].op = "open", NEW r \in Proc \ {q}
        PROVE  call'[r].f # call'[q].f
    BY <1>1, <1>3, <1>6, <2>3 DEF IndInv, Users, Idle, Ended
  <2> QED BY <2>1, <2>2, <2>3 DEF Users
<1>8. CountsExact'
  <2>1. \A flag : Having(flag)' = Having(flag) + One(flag \in m)
    BY <1>1, HavingOpened DEF IndInv, Types
  <2>2. m \cap {"FREAD", "FWRITE"} # {}
    OBVIOUS
  <2> QED BY <1>1, <1>2, <2>1, <2>2 DEF IndInv, CountsExact, One
<1>9. SleepersBlocked'
  <2> SUFFICES ASSUME NEW q \in Proc, wchan'[q] # Awake PROVE Why(q)'
    BY SleepersFrom
  <2>1. CASE q = p
    <3>1. at # Awake /\ call'[p].op = "open" /\ f_flag'[call'[p].f] = m /\ wchan'[p] = at
      BY <1>3, <1>5, <2>1
    <3>2. "FREAD" \in m => i_frcnt' > 0
      BY <1>1, <1>2 DEF One
    <3> QED BY <1>1, <1>2, <2>1, <3>1, <3>2 DEF Why, WaitsFor, Awake
  <2>2. CASE q # p
    <3>1. call'[q] = call[q] /\ wchan'[q] = wchan[q] /\ wchan[q] \notin C
      BY <1>3, <2>2
    <3>2. call[q].op = "open" => call[q].f \in File /\ f_flag'[call[q].f] = f_flag[call[q].f]
      BY <1>5, <1>6, <2>2 DEF IndInv, Users, Idle, Ended
    <3>3. (wchan[q] = "frcnt" => ~(i_frcnt' > 0 /\ i_frcnt = 0))
          /\ (wchan[q] = "fwcnt" => ~(i_fwcnt' > 0 /\ i_fwcnt = 0))
      BY <3>1 DEF If
    <3> QED BY <1>1, <1>2, <3>1, <3>2, <3>3, SleepersAre DEF Why, Fits, InPart
  <2> QED BY <2>1, <2>2
<1> QED BY <1>4, <1>7, <1>8, <1>9 DEF IndInv

(* A step of one process that leaves the files alone. *)
LEMMA SameFiles ==
    ASSUME IndInv, NEW p \in Proc, UNCHANGED <<f_flag, counts>>,
           i_fflag' \subseteq {"IFIR", "IFIW"}, i_size' \in 0 .. PIPSIZ,
           i_frcnt = 0 /\ i_fwcnt = 0 => i_size' = 0 /\ i_faddr' = {},
           call' \in [Proc -> AnyCall], wchan' \in [Proc -> {Awake, "frcnt", "fwcnt"}],
           \A q \in Proc : q # p => call'[q] = call[q] /\ wchan'[q] \in {wchan[q], Awake},
           \/ Idle(p)' /\ wchan'[p] = Awake /\ call'[p].f = NoFile
           \/ /\ ~Idle(p)' /\ call'[p].f \in File /\ f_flag[call'[p].f] # NoFile
              /\ \A q \in Proc : q # p /\ call[q].op = "open" => call[q].f # call'[p].f
              /\ call'[p].op = "open" => call[p].op = "open" /\ call'[p].f = call[p].f
              /\ call'[p].op = "write" => "FWRITE" \in f_flag[call'[p].f],
           \A q \in Proc : wchan'[q] # Awake => Why(q)'
    PROVE  IndInv'
<1>1. Types'
  BY DEF IndInv, Types, counts
<1>2. Users'
  <2>1. ASSUME NEW q \in Proc
        PROVE  /\ Idle(q)' => wchan'[q] = Awake /\ call'[q].f = NoFile
               /\ ~Idle(q)' => call'[q].f \in File /\ f_flag'[call'[q].f] # NoFile
               /\ call'[q].op = "write" => "FWRITE" \in f_flag'[call'[q].f]
    BY <2>1 DEF IndInv, Users, Idle, Ended
  <2>2. ASSUME NEW q \in Proc, call'[q].op = "open", NEW r \in Proc \ {q}
        PROVE  call'[r].f # call'[q].f
    <3>1. call[q].op = "open" /\ call'[q].f = call[q].f /\ call[q].f \in File
      BY <2>2 DEF IndInv, Users, Idle, Ended
    <3>2. CASE r = p
      BY <2>2, <3>1, <3>2, PipeAssumption
    <3>3. CASE r # p
      BY <2>2, <3>1, <3>3 DEF IndInv, Users
    <3> QED BY <3>2, <3>3
  <2> QED BY <2>1, <2>2 DEF Users
<1>3. CountsExact'
  BY DEF IndInv, CountsExact, Having, counts
<1> QED BY <1>1, <1>2, <1>3, SleepersFrom DEF IndInv

LEMMA OpenAgainInv ==
    ASSUME IndInv, NEW p \in Proc, OpenAgain(p)
    PROVE  IndInv'
<1> DEFINE f == call[p].f
<1> DEFINE at == WaitsFor(f_flag[f], i_frcnt, i_fwcnt)
<1>1. /\ call[p].op = "open" /\ wchan[p] = Awake /\ Waiting(p, f, at, {})
      /\ f \in File /\ f_flag[f] # NoFile /\ at \in {Awake, "frcnt", "fwcnt"}
      /\ \A q \in Proc : q # p => call[q].f # f
      /\ UNCHANGED <<f_flag, counts, i_fflag, i_size, i_faddr>>
  BY DEF OpenAgain, Ready, IndInv, Users, Idle, Ended, WaitsFor, bytes
<1>2. /\ call' \in [Proc -> AnyCall] /\ wchan' \in [Proc -> {Awake, "frcnt", "fwcnt"}]
      /\ \A q \in Proc : q # p => call'[q] = call[q] /\ wchan'[q] = wchan[q]
      /\ IF at = Awake THEN call'[p].op = "done" /\ call'[p].f = NoFile /\ wchan'[p] = Awake
         ELSE call'[p].op = "open" /\ call'[p].f = f /\ wchan'[p] = at
  <2> HIDE DEF at
  <2>1. CASE at = Awake
    <3>1. Ends(p, "done") /\ wchan' = Wakeup({})
      BY <1>1, <2>1 DEF Waiting
    <3>2. "done" \in Ended
      BY DEF Ended
    <3> QED BY <1>1, <2>1, <3>1, <3>2, EndsIs, WokenIs DEF IndInv, Types, Wakeup
  <2>2. CASE at # Awake
    <3>1. Sleeps(p, Call("open", f, <<>>, 0), at, {})
      BY <1>1, <2>2 DEF Waiting
    <3>2. /\ Call("open", f, <<>>, 0) \in AnyCall
          /\ Call("open", f, <<>>, 0).op = "open" /\ Call("open", f, <<>>, 0).f = f
      BY <1>1 DEF Call, AnyCall, Op
    <3> QED BY <1>1, <2>2, <3>1, <3>2, SleepsIs DEF IndInv, Awake
  <2> QED BY <2>1, <2>2
<1>3. ASSUME NEW q \in Proc, wchan'[q] # Awake PROVE Why(q)'
  <2>1. CASE q = p
    <3>1. "FREAD" \in f_flag[f] => i_frcnt > 0
      BY <1>1, HavingOne DEF IndInv, Types, CountsExact
    <3>2. at # Awake /\ call'[p].op = "open" /\ call'[p].f = f /\ wchan'[p] = at
      BY <1>2, <1>3, <2>1
    <3> QED BY <1>1, <2>1, <3>1, <3>2 DEF Why, WaitsFor, Awake, counts
  <2>2. CASE q # p
    BY <1>1, <1>2, <1>3, <2>2, SleepersAre DEF Why, Fits, InPart, counts
  <2> QED BY <2>1, <2>2
<1> HIDE DEF at
<1>4. \/ Idle(p)' /\ wchan'[p] = Awake /\ call'[p].f = NoFile
      \/ ~Idle(p)' /\ call'[p].f = f /\ call'[p].op = "open"
  BY <1>2 DEF Idle, Ended
<1> QED BY <1>1, <1>2, <1>3, <1>4, SameFiles DEF IndInv, Types, CountsExact

(* A call that ends and at most wakes up others. *)
LEMMA EndInv ==
    ASSUME IndInv, NEW p \in Proc, UNCHANGED <<f_flag, counts>>,
           i_fflag' \subseteq {"IFIR", "IFIW"}, i_size' \in 0 .. PIPSIZ,
           i_frcnt = 0 /\ i_fwcnt = 0 => i_size' = 0 /\ i_faddr' = {},
           NEW how \in Ended, Ends(p, how), wchan[p] = Awake, NEW C, wchan' = Wakeup(C),
           \A q \in Proc : q # p /\ wchan[q] # Awake /\ wchan[q] \notin C /\ Why(q) =>
                (call'[q] = call[q] /\ wchan'[q] = wchan[q] => Why(q)')
    PROVE  IndInv'
<1>1. /\ call' \in [Proc -> AnyCall] /\ call'[p].op = how /\ call'[p].f = NoFile
      /\ \A q \in Proc : q # p => call'[q] = call[q]
  BY EndsIs DEF IndInv, Types
<1>2. /\ wchan' \in [Proc -> {Awake, "frcnt", "fwcnt"}]
      /\ \A q \in Proc : wchan'[q] = IF wchan[q] \in C THEN Awake ELSE wchan[q]
  BY WokenIs DEF IndInv, Types, Wakeup
<1>3. ASSUME NEW q \in Proc, wchan'[q] # Awake PROVE Why(q)'
  <2>1. q # p /\ wchan[q] # Awake /\ wchan[q] \notin C /\ call'[q] = call[q] /\ wchan'[q] = wchan[q]
    BY <1>1, <1>2, <1>3
  <2> QED BY <2>1, SleepersAre
<1>4. Idle(p)' /\ wchan'[p] = Awake
  BY <1>1, <1>2 DEF Idle
<1> QED BY <1>1, <1>2, <1>3, <1>4, SameFiles

(* What a loop counts of k bytes in one pass is at most what is left. *)
LEMMA PieceIs ==
    ASSUME NEW x \in Int, NEW k \in Nat
    PROVE  Piece(x, k) \in 0 .. k
<1>1. BSIZE \in Nat /\ BSIZE > 0 /\ x % BSIZE \in 0 .. BSIZE - 1
  BY PipeAssumption
<1>2. PICK m : m = BSIZE - (x % BSIZE)
  OBVIOUS
<1>3. m \in Nat
  BY <1>1, <1>2
<1>4. Piece(x, k) = Least(m, k)
  BY <1>2 DEF Piece
<1> QED BY <1>3, <1>4 DEF Least

LEMMA PieceInt ==
    ASSUME NEW x \in Int, NEW k \in Int
    PROVE  Piece(x, k) \in Int
<1>1. BSIZE \in Nat /\ BSIZE > 0 /\ x % BSIZE \in 0 .. BSIZE - 1
  BY PipeAssumption
<1>2. PICK m : m = BSIZE - (x % BSIZE)
  OBVIOUS
<1>3. m \in Int
  BY <1>1, <1>2
<1>4. Piece(x, k) = Least(m, k)
  BY <1>2 DEF Piece
<1> QED BY <1>3, <1>4 DEF Least

(* Some of the bytes are taken out, and the writers woken up. *)
LEMMA TakeInv ==
    ASSUME IndInv, NEW p \in Proc, NEW k \in 0 .. i_size, NEW j, Take(k, j),
           Ends(p, "done"), wchan[p] = Awake
    PROVE  IndInv'
<1>1. /\ i_size' = i_size - k
      /\ i_fflag' = i_fflag \ {"IFIW"}
      /\ wchan' = Wakeup(If("IFIW" \in i_fflag, "fwcnt"))
      /\ UNCHANGED <<f_flag, counts, i_faddr>>
  BY DEF Take
<1>2. "done" \in Ended
  BY DEF Ended
<1>3. i_size' \in 0 .. PIPSIZ /\ i_size \in Nat /\ i_size' <= i_size
  BY <1>1, PipeAssumption DEF IndInv, Types
<1>4. ASSUME NEW q \in Proc, wchan[q] # Awake, wchan[q] \notin If("IFIW" \in i_fflag, "fwcnt"),
             Why(q), call'[q] = call[q], wchan'[q] = wchan[q]
      PROVE  Why(q)'
  BY <1>1, <1>3, <1>4 DEF Why, If, counts
<1> HIDE DEF Why
<1> QED BY <1>1, <1>2, <1>3, <1>4, EndInv DEF IndInv, Types, CountsExact

LEMMA ReadInv ==
    ASSUME IndInv, NEW p \in Proc, Read(p)
    PROVE  IndInv'
<1>1. PICK c \in Reads(p) : LET k == Least(c.n, i_size) IN Take(k, k) /\ Ends(p, "done")
  BY Zenon DEF Read
<1>2. PICK k : k = Least(c.n, i_size) /\ Take(k, k) /\ Ends(p, "done")
  BY <1>1, Zenon
<1>3. wchan[p] = Awake /\ c.n \in Nat /\ i_size \in Nat
  BY ReadsAre DEF IndInv, AnyCall, Types
<1>4. k \in 0 .. i_size
  BY <1>2, <1>3 DEF Least
<1> QED BY <1>2, <1>3, <1>4, TakeInv

LEMMA ReadStopsInv ==
    ASSUME IndInv, Pointers, NEW p \in Proc, ReadStops(p)
    PROVE  IndInv'
<1>1. PICK c \in Reads(p), j \in Spot, why \in {"resid"} \cup Failing :
        LET k == Least(c.n, i_size)
            n == IF why = "resid" THEN 0 ELSE Piece(i_frptr + j, k - j)
        IN  j < k /\ Take(j + n, IF why = "bread" THEN j + n ELSE j) /\ Ends(p, "done")
  BY Zenon DEF ReadStops
<1>2. PICK k, n :
        /\ k = Least(c.n, i_size)
        /\ n = IF why = "resid" THEN 0 ELSE Piece(i_frptr + j, k - j)
        /\ j < k /\ Take(j + n, IF why = "bread" THEN j + n ELSE j) /\ Ends(p, "done")
  BY <1>1, Zenon
<1>3. wchan[p] = Awake /\ c.n \in Nat /\ i_size \in Nat /\ j \in Nat /\ PIPSIZ \in Nat
  BY ReadsAre, PipeAssumption DEF IndInv, AnyCall, Types, Spot
<1>4. k \in Nat /\ k <= i_size /\ k - j \in Nat
  BY <1>2, <1>3 DEF Least
<1>5. n \in 0 .. k - j
  <2>1. CASE why # "resid"
    <3>1. i_frptr + j \in Int
      BY <1>3 DEF Pointers, Spot
    <3> QED BY <1>2, <1>4, <2>1, <3>1, PieceIs
  <2>2. CASE why = "resid"
    BY <1>2, <1>4, <2>2
  <2> QED BY <2>1, <2>2
<1>6. j + n \in 0 .. i_size
  BY <1>3, <1>4, <1>5
<1> QED BY <1>2, <1>3, <1>6, TakeInv

(* A call that sleeps, and wakes up others before. *)
LEMMA SleepInv ==
    ASSUME IndInv, NEW p \in Proc, UNCHANGED <<f_flag, counts>>,
           i_fflag' \subseteq {"IFIR", "IFIW"}, i_size' \in 0 .. PIPSIZ,
           i_frcnt = 0 /\ i_fwcnt = 0 => i_size' = 0 /\ i_faddr' = {},
           NEW c \in AnyCall, NEW chan \in {"frcnt", "fwcnt"}, NEW C, Sleeps(p, c, chan, C),
           c.op \in {"read", "write"}, c.f \in File, f_flag[c.f] # NoFile,
           c.op = "write" => "FWRITE" \in f_flag[c.f],
           \A q \in Proc : call[q].op = "open" => call[q].f # c.f,
           call'[p] = c /\ wchan'[p] = chan => Why(p)',
           \A q \in Proc : q # p /\ wchan[q] # Awake /\ wchan[q] \notin C /\ Why(q) =>
                (call'[q] = call[q] /\ wchan'[q] = wchan[q] => Why(q)')
    PROVE  IndInv'
<1>1. /\ call' \in [Proc -> AnyCall] /\ wchan' \in [Proc -> {Awake, "frcnt", "fwcnt"}]
      /\ call'[p] = c /\ wchan'[p] = chan
      /\ \A q \in Proc : q # p =>
           call'[q] = call[q] /\ wchan'[q] = IF wchan[q] \in C THEN Awake ELSE wchan[q]
  BY SleepsIs DEF IndInv
<1>2. ASSUME NEW q \in Proc, wchan'[q] # Awake PROVE Why(q)'
  <2>1. CASE q = p
    BY <1>1, <2>1
  <2>2. CASE q # p
    <3>1. wchan[q] # Awake /\ wchan[q] \notin C /\ call'[q] = call[q] /\ wchan'[q] = wchan[q]
      BY <1>1, <1>2, <2>2
    <3> QED BY <2>2, <3>1, SleepersAre
  <2> QED BY <2>1, <2>2
<1>3. ~Idle(p)' /\ call'[p].op # "open"
  BY <1>1 DEF Idle, Ended
<1>4. \A q \in Proc : q # p => wchan'[q] \in {wchan[q], Awake}
  BY <1>1
<1> HIDE DEF Why
<1> QED BY <1>1, <1>2, <1>3, <1>4, SameFiles

LEMMA ReadNoneInv ==
    ASSUME IndInv, NEW p \in Proc, ReadNone(p)
    PROVE  IndInv'
<1>1. PICK c \in Reads(p) : Ends(p, "end") \/ Ends(p, "done")
  BY DEF ReadNone
<1>2. UNCHANGED <<f_flag, counts, i_fflag, i_size, i_faddr, wchan>>
  BY DEF ReadNone, bytes
<1>3. wchan[p] = Awake /\ "end" \in Ended /\ "done" \in Ended
  BY ReadsAre DEF IndInv, Ended
<1>4. wchan' = Wakeup({})
  BY <1>2 DEF Wakeup, Woken, IndInv, Types
<1>5. ASSUME NEW q \in Proc, Why(q), call'[q] = call[q], wchan'[q] = wchan[q]
      PROVE  Why(q)'
  BY <1>2, <1>5 DEF Why, Fits, InPart, counts
<1> QED BY <1>1, <1>2, <1>3, <1>4, <1>5, EndInv DEF IndInv, Types, CountsExact

LEMMA ReadWaitsInv ==
    ASSUME IndInv, NEW p \in Proc, ReadWaits(p)
    PROVE  IndInv'
<1>1. PICK c \in Reads(p) :
        /\ i_size = 0 /\ i_fwcnt # 0
        /\ i_fflag' = i_fflag \cup {"IFIR"} /\ Sleeps(p, c, "frcnt", {})
        /\ UNCHANGED <<f_flag, counts, i_size, i_faddr>>
  BY DEF ReadWaits, bytes
<1>2. /\ c \in AnyCall /\ c.op = "read" /\ c.f \in File /\ f_flag[c.f] # NoFile
      /\ \A q \in Proc : call[q].op = "open" => call[q].f # c.f
  BY ReadsAre DEF IndInv
<1>3. call'[p] = c /\ wchan'[p] = "frcnt" => Why(p)'
  BY <1>1, <1>2 DEF Why, counts, IndInv, Types
<1>4. ASSUME NEW q \in Proc, Why(q), call'[q] = call[q], wchan'[q] = wchan[q]
      PROVE  Why(q)'
  BY <1>1, <1>4 DEF Why, Fits, InPart, counts
<1> QED BY <1>1, <1>2, <1>3, <1>4, SleepInv DEF IndInv, Types, CountsExact

(* What has no room when there are old bytes has none when there are more. *)
LEMMA NoRoom ==
    ASSUME NEW l \in Nat, NEW old \in Nat, NEW new \in Nat, NEW size \in Nat, new >= old,
           ~(l + old <= size), ~(l > size /\ old < size)
    PROVE  ~(l + new <= size) /\ ~(l > size /\ new < size)
<1>1. l + new > size
  OBVIOUS
<1>2. l > size => new >= size
  OBVIOUS
<1> QED BY <1>1, <1>2

(* k bytes are written, n more are counted, and the readers are woken up:  *)
(* the others sleep on.                                                    *)
LEMMA PutIs ==
    ASSUME IndInv, NEW s \in Seq(Bytes), NEW k \in Nat, NEW n \in Nat,
           Put(s, k, n), i_size + k + n <= PIPSIZ,
           NEW f \in File, "FWRITE" \in f_flag[f], i_fflag \ {"IFIR"} \subseteq i_fflag'
    PROVE  /\ UNCHANGED <<f_flag, counts>> /\ i_size' = i_size + k + n /\ i_size' \in 0 .. PIPSIZ
           /\ i_fwcnt > 0
           /\ \A q \in Proc : wchan[q] # Awake /\ wchan[q] \notin WakeReaders /\ Why(q) =>
                (call'[q] = call[q] /\ wchan'[q] = wchan[q] => Why(q)')
<1>1. UNCHANGED <<f_flag, i_frcnt, i_fwcnt>> /\ i_size' = i_size + k + n
  BY DEF Put, counts
<1>2. i_size \in 0 .. PIPSIZ /\ i_size' \in 0 .. PIPSIZ /\ i_size' >= i_size
  BY <1>1, PipeAssumption DEF IndInv, Types
<1>3. i_fwcnt > 0
  BY HavingOne DEF IndInv, Types, CountsExact
<1>4. ASSUME NEW q \in Proc, wchan[q] \notin WakeReaders, Why(q),
             call'[q] = call[q], wchan'[q] = wchan[q]
      PROVE  Why(q)'
  <2>1. ~(call[q].op = "read" /\ wchan[q] = "frcnt" /\ "IFIR" \in i_fflag)
    BY <1>4 DEF WakeReaders, If
  <2>2. Len(call[q].left) \in Nat
    BY DEF IndInv, Types, AnyCall
  <2>3. ~Fits(call[q].left) /\ ~InPart(call[q].left)
        => ~Fits(call[q].left)' /\ ~InPart(call[q].left)'
    <3> DEFINE L == Len(call[q].left)
    <3>1. Len(call'[q].left) = L
      BY <1>4
    <3>2. Fits(call[q].left)' <=> L + i_size' <= PIPSIZ
      BY <3>1 DEF Fits
    <3>3. InPart(call[q].left)' <=> ~(L + i_size' <= PIPSIZ) /\ L > PIPSIZ /\ i_size' < PIPSIZ
      BY <3>1, <3>2 DEF InPart
    <3>4. /\ Fits(call[q].left) <=> L + i_size <= PIPSIZ
          /\ InPart(call[q].left) <=> ~(L + i_size <= PIPSIZ) /\ L > PIPSIZ /\ i_size < PIPSIZ
      BY DEF Fits, InPart
    <3>5. L \in Nat
      BY <2>2
    <3> HIDE DEF L
    <3>6. ASSUME ~(L + i_size <= PIPSIZ), ~(L > PIPSIZ /\ i_size < PIPSIZ)
          PROVE  ~(L + i_size' <= PIPSIZ) /\ ~(L > PIPSIZ /\ i_size' < PIPSIZ)
      <4>1. i_size \in Nat /\ i_size' \in Nat /\ i_size' >= i_size /\ PIPSIZ \in Nat
        BY <1>2, PipeAssumption
      <4> QED BY <3>5, <3>6, <4>1, NoRoom
    <3> QED BY <3>2, <3>3, <3>4, <3>6
  <2> QED BY <1>1, <1>3, <1>4, <2>1, <2>3 DEF Why
<1> QED BY <1>1, <1>2, <1>3, <1>4 DEF counts

LEMMA WriteInv ==
    ASSUME IndInv, NEW p \in Proc, Write(p)
    PROVE  IndInv'
<1>1. PICK c \in Writes(p) :
        /\ i_frcnt # 0 /\ Fits(c.left)
        /\ Put(c.left, Len(c.left), 0)
        /\ i_fflag' = i_fflag \ {"IFIR"} /\ wchan' = Wakeup(WakeReaders)
        /\ Ends(p, "done")
  BY DEF Write
<1>2. /\ c.left \in Seq(Bytes) /\ c.f \in File /\ "FWRITE" \in f_flag[c.f] /\ wchan[p] = Awake
      /\ Len(c.left) \in Nat /\ i_size + Len(c.left) + 0 <= PIPSIZ /\ "done" \in Ended
  BY <1>1, WritesAre, PipeAssumption DEF IndInv, Types, Fits, Ended
<1>3. /\ UNCHANGED <<f_flag, counts>> /\ i_size' \in 0 .. PIPSIZ
      /\ \A q \in Proc : wchan[q] # Awake /\ wchan[q] \notin WakeReaders /\ Why(q) =>
           (call'[q] = call[q] /\ wchan'[q] = wchan[q] => Why(q)')
  BY <1>1, <1>2, PutIs
<1> HIDE DEF Why, Put
<1> QED BY <1>1, <1>2, <1>3, EndInv DEF IndInv, Types

LEMMA WriteStopsInv ==
    ASSUME IndInv, Pointers, NEW p \in Proc, WriteStops(p)
    PROVE  IndInv'
<1>1. PICK c \in Writes(p), j \in Spot, why \in {"bmap"} \cup Failing :
        LET k == Least(Len(c.left), PIPSIZ - i_size)
            n == IF why = "bmap" THEN 0 ELSE Piece(At(j), k - j)
        IN  /\ i_frcnt # 0 /\ j < k /\ Put(c.left, j, n)
            /\ i_fflag' = i_fflag \ {"IFIR"} /\ wchan' = Wakeup(WakeReaders)
            /\ Ends(p, "done")
  BY Zenon DEF WriteStops
<1>2. PICK k, n :
        /\ k = Least(Len(c.left), PIPSIZ - i_size)
        /\ n = IF why = "bmap" THEN 0 ELSE Piece(At(j), k - j)
        /\ i_frcnt # 0 /\ j < k /\ Put(c.left, j, n)
        /\ i_fflag' = i_fflag \ {"IFIR"} /\ wchan' = Wakeup(WakeReaders)
        /\ Ends(p, "done")
  BY <1>1, Zenon
<1>3. /\ c.left \in Seq(Bytes) /\ c.f \in File /\ "FWRITE" \in f_flag[c.f] /\ wchan[p] = Awake
      /\ Len(c.left) \in Nat /\ "done" \in Ended
  BY WritesAre DEF IndInv, Ended
<1>4. i_size \in Nat /\ i_size <= PIPSIZ /\ PIPSIZ \in Nat \ {0} /\ j \in Nat
  BY PipeAssumption DEF IndInv, Types, Spot
<1>5. k \in Nat /\ k - j \in Nat /\ i_size + k <= PIPSIZ
  BY <1>2, <1>3, <1>4 DEF Least
<1>6. n \in 0 .. k - j
  <2>1. CASE why = "bmap"
    BY <1>2, <1>5, <2>1
  <2>2. CASE why # "bmap"
    <3>1. i_fwptr + j \in Int
      BY <1>4 DEF Pointers, Spot
    <3>2. At(j) \in Int
      BY <1>4, <3>1 DEF At
    <3> QED BY <1>2, <1>5, <2>2, <3>2, PieceIs
  <2> QED BY <2>1, <2>2
<1>7. n \in Nat /\ i_size + j + n <= PIPSIZ
  BY <1>4, <1>5, <1>6
<1>8. /\ UNCHANGED <<f_flag, counts>> /\ i_size' \in 0 .. PIPSIZ
      /\ \A q \in Proc : wchan[q] # Awake /\ wchan[q] \notin WakeReaders /\ Why(q) =>
           (call'[q] = call[q] /\ wchan'[q] = wchan[q] => Why(q)')
  BY <1>2, <1>3, <1>4, <1>7, PutIs
<1> HIDE DEF Why, Put
<1> QED BY <1>2, <1>3, <1>8, EndInv DEF IndInv, Types

LEMMA WritePartInv ==
    ASSUME IndInv, NEW p \in Proc, WritePart(p)
    PROVE  IndInv'
<1> DEFINE k == PIPSIZ - i_size
<1>1. PICK c \in Writes(p) :
        /\ i_frcnt # 0 /\ InPart(c.left)
        /\ Put(c.left, k, 0)
        /\ IF "FNDELAY" \in f_flag[c.f]
           THEN /\ Ends(p, "done") /\ wchan' = Wakeup(WakeReaders)
                /\ i_fflag' = i_fflag \ {"IFIR"}
           ELSE /\ Sleeps(p, [c EXCEPT !.left = SubSeq(@, k + 1, Len(@))], "fwcnt", WakeReaders)
                /\ i_fflag' = (i_fflag \ {"IFIR"}) \cup {"IFIW"}
  BY DEF WritePart
<1>2. /\ c \in AnyCall /\ c.op = "write" /\ f_flag[c.f] # NoFile
      /\ c.left \in Seq(Bytes) /\ c.f \in File /\ "FWRITE" \in f_flag[c.f] /\ wchan[p] = Awake
      /\ \A q \in Proc : call[q].op = "open" => call[q].f # c.f
      /\ "done" \in Ended
  BY <1>1, WritesAre DEF IndInv, Ended
<1>3. /\ i_size \in Nat /\ i_size < PIPSIZ /\ PIPSIZ \in Nat /\ k \in Nat /\ i_size + k + 0 = PIPSIZ
      /\ Len(c.left) \in Nat /\ Len(c.left) > PIPSIZ
  <2>1. i_size \in 0 .. PIPSIZ /\ PIPSIZ \in Nat /\ i_size < PIPSIZ /\ Len(c.left) > PIPSIZ
    BY <1>1, PipeAssumption DEF IndInv, Types, InPart
  <2>2. Len(c.left) \in Nat
    BY <1>2
  <2> QED BY <2>1, <2>2
<1>4. /\ UNCHANGED <<f_flag, counts>> /\ i_size' = PIPSIZ /\ i_size' \in 0 .. PIPSIZ
      /\ \A q \in Proc : wchan[q] # Awake /\ wchan[q] \notin WakeReaders /\ Why(q) =>
           (call'[q] = call[q] /\ wchan'[q] = wchan[q] => Why(q)')
  <2> HIDE DEF k
  <2>1. i_fflag \ {"IFIR"} \subseteq i_fflag'
    BY <1>1
  <2>2. Put(c.left, k, 0)
    BY <1>1
  <2> QED BY <1>2, <1>3, <2>1, <2>2, PutIs
<1> HIDE DEF k
<1>5. CASE "FNDELAY" \in f_flag[c.f]
  BY <1>1, <1>2, <1>4, <1>5, EndInv DEF IndInv, Types
<1>6. CASE "FNDELAY" \notin f_flag[c.f]
  <2> DEFINE rest == SubSeq(c.left, k + 1, Len(c.left))
  <2> DEFINE d == [c EXCEPT !.left = rest]
  <2>1. rest \in Seq(Bytes) /\ Len(rest) \in Nat /\ Len(rest) > 0
    BY <1>2, <1>3 DEF k
  <2> HIDE DEF rest
  <2>2. d \in AnyCall /\ d.op = "write" /\ d.f = c.f /\ d.left = rest
    BY <1>2, <2>1 DEF AnyCall
  <2>3. Sleeps(p, d, "fwcnt", WakeReaders) /\ i_fflag' = (i_fflag \ {"IFIR"}) \cup {"IFIW"}
    BY <1>1, <1>6 DEF rest
  <2> HIDE DEF d
  <2>4. call'[p] = d /\ wchan'[p] = "fwcnt" => Why(p)'
    BY <1>1, <1>3, <1>4, <2>1, <2>2, <2>3 DEF Why, Fits, InPart, counts, IndInv, Types
  <2> HIDE DEF Why, Sleeps
  <2> QED BY <1>1, <1>2, <1>4, <2>2, <2>3, <2>4, SleepInv DEF IndInv, Types
<1> QED BY <1>5, <1>6

LEMMA WriteWaitsInv ==
    ASSUME IndInv, NEW p \in Proc, WriteWaits(p)
    PROVE  IndInv'
<1>1. PICK c \in Writes(p) :
        /\ i_frcnt # 0 /\ ~Fits(c.left) /\ ~InPart(c.left)
        /\ IF "FNDELAY" \in f_flag[c.f]
           THEN Ends(p, "done") /\ UNCHANGED <<i_fflag, wchan>>
           ELSE Sleeps(p, c, "fwcnt", {}) /\ i_fflag' = i_fflag \cup {"IFIW"}
        /\ UNCHANGED <<f_flag, counts, i_size, i_faddr>>
  BY DEF WriteWaits, bytes
<1>2. /\ c \in AnyCall /\ c.op = "write" /\ c.f \in File /\ f_flag[c.f] # NoFile
      /\ "FWRITE" \in f_flag[c.f] /\ wchan[p] = Awake /\ "done" \in Ended
      /\ \A q \in Proc : call[q].op = "open" => call[q].f # c.f
  BY WritesAre DEF IndInv, Ended
<1>3. ASSUME NEW q \in Proc, Why(q), call'[q] = call[q], wchan'[q] = wchan[q]
      PROVE  Why(q)'
  BY <1>1, <1>3 DEF Why, Fits, InPart, counts
<1>4. CASE "FNDELAY" \in f_flag[c.f]
  <2>1. wchan' = Wakeup({})
    BY <1>1, <1>4 DEF Wakeup, Woken, IndInv, Types
  <2> QED BY <1>1, <1>2, <1>3, <1>4, <2>1, EndInv DEF IndInv, Types, CountsExact
<1>5. CASE "FNDELAY" \notin f_flag[c.f]
  <2>1. call'[p] = c /\ wchan'[p] = "fwcnt" => Why(p)'
    BY <1>1, <1>2, <1>5 DEF Why, Fits, InPart, counts, IndInv, Types
  <2> QED BY <1>1, <1>2, <1>3, <1>5, <2>1, SleepInv DEF IndInv, Types, CountsExact
<1> QED BY <1>4, <1>5

LEMMA WriteNobodyInv ==
    ASSUME IndInv, NEW p \in Proc, WriteNobody(p)
    PROVE  IndInv'
<1>1. PICK c \in Writes(p) :
        Ends(p, "pipe") /\ UNCHANGED <<f_flag, counts, i_fflag, i_size, i_faddr, wchan>>
  BY DEF WriteNobody, bytes
<1>2. wchan[p] = Awake /\ "pipe" \in Ended
  BY WritesAre DEF IndInv, Ended
<1>3. wchan' = Wakeup({})
  BY <1>1 DEF Wakeup, Woken, IndInv, Types
<1>4. ASSUME NEW q \in Proc, Why(q), call'[q] = call[q], wchan'[q] = wchan[q]
      PROVE  Why(q)'
  BY <1>1, <1>4 DEF Why, Fits, InPart, counts
<1> QED BY <1>1, <1>2, <1>3, <1>4, EndInv DEF IndInv, Types, CountsExact
-----------------------------------------------------------------------------
(* The last close of f, while processes sleep at w. *)
LEMMA ClosepIs ==
    ASSUME IndInv, NEW f \in File, NEW w \in [Proc -> {Awake, "frcnt", "fwcnt"}], Closep(f, w)
    PROVE  /\ f_flag' \in [File -> AllModes] /\ f_flag'[f] = NoFile
           /\ \A g \in File : g # f => f_flag'[g] = f_flag[g]
           /\ i_frcnt' \in Nat /\ i_fwcnt' \in Nat /\ i_fflag' \subseteq {"IFIR", "IFIW"}
           /\ i_size' \in 0 .. PIPSIZ
           /\ wchan' \in [Proc -> {Awake, "frcnt", "fwcnt"}]
           /\ \A q \in Proc : wchan'[q] \in {w[q], Awake}
           /\ CountsExact'
           /\ \A q \in Proc : call[q].f # f /\ w[q] = wchan[q] /\ wchan'[q] # Awake =>
                (call'[q] = call[q] => Why(q)')
<1> DEFINE rd == i_frcnt - One("FREAD" \in f_flag[f])
<1> DEFINE wr == i_fwcnt - One("FWRITE" \in f_flag[f])
<1> DEFINE writersToo == "FREAD" \in f_flag[f] /\ rd = 0 /\ "IFIW" \in i_fflag
<1> DEFINE readersToo == "FWRITE" \in f_flag[f] /\ wr = 0 /\ "IFIR" \in i_fflag
<1> DEFINE C == If(writersToo, "fwcnt") \cup If(readersToo, "frcnt")
<1>1. /\ f_flag' = [f_flag EXCEPT ![f] = NoFile] /\ i_frcnt' = rd /\ i_fwcnt' = wr
      /\ i_fflag' = i_fflag \ (If(writersToo, "IFIW") \cup If(readersToo, "IFIR"))
      /\ wchan' = Woken(w, C)
      /\ IF rd = 0 /\ wr = 0 THEN i_size' = 0 /\ i_faddr' = {} ELSE UNCHANGED <<i_size, i_faddr>>
  BY DEF Closep, bytes
<1>2. /\ f_flag' \in [File -> AllModes] /\ f_flag'[f] = NoFile
      /\ \A g \in File : g # f => f_flag'[g] = f_flag[g]
      /\ i_size \in 0 .. PIPSIZ /\ i_frcnt \in Nat /\ i_fwcnt \in Nat
      /\ i_fflag \subseteq {"IFIR", "IFIW"}
  BY <1>1 DEF IndInv, Types, AllModes
<1>3. /\ Having("FREAD")' = rd /\ Having("FWRITE")' = wr /\ rd \in Nat /\ wr \in Nat
  BY <1>1, HavingClosed DEF IndInv, Types, CountsExact
<1>4. /\ wchan' \in [Proc -> {Awake, "frcnt", "fwcnt"}]
      /\ \A q \in Proc : wchan'[q] = IF w[q] \in C THEN Awake ELSE w[q]
  BY <1>1, WokenIs
<1>5. i_size' \in 0 .. PIPSIZ /\ i_fflag' \subseteq {"IFIR", "IFIW"}
  <2>1. i_size' \in 0 .. PIPSIZ
    <3>1. CASE rd = 0 /\ wr = 0
      BY <1>1, <3>1, PipeAssumption
    <3>2. CASE ~(rd = 0 /\ wr = 0)
      BY <1>1, <1>2, <3>2
    <3> QED BY <3>1, <3>2
  <2> HIDE DEF rd, wr, writersToo, readersToo
  <2>2. i_fflag' \subseteq i_fflag
    BY <1>1
  <2> QED BY <1>2, <2>1, <2>2
<1>6. CountsExact'
  BY <1>1, <1>3 DEF CountsExact
<1>7. ASSUME NEW q \in Proc, call[q].f # f, w[q] = wchan[q], wchan'[q] # Awake, call'[q] = call[q]
      PROVE  Why(q)'
  <2>1. wchan[q] # Awake /\ wchan'[q] = wchan[q] /\ wchan[q] \notin C
    BY <1>4, <1>7
  <2>2. Why(q) /\ call[q].f \in File
    BY <2>1, SleepersAre DEF IndInv, Users
  <2>3. f_flag'[call'[q].f] = f_flag[call[q].f]
    BY <1>2, <1>7, <2>2
  <2>4. /\ i_fwcnt = 0 => i_fwcnt' = 0
        /\ i_frcnt = 0 => i_frcnt' = 0
        /\ i_size = 0 => i_size' = 0
    BY <1>1, <1>2, <1>3 DEF One
  <2>5. wchan[q] = "frcnt" /\ i_fwcnt > 0 /\ "IFIR" \in i_fflag
        => i_fwcnt' > 0 /\ "IFIR" \in i_fflag'
    BY <1>1, <1>2, <1>3, <2>1 DEF One, If
  <2>6. wchan[q] = "fwcnt" /\ i_frcnt > 0 /\ "IFIW" \in i_fflag
        => i_frcnt' > 0 /\ "IFIW" \in i_fflag' /\ i_size' = i_size
    BY <1>1, <1>2, <1>3, <2>1 DEF One, If
  <2> HIDE DEF rd, wr, writersToo, readersToo, C
  <2> QED BY <1>7, <2>1, <2>2, <2>3, <2>4, <2>5, <2>6 DEF Why, Fits, InPart
<1> HIDE DEF rd, wr, C
<1> QED BY <1>1, <1>2, <1>3, <1>4, <1>5, <1>6, <1>7

LEMMA CloseInv ==
    ASSUME IndInv, NEW f \in File, Close(f)
    PROVE  IndInv'
<1>1. /\ f_flag[f] # NoFile /\ \A q \in Proc : call[q].f # f
      /\ Closep(f, wchan) /\ call' = call
  BY DEF Close
<1> HIDE DEF Closep
<1>2. wchan \in [Proc -> {Awake, "frcnt", "fwcnt"}]
  BY DEF IndInv, Types
<1>3. /\ f_flag' \in [File -> AllModes] /\ f_flag'[f] = NoFile
      /\ \A g \in File : g # f => f_flag'[g] = f_flag[g]
      /\ i_frcnt' \in Nat /\ i_fwcnt' \in Nat /\ i_fflag' \subseteq {"IFIR", "IFIW"}
      /\ i_size' \in 0 .. PIPSIZ
      /\ wchan' \in [Proc -> {Awake, "frcnt", "fwcnt"}]
      /\ \A q \in Proc : wchan'[q] \in {wchan[q], Awake}
      /\ CountsExact'
      /\ \A q \in Proc : wchan'[q] # Awake => Why(q)'
  BY <1>1, <1>2, ClosepIs
<1>4. Types'
  BY <1>1, <1>3 DEF IndInv, Types
<1>5. Users'
  BY <1>1, <1>3 DEF IndInv, Users, Idle, Ended
<1> QED BY <1>3, <1>4, <1>5, SleepersFrom DEF IndInv

LEMMA InterruptedInv ==
    ASSUME IndInv, NEW p \in Proc, Interrupted(p)
    PROVE  IndInv'
<1> DEFINE w == [wchan EXCEPT ![p] = Awake]
<1> DEFINE f == call[p].f
<1>1. /\ ~Idle(p) /\ Ends(p, "done") /\ "done" \in Ended
      /\ IF call[p].op = "open" THEN Closep(f, w)
         ELSE wchan' = w /\ UNCHANGED <<f_flag, counts, i_fflag, i_size, i_faddr>>
  BY DEF Interrupted, Ended, bytes
<1>2. /\ w \in [Proc -> {Awake, "frcnt", "fwcnt"}] /\ w[p] = Awake
      /\ \A q \in Proc : q # p => w[q] = wchan[q]
      /\ f \in File /\ f_flag[f] # NoFile
  BY <1>1 DEF IndInv, Types, Users
<1>3. /\ call' \in [Proc -> AnyCall] /\ call'[p].op = "done" /\ call'[p].f = NoFile
      /\ \A q \in Proc : q # p => call'[q] = call[q]
  BY <1>1, EndsIs DEF IndInv, Types
<1> HIDE DEF w, f
<1>4. CASE call[p].op = "open"
  <2>1. \A q \in Proc : q # p => call[q].f # f
    BY <1>4 DEF IndInv, Users, f
  <2>2. /\ f_flag' \in [File -> AllModes] /\ f_flag'[f] = NoFile
        /\ \A g \in File : g # f => f_flag'[g] = f_flag[g]
        /\ i_frcnt' \in Nat /\ i_fwcnt' \in Nat /\ i_fflag' \subseteq {"IFIR", "IFIW"}
        /\ i_size' \in 0 .. PIPSIZ
        /\ wchan' \in [Proc -> {Awake, "frcnt", "fwcnt"}]
        /\ \A q \in Proc : wchan'[q] \in {w[q], Awake}
        /\ CountsExact'
        /\ \A q \in Proc : q # p /\ wchan'[q] # Awake => Why(q)'
    BY <1>1, <1>2, <1>3, <1>4, <2>1, ClosepIs
  <2>3. wchan'[p] = Awake
    BY <1>2, <2>2
  <2>4. Types'
    BY <1>3, <2>2 DEF IndInv, Types
  <2>5. Users'
    <3>1. ASSUME NEW q \in Proc
          PROVE  /\ Idle(q)' => wchan'[q] = Awake /\ call'[q].f = NoFile
                 /\ ~Idle(q)' => call'[q].f \in File /\ f_flag'[call'[q].f] # NoFile
                 /\ call'[q].op = "write" => "FWRITE" \in f_flag'[call'[q].f]
      <4>1. CASE q = p
        BY <1>3, <2>3, <4>1 DEF Idle, Ended
      <4>2. CASE q # p
        BY <1>2, <1>3, <2>1, <2>2, <4>2 DEF IndInv, Users, Idle, Ended
      <4> QED BY <4>1, <4>2
    <3>2. ASSUME NEW q \in Proc, call'[q].op = "open", NEW r \in Proc \ {q}
          PROVE  call'[r].f # call'[q].f
      <4>1. q # p /\ call'[q] = call[q] /\ call[q].f \in File
        BY <1>3, <3>2 DEF IndInv, Users, Idle, Ended
      <4>2. CASE r = p
        BY <1>3, <4>1, <4>2, PipeAssumption
      <4>3. CASE r # p
        BY <1>3, <3>2, <4>1, <4>3 DEF IndInv, Users
      <4> QED BY <4>2, <4>3
    <3> QED BY <3>1, <3>2 DEF Users
  <2> QED BY <2>2, <2>3, <2>4, <2>5, SleepersFrom DEF IndInv
<1>5. CASE call[p].op # "open"
  <2>1. ASSUME NEW q \in Proc, wchan'[q] # Awake PROVE Why(q)'
    <3>1. q # p /\ call'[q] = call[q] /\ wchan'[q] = wchan[q]
      BY <1>1, <1>2, <1>3, <1>5, <2>1
    <3>2. Why(q)
      BY <2>1, <3>1, SleepersAre
    <3> QED BY <1>1, <1>5, <3>1, <3>2 DEF Why, Fits, InPart, counts
  <2>2. Idle(p)' /\ wchan'[p] = Awake
    BY <1>1, <1>2, <1>3, <1>5 DEF Idle, Ended
  <2> HIDE DEF Why
  <2> QED BY <1>1, <1>2, <1>3, <1>5, <2>1, <2>2, SameFiles DEF IndInv, Types, CountsExact
<1> QED BY <1>4, <1>5

LEMMA PipeInv ==
    ASSUME IndInv, NEW p \in Proc, Pipe(p)
    PROVE  IndInv'
<1>1. PICK f \in File, g \in File :
        /\ Idle(p) /\ f # g /\ \A h \in File : f_flag[h] = NoFile
        /\ f_flag' = [f_flag EXCEPT ![f] = {"FREAD"}, ![g] = {"FWRITE"}]
        /\ i_frcnt' = 1 /\ i_fwcnt' = 1 /\ i_fflag' = {}
        /\ Ends(p, "done")
        /\ UNCHANGED <<i_size, wchan>>
  BY DEF Pipe, bytes
<1>2. /\ call' \in [Proc -> AnyCall] /\ call'[p].op = "done" /\ call'[p].f = NoFile
      /\ \A q \in Proc : q # p => call'[q] = call[q]
  BY <1>1, EndsIs DEF IndInv, Types, Ended
<1>3. /\ f_flag' \in [File -> AllModes] /\ f_flag'[f] = {"FREAD"} /\ f_flag'[g] = {"FWRITE"}
      /\ \A h \in File \ {f, g} : f_flag'[h] = NoFile
  BY <1>1 DEF IndInv, Types, AllModes
<1>4. Types'
  BY <1>1, <1>2, <1>3 DEF IndInv, Types
<1>5. \A q \in Proc : Idle(q) /\ Idle(q)' /\ call'[q].f = NoFile /\ wchan'[q] = Awake
  BY <1>1, <1>2 DEF IndInv, Users, Idle, Ended
<1>6. Users' /\ SleepersBlocked'
  BY <1>5 DEF Users, SleepersBlocked, Idle, Ended
<1>7. CountsExact'
  <2>1. /\ {h \in File : "FREAD" \in f_flag'[h]} = {f}
        /\ {h \in File : "FWRITE" \in f_flag'[h]} = {g}
    BY <1>3 DEF NoFile
  <2>2. Cardinality({f}) = 1 /\ Cardinality({g}) = 1
    BY FS_Singleton
  <2>3. Having("FREAD")' = 1 /\ Having("FWRITE")' = 1
    BY <2>1, <2>2 DEF Having
  <2>4. i_frcnt' = 1 /\ i_fwcnt' = 1
    BY <1>1
  <2> QED BY <2>3, <2>4 DEF CountsExact
<1> QED BY <1>4, <1>6, <1>7 DEF IndInv

LEMMA StutterInv == ASSUME IndInv, UNCHANGED vars PROVE IndInv'
<1>1. UNCHANGED <<f_flag, i_frcnt, i_fwcnt, i_fflag, i_size, i_faddr, call, wchan>>
  BY DEF vars, counts, bytes
<1>2. Types' /\ Users' /\ CountsExact'
  BY <1>1 DEF IndInv, Types, Users, CountsExact, Having, Idle
<1>3. SleepersBlocked'
  BY <1>1 DEF IndInv, SleepersBlocked, WaitsFor, Fits, InPart
<1> QED BY <1>2, <1>3 DEF IndInv
-----------------------------------------------------------------------------
LEMMA StepInv == IndInv /\ Pointers /\ [Next]_vars => IndInv'
BY OpenInv, OpenAgainInv, PipeInv, CloseInv, InterruptedInv,
   ReadInv, ReadStopsInv, ReadNoneInv, ReadWaitsInv,
   WriteInv, WritePartInv, WriteStopsInv, WriteWaitsInv, WriteNobodyInv,
   StutterInv DEF Next

(* The places the pointers go to are in the pipe. *)
LEMMA SpotIs ==
    /\ 0 \in Spot /\ \A i \in Spot : i \in Int
    /\ \A i \in Int : (i % PIPSIZ) \in Spot
<1>1. PIPSIZ \in Nat /\ PIPSIZ > 0
  BY PipeAssumption
<1>2. \A i \in Int : (i % PIPSIZ) \in 0 .. PIPSIZ - 1
  BY <1>1
<1> QED BY <1>1, <1>2 DEF Spot

LEMMA TakePointers ==
    ASSUME Pointers, NEW k, NEW j \in Int, Take(k, j)
    PROVE  Pointers'
<1>1. i_frptr + j \in Int
  BY SpotIs DEF Pointers
<1> QED BY <1>1, SpotIs DEF Pointers, Take, NextRead

LEMMA PutPointers ==
    ASSUME Pointers, NEW j \in Int, i_fwptr' = At(j), UNCHANGED i_frptr
    PROVE  Pointers'
<1>1. i_fwptr + j \in Int
  BY SpotIs DEF Pointers
<1> QED BY <1>1, SpotIs DEF Pointers, At

LEMMA ClosepPointers ==
    ASSUME Pointers, NEW f, NEW w, Closep(f, w)
    PROVE  Pointers'
<1>1. \/ i_frptr' = 0 /\ i_fwptr' = 0
      \/ UNCHANGED <<i_frptr, i_fwptr>>
  BY DEF Closep, bytes
<1> QED BY <1>1, SpotIs DEF Pointers

(* Of the calls only those that move bytes, and the last close, move the   *)
(* pointers.                                                               *)
LEMMA PointersStep == IndInv /\ Pointers /\ [Next]_vars => Pointers'
<1> SUFFICES ASSUME IndInv, Pointers, [Next]_vars PROVE Pointers'
  OBVIOUS
<1>1. ASSUME UNCHANGED bytes PROVE Pointers'
  BY <1>1 DEF bytes, Pointers
<1>2. i_size \in Int /\ PIPSIZ \in Int
  BY PipeAssumption DEF IndInv, Types
<1>3. ASSUME NEW p \in Proc, Read(p) PROVE Pointers'
  <2>1. PICK c \in Reads(p) : LET k == Least(c.n, i_size) IN Take(k, k)
    BY <1>3, Zenon DEF Read
  <2>2. c.n \in Nat
    BY ReadsAre DEF IndInv, AnyCall
  <2>3. Least(c.n, i_size) \in Int
    BY <1>2, <2>2 DEF Least
  <2> QED BY <2>1, <2>3, TakePointers
<1>4. ASSUME NEW p \in Proc, ReadStops(p) PROVE Pointers'
  <2>1. PICK c \in Reads(p), j \in Spot, why \in {"resid"} \cup Failing :
          LET k == Least(c.n, i_size)
              n == IF why = "resid" THEN 0 ELSE Piece(i_frptr + j, k - j)
          IN  Take(j + n, IF why = "bread" THEN j + n ELSE j)
    BY <1>4, Zenon DEF ReadStops
  <2>2. PICK k, n : /\ k = Least(c.n, i_size)
                    /\ n = IF why = "resid" THEN 0 ELSE Piece(i_frptr + j, k - j)
                    /\ Take(j + n, IF why = "bread" THEN j + n ELSE j)
    BY <2>1, Zenon
  <2>3. c.n \in Nat /\ j \in Int /\ i_frptr + j \in Int
    BY ReadsAre, SpotIs DEF IndInv, AnyCall, Pointers
  <2>4. k - j \in Int
    BY <1>2, <2>2, <2>3 DEF Least
  <2>5. n \in Int
    BY <2>2, <2>3, <2>4, PieceInt
  <2>6. j + n \in Int
    BY <2>3, <2>5
  <2> QED BY <2>2, <2>3, <2>6, TakePointers
<1>5. ASSUME NEW p \in Proc, Write(p) PROVE Pointers'
  <2>1. PICK c \in Writes(p) : i_fwptr' = At(Len(c.left)) /\ UNCHANGED i_frptr
    BY <1>5 DEF Write, Put
  <2>2. Len(c.left) \in Int
    BY WritesAre DEF IndInv
  <2> QED BY <2>1, <2>2, PutPointers
<1>6. ASSUME NEW p \in Proc, WritePart(p) PROVE Pointers'
  <2>1. i_fwptr' = At(PIPSIZ - i_size) /\ UNCHANGED i_frptr
    BY <1>6 DEF WritePart, Put
  <2> QED BY <1>2, <2>1, PutPointers
<1>7. ASSUME NEW p \in Proc, WriteStops(p) PROVE Pointers'
  <2>1. PICK c \in Writes(p), j \in Spot :
          LET n == Piece(At(j), Least(Len(c.left), PIPSIZ - i_size) - j)
          IN  /\ i_fwptr' = At(j) \/ i_fwptr' = At(j + n) \/ i_fwptr' = At(j + 0)
              /\ UNCHANGED i_frptr
    BY <1>7 DEF WriteStops, Put
  <2> DEFINE n == Piece(At(j), Least(Len(c.left), PIPSIZ - i_size) - j)
  <2>2. Len(c.left) \in Int /\ j \in Int
    BY WritesAre, SpotIs DEF IndInv
  <2>3. n \in Int
    <3>1. At(j) \in Int
      <4>1. i_fwptr + j \in Int
        BY <2>2, SpotIs DEF Pointers
      <4> QED BY <4>1, SpotIs DEF At
    <3>2. PICK k : k = Least(Len(c.left), PIPSIZ - i_size) - j
      OBVIOUS
    <3>3. k \in Int
      BY <1>2, <2>2, <3>2 DEF Least
    <3> QED BY <3>1, <3>2, <3>3, PieceInt
  <2>4. i_fwptr' = At(j) \/ i_fwptr' = At(j + n) \/ i_fwptr' = At(j + 0)
    BY <2>1
  <2> HIDE DEF n
  <2>5. j + n \in Int /\ j + 0 \in Int
    BY <2>2, <2>3
  <2> QED BY <2>1, <2>2, <2>4, <2>5, PutPointers
<1>8. ASSUME NEW f \in File, Close(f) PROVE Pointers'
  BY <1>8, ClosepPointers DEF Close
<1>9. ASSUME NEW p \in Proc, Interrupted(p) PROVE Pointers'
  <2>1. (\E f, w : Closep(f, w)) \/ UNCHANGED bytes
    BY <1>9, Zenon DEF Interrupted
  <2> QED BY <1>1, <2>1, ClosepPointers
<1>10. ASSUME NEW p \in Proc,
              \/ \E f \in File : Open(p, f)
              \/ OpenAgain(p) \/ Pipe(p) \/ ReadNone(p) \/ ReadWaits(p)
              \/ WriteWaits(p) \/ WriteNobody(p)
       PROVE  Pointers'
  <2>1. UNCHANGED bytes
    BY <1>10, Zenon DEF Open, OpenAgain, Pipe, ReadNone, ReadWaits, WriteWaits, WriteNobody
  <2> QED BY <1>1, <2>1
<1>11. UNCHANGED vars => UNCHANGED bytes
  BY DEF vars
<1> QED BY <1>1, <1>3, <1>4, <1>5, <1>6, <1>7, <1>8, <1>9, <1>10, <1>11 DEF Next

LEMMA IndInvHolds == Spec => []IndInv
<1>1. Init => IndInv /\ Pointers
  <2>1. Init => Pointers
    BY SpotIs DEF Init, Pointers
  <2> QED BY <2>1, InitInv
<1>2. IndInv /\ Pointers /\ [Next]_vars => IndInv' /\ Pointers'
  BY StepInv, PointersStep
<1> QED BY <1>1, <1>2, PTL DEF Spec

(* i_frcnt and i_fwcnt are the numbers of files open to read and to write, *)
(* however calls of open() end, and with the last file the bytes go        *)
(* (openp, closep, copen).                                                 *)
THEOREM CountsAlwaysExact == Spec => []CountsExact
<1>1. IndInv => CountsExact
  BY DEF IndInv
<1> QED BY <1>1, IndInvHolds, PTL

(* No opener, reader or writer sleeps on after what it waits for is there, *)
(* though they share two channels and IFIR and IFIW stand for all of them  *)
(* (openp, closep, readi, writei).                                         *)
THEOREM SleepersAlwaysBlocked == Spec => []SleepersBlocked
<1>1. IndInv => SleepersBlocked
  BY DEF IndInv
<1> QED BY <1>1, IndInvHolds, PTL
-----------------------------------------------------------------------------
(* Numbers: a ring of n places, counted from 0.                            *)
LEMMA Wraps ==
    ASSUME NEW n \in Nat \ {0}, NEW a \in 0 .. 2 * n
    PROVE  a % n = IF a < n THEN a ELSE IF a < 2 * n THEN a - n ELSE 0
<1>1. CASE a < n
  <2>1. a \in 0 .. n - 1
    BY <1>1
  <2>2. a % n = a
    BY <2>1
  <2> QED BY <1>1, <2>2
<1>2. CASE a >= n /\ a < 2 * n
  <2>1. a \in n .. 2 * n - 1
    BY <1>2
  <2>2. a % n = a - n
    BY <2>1
  <2> QED BY <1>2, <2>2
<1>3. CASE a = 2 * n
  <2>1. a % n = 0
    BY <1>3
  <2> QED BY <1>3, <2>1
<1> QED BY <1>1, <1>2, <1>3

(* The way back from a place that lies behind. *)
LEMMA WrapsBack ==
    ASSUME NEW n \in Nat \ {0}, NEW a \in 0 .. n - 1, NEW b \in 0 .. n - 1
    PROVE  (a - b) % n = IF a >= b THEN a - b ELSE a - b + n
<1>1. CASE a >= b
  <2>1. PICK c : c = a - b
    OBVIOUS
  <2>2. c \in 0 .. n - 1
    BY <1>1, <2>1
  <2>3. c % n = c
    BY <2>2
  <2> QED BY <1>1, <2>1, <2>3
<1>2. CASE a < b
  <2>1. PICK c : c = a - b
    OBVIOUS
  <2>2. c \in -n .. -1
    BY <1>2, <2>1
  <2>3. c % n = c + n
    BY <2>2
  <2> QED BY <1>2, <2>1, <2>3
<1> QED BY <1>1, <1>2

(* Place i, counted from the first byte of the pipe. *)
Pos(i) == (i_frptr + i) % PIPSIZ

(* It is a place of the ring. *)
LEMMA PosIs ==
    ASSUME i_frptr \in Spot, NEW i \in 0 .. PIPSIZ
    PROVE  /\ Pos(i) \in Spot
           /\ Pos(i) = IF i_frptr + i < PIPSIZ THEN i_frptr + i ELSE i_frptr + i - PIPSIZ
<1>1. PIPSIZ \in Nat \ {0} /\ i_frptr \in 0 .. PIPSIZ - 1
  BY PipeAssumption DEF Spot
<1>2. PICK a : a = i_frptr + i
  OBVIOUS
<1>3. a \in 0 .. 2 * PIPSIZ /\ a < 2 * PIPSIZ
  BY <1>1, <1>2
<1>4. a % PIPSIZ = IF a < PIPSIZ THEN a ELSE a - PIPSIZ
  BY <1>1, <1>3, Wraps
<1> QED BY <1>1, <1>2, <1>3, <1>4 DEF Pos, Spot

(* A block holds the places from its number times BSIZE on. *)
LEMMA BlockIs ==
    ASSUME NEW b \in Block
    PROVE  /\ b * BSIZE \in Nat /\ b * BSIZE + BSIZE <= PIPSIZ
           /\ (b + 1) * BSIZE = b * BSIZE + BSIZE
           /\ \A x \in Spot : x \div BSIZE = b => b * BSIZE <= x /\ x < b * BSIZE + BSIZE
<1>1. BSIZE \in Nat \ {0} /\ PIPSIZ \in Nat \ {0} /\ PIPSIZ % BSIZE = 0 /\ b \in 0 .. (PIPSIZ \div BSIZE) - 1
  BY PipeAssumption DEF Block
<1>2. b * BSIZE \in Nat /\ b * BSIZE + BSIZE <= PIPSIZ /\ (b + 1) * BSIZE = b * BSIZE + BSIZE
  BY <1>1
<1>3. ASSUME NEW x \in Spot, x \div BSIZE = b
      PROVE  b * BSIZE <= x /\ x < b * BSIZE + BSIZE
  <2>1. x \in Nat
    BY <1>1 DEF Spot
  <2> QED BY <1>1, <1>3, <2>1
<1> QED BY <1>2, <1>3

(* Every place is in a block. *)
LEMMA BlockOf ==
    ASSUME NEW x \in Spot
    PROVE  x \div BSIZE \in Block
<1>1. BSIZE \in Nat \ {0} /\ PIPSIZ \in Nat \ {0} /\ PIPSIZ % BSIZE = 0 /\ x \in 0 .. PIPSIZ - 1
  BY PipeAssumption DEF Spot
<1>2. x \div BSIZE \in Nat /\ x \div BSIZE < PIPSIZ \div BSIZE
  BY <1>1
<1> QED BY <1>1, <1>2 DEF Block

(* Where the bytes are (TypeOK, the rest of it).                           *)
Places ==
    /\ i_frptr \in Spot /\ i_fwptr \in Spot /\ i_fwptr = Pos(i_size)
    /\ i_faddr \subseteq Block /\ data \in [Spot -> Bytes \cup {Stale}]

(* Sizes and pointers are numbers of a ring of PIPSIZ places. *)
LEMMA Numbers ==
    ASSUME Types, Places
    PROVE  /\ PIPSIZ \in Nat \ {0} /\ BSIZE \in Nat \ {0} /\ i_size \in Nat /\ i_size <= PIPSIZ
           /\ i_frptr \in Nat /\ i_frptr < PIPSIZ /\ i_fwptr \in Nat /\ i_fwptr < PIPSIZ
BY PipeAssumption DEF Types, Places, Spot

(* The bytes written next go to the places behind those in the pipe.       *)
LEMMA AtIs ==
    ASSUME Types, Places, NEW j \in Nat, i_size + j <= PIPSIZ
    PROVE  At(j) = Pos(i_size + j)
<1>1. /\ PIPSIZ \in Nat \ {0} /\ i_size \in Nat /\ i_frptr \in Nat /\ i_frptr < PIPSIZ
      /\ i_fwptr \in Nat /\ i_fwptr < PIPSIZ
  BY Numbers
<1>2. i_fwptr = IF i_frptr + i_size < PIPSIZ THEN i_frptr + i_size ELSE i_frptr + i_size - PIPSIZ
  BY <1>1, PosIs DEF Places
<1>3. Pos(i_size + j) = IF i_frptr + (i_size + j) < PIPSIZ THEN i_frptr + (i_size + j)
                        ELSE i_frptr + (i_size + j) - PIPSIZ
  BY <1>1, PosIs DEF Places
<1>4. PICK a : a = i_fwptr + j
  OBVIOUS
<1>5. a \in 0 .. 2 * PIPSIZ /\ a < 2 * PIPSIZ
  BY <1>1, <1>4
<1>6. a % PIPSIZ = IF a < PIPSIZ THEN a ELSE a - PIPSIZ
  BY <1>1, <1>5, Wraps
<1>7. At(j) = IF a < PIPSIZ THEN a ELSE a - PIPSIZ
  BY <1>4, <1>6 DEF At
<1> QED BY <1>1, <1>2, <1>3, <1>4, <1>7

(* On a ring of n places: x is i places behind f, and y is m. *)
LEMMA RingSame ==
    ASSUME NEW n \in Nat \ {0}, NEW f \in 0 .. n - 1, NEW i \in 0 .. n - 1, NEW m \in 0 .. n - 1,
           NEW x \in Nat, x = IF f + i < n THEN f + i ELSE f + i - n,
           x = IF f + m < n THEN f + m ELSE f + m - n
    PROVE  i = m
OBVIOUS

(* The same, for x in a piece of the ring that begins at y. *)
LEMMA RingAfter ==
    ASSUME NEW n \in Nat \ {0}, NEW f \in 0 .. n - 1, NEW i \in 0 .. n - 1, NEW m \in 0 .. n - 1,
           NEW x \in Nat, x = IF f + i < n THEN f + i ELSE f + i - n,
           NEW y \in Nat, y = IF f + m < n THEN f + m ELSE f + m - n,
           NEW size \in Nat \ {0}, y <= x, x < y + size, y + size <= n
    PROVE  x - y \in 0 .. size - 1 /\ (i = m + (x - y) \/ i = m + (x - y) - n)
OBVIOUS

(* The same, for x in a piece that ends before e, m places behind f. *)
LEMMA RingBefore ==
    ASSUME NEW n \in Nat \ {0}, NEW f \in 0 .. n - 1, NEW i \in 0 .. n - 1, NEW m \in 1 .. n,
           NEW x \in Nat, x = IF f + i < n THEN f + i ELSE f + i - n,
           NEW e \in Nat, e <= n,
           (IF e < n THEN e ELSE e - n) = IF f + m < n THEN f + m ELSE f + m - n,
           NEW size \in Nat \ {0}, e - size <= x, x < e, e >= size
    PROVE  e - x \in 1 .. size /\ (i = m - (e - x) \/ i = m - (e - x) + n)
OBVIOUS

(* Different places of the pipe are different. *)
LEMMA PosInj ==
    ASSUME i_frptr \in Spot, NEW i \in 0 .. PIPSIZ - 1, NEW j \in 0 .. PIPSIZ - 1, Pos(i) = Pos(j)
    PROVE  i = j
<1>1. i \in 0 .. PIPSIZ /\ j \in 0 .. PIPSIZ /\ PIPSIZ \in Nat \ {0} /\ i_frptr \in 0 .. PIPSIZ - 1
  BY PipeAssumption DEF Spot
<1>2. /\ Pos(i) = IF i_frptr + i < PIPSIZ THEN i_frptr + i ELSE i_frptr + i - PIPSIZ
      /\ Pos(j) = IF i_frptr + j < PIPSIZ THEN i_frptr + j ELSE i_frptr + j - PIPSIZ
  BY <1>1, PosIs
<1>3. Pos(i) \in Nat
  BY <1>1, PosIs DEF Spot
<1>4. PICK x \in Nat : x = Pos(i) /\ x = Pos(j)
  BY <1>3
<1> QED BY <1>1, <1>2, <1>4, RingSame

(* A place in the block that begins at place m: behind it, round the ring. *)
LEMMA InBlock ==
    ASSUME i_frptr \in Spot, NEW i \in 0 .. PIPSIZ - 1, NEW m \in 0 .. PIPSIZ - 1,
           NEW b \in Block, Pos(m) = b * BSIZE, Pos(i) \div BSIZE = b
    PROVE  \E d \in 0 .. BSIZE - 1 : i = m + d \/ i = m + d - PIPSIZ
<1>1. /\ i \in 0 .. PIPSIZ /\ m \in 0 .. PIPSIZ /\ PIPSIZ \in Nat \ {0}
      /\ BSIZE \in Nat \ {0} /\ i_frptr \in 0 .. PIPSIZ - 1
  BY PipeAssumption DEF Spot
<1>2. /\ Pos(i) = IF i_frptr + i < PIPSIZ THEN i_frptr + i ELSE i_frptr + i - PIPSIZ
      /\ Pos(m) = IF i_frptr + m < PIPSIZ THEN i_frptr + m ELSE i_frptr + m - PIPSIZ
      /\ Pos(i) \in Spot
  BY <1>1, PosIs
<1>3. PICK a : a = b * BSIZE
  OBVIOUS
<1>4. a \in Nat /\ a + BSIZE <= PIPSIZ /\ a <= Pos(i) /\ Pos(i) < a + BSIZE /\ Pos(m) = a
  BY <1>2, <1>3, BlockIs
<1>5. PICK x \in Nat : x = Pos(i)
  <2>1. Pos(i) \in Nat
    BY <1>1, <1>2 DEF Spot
  <2> QED BY <2>1
<1>6. /\ x = IF i_frptr + i < PIPSIZ THEN i_frptr + i ELSE i_frptr + i - PIPSIZ
      /\ a = IF i_frptr + m < PIPSIZ THEN i_frptr + m ELSE i_frptr + m - PIPSIZ
      /\ a <= x /\ x < a + BSIZE
  BY <1>2, <1>4, <1>5
<1>7. x - a \in 0 .. BSIZE - 1 /\ (i = m + (x - a) \/ i = m + (x - a) - PIPSIZ)
  BY <1>1, <1>4, <1>6, RingAfter
<1> QED BY <1>7

(* The same for a block that ends before place m. *)
LEMMA BeforeEnd ==
    ASSUME i_frptr \in Spot, NEW i \in 0 .. PIPSIZ - 1, NEW m \in 1 .. PIPSIZ,
           NEW b \in Block, Pos(m) = ((b + 1) * BSIZE) % PIPSIZ, Pos(i) \div BSIZE = b
    PROVE  \E d \in 1 .. BSIZE : i = m - d \/ i = m - d + PIPSIZ
<1>1. /\ i \in 0 .. PIPSIZ /\ m \in 0 .. PIPSIZ /\ PIPSIZ \in Nat \ {0}
      /\ BSIZE \in Nat \ {0} /\ i_frptr \in 0 .. PIPSIZ - 1
  BY PipeAssumption DEF Spot
<1>2. /\ Pos(i) = IF i_frptr + i < PIPSIZ THEN i_frptr + i ELSE i_frptr + i - PIPSIZ
      /\ Pos(m) = IF i_frptr + m < PIPSIZ THEN i_frptr + m ELSE i_frptr + m - PIPSIZ
      /\ Pos(i) \in Spot
  BY <1>1, PosIs
<1>3. PICK a : a = b * BSIZE
  OBVIOUS
<1>4. /\ a \in Nat /\ a + BSIZE <= PIPSIZ /\ a <= Pos(i) /\ Pos(i) < a + BSIZE
      /\ Pos(m) = (a + BSIZE) % PIPSIZ
  BY <1>2, <1>3, BlockIs
<1>5. PICK e : e = a + BSIZE
  OBVIOUS
<1>6. e \in Nat /\ e <= PIPSIZ /\ e >= BSIZE /\ a = e - BSIZE
  BY <1>1, <1>4, <1>5
<1>7. Pos(m) = IF e < PIPSIZ THEN e ELSE e - PIPSIZ
  <2>1. e \in 0 .. 2 * PIPSIZ /\ e < 2 * PIPSIZ
    BY <1>1, <1>6
  <2>2. e % PIPSIZ = IF e < PIPSIZ THEN e ELSE e - PIPSIZ
    BY <1>1, <2>1, Wraps
  <2> QED BY <1>4, <1>5, <2>2
<1>8. PICK x \in Nat : x = Pos(i)
  <2>1. Pos(i) \in Nat
    BY <1>1, <1>2 DEF Spot
  <2> QED BY <2>1
<1>9. /\ x = IF i_frptr + i < PIPSIZ THEN i_frptr + i ELSE i_frptr + i - PIPSIZ
      /\ (IF e < PIPSIZ THEN e ELSE e - PIPSIZ)
         = IF i_frptr + m < PIPSIZ THEN i_frptr + m ELSE i_frptr + m - PIPSIZ
      /\ e - BSIZE <= x /\ x < e
  BY <1>1, <1>2, <1>4, <1>5, <1>6, <1>7, <1>8
<1>10. e - x \in 1 .. BSIZE /\ (i = m - (e - x) \/ i = m - (e - x) + PIPSIZ)
  BY <1>1, <1>6, <1>9, RingBefore
<1> QED BY <1>10
-----------------------------------------------------------------------------
(* No byte of the pipe is in a block that is taken without being read.     *)
LEMMA FreshFree ==
    ASSUME Types, Places, NEW k \in Nat, i_size + k <= PIPSIZ,
           NEW i \in 0 .. i_size - 1
    PROVE  Pos(i) \div BSIZE \notin Fresh(k)
<1> SUFFICES ASSUME Pos(i) \div BSIZE \in Fresh(k) PROVE FALSE
  OBVIOUS
<1>1. PICK b \in Block, j \in 0 .. k - 1 :
        b = Pos(i) \div BSIZE /\ At(j) = b * BSIZE /\ (k - j >= BSIZE \/ i_size + j < PIPSIZ - BSIZE)
  BY DEF Fresh
<1>2. /\ PIPSIZ \in Nat \ {0} /\ BSIZE \in Nat \ {0} /\ i_size \in Nat /\ i_size <= PIPSIZ
      /\ i_frptr \in Spot
  BY Numbers DEF Places
<1>3. j \in Nat /\ i_size + j <= PIPSIZ /\ i_size + j \in 0 .. PIPSIZ - 1 /\ i \in 0 .. PIPSIZ - 1
  BY <1>2
<1>4. Pos(i_size + j) = b * BSIZE
  BY <1>1, <1>3, AtIs
<1>5. PICK m : m = i_size + j
  OBVIOUS
<1>6. PICK d \in 0 .. BSIZE - 1 : i = m + d \/ i = m + d - PIPSIZ
  <2>1. m \in 0 .. PIPSIZ - 1 /\ Pos(m) = b * BSIZE /\ Pos(i) \div BSIZE = b
    BY <1>1, <1>3, <1>4, <1>5
  <2> QED BY <1>2, <1>3, <2>1, InBlock
<1> QED BY <1>1, <1>2, <1>3, <1>5, <1>6

(* No byte behind the k that are read is in a block that is dropped.       *)
LEMMA DroppedFree ==
    ASSUME Types, Places, NEW k \in 0 .. i_size, NEW i \in k .. i_size - 1
    PROVE  Pos(i) \div BSIZE \notin Dropped(k)
<1> SUFFICES ASSUME Pos(i) \div BSIZE \in Dropped(k) PROVE FALSE
  OBVIOUS
<1>1. PICK b \in Block, j \in 1 .. k :
        /\ b = Pos(i) \div BSIZE /\ Pos(j) = ((b + 1) * BSIZE) % PIPSIZ
        /\ i_size - j < PIPSIZ - BSIZE
  BY DEF Dropped, Pos
<1>2. /\ PIPSIZ \in Nat \ {0} /\ BSIZE \in Nat \ {0} /\ i_size \in Nat /\ i_size <= PIPSIZ
      /\ i_frptr \in Spot
  BY Numbers DEF Places
<1>3. j \in 1 .. PIPSIZ /\ i \in 0 .. PIPSIZ - 1
  BY <1>2
<1>4. PICK d \in 1 .. BSIZE : i = j - d \/ i = j - d + PIPSIZ
  BY <1>1, <1>2, <1>3, BeforeEnd
<1> QED BY <1>1, <1>2, <1>3, <1>4

(* What a place may hold. *)
Byte == Bytes \cup {Stale}

(* The bytes of the pipe, by place. *)
LEMMA QueueIs ==
    ASSUME Types, Places
    PROVE  /\ Queue \in Seq(Byte) /\ Len(Queue) = i_size /\ i_size \in Nat
           /\ \A i \in 1 .. i_size : Queue[i] = data[Pos(i - 1)]
<1>1. i_size \in Nat /\ i_size <= PIPSIZ /\ PIPSIZ \in Nat \ {0} /\ i_frptr \in Nat
  BY Numbers
<1>2. ASSUME NEW i \in 1 .. i_size
      PROVE  (i_frptr + i - 1) % PIPSIZ = Pos(i - 1) /\ data[Pos(i - 1)] \in Byte
  <2>1. i_frptr + i - 1 = i_frptr + (i - 1) /\ i - 1 \in 0 .. PIPSIZ
    BY <1>1
  <2>2. Pos(i - 1) \in Spot
    BY <2>1, PosIs DEF Places
  <2> QED BY <2>1, <2>2 DEF Pos, Places, Byte
<1>3. Queue \in [1 .. i_size -> Byte] /\ \A i \in 1 .. i_size : Queue[i] = data[Pos(i - 1)]
  BY <1>2 DEF Queue
<1>4. Queue \in Seq(Byte) /\ Len(Queue) = i_size
  BY <1>1, <1>3
<1> QED BY <1>1, <1>3, <1>4

(* writei(): k bytes of s are put behind those that are in the pipe, which *)
(* are still there.                                                        *)
LEMMA PutQueue ==
    ASSUME Types, Places, Types', NEW s \in Seq(Bytes), NEW k \in 0 .. Len(s),
           i_size + k <= PIPSIZ, Put(s, k, 0), i_fwptr' = At(k)
    PROVE  Places' /\ Queue' = Queue \o SubSeq(s, 1, k) /\ Len(Queue) = i_size
<1> DEFINE written == {At(j) : j \in 0 .. k - 1}
<1>1. /\ PIPSIZ \in Nat \ {0} /\ i_size \in Nat /\ k \in Nat /\ Len(s) \in Nat
      /\ i_frptr \in Spot /\ i_frptr \in Nat /\ i_frptr < PIPSIZ
      /\ i_fwptr \in Spot /\ i_fwptr \in Nat /\ i_fwptr < PIPSIZ
  BY Numbers DEF Places
<1>2. /\ data' = [x \in Spot |->
                   IF x \in written THEN s[((x - i_fwptr) % PIPSIZ) + 1]
                   ELSE IF x \div BSIZE \in Fresh(k) THEN Stale ELSE data[x]]
      /\ i_faddr' = i_faddr \cup {x \div BSIZE : x \in written}
      /\ i_size' = i_size + k /\ i_fwptr' = At(k) /\ i_frptr' = i_frptr
  <2>1. k + 0 = k /\ k + 0 - 1 = k - 1 /\ i_size + k + 0 = i_size + k
    BY <1>1
  <2> QED BY <2>1 DEF Put
<1>3. ASSUME NEW j \in 0 .. k
      PROVE  At(j) = Pos(i_size + j) /\ At(j) \in Spot /\ i_size + j \in 0 .. PIPSIZ
  <2>1. j \in Nat /\ i_size + j <= PIPSIZ /\ i_size + j \in 0 .. PIPSIZ
    BY <1>1
  <2> QED BY <1>1, <2>1, AtIs, PosIs
<1>4. ASSUME NEW j \in 0 .. k - 1 PROVE (At(j) - i_fwptr) % PIPSIZ = j
  <2>1. j \in 0 .. k /\ j \in Nat /\ i_size + j < PIPSIZ /\ j < PIPSIZ
    BY <1>1
  <2>2. At(j) = IF i_fwptr + j < PIPSIZ THEN i_fwptr + j ELSE i_fwptr + j - PIPSIZ
    <3>1. PICK a : a = i_fwptr + j
      OBVIOUS
    <3>2. a \in 0 .. 2 * PIPSIZ /\ a < 2 * PIPSIZ
      BY <1>1, <2>1, <3>1
    <3>3. a % PIPSIZ = IF a < PIPSIZ THEN a ELSE a - PIPSIZ
      BY <1>1, <3>2, Wraps
    <3>4. At(j) = IF a < PIPSIZ THEN a ELSE a - PIPSIZ
      BY <3>1, <3>3 DEF At
    <3> QED BY <1>1, <2>1, <3>1, <3>2, <3>4
  <2>3. PICK x : x = At(j)
    OBVIOUS
  <2>4. x \in 0 .. PIPSIZ - 1 /\ x = IF i_fwptr + j < PIPSIZ THEN i_fwptr + j ELSE i_fwptr + j - PIPSIZ
    BY <1>3, <2>1, <2>2, <2>3 DEF Spot
  <2>5. i_fwptr \in 0 .. PIPSIZ - 1
    BY <1>1
  <2>6. (x - i_fwptr) % PIPSIZ = IF x >= i_fwptr THEN x - i_fwptr ELSE x - i_fwptr + PIPSIZ
    BY <1>1, <2>4, <2>5, WrapsBack
  <2>7. (IF x >= i_fwptr THEN x - i_fwptr ELSE x - i_fwptr + PIPSIZ) = j
    BY <1>1, <2>1, <2>4
  <2> QED BY <2>3, <2>6, <2>7
<1>5. written \subseteq Spot
  BY <1>1, <1>3
<1>6. data' \in [Spot -> Byte]
  <2>1. ASSUME NEW x \in written PROVE s[((x - i_fwptr) % PIPSIZ) + 1] \in Bytes
    <3>1. PICK j \in 0 .. k - 1 : x = At(j)
      BY <2>1
    <3>2. (x - i_fwptr) % PIPSIZ = j
      BY <3>1, <1>4
    <3>3. j + 1 \in 1 .. Len(s)
      BY <1>1
    <3> QED BY <3>2, <3>3
  <2> HIDE DEF written
  <2> QED BY <1>2, <2>1 DEF Places, Byte
<1>7. Places'
  <2>1. Pos(i_size)' = Pos(i_size + k)
    BY <1>2 DEF Pos
  <2>2. i_fwptr' = Pos(i_size + k) /\ i_fwptr' \in Spot
    BY <1>1, <1>2, <1>3
  <2>3. {x \div BSIZE : x \in written} \subseteq Block
    <3> HIDE DEF written
    <3> QED BY <1>5, BlockOf
  <2>4. i_faddr' \subseteq Block
    BY <1>2, <2>3 DEF Places
  <2> QED BY <1>1, <1>2, <1>6, <2>1, <2>2, <2>4 DEF Places, Byte
<1>8. /\ Queue \in Seq(Byte) /\ Len(Queue) = i_size
      /\ \A i \in 1 .. i_size : Queue[i] = data[Pos(i - 1)]
  BY QueueIs
<1>9. Places' => /\ Queue' \in Seq(Byte) /\ Len(Queue') = i_size + k
                 /\ \A i \in 1 .. i_size + k : Queue'[i] = data'[Pos(i - 1)']
  <2>1. (Types /\ Places => /\ Queue \in Seq(Byte) /\ Len(Queue) = i_size
                            /\ \A i \in 1 .. i_size : Queue[i] = data[Pos(i - 1)])'
    BY QueueIs, PTL
  <2> QED BY <1>2, <2>1
<1>10. PICK t : t = SubSeq(s, 1, k)
  OBVIOUS
<1>11. t \in Seq(Byte) /\ Len(t) = k /\ \A i \in 1 .. k : t[i] = s[i]
  <2>1. \A i \in 1 .. k : s[i] \in Byte
    BY <1>1 DEF Byte
  <2> QED BY <1>1, <1>10, <2>1, SubSeqProperties
<1>12. ASSUME NEW i \in 1 .. i_size
       PROVE  data'[Pos(i - 1)] = data[Pos(i - 1)]
  <2>1. i - 1 \in 0 .. i_size - 1 /\ i - 1 \in 0 .. PIPSIZ - 1 /\ i - 1 \in 0 .. PIPSIZ
    BY <1>1
  <2>2. Pos(i - 1) \div BSIZE \notin Fresh(k)
    BY <1>1, <2>1, FreshFree
  <2>3. Pos(i - 1) \notin written
    <3> SUFFICES ASSUME NEW j \in 0 .. k - 1, Pos(i - 1) = At(j) PROVE FALSE
      OBVIOUS
    <3>1. j \in 0 .. k /\ i_size + j \in 0 .. PIPSIZ - 1
      BY <1>1
    <3>2. Pos(i - 1) = Pos(i_size + j)
      BY <1>3, <3>1
    <3>3. i - 1 = i_size + j
      BY <1>1, <2>1, <3>1, <3>2, PosInj
    <3> QED BY <1>1, <2>1, <3>3
  <2>4. Pos(i - 1) \in Spot
    BY <1>1, <2>1, PosIs
  <2> HIDE DEF written
  <2> QED BY <1>2, <2>2, <2>3, <2>4
<1>13. ASSUME NEW i \in i_size + 1 .. i_size + k
       PROVE  data'[Pos(i - 1)] = s[i - i_size]
  <2>1. PICK j : j = i - 1 - i_size
    OBVIOUS
  <2>2. j \in 0 .. k - 1 /\ j \in 0 .. k /\ i - 1 = i_size + j /\ j + 1 = i - i_size
    BY <1>1, <2>1
  <2>3. Pos(i - 1) = At(j) /\ At(j) \in Spot /\ At(j) \in written
    BY <1>3, <2>2
  <2>4. ((At(j) - i_fwptr) % PIPSIZ) + 1 = i - i_size
    BY <1>4, <2>2
  <2> HIDE DEF written
  <2> QED BY <1>2, <2>3, <2>4
<1>14. \A i : Pos(i)' = Pos(i)
  BY <1>2 DEF Pos
<1>15. PICK q : q = Queue \o t
  OBVIOUS
<1>16. /\ q \in Seq(Byte) /\ Len(q) = i_size + k
       /\ \A i \in 1 .. i_size + k : q[i] = IF i <= i_size THEN Queue[i] ELSE t[i - i_size]
  BY <1>8, <1>11, <1>15, ConcatProperties, ZenonT(40)
<1>17. Queue' = q
  <2>1. ASSUME NEW i \in 1 .. i_size + k PROVE Queue'[i] = q[i]
    <3>1. Queue'[i] = data'[Pos(i - 1)]
      BY <1>7, <1>9, <1>14
    <3>2. CASE i <= i_size
      <4>1. i \in 1 .. i_size
        BY <1>1, <3>2
      <4> QED BY <1>8, <1>12, <1>16, <3>1, <3>2, <4>1
    <3>3. CASE ~(i <= i_size)
      <4>1. i \in i_size + 1 .. i_size + k /\ i - i_size \in 1 .. k
        BY <1>1, <3>3
      <4> QED BY <1>11, <1>13, <1>16, <3>1, <3>3, <4>1
    <3> QED BY <3>2, <3>3
  <2> QED BY <1>7, <1>9, <1>16, <2>1, SeqEqual
<1> QED BY <1>7, <1>8, <1>10, <1>15, <1>17

(* readi(): the first k bytes are read, and the others are still there.    *)
LEMMA ReadQueue ==
    ASSUME Types, Places, Types', NEW k \in 0 .. i_size, i_size > 0,
           i_size' = i_size - k, i_frptr' = NextRead(k, k),
           i_fwptr' = IF k = i_size THEN 0 ELSE i_fwptr,
           data' = [x \in Spot |-> IF x \div BSIZE \in Dropped(k) THEN Stale ELSE data[x]],
           i_faddr' = i_faddr
    PROVE  Places' /\ Queue' = SubSeq(Queue, k + 1, Len(Queue)) /\ Len(Queue) = i_size
<1>1. /\ PIPSIZ \in Nat \ {0} /\ i_size \in Nat /\ i_size <= PIPSIZ /\ k \in Nat
      /\ i_frptr \in Spot /\ i_frptr \in Nat /\ i_frptr < PIPSIZ /\ i_fwptr \in Spot
      /\ i_fwptr = Pos(i_size)
  BY Numbers DEF Places
<1>2. data' \in [Spot -> Byte]
  BY DEF Places, Byte
<1>3. k # i_size => \A i \in 0 .. i_size - k : Pos(i)' = Pos(k + i)
  <2> SUFFICES ASSUME k # i_size, NEW i \in 0 .. i_size - k PROVE Pos(i)' = Pos(k + i)
    OBVIOUS
  <2>1. k \in 0 .. PIPSIZ /\ k + i \in 0 .. PIPSIZ /\ k < PIPSIZ /\ i \in Nat /\ i <= PIPSIZ
    BY <1>1
  <2>2. i_frptr' = Pos(k)
    BY DEF NextRead, Pos
  <2>3. PICK f : f = Pos(k)
    OBVIOUS
  <2>4. /\ f = IF i_frptr + k < PIPSIZ THEN i_frptr + k ELSE i_frptr + k - PIPSIZ
        /\ f \in 0 .. PIPSIZ - 1
    BY <1>1, <2>1, <2>3, PosIs DEF Spot
  <2>5. Pos(k + i) = IF i_frptr + (k + i) < PIPSIZ THEN i_frptr + (k + i) ELSE i_frptr + (k + i) - PIPSIZ
    BY <1>1, <2>1, PosIs
  <2>6. PICK a : a = f + i
    OBVIOUS
  <2>7. a \in 0 .. 2 * PIPSIZ /\ a < 2 * PIPSIZ
    BY <1>1, <2>1, <2>4, <2>6
  <2>8. a % PIPSIZ = IF a < PIPSIZ THEN a ELSE a - PIPSIZ
    BY <1>1, <2>7, Wraps
  <2>9. Pos(i)' = a % PIPSIZ
    BY <2>2, <2>3, <2>6 DEF Pos
  <2> QED BY <1>1, <2>1, <2>4, <2>5, <2>6, <2>8, <2>9
<1>4. Places'
  <2>1. CASE k = i_size
    <3>1. i_frptr' = 0 /\ i_fwptr' = 0 /\ i_size' = 0 /\ 0 \in Spot
      BY <1>1, <2>1 DEF NextRead, Spot
    <3>2. (0 + 0) % PIPSIZ = 0
      BY <1>1
    <3>3. i_fwptr' = Pos(i_size)'
      BY <3>1, <3>2 DEF Pos
    <3> QED BY <1>2, <3>1, <3>3 DEF Places, Byte
  <2>2. CASE k # i_size
    <3>1. PICK n : n = i_size - k
      OBVIOUS
    <3>2. n \in 0 .. i_size - k /\ k + n = i_size /\ k \in 0 .. PIPSIZ /\ i_size' = n
      BY <1>1, <3>1
    <3>3. i_fwptr' = Pos(i_size)'
      <4>1. Pos(n)' = Pos(k + n)
        BY <1>3, <2>2, <3>2
      <4>2. Pos(i_size)' = Pos(n)'
        BY <3>2 DEF Pos
      <4> QED BY <1>1, <2>2, <3>2, <4>1, <4>2
    <3>4. i_frptr' \in Spot
      BY <1>1, <2>2, <3>2, PosIs DEF NextRead, Pos
    <3> QED BY <1>1, <1>2, <2>2, <3>3, <3>4 DEF Places, Byte
  <2> QED BY <2>1, <2>2
<1>5. /\ Queue \in Seq(Byte) /\ Len(Queue) = i_size
      /\ \A i \in 1 .. i_size : Queue[i] = data[Pos(i - 1)]
  BY QueueIs
<1>6. /\ Queue' \in Seq(Byte) /\ Len(Queue') = i_size - k
      /\ \A i \in 1 .. i_size - k : Queue'[i] = data'[Pos(i - 1)']
  <2>1. (Types /\ Places => /\ Queue \in Seq(Byte) /\ Len(Queue) = i_size
                            /\ \A i \in 1 .. i_size : Queue[i] = data[Pos(i - 1)])'
    BY QueueIs, PTL
  <2> QED BY <1>4, <2>1
<1>7. PICK t : t = SubSeq(Queue, k + 1, i_size)
  OBVIOUS
<1>8. t \in Seq(Byte) /\ Len(t) = i_size - k /\ \A i \in 1 .. i_size - k : t[i] = Queue[k + i]
  <2>1. \A i \in k + 1 .. i_size : Queue[i] \in Byte
    BY <1>1, <1>5
  <2>2. k + 1 \in Int /\ i_size \in Int
    BY <1>1
  <2>3. /\ t \in Seq(Byte) /\ Len(t) = IF k + 1 <= i_size THEN i_size - (k + 1) + 1 ELSE 0
        /\ \A i \in 1 .. i_size - (k + 1) + 1 : t[i] = Queue[k + 1 + i - 1]
    BY <1>7, <2>1, <2>2, SubSeqProperties
  <2>4. \A i \in 1 .. i_size - k : i \in 1 .. i_size - (k + 1) + 1 /\ k + 1 + i - 1 = k + i
    BY <1>1
  <2>5. Len(t) = i_size - k
    BY <1>1, <2>3
  <2> QED BY <2>3, <2>4, <2>5
<1>9. ASSUME NEW i \in 1 .. i_size - k PROVE Queue'[i] = t[i]
  <2>1. /\ k # i_size /\ i - 1 \in 0 .. i_size - k /\ k + (i - 1) = k + i - 1
        /\ k + i - 1 \in k .. i_size - 1 /\ k + i - 1 \in 0 .. PIPSIZ /\ k + i \in 1 .. i_size
        /\ k \in 0 .. i_size
    BY <1>1
  <2>2. Pos(i - 1)' = Pos(k + i - 1)
    BY <1>3, <2>1
  <2>3. Pos(k + i - 1) \in Spot /\ Pos(k + i - 1) \div BSIZE \notin Dropped(k)
    BY <1>1, <2>1, PosIs, DroppedFree
  <2>4. Queue'[i] = data[Pos(k + i - 1)]
    BY <1>6, <2>2, <2>3
  <2>5. PICK j : j = k + i
    OBVIOUS
  <2>6. j \in 1 .. i_size /\ j - 1 = k + i - 1 /\ t[i] = Queue[j]
    BY <1>8, <2>1, <2>5
  <2>7. Queue[j] = data[Pos(j - 1)]
    BY <1>5, <2>6
  <2> QED BY <2>4, <2>6, <2>7
<1>10. Queue' = t
  BY <1>6, <1>8, <1>9, SeqEqual
<1> QED BY <1>4, <1>5, <1>7, <1>10
-----------------------------------------------------------------------------
(* Who has something left to write: the writers, and nobody else.          *)
Sound(c) ==
    /\ c.op \in Ended => c = Over(c.op)
    /\ c.op = "read" => c.n > 0
    /\ c.op = "write" <=> c.left # <<>>

Lefts == \A p \in Proc : Sound(call[p])

ByteInv == IndInv /\ Places /\ Lefts

(* iomove() and bread() succeed. *)
NoFaults == Failing = {}

(* A call that is over has nothing left. *)
LEMMA SoundOver == \A how \in Ended : Sound(Over(how)) /\ Over(how).left = <<>>
BY DEF Sound, Over, Call, Ended

(* A step changes the call of one process. *)
LEMMA LeftsStep ==
    ASSUME Lefts, NEW p \in Proc, \A q \in Proc : q # p => call'[q] = call[q], Sound(call'[p])
    PROVE  Lefts'
BY Zenon DEF Lefts

(* The abstract state. *)
Left == [p \in Proc |-> call[p].left]
Told == [p \in Proc |-> IF call[p].op \in {"end", "pipe"} THEN call[p].op ELSE "nothing"]
SameFifo == Queue' = Queue /\ Left' = Left /\ Told' = Told
SameEnds == Having("FREAD")' = Having("FREAD") /\ Having("FWRITE")' = Having("FWRITE")
Implements == F!Next \/ (SameFifo /\ SameEnds)

(* What such a step does to the abstract state. *)
LEMMA MapIs ==
    ASSUME NEW p \in Proc, \A q \in Proc : q # p => call'[q] = call[q]
    PROVE  /\ Left' = [Left EXCEPT ![p] = call'[p].left]
           /\ call'[p].left = call[p].left => Left' = Left
           /\ call'[p].op \in {"end", "pipe"} => Told' = [Told EXCEPT ![p] = call'[p].op]
           /\ call'[p].op \notin {"end", "pipe"} => Told' = [Told EXCEPT ![p] = "nothing"]
           /\ Left[p] = call[p].left
<1>1. Left' = [Left EXCEPT ![p] = call'[p].left]
  BY DEF Left
<1>2. call'[p].left = call[p].left => Left' = Left
  BY DEF Left
<1>3. call'[p].op \in {"end", "pipe"} => Told' = [Told EXCEPT ![p] = call'[p].op]
  BY DEF Told
<1>4. call'[p].op \notin {"end", "pipe"} => Told' = [Told EXCEPT ![p] = "nothing"]
  BY DEF Told
<1> QED BY <1>1, <1>2, <1>3, <1>4 DEF Left

(* The steps of Fifo: what each asks of the abstract state. *)
LEMMA FilesIs ==
    ASSUME NEW p \in Proc,
           Having("FREAD")' \in Nat, Having("FWRITE")' \in Nat,
           Queue' = IF Having("FREAD")' = 0 /\ Having("FWRITE")' = 0 THEN <<>> ELSE Queue,
           Told' = [Told EXCEPT ![p] = "nothing"], Left' = Left
    PROVE  Implements
<1>1. F!Files(p)
  BY Zenon DEF F!Files, F!Says, Left, Told
<1> QED BY <1>1, Zenon DEF F!Next, Implements

LEMMA CloseFileIs ==
    ASSUME Having("FREAD")' \in 0 .. Having("FREAD"), Having("FWRITE")' \in 0 .. Having("FWRITE"),
           Queue' = IF Having("FREAD")' = 0 /\ Having("FWRITE")' = 0 THEN <<>> ELSE Queue,
           Told' = Told, Left' = Left
    PROVE  Implements
<1>1. F!CloseFile
  BY Zenon DEF F!CloseFile, Left, Told
<1> QED BY <1>1, Zenon DEF F!Next, Implements

(* What p, with the text s, has to write. *)
Text(p, s) == IF Left[p] = <<>> THEN s \in Texts ELSE s = Left[p]

LEMMA PutStep ==
    ASSUME NEW p \in Proc, NEW s, Text(p, s), NEW n,
           n = IF Len(s) > PIPSIZ THEN PIPSIZ - Len(Queue) ELSE Len(s),
           Having("FREAD") > 0, n > 0, Len(Queue) + n <= PIPSIZ,
           Queue' = Queue \o SubSeq(s, 1, n),
           Left' = [Left EXCEPT ![p] = SubSeq(s, n + 1, Len(s))] \/ Left' = [Left EXCEPT ![p] = <<>>],
           Told' = [Told EXCEPT ![p] = "nothing"], SameEnds
    PROVE  Implements
<1>0. s \in F!ToWrite(p)
  BY Zenon DEF F!ToWrite, Text, Left
<1>1. F!Put(p)
  BY <1>0, Zenon DEF F!Put, F!Keeps, F!Says, Left, Told, SameEnds
<1> QED BY <1>1, Zenon DEF F!Next, Implements

LEMMA PutLessStep ==
    ASSUME NEW p \in Proc, NEW s, Text(p, s), NEW n \in 0 .. Len(s) - 1,
           Having("FREAD") > 0, Len(Queue) + n <= PIPSIZ,
           Queue' = Queue \o SubSeq(s, 1, n),
           Left' = [Left EXCEPT ![p] = <<>>],
           Told' = [Told EXCEPT ![p] = "nothing"], SameEnds
    PROVE  Implements
<1>0. s \in F!ToWrite(p)
  BY Zenon DEF F!ToWrite, Text, Left
<1>1. F!PutLess(p)
  BY <1>0, Zenon DEF F!PutLess, F!Keeps, F!Says, Left, Told, SameEnds
<1> QED BY <1>1, Zenon DEF F!Next, Implements

LEMMA WaitsStep ==
    ASSUME NEW p \in Proc, NEW s, Text(p, s), Having("FREAD") > 0,
           Len(Queue) + Len(s) > PIPSIZ, Len(s) <= PIPSIZ \/ Len(Queue) = PIPSIZ,
           Queue' = Queue, Left' = [Left EXCEPT ![p] = s],
           Told' = [Told EXCEPT ![p] = "nothing"], SameEnds
    PROVE  Implements
<1>0. s \in F!ToWrite(p)
  BY Zenon DEF F!ToWrite, Text, Left
<1>1. F!Waits(p)
  BY <1>0, Zenon DEF F!Waits, F!Keeps, F!Says, Left, Told, SameEnds
<1> QED BY <1>1, Zenon DEF F!Next, Implements

LEMMA GiveUpStep ==
    ASSUME NEW p \in Proc, Queue' = Queue, Left' = [Left EXCEPT ![p] = <<>>],
           Told' = [Told EXCEPT ![p] = "nothing"], SameEnds
    PROVE  Implements
<1>1. F!GiveUp(p)
  BY Zenon DEF F!GiveUp, F!Keeps, F!Says, Left, Told, SameEnds
<1> QED BY <1>1, Zenon DEF F!Next, Implements

LEMMA GetStep ==
    ASSUME NEW p \in Proc, NEW n \in 1 .. Len(Queue), Queue' = SubSeq(Queue, n + 1, Len(Queue)),
           Left' = Left, Told' = [Told EXCEPT ![p] = "nothing"], SameEnds
    PROVE  Implements
<1>1. F!Get(p)
  BY Zenon DEF F!Get, F!Says, Left, Told, SameEnds
<1> QED BY <1>1, Zenon DEF F!Next, Implements

LEMMA AtEndStep ==
    ASSUME NEW p \in Proc, Queue = <<>>, Having("FWRITE") = 0, Queue' = Queue,
           Left' = Left, Told' = [Told EXCEPT ![p] = "end"], SameEnds
    PROVE  Implements
<1>1. F!AtEnd(p)
  BY Zenon DEF F!AtEnd, F!Says, Left, Told, SameEnds
<1> QED BY <1>1, Zenon DEF F!Next, Implements

LEMMA TurnedAwayStep ==
    ASSUME NEW p \in Proc, Having("FREAD") = 0, Queue' = Queue,
           Left' = [Left EXCEPT ![p] = <<>>], Told' = [Told EXCEPT ![p] = "pipe"], SameEnds
    PROVE  Implements
<1>1. F!TurnedAway(p)
  BY Zenon DEF F!TurnedAway, F!Keeps, F!Says, Left, Told, SameEnds
<1> QED BY <1>1, Zenon DEF F!Next, Implements
-----------------------------------------------------------------------------
(* Steps that leave the bytes alone, and those that leave the counts. *)
LEMMA SameBytes ==
    ASSUME Places, UNCHANGED bytes
    PROVE  Places' /\ Queue' = Queue
BY DEF Places, Queue, Pos, bytes

LEMMA Counted ==
    ASSUME IndInv, IndInv'
    PROVE  /\ Having("FREAD") = i_frcnt /\ Having("FWRITE") = i_fwcnt
           /\ Having("FREAD")' = i_frcnt' /\ Having("FWRITE")' = i_fwcnt'
           /\ i_frcnt \in Nat /\ i_fwcnt \in Nat /\ i_frcnt' \in Nat /\ i_fwcnt' \in Nat
           /\ UNCHANGED counts => SameEnds
<1>1. /\ Having("FREAD") = i_frcnt /\ Having("FWRITE") = i_fwcnt
      /\ Having("FREAD")' = i_frcnt' /\ Having("FWRITE")' = i_fwcnt'
      /\ i_frcnt \in Nat /\ i_fwcnt \in Nat /\ i_frcnt' \in Nat /\ i_fwcnt' \in Nat
  BY DEF IndInv, Types, CountsExact
<1>2. UNCHANGED counts => SameEnds
  BY <1>1 DEF SameEnds, counts
<1> QED BY <1>1, <1>2

(* A call ends: nothing is left of it. *)
LEMMA EndsMap ==
    ASSUME ByteInv, NEW p \in Proc, NEW how \in Ended, Ends(p, how)
    PROVE  /\ Lefts' /\ Left' = [Left EXCEPT ![p] = <<>>]
           /\ call[p].left = <<>> => Left' = Left
           /\ how = "done" => Told' = [Told EXCEPT ![p] = "nothing"]
           /\ how \in {"end", "pipe"} => Told' = [Told EXCEPT ![p] = how]
<1>1. /\ \A q \in Proc : q # p => call'[q] = call[q]
      /\ call'[p] = Over(how)
  BY DEF Ends, ByteInv, IndInv, Types
<1>2. Sound(call'[p]) /\ call'[p].left = <<>> /\ call'[p].op = how
  BY <1>1, SoundOver, OverTypes
<1>3. Lefts'
  BY <1>1, <1>2, LeftsStep DEF ByteInv
<1>4. /\ Left' = [Left EXCEPT ![p] = <<>>]
      /\ call[p].left = <<>> => Left' = Left
  BY <1>1, <1>2, MapIs
<1>5. /\ how \in {"end", "pipe"} => Told' = [Told EXCEPT ![p] = how]
      /\ how \notin {"end", "pipe"} => Told' = [Told EXCEPT ![p] = "nothing"]
  BY <1>1, <1>2, MapIs
<1> QED BY <1>3, <1>4, <1>5

(* A call sleeps. *)
LEMMA SleepsMap ==
    ASSUME ByteInv, NEW p \in Proc, NEW c \in AnyCall, Sound(c), c.op \notin Ended,
           NEW chan \in {"frcnt", "fwcnt"}, NEW C, Sleeps(p, c, chan, C)
    PROVE  /\ Lefts' /\ Left' = [Left EXCEPT ![p] = c.left]
           /\ call[p].left = c.left => Left' = Left
           /\ Told' = [Told EXCEPT ![p] = "nothing"]
<1>1. /\ \A q \in Proc : q # p => call'[q] = call[q]
      /\ call'[p] = c
  BY SleepsIs DEF ByteInv, IndInv
<1>2. Lefts'
  BY <1>1, LeftsStep DEF ByteInv
<1>3. /\ Left' = [Left EXCEPT ![p] = c.left]
      /\ call[p].left = c.left => Left' = Left
  BY <1>1, MapIs
<1>4. call'[p].op \notin {"end", "pipe"}
  BY <1>1 DEF Ended
<1>5. Told' = [Told EXCEPT ![p] = "nothing"]
  BY <1>1, <1>4, MapIs
<1> QED BY <1>2, <1>3, <1>5

(* Only a write has something left. *)
LEMMA NoLeft ==
    ASSUME ByteInv, NEW p \in Proc, call[p].op # "write"
    PROVE  call[p].left = <<>> /\ Left[p] = <<>>
BY DEF ByteInv, Lefts, Sound, Left

(* The calls that read() and write() may be in, and what is left of them. *)
LEMMA ReadsSound ==
    ASSUME ByteInv, NEW p \in Proc, NEW c \in Reads(p)
    PROVE  /\ c \in AnyCall /\ c.op = "read" /\ c.n \in Nat \ {0} /\ Sound(c)
           /\ c.left = <<>> /\ call[p].left = <<>>
<1>1. c \in AnyCall /\ c.op = "read"
  BY ReadsAre DEF ByteInv, IndInv
<1>2. CASE Idle(p)
  <2>1. PICK f \in Opened, n \in Counts : c = Call("read", f, <<>>, n)
    BY <1>2 DEF Reads
  <2>2. n \in Nat \ {0}
    BY PipeAssumption
  <2>3. c.op = "read" /\ c.n = n /\ c.left = <<>>
    BY <2>1 DEF Call
  <2>4. call[p].left = <<>>
    BY <1>2, NoLeft DEF Idle, Ended
  <2>5. Sound(c)
    BY <2>2, <2>3 DEF Sound, Ended
  <2> QED BY <1>1, <2>2, <2>3, <2>4, <2>5
<1>3. CASE ~Idle(p)
  <2>1. c = call[p]
    BY <1>3 DEF Reads, Ready
  <2>2. Sound(c) /\ c.n \in Nat
    BY <1>1, <2>1 DEF ByteInv, Lefts, AnyCall
  <2>3. c.n > 0 /\ c.left = <<>>
    BY <1>1, <2>2 DEF Sound
  <2> QED BY <1>1, <2>1, <2>2, <2>3
<1> QED BY <1>2, <1>3

LEMMA WritesSound ==
    ASSUME ByteInv, NEW p \in Proc, NEW c \in Writes(p)
    PROVE  /\ c \in AnyCall /\ c.op = "write" /\ Sound(c) /\ Text(p, c.left)
           /\ c.left \in Seq(Bytes) /\ Len(c.left) \in Nat /\ Len(c.left) > 0
<1>1. c \in AnyCall /\ c.op = "write" /\ c.left \in Seq(Bytes)
  BY WritesAre DEF ByteInv, IndInv
<1>2. CASE Idle(p)
  <2>1. PICK f \in {g \in Opened : "FWRITE" \in f_flag[g]}, s \in Texts : c = Call("write", f, s, 0)
    BY <1>2 DEF Writes
  <2>2. s # <<>> /\ c.left = s
    BY <2>1, PipeAssumption DEF Call
  <2>3. Left[p] = <<>>
    BY <1>2, NoLeft DEF Idle, Ended
  <2>4. Text(p, c.left) /\ c.left # <<>>
    BY <2>2, <2>3 DEF Text
  <2>5. Sound(c)
    BY <1>1, <2>4 DEF Sound, Ended
  <2>6. Len(c.left) \in Nat /\ Len(c.left) > 0
    BY <1>1, <2>4
  <2> QED BY <1>1, <2>4, <2>5, <2>6
<1>3. CASE ~Idle(p)
  <2>1. c = call[p]
    BY <1>3 DEF Writes, Ready
  <2>2. Sound(c) /\ Left[p] = c.left
    BY <2>1 DEF ByteInv, Lefts, Left
  <2>3. c.left # <<>>
    BY <1>1, <2>2 DEF Sound
  <2>4. Text(p, c.left)
    BY <2>2, <2>3 DEF Text
  <2>5. Len(c.left) \in Nat /\ Len(c.left) > 0
    BY <1>1, <2>3
  <2> QED BY <1>1, <2>2, <2>4, <2>5
<1> QED BY <1>2, <1>3
-----------------------------------------------------------------------------
(* The steps of Pipes are steps of Fifo, or leave the abstract state:     *)
(* open() and close().                                                     *)
LEMMA WaitingMap ==
    ASSUME ByteInv, NEW p \in Proc, NEW f \in File, NEW at \in {Awake, "frcnt", "fwcnt"}, NEW C,
           Waiting(p, f, at, C), call[p].op # "write"
    PROVE  Lefts' /\ Left' = Left /\ Told' = [Told EXCEPT ![p] = "nothing"]
<1>1. call[p].left = <<>> /\ "done" \in Ended
  BY NoLeft DEF Ended
<1>2. CASE at = Awake
  <2>1. Ends(p, "done")
    BY <1>2 DEF Waiting
  <2> QED BY <1>1, <2>1, EndsMap
<1>3. CASE at # Awake
  <2>1. Sleeps(p, Call("open", f, <<>>, 0), at, C)
    BY <1>3 DEF Waiting
  <2>2. /\ Call("open", f, <<>>, 0) \in AnyCall /\ Call("open", f, <<>>, 0).op = "open"
        /\ Call("open", f, <<>>, 0).left = <<>>
    BY DEF Call, AnyCall, Op
  <2>3. PICK c : c = Call("open", f, <<>>, 0)
    OBVIOUS
  <2>4. Sound(c) /\ c.op \notin Ended /\ c \in AnyCall /\ c.left = <<>>
    BY <2>2, <2>3 DEF Sound, Ended
  <2>5. at \in {"frcnt", "fwcnt"} /\ Sleeps(p, c, at, C)
    BY <1>3, <2>1, <2>3
  <2> QED BY <1>1, <2>4, <2>5, SleepsMap
<1> QED BY <1>2, <1>3

LEMMA OpenMap ==
    ASSUME ByteInv, IndInv', NEW p \in Proc, NEW f \in File, Open(p, f)
    PROVE  Places' /\ Lefts' /\ Implements
<1> PICK m \in Modes :
        LET rd == i_frcnt + One("FREAD" \in m)
            wr == i_fwcnt + One("FWRITE" \in m)
        IN  /\ Idle(p)
            /\ i_frcnt' = rd /\ i_fwcnt' = wr
            /\ Waiting(p, f, WaitsFor(m, rd, wr),
                   If(rd > 0 /\ i_frcnt = 0, "frcnt") \cup If(wr > 0 /\ i_fwcnt = 0, "fwcnt"))
            /\ UNCHANGED bytes
  BY DEF Open
<1>1. PICK at, C : Waiting(p, f, at, C) /\ at \in {Awake, "frcnt", "fwcnt"}
  BY DEF WaitsFor
<1>2. call[p].op # "write"
  BY DEF Idle, Ended
<1>3. Lefts' /\ Left' = Left /\ Told' = [Told EXCEPT ![p] = "nothing"]
  BY <1>1, <1>2, WaitingMap
<1>4. Places' /\ Queue' = Queue
  BY SameBytes DEF ByteInv
<1>5. /\ Having("FREAD")' \in Nat /\ Having("FWRITE")' \in Nat
      /\ ~(Having("FREAD")' = 0 /\ Having("FWRITE")' = 0)
  <2>1. m \cap {"FREAD", "FWRITE"} # {}
    BY PipeAssumption
  <2>2. i_frcnt \in Nat /\ i_fwcnt \in Nat /\ Having("FREAD")' = i_frcnt' /\ Having("FWRITE")' = i_fwcnt'
        /\ i_frcnt' \in Nat /\ i_fwcnt' \in Nat
    BY Counted DEF ByteInv
  <2> QED BY <2>1, <2>2 DEF One
<1>6. Implements
  BY <1>3, <1>4, <1>5, FilesIs
<1> QED BY <1>3, <1>4, <1>6

LEMMA OpenAgainMap ==
    ASSUME ByteInv, IndInv', NEW p \in Proc, OpenAgain(p)
    PROVE  Places' /\ Lefts' /\ Implements
<1>1. /\ call[p].op = "open"
      /\ Waiting(p, call[p].f, WaitsFor(f_flag[call[p].f], i_frcnt, i_fwcnt), {})
      /\ UNCHANGED counts /\ UNCHANGED bytes
  BY DEF OpenAgain, Ready
<1>2. PICK f, at : Waiting(p, f, at, {}) /\ at \in {Awake, "frcnt", "fwcnt"} /\ f = call[p].f
  BY <1>1 DEF WaitsFor
<1>3. f \in File /\ call[p].op # "write"
  BY <1>1, <1>2 DEF ByteInv, IndInv, Users, Idle, Ended
<1>4. Lefts' /\ Left' = Left /\ Told' = [Told EXCEPT ![p] = "nothing"]
  BY <1>2, <1>3, WaitingMap
<1>5. Told' = Told
  <2>1. Told[p] = "nothing" /\ DOMAIN Told = Proc
    BY <1>1 DEF Told
  <2> QED BY <1>4, <2>1 DEF Told
<1>6. Places' /\ Queue' = Queue
  BY <1>1, SameBytes DEF ByteInv
<1>7. SameEnds
  BY <1>1, Counted DEF ByteInv
<1> QED BY <1>4, <1>5, <1>6, <1>7 DEF Implements, SameFifo

LEMMA PipeMap ==
    ASSUME ByteInv, IndInv', NEW p \in Proc, Pipe(p)
    PROVE  Places' /\ Lefts' /\ Implements
<1>1. /\ Idle(p) /\ i_frcnt' = 1 /\ i_fwcnt' = 1 /\ Ends(p, "done") /\ UNCHANGED bytes /\ "done" \in Ended
  BY DEF Pipe, Ended
<1>2. call[p].left = <<>>
  BY <1>1, NoLeft DEF Idle, Ended
<1>3. Lefts' /\ Left' = Left /\ Told' = [Told EXCEPT ![p] = "nothing"]
  BY <1>1, <1>2, EndsMap
<1>4. Places' /\ Queue' = Queue
  BY <1>1, SameBytes DEF ByteInv
<1>5. Having("FREAD")' = 1 /\ Having("FWRITE")' = 1
  BY <1>1, Counted DEF ByteInv
<1>6. Having("FREAD")' \in Nat /\ Having("FWRITE")' \in Nat /\ Having("FREAD")' # 0
  BY <1>5
<1>7. Implements
  BY <1>3, <1>4, <1>6, FilesIs
<1> QED BY <1>3, <1>4, <1>7

(* The last close: with the last file the bytes go. *)
LEMMA ClosepMap ==
    ASSUME ByteInv, IndInv', NEW f \in File, NEW w, Closep(f, w)
    PROVE  /\ Places'
           /\ Having("FREAD")' \in 0 .. Having("FREAD") /\ Having("FWRITE")' \in 0 .. Having("FWRITE")
           /\ Queue' = IF Having("FREAD")' = 0 /\ Having("FWRITE")' = 0 THEN <<>> ELSE Queue
<1>1. PICK rd, wr :
        /\ rd = i_frcnt - One("FREAD" \in f_flag[f]) /\ wr = i_fwcnt - One("FWRITE" \in f_flag[f])
        /\ i_frcnt' = rd /\ i_fwcnt' = wr
        /\ IF rd = 0 /\ wr = 0
           THEN i_size' = 0 /\ i_frptr' = 0 /\ i_fwptr' = 0 /\ i_faddr' = {} /\ data' = Nothing
           ELSE UNCHANGED bytes
  BY DEF Closep
<1>2. /\ Having("FREAD") = i_frcnt /\ Having("FWRITE") = i_fwcnt
      /\ Having("FREAD")' = i_frcnt' /\ Having("FWRITE")' = i_fwcnt'
      /\ i_frcnt \in Nat /\ i_fwcnt \in Nat /\ i_frcnt' \in Nat /\ i_fwcnt' \in Nat
  BY Counted DEF ByteInv
<1>3. Having("FREAD")' \in 0 .. Having("FREAD") /\ Having("FWRITE")' \in 0 .. Having("FWRITE")
  BY <1>1, <1>2 DEF One
<1>4. CASE rd = 0 /\ wr = 0
  <2>1. i_size' = 0 /\ i_frptr' = 0 /\ i_fwptr' = 0 /\ i_faddr' = {} /\ data' = Nothing
    BY <1>1, <1>4
  <2>2. Places'
    <3>1. 0 \in Spot /\ (0 + 0) % PIPSIZ = 0
      BY PipeAssumption DEF Spot
    <3>2. Pos(i_size)' = 0
      BY <2>1, <3>1 DEF Pos
    <3> QED BY <2>1, <3>1, <3>2 DEF Places, Nothing
  <2>3. Queue' \in Seq(Byte) /\ Len(Queue') = 0
    <3>1. (Types /\ Places => Queue \in Seq(Byte) /\ Len(Queue) = i_size)'
      BY QueueIs, PTL
    <3> QED BY <2>1, <2>2, <3>1 DEF IndInv
  <2>4. Queue' = <<>>
    BY <2>3
  <2> QED BY <1>1, <1>2, <1>3, <1>4, <2>2, <2>4
<1>5. CASE ~(rd = 0 /\ wr = 0)
  <2>1. Places' /\ Queue' = Queue
    BY <1>1, <1>5, SameBytes DEF ByteInv
  <2> QED BY <1>1, <1>2, <1>3, <1>5, <2>1
<1> QED BY <1>4, <1>5

LEMMA CloseMap ==
    ASSUME ByteInv, IndInv', NEW f \in File, Close(f)
    PROVE  Places' /\ Lefts' /\ Implements
<1>1. Closep(f, wchan) /\ call' = call
  BY DEF Close
<1>2. Lefts' /\ Left' = Left /\ Told' = Told
  BY <1>1 DEF ByteInv, Lefts, Left, Told
<1>3. /\ Places'
      /\ Having("FREAD")' \in 0 .. Having("FREAD") /\ Having("FWRITE")' \in 0 .. Having("FWRITE")
      /\ Queue' = IF Having("FREAD")' = 0 /\ Having("FWRITE")' = 0 THEN <<>> ELSE Queue
  BY <1>1, ClosepMap
<1>4. Implements
  BY <1>2, <1>3, CloseFileIs
<1> QED BY <1>2, <1>3, <1>4

LEMMA InterruptedMap ==
    ASSUME ByteInv, IndInv', NEW p \in Proc, Interrupted(p)
    PROVE  Places' /\ Lefts' /\ Implements
<1>1. /\ ~Idle(p) /\ Ends(p, "done") /\ "done" \in Ended
      /\ IF call[p].op = "open" THEN \E w : Closep(call[p].f, w)
         ELSE UNCHANGED <<f_flag, counts, i_fflag, bytes>>
  BY DEF Interrupted, Ended
<1>2. /\ Lefts' /\ Left' = [Left EXCEPT ![p] = <<>>]
      /\ call[p].left = <<>> => Left' = Left
      /\ Told' = [Told EXCEPT ![p] = "nothing"]
  BY <1>1, EndsMap
<1>3. CASE call[p].op = "open"
  <2>1. PICK w : Closep(call[p].f, w)
    BY <1>1, <1>3
  <2>2. call[p].f \in File /\ call[p].left = <<>>
    BY <1>1, <1>3, NoLeft DEF ByteInv, IndInv, Users
  <2>3. /\ Places'
        /\ Having("FREAD")' \in 0 .. Having("FREAD") /\ Having("FWRITE")' \in 0 .. Having("FWRITE")
        /\ Queue' = IF Having("FREAD")' = 0 /\ Having("FWRITE")' = 0 THEN <<>> ELSE Queue
    BY <2>1, <2>2, ClosepMap
  <2>4. Having("FREAD")' \in Nat /\ Having("FWRITE")' \in Nat
    BY Counted DEF ByteInv
  <2>5. Implements
    BY <1>2, <2>2, <2>3, <2>4, FilesIs
  <2> QED BY <1>2, <2>3, <2>5
<1>4. CASE call[p].op # "open"
  <2>1. UNCHANGED counts /\ UNCHANGED bytes
    BY <1>1, <1>4
  <2>2. Places' /\ Queue' = Queue
    BY <2>1, SameBytes DEF ByteInv
  <2>3. SameEnds
    BY <2>1, Counted DEF ByteInv
  <2>4. Implements
    BY <1>2, <2>2, <2>3, GiveUpStep
  <2> QED BY <1>2, <2>2, <2>4
<1> QED BY <1>3, <1>4
-----------------------------------------------------------------------------
(* Some of the bytes are taken out, perhaps none. *)
LEMMA TakeMap ==
    ASSUME ByteInv, IndInv', NEW p \in Proc, NEW k \in 0 .. i_size, i_size > 0, Take(k, k),
           Ends(p, "done"), call[p].left = <<>>
    PROVE  Places' /\ Lefts' /\ Implements
<1>1. /\ i_size' = i_size - k /\ i_frptr' = NextRead(k, k)
      /\ i_fwptr' = IF k = i_size THEN 0 ELSE i_fwptr
      /\ data' = [s \in Spot |-> IF s \div BSIZE \in Dropped(k) THEN Stale ELSE data[s]]
      /\ UNCHANGED counts /\ UNCHANGED i_faddr /\ "done" \in Ended
  BY DEF Take, Ended
<1>2. Places' /\ Queue' = SubSeq(Queue, k + 1, Len(Queue)) /\ Len(Queue) = i_size
  <2>1. Types /\ Places /\ Types'
    BY DEF ByteInv, IndInv
  <2> QED BY <1>1, <2>1, ReadQueue
<1>3. /\ Lefts' /\ Left' = Left /\ Left' = [Left EXCEPT ![p] = <<>>]
      /\ Told' = [Told EXCEPT ![p] = "nothing"]
  BY <1>1, EndsMap
<1>4. SameEnds
  BY <1>1, Counted DEF ByteInv
<1>5. CASE k = 0
  <2>1. Queue \in Seq(Byte)
    BY QueueIs DEF ByteInv, IndInv
  <2>2. Queue' = Queue
    BY <1>2, <1>5, <2>1
  <2> QED BY <1>2, <1>3, <1>4, <2>2, GiveUpStep
<1>6. CASE k # 0
  <2>1. k \in 1 .. Len(Queue)
    BY <1>2, <1>6 DEF ByteInv, IndInv, Types
  <2> QED BY <1>2, <1>3, <1>4, <2>1, GetStep
<1> QED BY <1>5, <1>6

(* read() *)
LEMMA ReadMap ==
    ASSUME ByteInv, IndInv', NEW p \in Proc, Read(p)
    PROVE  Places' /\ Lefts' /\ Implements
<1>1. PICK c \in Reads(p) :
        LET k == Least(c.n, i_size) IN i_size > 0 /\ Take(k, k) /\ Ends(p, "done")
  BY Zenon DEF Read
<1>2. PICK k : k = Least(c.n, i_size) /\ i_size > 0 /\ Take(k, k) /\ Ends(p, "done")
  BY <1>1, Zenon
<1>3. c.n \in Nat \ {0} /\ call[p].left = <<>>
  BY ReadsSound
<1>4. i_size \in Nat /\ k \in 0 .. i_size
  BY <1>2, <1>3 DEF Least, ByteInv, IndInv, Types
<1> QED BY <1>2, <1>3, <1>4, TakeMap

LEMMA ReadStopsMap ==
    ASSUME NoFaults, ByteInv, IndInv', NEW p \in Proc, ReadStops(p)
    PROVE  Places' /\ Lefts' /\ Implements
<1>1. PICK c \in Reads(p), j \in Spot, why \in {"resid"} \cup Failing :
        LET k == Least(c.n, i_size)
            n == IF why = "resid" THEN 0 ELSE Piece(i_frptr + j, k - j)
        IN  j < k /\ Take(j + n, IF why = "bread" THEN j + n ELSE j) /\ Ends(p, "done")
  BY Zenon DEF ReadStops
<1>2. why = "resid"
  BY DEF NoFaults
<1>3. PICK k : k = Least(c.n, i_size) /\ j < k /\ Take(j + 0, j) /\ Ends(p, "done")
  BY <1>1, <1>2
<1>4. c.n \in Nat \ {0} /\ call[p].left = <<>>
  BY ReadsSound
<1>5. i_size \in Nat /\ j \in Nat
  BY PipeAssumption DEF ByteInv, IndInv, Types, Spot
<1>6. j \in 0 .. i_size /\ i_size > 0 /\ j + 0 = j
  BY <1>3, <1>4, <1>5 DEF Least
<1>7. Take(j, j)
  BY <1>3, <1>6
<1> QED BY <1>3, <1>4, <1>6, <1>7, TakeMap

LEMMA ReadNoneMap ==
    ASSUME ByteInv, IndInv', NEW p \in Proc, ReadNone(p)
    PROVE  Places' /\ Lefts' /\ Implements
<1>1. PICK c \in Reads(p) :
        /\ i_size = 0
        /\ \/ i_fwcnt = 0 /\ Ends(p, "end")
           \/ Ends(p, "done")
        /\ UNCHANGED counts /\ UNCHANGED bytes
  BY Zenon DEF ReadNone
<1>2. call[p].left = <<>> /\ "end" \in Ended /\ "done" \in Ended
  BY ReadsSound DEF Ended
<1>3. Places' /\ Queue' = Queue
  BY <1>1, SameBytes DEF ByteInv
<1>4. SameEnds
  BY <1>1, Counted DEF ByteInv
<1>5. CASE i_fwcnt = 0 /\ Ends(p, "end")
  <2>1. Lefts' /\ Left' = Left /\ Told' = [Told EXCEPT ![p] = "end"]
    BY <1>2, <1>5, EndsMap
  <2>2. Queue \in Seq(Byte) /\ Len(Queue) = 0
    BY <1>1, QueueIs DEF ByteInv, IndInv
  <2>3. Queue = <<>>
    BY <2>2
  <2>4. Having("FWRITE") = 0
    BY <1>5, Counted DEF ByteInv
  <2>5. Implements
    BY <1>3, <1>4, <2>1, <2>3, <2>4, AtEndStep
  <2> QED BY <1>3, <2>1, <2>5
<1>6. CASE Ends(p, "done")
  <2>1. Lefts' /\ Left' = [Left EXCEPT ![p] = <<>>] /\ Told' = [Told EXCEPT ![p] = "nothing"]
    BY <1>2, <1>6, EndsMap
  <2>2. Implements
    BY <1>3, <1>4, <2>1, GiveUpStep
  <2> QED BY <1>3, <2>1, <2>2
<1> QED BY <1>1, <1>5, <1>6

LEMMA ReadWaitsMap ==
    ASSUME ByteInv, IndInv', NEW p \in Proc, ReadWaits(p)
    PROVE  Places' /\ Lefts' /\ Implements
<1>1. PICK c \in Reads(p) : Sleeps(p, c, "frcnt", {}) /\ UNCHANGED counts /\ UNCHANGED bytes
  BY Zenon DEF ReadWaits
<1>2. c \in AnyCall /\ Sound(c) /\ c.left = <<>> /\ c.op \notin Ended
  BY ReadsSound DEF Ended
<1>3. Lefts' /\ Left' = [Left EXCEPT ![p] = <<>>] /\ Told' = [Told EXCEPT ![p] = "nothing"]
  BY <1>1, <1>2, SleepsMap
<1>4. Places' /\ Queue' = Queue
  BY <1>1, SameBytes DEF ByteInv
<1>5. SameEnds
  BY <1>1, Counted DEF ByteInv
<1>6. Implements
  BY <1>3, <1>4, <1>5, GiveUpStep
<1> QED BY <1>3, <1>4, <1>6
-----------------------------------------------------------------------------
(* k bytes of s have been put into the pipe. *)
LEMMA PutMap ==
    ASSUME ByteInv, IndInv', NEW s \in Seq(Bytes), NEW k \in 0 .. Len(s), i_size + k <= PIPSIZ,
           i_frcnt # 0, Put(s, k, 0), i_fwptr' = At(k)
    PROVE  /\ Places' /\ Queue' = Queue \o SubSeq(s, 1, k) /\ Len(Queue) = i_size
           /\ Having("FREAD") > 0 /\ SameEnds
<1>1. Types /\ Places /\ Types' /\ IndInv
  BY DEF ByteInv, IndInv
<1>2. UNCHANGED counts
  BY DEF Put
<1>3. Having("FREAD") = i_frcnt /\ i_frcnt \in Nat /\ SameEnds
  BY <1>1, <1>2, Counted
<1>4. Having("FREAD") > 0
  BY <1>3
<1> QED BY <1>1, <1>3, <1>4, PutQueue

(* write() *)
LEMMA WriteMap ==
    ASSUME ByteInv, IndInv', NEW p \in Proc, Write(p)
    PROVE  Places' /\ Lefts' /\ Implements
<1>1. PICK c \in Writes(p) :
        /\ i_frcnt # 0 /\ Fits(c.left) /\ Put(c.left, Len(c.left), 0)
        /\ i_fwptr' = At(Len(c.left)) /\ Ends(p, "done")
  BY DEF Write
<1>2. PICK s, k : s = c.left /\ k = Len(s)
  OBVIOUS
<1>3. Text(p, s) /\ s \in Seq(Bytes) /\ k \in Nat /\ k > 0
  BY <1>2, WritesSound
<1>4. k + i_size <= PIPSIZ /\ i_size \in Nat /\ PIPSIZ \in Nat
  BY <1>1, <1>2, Numbers DEF Fits, ByteInv, IndInv
<1>5. k \in 0 .. Len(s) /\ i_size + k <= PIPSIZ /\ ~(Len(s) > PIPSIZ) /\ "done" \in Ended
  BY <1>2, <1>3, <1>4 DEF Ended
<1>6. /\ Places' /\ Queue' = Queue \o SubSeq(s, 1, k) /\ Len(Queue) = i_size
      /\ Having("FREAD") > 0 /\ SameEnds
  BY <1>1, <1>2, <1>3, <1>5, PutMap
<1>7. Lefts' /\ Left' = [Left EXCEPT ![p] = <<>>] /\ Told' = [Told EXCEPT ![p] = "nothing"]
  BY <1>1, <1>5, EndsMap
<1>8. k = IF Len(s) > PIPSIZ THEN PIPSIZ - Len(Queue) ELSE Len(s)
  BY <1>2, <1>5
<1>9. Len(Queue) + k <= PIPSIZ
  BY <1>5, <1>6
<1>10. Implements
  BY <1>3, <1>6, <1>7, <1>8, <1>9, PutStep
<1> QED BY <1>6, <1>7, <1>10

LEMMA WritePartMap ==
    ASSUME ByteInv, IndInv', NEW p \in Proc, WritePart(p)
    PROVE  Places' /\ Lefts' /\ Implements
<1>0. PICK c \in Writes(p) :
        LET k == PIPSIZ - i_size
        IN  /\ i_frcnt # 0 /\ InPart(c.left)
            /\ Put(c.left, k, 0) /\ i_fwptr' = At(k)
            /\ \/ Ends(p, "done")
               \/ Sleeps(p, [c EXCEPT !.left = SubSeq(@, k + 1, Len(@))], "fwcnt", WakeReaders)
  BY Zenon DEF WritePart
<1>1. PICK k :
        /\ k = PIPSIZ - i_size
        /\ i_frcnt # 0 /\ InPart(c.left)
        /\ Put(c.left, k, 0) /\ i_fwptr' = At(k)
        /\ \/ Ends(p, "done")
           \/ Sleeps(p, [c EXCEPT !.left = SubSeq(@, k + 1, Len(@))], "fwcnt", WakeReaders)
  BY <1>0, Zenon
<1>2. PICK s : s = c.left
  OBVIOUS
<1>3. /\ c \in AnyCall /\ c.op = "write" /\ Sound(c)
      /\ Text(p, s) /\ s \in Seq(Bytes) /\ Len(s) \in Nat
  BY <1>2, WritesSound
<1>4. Len(s) > PIPSIZ /\ i_size < PIPSIZ /\ i_size \in Nat /\ PIPSIZ \in Nat
  BY <1>1, <1>2, Numbers DEF InPart, ByteInv, IndInv
<1>5. /\ k \in 0 .. Len(s) /\ k > 0 /\ k < Len(s) /\ k \in Nat /\ i_size + k <= PIPSIZ
      /\ "done" \in Ended
  BY <1>1, <1>3, <1>4 DEF Ended
<1>6. /\ Places' /\ Queue' = Queue \o SubSeq(s, 1, k) /\ Len(Queue) = i_size
      /\ Having("FREAD") > 0 /\ SameEnds
  BY <1>1, <1>2, <1>3, <1>5, PutMap
<1>7. /\ k = IF Len(s) > PIPSIZ THEN PIPSIZ - Len(Queue) ELSE Len(s)
      /\ Len(Queue) + k <= PIPSIZ
  BY <1>1, <1>4, <1>5, <1>6
<1>8. /\ Lefts' /\ Told' = [Told EXCEPT ![p] = "nothing"]
      /\ Left' = [Left EXCEPT ![p] = SubSeq(s, k + 1, Len(s))] \/ Left' = [Left EXCEPT ![p] = <<>>]
  <2>1. CASE Ends(p, "done")
    BY <1>5, <2>1, EndsMap
  <2>2. CASE Sleeps(p, [c EXCEPT !.left = SubSeq(@, k + 1, Len(@))], "fwcnt", WakeReaders)
    <3>1. PICK t : t = SubSeq(s, k + 1, Len(s))
      OBVIOUS
    <3>2. t \in Seq(Bytes) /\ t # <<>>
      <4>1. t \in Seq(Bytes) /\ Len(t) = Len(s) - k
        BY <1>3, <1>5, <3>1
      <4>2. Len(t) # 0
        BY <1>3, <1>5, <4>1
      <4> QED BY <4>1, <4>2
    <3>3. PICK d : d = [c EXCEPT !.left = t]
      OBVIOUS
    <3>4. d \in AnyCall /\ d.op = "write" /\ d.left = t
      BY <1>3, <3>2, <3>3 DEF AnyCall
    <3>5. Sound(d) /\ d.op \notin Ended
      BY <3>2, <3>4 DEF Sound, Ended
    <3>6. Sleeps(p, d, "fwcnt", WakeReaders)
      BY <1>2, <2>2, <3>1, <3>3
    <3>7. Lefts' /\ Left' = [Left EXCEPT ![p] = d.left] /\ Told' = [Told EXCEPT ![p] = "nothing"]
      BY <3>4, <3>5, <3>6, SleepsMap
    <3> QED BY <3>1, <3>4, <3>7
  <2> QED BY <1>1, <2>1, <2>2
<1>9. Implements
  BY <1>3, <1>5, <1>6, <1>7, <1>8, PutStep
<1> QED BY <1>6, <1>8, <1>9

LEMMA WriteStopsMap ==
    ASSUME NoFaults, ByteInv, IndInv', NEW p \in Proc, WriteStops(p)
    PROVE  Places' /\ Lefts' /\ Implements
<1>0. PICK c \in Writes(p), j \in Spot, why \in {"bmap"} \cup Failing :
        LET k == Least(Len(c.left), PIPSIZ - i_size)
            n == IF why = "bmap" THEN 0 ELSE Piece(At(j), k - j)
        IN  /\ i_frcnt # 0 /\ j < k /\ Put(c.left, j, n)
            /\ i_fwptr' = At(IF why = "bread" THEN j + n ELSE j)
            /\ Ends(p, "done")
  BY Zenon DEF WriteStops
<1>1. why = "bmap"
  BY DEF NoFaults
<1>2. PICK s : s = c.left
  OBVIOUS
<1>3. Text(p, s) /\ s \in Seq(Bytes) /\ Len(s) \in Nat
  BY <1>2, WritesSound
<1>4. i_size \in Nat /\ PIPSIZ \in Nat /\ i_size <= PIPSIZ /\ j \in Nat
  BY Numbers DEF ByteInv, IndInv, Spot
<1>5. /\ i_frcnt # 0 /\ j < Least(Len(s), PIPSIZ - i_size) /\ Put(s, j, 0)
      /\ i_fwptr' = At(j) /\ Ends(p, "done")
  BY <1>0, <1>1, <1>2
<1>6. j \in 0 .. Len(s) /\ j \in 0 .. Len(s) - 1 /\ i_size + j <= PIPSIZ /\ "done" \in Ended
  BY <1>3, <1>4, <1>5 DEF Ended, Least
<1>7. /\ Places' /\ Queue' = Queue \o SubSeq(s, 1, j) /\ Len(Queue) = i_size
      /\ Having("FREAD") > 0 /\ SameEnds
  BY <1>3, <1>5, <1>6, PutMap
<1>8. Lefts' /\ Left' = [Left EXCEPT ![p] = <<>>] /\ Told' = [Told EXCEPT ![p] = "nothing"]
  BY <1>5, <1>6, EndsMap
<1>9. Implements
  BY <1>3, <1>6, <1>7, <1>8, PutLessStep
<1> QED BY <1>7, <1>8, <1>9

LEMMA WriteWaitsMap ==
    ASSUME ByteInv, IndInv', NEW p \in Proc, WriteWaits(p)
    PROVE  Places' /\ Lefts' /\ Implements
<1>1. PICK c \in Writes(p) :
        /\ i_frcnt # 0 /\ ~Fits(c.left) /\ ~InPart(c.left)
        /\ Ends(p, "done") \/ Sleeps(p, c, "fwcnt", {})
        /\ UNCHANGED counts /\ UNCHANGED bytes
  BY DEF WriteWaits
<1>2. PICK s : s = c.left
  OBVIOUS
<1>3. /\ c \in AnyCall /\ c.op \notin Ended /\ Sound(c)
      /\ Text(p, s) /\ Len(s) \in Nat /\ "done" \in Ended
  BY <1>2, WritesSound DEF Ended
<1>4. Places' /\ Queue' = Queue
  BY <1>1, SameBytes DEF ByteInv
<1>5. Having("FREAD") = i_frcnt /\ i_frcnt \in Nat /\ SameEnds
  BY <1>1, Counted DEF ByteInv
<1>6. CASE Ends(p, "done")
  <2>1. Lefts' /\ Left' = [Left EXCEPT ![p] = <<>>] /\ Told' = [Told EXCEPT ![p] = "nothing"]
    BY <1>3, <1>6, EndsMap
  <2>2. Implements
    BY <1>4, <1>5, <2>1, GiveUpStep
  <2> QED BY <1>4, <2>1, <2>2
<1>7. CASE Sleeps(p, c, "fwcnt", {})
  <2>1. Lefts' /\ Left' = [Left EXCEPT ![p] = s] /\ Told' = [Told EXCEPT ![p] = "nothing"]
    BY <1>2, <1>3, <1>7, SleepsMap
  <2>2. i_size \in Nat /\ PIPSIZ \in Nat /\ i_size <= PIPSIZ /\ Len(Queue) = i_size
    BY Numbers, QueueIs DEF ByteInv, IndInv
  <2>3. Len(s) + i_size > PIPSIZ /\ ~(Len(s) > PIPSIZ /\ i_size < PIPSIZ)
    BY <1>1, <1>2, <1>3, <2>2 DEF Fits, InPart
  <2>4. Len(Queue) + Len(s) > PIPSIZ /\ (Len(s) <= PIPSIZ \/ Len(Queue) = PIPSIZ)
    BY <1>3, <2>2, <2>3
  <2>5. Having("FREAD") > 0
    BY <1>1, <1>5
  <2>6. Implements
    BY <1>3, <1>4, <1>5, <2>1, <2>4, <2>5, WaitsStep
  <2> QED BY <1>4, <2>1, <2>6
<1> QED BY <1>1, <1>6, <1>7

LEMMA WriteNobodyMap ==
    ASSUME ByteInv, IndInv', NEW p \in Proc, WriteNobody(p)
    PROVE  Places' /\ Lefts' /\ Implements
<1>1. i_frcnt = 0 /\ Ends(p, "pipe") /\ "pipe" \in Ended /\ UNCHANGED counts /\ UNCHANGED bytes
  BY Zenon DEF WriteNobody, Ended
<1>2. Lefts' /\ Left' = [Left EXCEPT ![p] = <<>>] /\ Told' = [Told EXCEPT ![p] = "pipe"]
  BY <1>1, EndsMap
<1>3. Places' /\ Queue' = Queue
  BY <1>1, SameBytes DEF ByteInv
<1>4. Having("FREAD") = 0 /\ SameEnds
  BY <1>1, Counted DEF ByteInv
<1>5. Implements
  BY <1>2, <1>3, <1>4, TurnedAwayStep
<1> QED BY <1>2, <1>3, <1>5

LEMMA StutterMap ==
    ASSUME ByteInv, UNCHANGED vars
    PROVE  Places' /\ Lefts' /\ Implements
<1>1. UNCHANGED bytes /\ call' = call /\ f_flag' = f_flag
  BY DEF vars
<1>2. Places' /\ Queue' = Queue
  BY <1>1, SameBytes DEF ByteInv
<1>3. Lefts' /\ Left' = Left /\ Told' = Told
  BY <1>1 DEF ByteInv, Lefts, Left, Told
<1>4. SameEnds
  BY <1>1 DEF SameEnds, Having
<1> QED BY <1>2, <1>3, <1>4 DEF Implements, SameFifo
-----------------------------------------------------------------------------
(* Every step keeps the invariant and is one of Fifo, or a stutter. *)
LEMMA ByteStep == NoFaults /\ ByteInv /\ [Next]_vars => ByteInv' /\ Implements
<1> SUFFICES ASSUME NoFaults, ByteInv, [Next]_vars PROVE ByteInv' /\ Implements
  OBVIOUS
<1>1. IndInv'
  BY StepInv DEF ByteInv, Places, Pointers
<1>2. Places' /\ Lefts' /\ Implements
  BY <1>1, OpenMap, OpenAgainMap, PipeMap, CloseMap, InterruptedMap,
     ReadMap, ReadStopsMap, ReadNoneMap, ReadWaitsMap,
     WriteMap, WritePartMap, WriteStopsMap, WriteWaitsMap, WriteNobodyMap,
     StutterMap DEF Next
<1> QED BY <1>1, <1>2 DEF ByteInv

(* And so it begins. *)
LEMMA ByteInit == Init => ByteInv /\ F!Init
<1> SUFFICES ASSUME Init PROVE ByteInv /\ F!Init
  OBVIOUS
<1>1. IndInv
  BY InitInv
<1>2. Places
  <2>1. 0 \in Spot /\ (0 + 0) % PIPSIZ = 0
    BY PipeAssumption DEF Spot
  <2>2. i_size = 0 /\ i_frptr = 0 /\ i_fwptr = 0 /\ i_faddr = {} /\ data = Nothing
    BY DEF Init
  <2>3. Pos(i_size) = 0
    BY <2>1, <2>2 DEF Pos
  <2> QED BY <2>1, <2>2, <2>3 DEF Places, Nothing
<1>3. \A p \in Proc : Sound(call[p]) /\ call[p].left = <<>> /\ call[p].op = "done"
  BY SoundOver, OverTypes DEF Init, Ended
<1>4. ByteInv
  BY <1>1, <1>2, <1>3 DEF ByteInv, Lefts
<1>5. Queue = <<>>
  <2>1. Queue \in Seq(Byte) /\ Len(Queue) = 0
    BY <1>4, QueueIs DEF ByteInv, IndInv, Init
  <2> QED BY <2>1
<1>6. Having("FREAD") = 0 /\ Having("FWRITE") = 0
  BY <1>1 DEF IndInv, CountsExact, Init
<1>7. Left = [p \in Proc |-> <<>>] /\ Told = [p \in Proc |-> "nothing"]
  BY <1>3 DEF Left, Told
<1> QED BY <1>4, <1>5, <1>6, <1>7, Zenon DEF F!Init, Left, Told

(* The invariant is more than the type. *)
LEMMA ByteTypes == ByteInv => TypeOK
<1> SUFFICES ASSUME ByteInv PROVE TypeOK
  OBVIOUS
<1>1. i_fwptr = (i_frptr + i_size) % PIPSIZ
  BY DEF ByteInv, Places, Pos
<1>2. /\ f_flag \in [File -> Modes \cup {NoFile, {"FREAD"}, {"FWRITE"}}]
      /\ i_frcnt \in Nat /\ i_fwcnt \in Nat /\ i_fflag \subseteq {"IFIR", "IFIW"}
      /\ i_size \in 0 .. PIPSIZ /\ i_frptr \in Spot /\ i_fwptr \in Spot
      /\ i_faddr \subseteq Block /\ data \in [Spot -> Bytes \cup {Stale}]
  BY DEF ByteInv, IndInv, Types, Places, AllModes
<1>3. ASSUME NEW p \in Proc
      PROVE  /\ call[p].op \in Ended \cup {"open", "read", "write"}
             /\ wchan[p] \in {Awake, "frcnt", "fwcnt"}
             /\ Idle(p) => call[p] = Over(call[p].op) /\ wchan[p] = Awake
             /\ ~Idle(p) => call[p].f \in File /\ f_flag[call[p].f] # NoFile
  <2>1. call[p].op \in Ended \cup {"open", "read", "write"} /\ wchan[p] \in {Awake, "frcnt", "fwcnt"}
    BY DEF ByteInv, IndInv, Types, AnyCall, Op
  <2>2. Idle(p) => call[p] = Over(call[p].op)
    BY DEF ByteInv, Lefts, Sound, Idle
  <2> QED BY <2>1, <2>2 DEF ByteInv, IndInv, Users
<1> QED BY <1>1, <1>2, <1>3 DEF TypeOK

(* Readers get the bytes in the order they were written, none lost or made *)
(* up, though blocks are taken without being read in and lose B_DELWRI when*)
(* they are read (readi, writei); a write goes in as a whole where it can; *)
(* and the end is told only when nobody writes and nothing is left, EPIPE  *)
(* only when nobody reads: for any PIPSIZ that is a multiple of BSIZE, any *)
(* texts and any processes, os/pipe.c and os/rdwri.c do what Fifo promises,*)
(* provided that iomove() and bread() do not fail.  When they do, writei() *)
(* counts bytes that nobody wrote (PipesFault.cfg).                        *)
THEOREM FifoImplemented == ASSUME NoFaults PROVE Spec => ImplementsFifo
<1>1. Init => ByteInv /\ F!Init
  BY ByteInit
<1>2. ByteInv /\ [Next]_vars => ByteInv' /\ [F!Next]_(F!qvars)
  BY ByteStep, Zenon DEF Implements, SameFifo, SameEnds, F!qvars, Left, Told
<1>3. ByteInv => TypeOK
  BY ByteTypes
<1> QED BY <1>1, <1>2, <1>3, PTL DEF Spec, ImplementsFifo, F!Spec
=============================================================================
