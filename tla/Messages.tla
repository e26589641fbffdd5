------------------------------ MODULE Messages ------------------------------
(***************************************************************************)
(* Messages (os/msg.c).  A sender needs room on the queue, a header and    *)
(* space for the text, and after every sleep begins with the first of      *)
(* them again.  A process keeps the processor until it sleeps, no          *)
(* interrupt touches messages and copying to or from a process does not    *)
(* sleep, so a call up to its end or its sleep is one step.                *)
(***************************************************************************)
EXTENDS Integers, FiniteSets, SequencesExt, TLC, ResourceMap

CONSTANTS
    Proc,       (* processes                                                *)
    MSGMNI,     (* queue identifiers                                        *)
    MSGMAP,     (* length of msgmap[]                                       *)
    MSGTQL,     (* message headers                                          *)
    MSGSEG,     (* segments of the text buffer                              *)
    MSGSSZ,     (* bytes of a segment                                       *)
    MSGMAX,     (* largest message                                          *)
    MSGMNB,     (* bytes on a queue                                         *)
    Sends,      (* what is sent: types and sizes                            *)
    Asks,       (* what is asked for: the types msgtyp and the sizes msgsz  *)
    Limits,     (* the values that msg_qbytes is set to                     *)
    SuperUser,  (* may the super-user set it, who can raise it              *)
    MaxSeq      (* bound: how often a queue is removed                      *)

Slot == 0 .. MSGMNI - 1
Id == Slot \X (0 .. MaxSeq)
Message == [type : Nat \ {0}, ts : 0 .. MSGMAX, spot : -1 .. MSGSEG - 1]

(* Where processes sleep: &qp->msg_qnum, qp, &msgfp and msgmap.            *)
Qnum(s) == <<"qnum", s>>
Queue(s) == <<"queue", s>>
Msgfp == <<"msgfp", 0>>
Map == <<"msgmap", 0>>
Awake == <<>>
Chan == {Qnum(s) : s \in Slot} \cup {Queue(s) : s \in Slot} \cup {Msgfp, Map}

(* Calls of msgsnd() and msgrcv(), with the channel of their last sleep.   *)
Calls(op, A) ==
    {[op |-> op, id |-> id, type |-> a.type, size |-> a.size, chan |-> chan] :
        id \in Id, a \in A, chan \in Chan \cup {Awake}}
Snd == Calls("msgsnd", Sends)
Rcv == Calls("msgrcv", Asks)
NoCall == <<>>

ASSUME MsgAssumption ==
    /\ {MSGMNI, MSGTQL, MSGSEG, MSGSSZ} \subseteq Nat \ {0}
    /\ MSGMAX \in 0 .. MSGSEG * MSGSSZ /\ MSGMNB \in Nat /\ MaxSeq \in Nat
    /\ MSGMAP \in Nat /\ MSGMAP >= 3
    /\ Sends \subseteq [type : Nat \ {0}, size : 0 .. MSGMAX]
    /\ Asks \subseteq [type : Int, size : Nat]
    /\ Limits \subseteq Nat /\ SuperUser \in BOOLEAN

VARIABLES
    alloc, seq,         (* msgque[]: IPC_ALLOC, msg_perm.seq,               *)
    msgs,               (*   the messages from msg_first on,                *)
    cbytes, qbytes,     (*   msg_cbytes and msg_qbytes,                     *)
    rwait, wwait,       (*   MSG_RWAIT and MSG_WWAIT                        *)
    nfree,              (* length of msgfp, the free headers                *)
    msgmap,             (* the free segments                                *)
    call, wchan, sig    (* processes in msgsnd() or msgrcv(): the call, the *)
                        (* channel they sleep at, whether a signal has come *)

queueVars == <<alloc, seq, msgs, cbytes, qbytes, rwait, wwait>>
poolVars == <<nfree, msgmap>>
vars == <<queueVars, poolVars, call, wchan, sig>>

Init ==
    /\ alloc = [s \in Slot |-> FALSE] /\ seq = [s \in Slot |-> 0]
    /\ msgs = [s \in Slot |-> <<>>]
    /\ cbytes = [s \in Slot |-> 0] /\ qbytes = [s \in Slot |-> 0]
    /\ rwait = [s \in Slot |-> FALSE] /\ wwait = [s \in Slot |-> FALSE]
    /\ nfree = MSGTQL
    /\ msgmap = Mfree(Mapinit(MSGMAP), MSGSEG, 1)
    /\ call = [p \in Proc |-> NoCall]
    /\ wchan = [p \in Proc |-> Awake]
    /\ sig = [p \in Proc |-> FALSE]
-----------------------------------------------------------------------------
(* msgconv() *)
Valid(id) == alloc[id[1]] /\ seq[id[1]] = id[2]

(* btoq() *)
Segments(cnt) == (cnt + MSGSSZ - 1) \div MSGSSZ

Wakeup(C) == [q \in Proc |-> IF wchan[q] \in C THEN Awake ELSE wchan[q]]

If(condition, chan) == IF condition THEN {chan} ELSE {}

(* What msgfree() changes besides msgs: u has the free headers and         *)
(* segments, MSG_WWAIT of queue s, and the channels woken up so far.       *)
Pool(s) == [free |-> nfree, map |-> msgmap, wwait |-> wwait[s], woken |-> {}]

Msgfree(u, m, s) ==
    LET n == Segments(m.ts)
    IN  [free |-> u.free + 1,
         map |-> IF m.ts = 0 THEN u.map ELSE Mfree(u.map, n, m.spot + 1),
         wwait |-> FALSE,
         woken |-> u.woken \cup If(u.wwait, Queue(s))
                           \cup If(m.ts # 0 /\ Wakes(u.map, n, m.spot + 1), Map)
                           \cup If(u.free = 0, Msgfp)]

(* The loop of msgrcv(): sp is the best message before message i, 0 if     *)
(* there is none.                                                          *)
(* Mutant of the following: the last one of the lowest type.               *)
BetterLast(q, typ, sp, i) ==
    IF typ >= 0 THEN sp = 0 /\ typ \in {0, q[i].type}
    ELSE q[i].type <= -typ /\ (sp # 0 => q[sp].type >= q[i].type)

Better(q, typ, sp, i) ==
    IF typ >= 0 THEN sp = 0 /\ typ \in {0, q[i].type}
    ELSE q[i].type <= -typ /\ (sp # 0 => q[sp].type > q[i].type)

Findmsg(q, typ) == FoldLeftDomain(LAMBDA sp, i : IF Better(q, typ, sp, i) THEN i ELSE sp, 0, q)

(* A call in C of process p that begins, or that looks again after its     *)
(* sleep.                                                                  *)
Attempts(p, C) ==
    CASE call[p] = NoCall -> {c \in C : Valid(c.id) /\ c.chan = Awake}
      [] call[p] \in C /\ wchan[p] = Awake /\ ~sig[p] /\ Valid(call[p].id) -> {call[p]}
      [] OTHER -> {}

Leave(p) == /\ call' = [call EXCEPT ![p] = NoCall]
            /\ sig' = [sig EXCEPT ![p] = FALSE]

Sleep(p, c, chan) == /\ call' = [call EXCEPT ![p] = [c EXCEPT !.chan = chan]]
                     /\ wchan' = [wchan EXCEPT ![p] = chan]
                     /\ UNCHANGED sig
-----------------------------------------------------------------------------
(* msgsnd(), from getres on. *)
HasRoom(c) == c.size + cbytes[c.id[1]] <= qbytes[c.id[1]]
HasSpace(c) == c.size = 0 \/ Fits(msgmap, Segments(c.size)) # {}

Send(p) == \E c \in Attempts(p, Snd) :
    LET s == c.id[1]
        n == Segments(c.size)
    IN  /\ HasRoom(c) /\ nfree > 0 /\ HasSpace(c)
        /\ msgs' = [msgs EXCEPT ![s] = Append(@, [type |-> c.type, ts |-> c.size,
                        spot |-> IF c.size = 0 THEN -1 ELSE Spot(msgmap, n) - 1])]
        /\ msgmap' = IF c.size = 0 THEN msgmap ELSE Malloc(msgmap, n)
        /\ cbytes' = [cbytes EXCEPT ![s] = @ + c.size]
        /\ nfree' = nfree - 1
        /\ rwait' = [rwait EXCEPT ![s] = FALSE]
        /\ wchan' = Wakeup(If(rwait[s], Qnum(s)))
        /\ Leave(p)
        /\ UNCHANGED <<alloc, seq, qbytes, wwait>>

(* The text cannot be read (EFAULT): the space is given back. *)
SendFaults(p) == \E c \in Attempts(p, Snd) :
    LET n == Segments(c.size)
        m == Malloc(msgmap, n)
        a == Spot(msgmap, n)
    IN  /\ HasRoom(c) /\ nfree > 0 /\ c.size > 0 /\ HasSpace(c)
        /\ msgmap' = Mfree(m, n, a)
        /\ wchan' = Wakeup(If(Wakes(m, n, a), Map))
        /\ Leave(p)
        /\ UNCHANGED <<queueVars, nfree>>

SndFull(p) == \E c \in Attempts(p, Snd) :
    /\ ~HasRoom(c)
    /\ wwait' = [wwait EXCEPT ![c.id[1]] = TRUE]
    /\ Sleep(p, c, Queue(c.id[1]))
    /\ UNCHANGED <<alloc, seq, msgs, cbytes, qbytes, rwait, poolVars>>

SndNoHeader(p) == \E c \in Attempts(p, Snd) :
    /\ HasRoom(c) /\ nfree = 0
    /\ Sleep(p, c, Msgfp)
    /\ UNCHANGED <<queueVars, poolVars>>

SndNoSpace(p) == \E c \in Attempts(p, Snd) :
    /\ HasRoom(c) /\ nfree > 0 /\ ~HasSpace(c)
    /\ msgmap' = [msgmap EXCEPT !.want = TRUE]
    /\ Sleep(p, c, Map)
    /\ UNCHANGED <<queueVars, nfree>>
-----------------------------------------------------------------------------
(* msgrcv(), from findmsg on.  MSG_NOERROR is a size of MSGMAX here.       *)
Receive(p) == \E c \in Attempts(p, Rcv) :
    LET s == c.id[1]
        i == Findmsg(msgs[s], c.type)
        u == Msgfree(Pool(s), msgs[s][i], s)
    IN  /\ i # 0 /\ msgs[s][i].ts <= c.size
        /\ msgs' = [msgs EXCEPT ![s] = RemoveAt(@, i)]
        /\ cbytes' = [cbytes EXCEPT ![s] = @ - msgs[s][i].ts]
        /\ nfree' = u.free /\ msgmap' = u.map
        /\ wwait' = [wwait EXCEPT ![s] = u.wwait]
        /\ wchan' = Wakeup(u.woken)
        /\ Leave(p)
        /\ UNCHANGED <<alloc, seq, qbytes, rwait>>

RcvNone(p) == \E c \in Attempts(p, Rcv) :
    /\ Findmsg(msgs[c.id[1]], c.type) = 0
    /\ rwait' = [rwait EXCEPT ![c.id[1]] = TRUE]
    /\ Sleep(p, c, Qnum(c.id[1]))
    /\ UNCHANGED <<alloc, seq, msgs, cbytes, qbytes, wwait, poolVars>>
-----------------------------------------------------------------------------
(* A call ends with an error and changes nothing: EFAULT, E2BIG, or EIDRM  *)
(* as the queue was removed during the sleep.                              *)
Fails(p) ==
    /\ call[p] # NoCall /\ wchan[p] = Awake /\ ~sig[p]
    /\ \/ ~Valid(call[p].id)
       \/ call[p] \in Rcv /\ Findmsg(msgs[call[p].id[1]], call[p].type) # 0
    /\ Leave(p)
    /\ UNCHANGED <<queueVars, poolVars, wchan>>

(* psignal() to a process that sleeps, or was woken up and has not run.    *)
Signal(p) ==
    /\ call[p] # NoCall /\ ~sig[p]
    /\ sig' = [sig EXCEPT ![p] = TRUE]
    /\ wchan' = [wchan EXCEPT ![p] = Awake]
    /\ UNCHANGED <<queueVars, poolVars, call>>

(* EINTR.  Mutant of the following: the others sleep on.                   *)
InterruptedQuietly(p) ==
    LET s == call[p].id[1]
    IN  /\ sig[p]
        /\ wwait' = [wwait EXCEPT ![s] = @ /\ call[p].chan # Queue(s)]
        /\ Leave(p)
        /\ UNCHANGED <<alloc, seq, msgs, cbytes, qbytes, rwait, poolVars, wchan>>

(* EINTR.  A sender that slept for room on the queue clears MSG_WWAIT, so  *)
(* it has to wake up the others.                                           *)
Interrupted(p) ==
    LET s == call[p].id[1]
    IN  /\ sig[p]
        /\ wwait' = [wwait EXCEPT ![s] = @ /\ call[p].chan # Queue(s)]
        /\ wchan' = Wakeup(If(call[p].chan = Queue(s), Queue(s)))
        /\ Leave(p)
        /\ UNCHANGED <<alloc, seq, msgs, cbytes, qbytes, rwait, poolVars>>
-----------------------------------------------------------------------------
(* msgget() of a new queue, in the first free slot (ipcget). *)
Msgget(p) == \E s \in Slot :
    /\ call[p] = NoCall
    /\ ~alloc[s] /\ \A t \in Slot : t < s => alloc[t]
    /\ alloc' = [alloc EXCEPT ![s] = TRUE]
    /\ msgs' = [msgs EXCEPT ![s] = <<>>]
    /\ qbytes' = [qbytes EXCEPT ![s] = MSGMNB]
    /\ UNCHANGED <<seq, cbytes, rwait, wwait, poolVars, call, wchan, sig>>

(* IPC_SET.  msg_qbytes may be raised by the super-user only, and nobody   *)
(* is woken up.                                                            *)
Set(p) == \E s \in Slot, n \in Limits :
    /\ call[p] = NoCall /\ alloc[s] /\ (n <= qbytes[s] \/ SuperUser)
    /\ qbytes' = [qbytes EXCEPT ![s] = n]
    /\ UNCHANGED <<alloc, seq, msgs, cbytes, rwait, wwait, poolVars, call, wchan, sig>>

(* IPC_RMID *)
Rmid(p) == \E s \in Slot :
    LET u == FoldLeft(LAMBDA v, m : Msgfree(v, m, s), Pool(s), msgs[s])
    IN  /\ call[p] = NoCall /\ alloc[s] /\ seq[s] < MaxSeq
        /\ nfree' = u.free /\ msgmap' = u.map
        /\ msgs' = [msgs EXCEPT ![s] = <<>>]
        /\ cbytes' = [cbytes EXCEPT ![s] = 0]
        /\ alloc' = [alloc EXCEPT ![s] = FALSE]
        /\ seq' = [seq EXCEPT ![s] = @ + 1]
        /\ rwait' = [rwait EXCEPT ![s] = FALSE]
        /\ wwait' = [wwait EXCEPT ![s] = FALSE]
        /\ wchan' = Wakeup(u.woken \cup If(rwait[s], Qnum(s)) \cup If(u.wwait, Queue(s)))
        /\ UNCHANGED <<qbytes, call, sig>>

Next == \E p \in Proc :
    \/ Send(p) \/ SendFaults(p) \/ SndFull(p) \/ SndNoHeader(p) \/ SndNoSpace(p)
    \/ Receive(p) \/ RcvNone(p) \/ Fails(p) \/ Signal(p) \/ Interrupted(p)
    \/ Msgget(p) \/ Set(p) \/ Rmid(p)

Spec == Init /\ [][Next]_vars
-----------------------------------------------------------------------------
(* Every variable keeps to its type; a process that is in no call is awake *)
(* (msgsnd, msgrcv).                                                       *)
TypeOK ==
    /\ alloc \in [Slot -> BOOLEAN] /\ seq \in [Slot -> 0 .. MaxSeq]
    /\ msgs \in [Slot -> Seq(Message)]
    /\ cbytes \in [Slot -> Nat] /\ qbytes \in [Slot -> Nat]
    /\ rwait \in [Slot -> BOOLEAN] /\ wwait \in [Slot -> BOOLEAN]
    /\ nfree \in 0 .. MSGTQL
    /\ msgmap.ext \subseteq Extent /\ msgmap.left \in Nat /\ msgmap.want \in BOOLEAN
    /\ \A p \in Proc : /\ wchan[p] \in Chan \cup {Awake}
                       /\ IF call[p] = NoCall THEN wchan[p] = Awake /\ ~sig[p]
                          ELSE call[p] \in Snd \cup Rcv
    /\ sig \in [Proc -> BOOLEAN]

(* Nobody sleeps without a reason, however many others were woken up,      *)
(* interrupted or served first: a reader sleeps while nothing of what it   *)
(* asks for is on the queue, a sender while it lacks room, a header or     *)
(* space; a queue that is removed leaves nobody asleep on it.  True of the *)
(* code only as long as nobody raises msg_qbytes (SuperUser), for which    *)
(* msgctl() wakes no sender.                                               *)
SleepersBlocked ==
    \A p \in Proc : wchan[p] # Awake =>
        LET c == call[p]
        IN  CASE wchan[p] = Msgfp -> nfree = 0
              [] wchan[p] = Map -> ~HasSpace(c)
              [] c \in Snd /\ wchan[p] = Queue(c.id[1]) -> Valid(c.id) /\ ~HasRoom(c)
              [] c \in Rcv /\ wchan[p] = Qnum(c.id[1]) ->
                    Valid(c.id) /\ Findmsg(msgs[c.id[1]], c.type) = 0

(* The texts of messages, and the messages that have one.                  *)
Texts == {t \in Slot \X (1 .. MSGTQL) : t[2] <= Len(msgs[t[1]]) /\ msgs[t[1]][t[2]].ts > 0}
Text(t) == LET m == msgs[t[1]][t[2]]
           IN  (m.spot + 1) .. (m.spot + Segments(m.ts))

(* The variables keep to their types, and nothing of the pools is lost or  *)
(* used twice by msgsnd(), msgfree() and msgctl(): headers are on a queue  *)
(* or free, each segment belongs to one text or is free, a queue knows its *)
(* bytes, and msgmap[] has one slot for every run of free segments.        *)
Accounted ==
    /\ TypeOK
    /\ nfree + MapThenSumSet(LAMBDA s : Len(msgs[s]), Slot) = MSGTQL
    /\ \A s \in Slot : cbytes[s] = FoldLeft(LAMBDA n, m : n + m.ts, 0, msgs[s])
    /\ FreeUnits(msgmap) \cup UNION {Text(t) : t \in Texts} = 1 .. MSGSEG
    /\ \A t \in Texts : Text(t) \cap FreeUnits(msgmap) = {}
    /\ \A t, v \in Texts : t # v => Text(t) \cap Text(v) = {}
    /\ \A e, f \in msgmap.ext : e # f => End(e) < f.addr \/ End(f) < e.addr
    /\ msgmap.left + Cardinality(msgmap.ext) = MSGMAP - 2

(* The calls do what MessageQueues promises of the queues that exist.      *)
Contents(s) == [i \in DOMAIN msgs[s] |-> [type |-> msgs[s][i].type, ts |-> msgs[s][i].ts]]

Q == INSTANCE MessageQueues WITH
        Ids <- Id, Messages <- {[type |-> a.type, ts |-> a.size] : a \in Sends},
        Asked <- {a.type : a \in Asks},
        queues <- [id \in {i \in Id : Valid(i)} |-> Contents(id[1])],
        gone <- {id \in Id : id[2] < seq[id[1]]}

ImplementsQueues == Q!Spec
=============================================================================
