---------------------------- MODULE PacketDriver ----------------------------
(***************************************************************************)
(* The packet protocol of uucp (cmd/uucp/pk0.c, pk1.c, linked into uucico: *)
(* SLEEP is nothing, pkgetpack() waits for input).  Two processes on a     *)
(* line that loses and garbles take turns in writing and reading (gio.c).  *)
(* One step is what a process does up to its next wait for input; a call   *)
(* of pkoutput() sends at most one frame.                                  *)
(*                                                                         *)
(* Packet n of a side has the content n.  Check sums find every error, and *)
(* both sides have the same packet size and window.                        *)
(***************************************************************************)
EXTENDS Integers, FiniteSets, SequencesExt

CONSTANTS
    Side,       (* the two ends                                             *)
    Mod,        (* sequence numbers: MOD8 + 1                               *)
    Window,     (* WINDOWS                                                  *)
    Room,       (* frames the line keeps for a process that does not read   *)
    Script,     (* calls of a side: how many packets it writes and reads    *)
    Getries,    (* GETRIES: alarms until pkgetpack() gives up               *)
    Connodata,  (* CONNODATA: frames without data that it puts up with      *)
    MaxNoise    (* bound: frames that are lost or garbled                   *)

ASSUME PacketAssumption ==
    /\ Cardinality(Side) = 2
    /\ Mod \in Nat /\ Window \in 1 .. Mod \div 2
    /\ {Room, Getries, Connodata} \subseteq Nat \ {0} /\ MaxNoise \in Nat
    /\ Script \in [Side -> Seq([op : {"read", "write"}, n : Nat \ {0}])]

Number == 0 .. Mod - 1
Peer(s) == CHOOSE t \in Side : t # s
Next8(x) == (x + 1) % Mod

VARIABLES
    pk,         (* struct pack of a side                                    *)
    pc,         (* where a side is: see TypeOK                              *)
    todo,       (* calls it has still to make                               *)
    line,       (* frames a side has sent                                   *)
    sent, got,  (* packets written, packets read                            *)
    noise

vars == <<pk, pc, todo, line, sent, got, noise>>

(* struct pack: p_os[] and p_ob[] are os and ob; filled are the buffers    *)
(* that pkaccept() has not looked at (p_imap), copied those with B_COPY    *)
(* from next[p_pr] on, pool the length of p_ipool; tries and nodata are    *)
(* the local variable and Connodata of pkgetpack(), out is to be sent.     *)
Pack == [state |-> {}, msg |-> {"INITA"}, rmsg |-> {"INITA"},
         ps |-> 0, pr |-> 0, rpr |-> 0, nxtps |-> 0, pscopy |-> 0,
         os |-> [x \in Number |-> "null"], ob |-> [x \in Number |-> 0],
         filled |-> <<>>, copied |-> <<>>, pool |-> Window,
         tries |-> 0, nodata |-> 0, out |-> <<>>]

Control(kind, val) == [kind |-> kind, val |-> val, seq |-> 0, data |-> 0]
Data(seq, pr, data) == [kind |-> "DATA", val |-> pr, seq |-> seq, data |-> data]

Init ==
    /\ pk = [s \in Side |-> Pack]
    /\ pc = [s \in Side |-> "new"]
    /\ todo = Script
    /\ line = [s \in Side |-> <<>>]
    /\ sent = [s \in Side |-> 0] /\ got = [s \in Side |-> <<>>]
    /\ noise = 0
-----------------------------------------------------------------------------
Order == <<"CLOSE", "RJ", "RR", "INITC", "INITB", "INITA">>
FirstOf(msg) == Order[CHOOSE i \in DOMAIN Order :
                        Order[i] \in msg /\ \A j \in 1 .. i - 1 : Order[j] \notin msg]

(* Mutant of the following: RJ names the packet that is wanted. *)
SendControlNext(k) ==
    LET m == FirstOf(k.msg)
    IN  [k EXCEPT !.msg = @ \ {m},
                  !.out = Append(@, Control(m, CASE m = "RJ" -> Next8(k.pr)
                                                 [] m = "RR" -> k.pr
                                                 [] OTHER -> 0))]

SendControl(k) ==
    LET m == FirstOf(k.msg)
    IN  [k EXCEPT !.msg = @ \ {m},
                  !.out = Append(@, Control(m, IF m \in {"RJ", "RR"} THEN k.pr ELSE 0))]

SendData(k) ==
    LET x == k.nxtps
    IN  [k EXCEPT !.nxtps = Next8(x), !.os[x] = "sent", !.state = @ \ {"RXMIT"}, !.nodata = 0,
                  !.out = Append(@, Data(x, k.pr, k.ob[x]))]

(* Control messages go first, but RR waits for data to take it along. *)
Pkoutput(pack) ==
    LET k == IF "RXMIT" \in pack.state THEN [pack EXCEPT !.nxtps = Next8(pack.rpr)] ELSE pack
        ready == k.os[k.nxtps] # "null"
    IN  IF k.msg # {} /\ (k.msg # {"RR"} \/ ~ready) THEN SendControl(k)
        ELSE IF "DOWN" \notin k.state /\ ready THEN SendData(k) ELSE k

(* Numbers behind a up to b. *)
Arc(a, b) == {x \in Number : x # a /\ (x - a) % Mod <= (b - a) % Mod}

(* The peer has read up to number rpr: the buffers are free. *)
Pksack(k, rpr) ==
    LET done == {x \in Arc(k.ps, rpr) : k.os[x] = "sent"}
    IN  [k EXCEPT !.rpr = rpr,
                  !.os = [x \in Number |-> IF x \in done THEN "null" ELSE @[x]],
                  !.ps = IF done = {} THEN @
                         ELSE CHOOSE x \in done : \A y \in done : y \in Arc(k.ps, x)]

Xcount(k) == Cardinality({x \in Number : k.os[x] # "null"})

(* pkwrite() waits for room in the window and for a free number. *)
(* Mutant of the following: only for a free number. *)
FullUnbounded(k) == k.os[Next8(k.pscopy)] # "null"
Full(k) == Xcount(k) >= Window \/ k.os[Next8(k.pscopy)] # "null"
-----------------------------------------------------------------------------
(* pkcntl(): what a control message does before pkoutput(). *)
Pkcntl(k, f) ==
    LET live == "LIVE" \in k.state
        both == {"INITa", "INITb"} \subseteq k.state
    IN  CASE f.kind = "INITA" -> [k EXCEPT !.state = @ \cup {"INITa"}, !.msg = @ \cup {"INITB"},
                                           !.rmsg = @ \cup {"INITB"}]
          [] f.kind = "INITB" ->
                IF live THEN [k EXCEPT !.msg = @ \cup {"INITC"}]
                ELSE IF "INITa" \notin k.state THEN [k EXCEPT !.state = @ \cup {"INITb"}]
                ELSE [k EXCEPT !.state = @ \cup {"INITb"}, !.msg = @ \cup {"INITC"},
                               !.rmsg = @ \ {"INITA"}]
          [] f.kind = "INITC" ->
                IF both THEN [k EXCEPT !.state = {"LIVE"}, !.rmsg = @ \ {"INITB"}]
                ELSE [k EXCEPT !.msg = @ \cup {"INITB"}]
          [] f.kind = "RJ" -> Pksack([k EXCEPT !.state = @ \cup {"RXMIT"}, !.msg = @ \cup {"RR"}], f.val)
          [] f.kind = "RR" -> Pksack(k, f.val)

Controlled(k, f) ==
    IF f.kind = "CLOSE" THEN [k EXCEPT !.state = {"DOWN", "RCLOSE"}]
    ELSE LET c == Pkcntl(k, f) IN IF c.msg = {} THEN c ELSE Pkoutput(c)

(* pkgetpack() and pkdata() for a packet: good, with a wrong sum, or cut   *)
(* short by the line, when its buffer is not put back.                     *)
Pkdata(k, f, how) ==
    LET c == Pksack([k EXCEPT !.nodata = 0], f.val)
    IN  IF c.pool = 0 THEN c
        ELSE IF how = "short" THEN [c EXCEPT !.pool = @ - 1]
        ELSE IF "LIVE" \notin c.state THEN Pkoutput([c EXCEPT !.msg = @ \cup c.rmsg])
        ELSE [c EXCEPT !.pool = @ - 1,
                       !.filled = Append(@, [seq |-> f.seq, good |-> how = "good",
                                             data |-> IF how = "good" THEN f.data ELSE 0])]

Alarm(k) ==
    LET msg == k.msg \cup k.rmsg
    IN  Pkoutput([k EXCEPT !.msg = IF msg = {} THEN {"RR"} ELSE msg,
                           !.state = IF "LIVE" \in @ THEN @ \cup {"RXMIT"} ELSE @])
-----------------------------------------------------------------------------
(* pkaccept(): of the buffers that were filled, those that go on without a *)
(* gap behind what was accepted before stay; the others are free again.    *)
InWindow(k, x) == x \in Arc(k.pr, (k.pr + Window) % Mod)
Place(k, i) == (k.pr + Len(k.copied) + i) % Mod

(* Mutant of the following: the check sums are not looked at. *)
GoodUnchecked(k) == Range(k.filled)
Good(k) == {b \in Range(k.filled) : b.good}

Accept(k) ==
    LET good == Good(k)
        new(i) == \E b \in good : b.seq = Place(k, i) /\ InWindow(k, b.seq)
        n == Max({m \in 0 .. Len(k.filled) : \A i \in 1 .. m : new(i)})
        At(i) == (CHOOSE b \in good : b.seq = Place(k, i)).data
    IN  [k EXCEPT !.filled = <<>>,
                  !.copied = @ \o [i \in 1 .. n |-> At(i)],
                  !.pool = @ + Len(k.filled) - n,
                  !.msg = @ \cup {m \in {"RJ"} : good # Range(k.filled)}
                            \cup {m \in {"RR"} : Len(SelectSeq(k.filled, LAMBDA b : b.good)) > n}]

(* pkread() hands over n of the packets that pkaccept() has accepted.      *)
Hand(k, n) ==
    [k EXCEPT !.copied = SubSeq(@, n + 1, Len(@)),
              !.pr = (@ + n) % Mod,
              !.pool = @ + n,
              !.msg = @ \cup {"RR"}]
-----------------------------------------------------------------------------
(* Side s has the state k, and the frames in it go out.  What finds no     *)
(* room is lost.                                                           *)
Becomes(s, k) == pk' = [pk EXCEPT ![s] = [k EXCEPT !.out = <<>>]]
Kept(frames) == SubSeq(frames, 1, Min({Len(frames), Room}))
Transmits(s, k) ==
    /\ Becomes(s, k)
    /\ line' = [line EXCEPT ![s] = Kept(@ \o k.out)]

(* The calls that remain when n packets of the first one are done. *)
Rest(calls, n) ==
    IF calls[1].n > n THEN [calls EXCEPT ![1].n = @ - n] ELSE Tail(calls)

Wants(s, op) == pc[s] = "call" /\ todo[s] # <<>> /\ todo[s][1].op = op

(* pkwrite() calls pkoutput() whenever it finds the window full. *)
GoesOn(k, calls) ==
    IF calls # <<>> /\ calls[1].op = "write" /\ Xcount(k) >= Window THEN Pkoutput(k) ELSE k

Pkopen(s) ==
    /\ pc[s] = "new"
    /\ Transmits(s, Pkoutput(pk[s]))
    /\ pc' = [pc EXCEPT ![s] = "open"]
    /\ UNCHANGED <<todo, sent, got, noise>>

Pkwrite(s) ==
    LET x == Next8(pk[s].pscopy)
        n == sent[s] + 1
        calls == Rest(todo[s], 1)
    IN  /\ Wants(s, "write") /\ ~Full(pk[s]) /\ "DOWN" \notin pk[s].state
        /\ Transmits(s, GoesOn(Pkoutput([pk[s] EXCEPT !.os[x] = "ready", !.ob[x] = n, !.pscopy = x]),
                               calls))
        /\ todo' = [todo EXCEPT ![s] = calls]
        /\ sent' = [sent EXCEPT ![s] = n]
        /\ UNCHANGED <<pc, got, noise>>

Pkread(s) ==
    LET k == Accept(pk[s])
        n == Min({Len(k.copied), todo[s][1].n})
        calls == Rest(todo[s], n)
    IN  /\ Wants(s, "read") /\ (pk[s].filled # <<>> \/ pk[s].copied # <<>>)
        /\ IF n = 0 THEN Becomes(s, k) /\ UNCHANGED <<line, todo, got>>
           ELSE /\ Transmits(s, GoesOn(Pkoutput(Hand(k, n)), calls))
                /\ todo' = [todo EXCEPT ![s] = calls]
                /\ got' = [got EXCEPT ![s] = @ \o SubSeq(k.copied, 1, n)]
        /\ UNCHANGED <<pc, sent, noise>>

(* Side s is in pkgetpack(), and does not give up. *)
Waits(s) ==
    \/ pc[s] = "open"
    \/ Wants(s, "write") /\ Full(pk[s])
    \/ Wants(s, "read") /\ pk[s].filled = <<>> /\ pk[s].copied = <<>>

GivesUp(k) == "DOWN" \in k.state \/ k.tries = Getries \/ k.nodata > Connodata
Gets(s) == Waits(s) /\ ~GivesUp(pk[s])

(* pkreset() *)
Reset(k) == [k EXCEPT !.ps = 0, !.pr = 0, !.rpr = 0, !.nxtps = 1]

(* A frame of the peer is at hand; pkgetpack() takes it and makes k of the *)
(* pack.  pkopen() is over when the state is LIVE, other calls go on.      *)
Incoming(s) == Gets(s) /\ line[Peer(s)] # <<>>
Counted(k) == [k EXCEPT !.tries = 0, !.nodata = @ + 1]

Takes(s, k) ==
    LET live == pc[s] = "open" /\ "LIVE" \in k.state
        on == IF live THEN Reset(k) ELSE GoesOn(k, todo[s])
    IN  /\ Becomes(s, on)
        /\ line' = [line EXCEPT ![Peer(s)] = Tail(@), ![s] = Kept(@ \o on.out)]
        /\ pc' = [pc EXCEPT ![s] = IF live THEN "call" ELSE @]
        /\ UNCHANGED <<todo, sent, got>>

GetsFrame(s) ==
    /\ Incoming(s)
    /\ LET f == Head(line[Peer(s)])
           k == Counted(pk[s])
       IN  Takes(s, IF f.kind = "DATA" THEN Pkdata(k, f, "good") ELSE Controlled(k, f))
    /\ UNCHANGED noise

(* A frame has a bad header, or a packet a wrong sum, or too few bytes. *)
GetsNoise(s) ==
    /\ Incoming(s)
    /\ noise < MaxNoise /\ noise' = noise + 1
    /\ LET f == Head(line[Peer(s)])
           k == Counted(pk[s])
       IN  \/ Takes(s, k)
           \/ f.kind = "DATA" /\ \E how \in {"bad", "short"} : Takes(s, Pkdata(k, f, how))

(* The line loses a frame, or its SYN, and pkgetpack() sees none. *)
Loses(s) ==
    /\ line[s] # <<>>
    /\ noise < MaxNoise /\ noise' = noise + 1
    /\ line' = [line EXCEPT ![s] = Tail(@)]
    /\ UNCHANGED <<pk, pc, todo, sent, got>>

(* SIGALRM in pkcget(): nothing came, what may be lost is sent again.      *)
TimesOut(s) ==
    /\ Gets(s) /\ line[Peer(s)] = <<>>
    /\ Transmits(s, Alarm([pk[s] EXCEPT !.tries = @ + 1]))
    /\ UNCHANGED <<pc, todo, sent, got, noise>>

(* A call fails: pkfail(), or pkwrite() when the peer has closed.  The     *)
(* caller goes on to pkclose(), unless it is pkopen() that fails, which    *)
(* ends after PKMAXSTMSG frames, too: here after any number.               *)
Fails(s) ==
    /\ \/ Waits(s) /\ GivesUp(pk[s])
       \/ Wants(s, "write") /\ "DOWN" \in pk[s].state
       \/ pc[s] = "open"
    /\ pc' = [pc EXCEPT ![s] = IF @ = "open" THEN "over" ELSE "failed"]
    /\ UNCHANGED <<pk, todo, line, sent, got, noise>>

(* pkclose(): output that was not acknowledged and CLOSE, each twice.      *)
Close(k) ==
    LET drained == IF Xcount(k) > 0 /\ "LIVE" \in k.state THEN Pkoutput(Pkoutput(k)) ELSE k
        down == [drained EXCEPT !.state = @ \cup {"DOWN"}]
        closing(j) == Pkoutput([j EXCEPT !.msg = {"CLOSE"}])
    IN  IF "RCLOSE" \in k.state THEN down ELSE closing(closing(down))

Pkclose(s) ==
    /\ pc[s] = "failed" \/ (pc[s] = "call" /\ todo[s] = <<>>)
    /\ Transmits(s, Close(pk[s]))
    /\ pc' = [pc EXCEPT ![s] = "over"]
    /\ UNCHANGED <<todo, sent, got, noise>>

Moves(s) ==
    \/ Pkopen(s) \/ Pkwrite(s) \/ Pkread(s) \/ Pkclose(s)
    \/ GetsFrame(s) \/ GetsNoise(s) \/ TimesOut(s) \/ Fails(s)

Over == (\A s \in Side : pc[s] = "over") /\ UNCHANGED vars

Next == Over \/ \E s \in Side : Moves(s) \/ Loses(s)

Spec == Init /\ [][Next]_vars
-----------------------------------------------------------------------------
TypeOK ==
    /\ pc \in [Side -> {"new", "open", "call", "failed", "over"}]
    /\ noise \in 0 .. MaxNoise
    /\ \A s \in Side :
        /\ {pk[s].ps, pk[s].pr, pk[s].rpr, pk[s].nxtps, pk[s].pscopy} \subseteq Number
        /\ pk[s].pool \in 0 .. Window /\ pk[s].out = <<>>
        /\ Len(pk[s].filled) + Len(pk[s].copied) <= Window - pk[s].pool
        /\ Len(line[s]) <= Room

(* pkread() hands over what the peer wrote, each packet once and in order, *)
(* whatever is lost, garbled, sent again or still under way.               *)
InOrder == TypeOK /\ \A s \in Side : \A i \in DOMAIN got[s] : got[s][i] = i /\ i <= sent[Peer(s)]

(* The buffer of a packet is given up (pksack) only when the peer has read *)
(* it: what pkwrite() took is kept or has arrived.                         *)
NothingForgotten == \A s \in Side : sent[s] - Xcount(pk[s]) <= Len(got[Peer(s)])
=============================================================================
