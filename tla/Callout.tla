------------------------------- MODULE Callout -------------------------------
(***************************************************************************)
(* Timeouts (os/clock.c: clock, timeout, timein).  The table is sorted;    *)
(* the time of an entry counts from the one before it, so a tick           *)
(* decrements only the first that is positive.  clock() acknowledges its   *)
(* interrupt at once and keeps out all others but its own (spl6): further  *)
(* ticks come while it scans the table, calls functions and closes the     *)
(* gap, and decrement entries, too.  timeout() keeps all interrupts out.   *)
(***************************************************************************)
EXTENDS Integers

CONSTANTS
    Fun,        (* what is called: functions with their arguments           *)
    V_CALL,     (* the length of callout[]: v.v_call                        *)
    Times,      (* the numbers of ticks that timeout() is called with       *)
    MaxNested,  (* bound: ticks during one clock()                          *)
    NoFun, Never

ASSUME CalloutAssumption ==
    /\ V_CALL \in Nat /\ V_CALL >= 2
    /\ Times \subseteq Nat \ {0} /\ MaxNested \in Nat
    /\ NoFun \notin Fun /\ Never \notin Int

Index == 0 .. V_CALL - 1

VARIABLES
    callout,    (* the table, which ends at the first entry without c_func  *)
    pc,         (* where clock() or timein() is; "idle" outside             *)
    cp,         (* clock()'s pointer                                        *)
    p1, p2,     (* timein()'s pointers                                      *)
    time,       (* a c_time that is being copied                            *)
    nested,     (* ticks during this clock()                                *)
    due         (* for each function: ticks left until it may be called, or *)
                (* Never; not in the code                                   *)

vars == <<callout, pc, cp, p1, p2, time, nested, due>>

Entry(f, t) == [c_func |-> f, c_time |-> t, c_arg |-> f]

Init ==
    /\ callout = [i \in Index |-> Entry(NoFun, 0)]
    /\ pc = "idle"
    /\ cp = 0 /\ p1 = 0 /\ p2 = 0 /\ time = 0 /\ nested = 0
    /\ due = [f \in Fun |-> Never]
-----------------------------------------------------------------------------
(* The number of entries. *)
Length == CHOOSE n \in Index : /\ callout[n].c_func = NoFun
                               /\ \A i \in 0 .. n - 1 : callout[i].c_func # NoFun

(* The entry that a tick decrements: the first that is not due, else the   *)
(* one behind the last, whose c_time nobody uses: here it does not change. *)
Waiting(i) == callout[i].c_func = NoFun \/ callout[i].c_time > 0
FirstWaiting == CHOOSE i \in Index : Waiting(i) /\ \A j \in 0 .. i - 1 : ~Waiting(j)

Decremented(i) == IF callout[i].c_func = NoFun THEN callout
                  ELSE [callout EXCEPT ![i].c_time = @ - 1]

Tick == due' = [f \in Fun |-> IF due[f] \in {Never, 0} THEN due[f] ELSE due[f] - 1]

(* The sums of the first 0 to n of v.                                      *)
Sums(v, n) == LET sum[k \in 0 .. n] == IF k = 0 THEN 0 ELSE sum[k - 1] + v[k - 1]
              IN  sum

(* Where timeout() enters a time of t: behind all that come sooner or at   *)
(* the same time.                                                          *)
Elapsed(i) == Sums([j \in Index |-> callout[j].c_time], i)[i]
Place(t) == CHOOSE i \in 0 .. Length :
                /\ i < Length => Elapsed(i + 1) > t
                /\ \A j \in 0 .. i - 1 : Elapsed(j + 1) <= t

Full == callout[V_CALL - 2].c_func # NoFun

Enter(f, t) ==
    /\ due[f] = Never
    /\ IF Full
       THEN pc' = "panic" /\ UNCHANGED <<callout, due>>
       ELSE /\ callout' = [i \in Index |->
                  CASE i < Place(t) -> callout[i]
                    [] i = Place(t) -> Entry(f, t - Elapsed(i))
                    [] i = Place(t) + 1 /\ i <= Length ->
                          [callout[i - 1] EXCEPT !.c_time = @ - (t - Elapsed(i - 1))]
                    [] i \in Place(t) + 2 .. Length \/ i = Length + 1 -> callout[i - 1]
                    [] OTHER -> callout[i]]
            /\ due' = [due EXCEPT ![f] = t]
            /\ UNCHANGED pc
    /\ UNCHANGED <<cp, p1, p2, time, nested>>
-----------------------------------------------------------------------------
(* timeout() by a process, or by a driver's interrupt. *)
Timeout(f, t) == pc = "idle" /\ Enter(f, t)

(* clock(): the entry is found, and then decremented. *)
Scan ==
    /\ pc = "idle"
    /\ Tick
    /\ IF callout[0].c_func = NoFun
       THEN pc' = "test" /\ UNCHANGED cp
       ELSE pc' = "dec" /\ cp' = FirstWaiting
    /\ UNCHANGED <<callout, p1, p2, time, nested>>

Dec ==
    /\ pc = "dec"
    /\ callout' = Decremented(cp)
    /\ cp' = 0
    /\ pc' = "test"
    /\ UNCHANGED <<p1, p2, time, nested, due>>

(* Mutant of the following: at exactly 0. *)
TestZero ==
    /\ pc = "test"
    /\ pc' = IF callout[0].c_func # NoFun /\ callout[0].c_time = 0 THEN "calls" ELSE "tail"
    /\ p1' = 0
    /\ UNCHANGED <<callout, cp, p2, time, nested, due>>

(* Is there anything to do for timein()? *)
Test ==
    /\ pc = "test"
    /\ pc' = IF callout[0].c_func # NoFun /\ callout[0].c_time <= 0 THEN "calls" ELSE "tail"
    /\ p1' = 0
    /\ UNCHANGED <<callout, cp, p2, time, nested, due>>

(* Another tick comes before clock() is done.                              *)
NestedTick ==
    /\ pc \notin {"idle", "panic"} /\ nested < MaxNested
    /\ nested' = nested + 1
    /\ Tick
    /\ callout' = IF callout[0].c_func = NoFun THEN callout ELSE Decremented(FirstWaiting)
    /\ UNCHANGED <<pc, cp, p1, p2, time>>

Done ==
    /\ pc = "tail"
    /\ pc' = "idle"
    /\ p1' = 0 /\ p2' = 0 /\ time' = 0 /\ nested' = 0
    /\ UNCHANGED <<callout, cp, due>>
-----------------------------------------------------------------------------
(* timein(): the functions that are due are called, one after the other.   *)
IsDue == callout[p1].c_func # NoFun /\ callout[p1].c_time <= 0

Call ==
    /\ pc = "calls" /\ IsDue
    /\ due' = [due EXCEPT ![callout[p1].c_func] = Never]
    /\ pc' = "function"
    /\ UNCHANGED <<callout, cp, p1, p2, time, nested>>

(* The function may call timeout(), for itself or for others. *)
FunctionTimeout(f, t) == pc = "function" /\ Enter(f, t)

FunctionReturns ==
    /\ pc = "function"
    /\ p1' = p1 + 1
    /\ pc' = "calls"
    /\ UNCHANGED <<callout, cp, p2, time, nested, due>>

Called ==
    /\ pc = "calls" /\ ~IsDue
    /\ p2' = 0
    /\ pc' = "func"
    /\ UNCHANGED <<callout, cp, p1, time, nested, due>>

(* The rest moves to the front, field by field. *)
CopyFunc ==
    /\ pc = "func"
    /\ callout' = [callout EXCEPT ![p2].c_func = callout[p1].c_func]
    /\ pc' = IF callout[p1].c_func = NoFun THEN "tail" ELSE "load"
    /\ UNCHANGED <<cp, p1, p2, time, nested, due>>

LoadTime ==
    /\ pc = "load"
    /\ time' = callout[p1].c_time
    /\ pc' = "store"
    /\ UNCHANGED <<callout, cp, p1, p2, nested, due>>

(* Mutant of the following: the time stays. *)
StoreTimeNot ==
    /\ pc = "store"
    /\ pc' = "arg"
    /\ UNCHANGED <<callout, cp, p1, p2, time, nested, due>>

StoreTime ==
    /\ pc = "store"
    /\ callout' = [callout EXCEPT ![p2].c_time = time]
    /\ pc' = "arg"
    /\ UNCHANGED <<cp, p1, p2, time, nested, due>>

(* Mutant of the following: the argument stays. *)
CopyArgNot ==
    /\ pc = "arg"
    /\ p1' = p1 + 1 /\ p2' = p2 + 1
    /\ pc' = "func"
    /\ UNCHANGED <<callout, cp, time, nested, due>>

CopyArg ==
    /\ pc = "arg"
    /\ callout' = [callout EXCEPT ![p2].c_arg = callout[p1].c_arg]
    /\ p1' = p1 + 1 /\ p2' = p2 + 1
    /\ pc' = "func"
    /\ UNCHANGED <<cp, time, nested, due>>

Clock == Scan \/ Dec \/ Test \/ Done \/ Call \/ FunctionReturns \/ Called
         \/ CopyFunc \/ LoadTime \/ StoreTime \/ CopyArg

Next == \/ Clock \/ NestedTick
        \/ \E f \in Fun, t \in Times : Timeout(f, t) \/ FunctionTimeout(f, t)

Spec == Init /\ [][Next]_vars

(* The clock goes on ticking, and functions return. *)
FairSpec == Spec /\ WF_vars(Clock)
-----------------------------------------------------------------------------
(* Every variable keeps to its type: no pointer of clock() or timein()     *)
(* leaves the table.                                                       *)
TypeOK ==
    /\ callout \in [Index -> [c_func : Fun \cup {NoFun}, c_time : Int, c_arg : Fun \cup {NoFun}]]
    /\ pc \in {"idle", "dec", "test", "tail", "calls", "function",
               "func", "load", "store", "arg", "panic"}
    /\ {cp, p1, p2} \subseteq Index
    /\ nested \in 0 .. MaxNested
    /\ due \in [Fun -> Nat \cup {Never}]

(* The variables keep to their types, and closing the gap (timein) loses   *)
(* and doubles nothing, whatever ticks come in between: the table has what *)
(* is to be called, each once and with its own argument.                   *)
TableExact ==
    /\ TypeOK
    /\ pc \in {"idle", "dec", "test", "tail", "calls", "function"} =>
           LET first == CASE pc = "calls" -> p1 [] pc = "function" -> p1 + 1 [] OTHER -> 0
               live == first .. Length - 1
           IN  /\ {callout[i].c_func : i \in live} = {f \in Fun : due[f] # Never}
               /\ \A i \in live : callout[i].c_arg = callout[i].c_func
               /\ \A i, j \in live : callout[i].c_func = callout[j].c_func => i = j

(* "fun(arg) is called in tim/HZ seconds" (timeout), or later: no tick is  *)
(* counted twice though clock() interrupts clock() and timein().           *)
NeverEarly == pc = "calls" /\ IsDue => due[callout[p1].c_func] = 0

(* Every function is called, however many ticks get lost in timein().      *)
AllCalled == \A f \in Fun : due[f] # Never ~> due[f] = Never \/ pc = "panic"

(* "The panic is there because there is nothing intelligent to be done if  *)
(* an entry won't fit" (timeout).                                          *)
PanicOnlyIfFull == pc = "panic" => Length = V_CALL - 1
-----------------------------------------------------------------------------
(* The inductive invariant of the table: that of the list which it stands  *)
(* for while timein() is closing the gap.                                  *)

Copying == pc \in {"func", "load", "store", "arg"}
Gap == IF Copying THEN p1 - p2 ELSE 0

(* Where a field of the k-th entry is when those of the first m entries    *)
(* have been moved.                                                        *)
From(k, m) == IF k < m THEN k ELSE k + Gap

FuncAt(k) == callout[From(k, IF pc = "func" THEN p2 ELSE p2 + 1)].c_func
TimeAt(k) == IF pc = "store" /\ k = p2 THEN time
             ELSE callout[From(k, IF pc = "arg" THEN p2 + 1 ELSE p2)].c_time
ArgAt(k) == callout[From(k, p2)].c_arg

(* The entries in front of this one have been called. *)
First == CASE pc = "calls" -> p1 [] pc = "function" -> p1 + 1 [] OTHER -> 0

(* The list has n entries. *)
Ends(n) == FuncAt(n) = NoFun /\ \A k \in 0 .. n - 1 : FuncAt(k) # NoFun

(* What was called was due, and the pointers of timein() are in the list.  *)
Bounded(n) ==
    /\ First <= n /\ \A k \in 0 .. First - 1 : callout[k].c_time <= 0
    /\ Copying => p2 < p1 /\ p2 <= n /\ (pc # "func" => p2 < n)

(* The list has what is to be called, once, with its argument.             *)
Exact(n) ==
    /\ {FuncAt(k) : k \in First .. n - 1} = {f \in Fun : due[f] # Never}
    /\ \A k \in First .. n - 1 : ArgAt(k) = FuncAt(k)
    /\ \A j, k \in First .. n - 1 : FuncAt(j) = FuncAt(k) => j = k

(* No function has more ticks left than the times up to its own make up;   *)
(* between Scan and Dec one tick is not in the table yet.                  *)
List(n) == [k \in 0 .. n - 1 |-> TimeAt(k)]
Pending(k) == IF pc = "dec" /\ cp <= k THEN 1 ELSE 0
InTime(n) ==
    \A k \in First .. n - 1 :
        due[FuncAt(k)] # 0 => due[FuncAt(k)] <= Sums(List(n), n)[k + 1] - Pending(k)

IndInv ==
    /\ TypeOK /\ time \in Int
    /\ callout[V_CALL - 1].c_func = NoFun
    /\ pc = "calls" /\ p1 = 0 => callout[0].c_func # NoFun /\ callout[0].c_time <= 0
    /\ pc # "panic" => \E n \in 0 .. V_CALL - 1 - Gap :
                          Ends(n) /\ Bounded(n) /\ Exact(n) /\ InTime(n)
=============================================================================
