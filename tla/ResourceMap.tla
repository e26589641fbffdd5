----------------------------- MODULE ResourceMap -----------------------------
(***************************************************************************)
(* Resource maps (os/malloc.c, sys/map.h): free units, kept as a sorted    *)
(* array of extents.  A map is a record of the extents, the number of      *)
(* array slots left, and whether somebody sleeps for units.  The units of  *)
(* every extent are positive, as malloc() answers 0 when it fails.         *)
(***************************************************************************)
EXTENDS Integers, FiniteSets

Extent == [addr : Nat \ {0}, size : Nat \ {0}]

End(e) == e.addr + e.size
Units(e) == e.addr .. (End(e) - 1)
FreeUnits(m) == UNION {Units(e) : e \in m.ext}

(* mapinit() of an array of n, which has a header and a terminator, too.   *)
Mapinit(n) == [ext |-> {}, left |-> n - 2, want |-> FALSE]

(* malloc(): the first extent that is large enough gives its first units.  *)
Fits(m, size) == {e \in m.ext : e.size >= size}
First(E) == CHOOSE e \in E : \A f \in E : e.addr <= f.addr
Spot(m, size) == First(Fits(m, size)).addr

Malloc(m, size) ==
    LET e == First(Fits(m, size))
    IN  IF e.size = size
        THEN [m EXCEPT !.ext = @ \ {e}, !.left = @ + 1]
        ELSE [m EXCEPT !.ext = (@ \ {e}) \cup {[addr |-> e.addr + size, size |-> e.size - size]}]

(* mfree(): the units join the extent before them, the one behind them or  *)
(* both, else they need a slot; without one they are lost, and nobody is   *)
(* told.                                                                   *)
Before(m, a) == {e \in m.ext : End(e) = a}
Behind(m, a, size) == {e \in m.ext : e.addr = a + size}
Lost(m, size, a) == Before(m, a) = {} /\ Behind(m, a, size) = {} /\ m.left = 0

(* Mutant of the following: the slot that is left over is not counted. *)
JoinedForgets(m, size, a) ==
    LET b == Before(m, a)
        f == Behind(m, a, size)
        start == IF b = {} THEN a ELSE (CHOOSE e \in b : TRUE).addr
        end == IF f = {} THEN a + size ELSE End(CHOOSE e \in f : TRUE)
    IN  [ext  |-> (m.ext \ (b \cup f)) \cup {[addr |-> start, size |-> end - start]},
         left |-> IF b = {} /\ f = {} THEN m.left - 1 ELSE m.left,
         want |-> FALSE]

Joined(m, size, a) ==
    LET b == Before(m, a)
        f == Behind(m, a, size)
        start == IF b = {} THEN a ELSE (CHOOSE e \in b : TRUE).addr
        end == IF f = {} THEN a + size ELSE End(CHOOSE e \in f : TRUE)
    IN  [ext  |-> (m.ext \ (b \cup f)) \cup {[addr |-> start, size |-> end - start]},
         left |-> IF b # {} /\ f # {} THEN m.left + 1
                  ELSE IF b = {} /\ f = {} THEN m.left - 1 ELSE m.left,
         want |-> FALSE]

Mfree(m, size, a) == IF Lost(m, size, a) THEN m ELSE Joined(m, size, a)
Wakes(m, size, a) == m.want /\ ~Lost(m, size, a)
=============================================================================
