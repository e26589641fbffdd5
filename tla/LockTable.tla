----------------------------- MODULE LockTable ------------------------------
(***************************************************************************)
(* What record locking (os/flock.c) promises: each byte of a file is       *)
(* locked by one writer, or by some readers, or by nobody.                 *)
(***************************************************************************)
EXTENDS Integers

CONSTANTS Proc, File,
          MAXEND        (* the end of the largest range                     *)

VARIABLE held           (* who has which byte how: <<file, byte, process, type>> *)

Byte == 0 .. MAXEND - 1
Interval == {a .. b : a, b \in Byte} \ {{}}

TableInit == held = {}

Own(p, f, S) == {h \in held : h[1] = f /\ h[2] \in S /\ h[3] = p}

Conflicting(p, f, S, t) ==
    \E h \in held : /\ h[1] = f /\ h[2] \in S /\ h[3] # p
                    /\ "write" \in {h[4], t}

(* Process p locks the bytes S, or changes the type of its locks there. *)
Lock(p, f, S, t) ==
    /\ ~Conflicting(p, f, S, t)
    /\ held' = (held \ Own(p, f, S)) \cup ({f} \X S \X {p} \X {t})

(* It unlocks bytes, or loses its locks there in a request that fails. *)
Unlock(p, f, S) == held' = held \ Own(p, f, S)

TableNext ==
    \E p \in Proc, f \in File, S \in Interval :
        Unlock(p, f, S) \/ \E t \in {"read", "write"} : Lock(p, f, S, t)

TableSpec == TableInit /\ [][TableNext]_held
=============================================================================
