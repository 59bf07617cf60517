---------------------------- MODULE TerminalLog -----------------------------
(***************************************************************************)
(* What the `terminal` interface promises a policy (mitb-wit/wit/world.wit *)
(* and its implementation in mitb-host/src/lib.rs), without a buffer:      *)
(* there is one endless log of what the child printed, only its newest     *)
(* MaxBytes can be asked for, and a cursor is a place in the log.          *)
(***************************************************************************)
EXTENDS Integers, Sequences

CONSTANTS MaxBytes, Cursors, Limits

VARIABLES log,    \* everything printed so far
          cursor, \* the place the policy was given last
          reply   \* the bytes it was given last, and the place they end at

lvars == <<log, cursor, reply>>

Smaller(a, b) == IF a < b THEN a ELSE b

\* The oldest place that can be asked for, and the nearest one to `at`.
OldestPlace == IF Len(log) > MaxBytes THEN Len(log) - MaxBytes ELSE 0
Nearest(at) == IF at < OldestPlace THEN OldestPlace ELSE Smaller(at, Len(log))

Piece(from, to) == [next |-> to, bytes |-> SubSeq(log, from + 1, to)]

LogInit ==
    /\ log = << >>
    /\ cursor = 0
    /\ reply = Piece(0, 0)

\* The child prints something.
Grow ==
    /\ Len(log') > Len(log)
    /\ \A i \in 1..Len(log) : log'[i] = log[i]
    /\ UNCHANGED <<cursor, reply>>

Head_ == cursor' = Len(log) /\ UNCHANGED <<log, reply>>

\* The newest bytes, as many as were asked for and are there.
Snapshot(n) ==
    /\ reply' = Piece(Len(log) - Smaller(n, Len(log) - OldestPlace), Len(log))
    /\ UNCHANGED <<log, cursor>>

\* The bytes after a place, as many as were asked for and are there.
ReadSince(at, n) ==
    /\ cursor' = Smaller(Nearest(at) + n, Len(log))
    /\ reply' = Piece(Nearest(at), cursor')
    /\ UNCHANGED log

LogNext ==
    \/ Grow
    \/ Head_
    \/ \E n \in Limits : Snapshot(n)
    \/ \E at \in Cursors \cup {cursor}, n \in Limits : ReadSince(at, n)

LogSpec == LogInit /\ [][LogNext]_lvars
=============================================================================
