------------------------------ MODULE MCPlanner ------------------------------
(***************************************************************************)
(* Small planning calls for TLC.  A timed call branches on every benchmark *)
(* and on the clock, so its lengths are few; an untimed call prunes to the *)
(* first candidate and is deterministic, so its lengths are many.          *)
(***************************************************************************)
EXTENDS PlannedTransforms

CONSTANTS TimedLengths, TimedFixedLengths, BatchedLengths, UntimedLengths

MCBase == << 2, 3, 4 >>
MCRadices == << 2, 3, 4, 5 >>
MCRowLayout == Layout(TRUE, 2, FALSE)
MCAcLayout == Layout(TRUE, 1, FALSE)

Direction(kind) == IF kind = "c2r" THEN "BACKWARD" ELSE "FORWARD"

(* A contiguous call, and a batched one in the layout cooley_tukey_ac asks *)
(* for.                                                                    *)
Call(kind, n, howmany, timed, fixedPoint) ==
  [prob |-> Problem(kind, n, 1, 1, howmany, n, n, Direction(kind)),
   wantSme |-> FALSE, timed |-> timed, fixedPoint |-> fixedPoint]

InterleavedCall(kind, n, howmany, timed) ==
  [prob |-> IF kind = "c2r"
            THEN Problem(kind, n, howmany, howmany, howmany, 1, 1, Direction(kind))
            ELSE Problem(kind, n, howmany, n, howmany, 1, 1, Direction(kind)),
   wantSme |-> TRUE, timed |-> timed, fixedPoint |-> FALSE]

MCRequests ==
  { Call("c2c", n, 1, TRUE, FALSE) : n \in TimedLengths }
    \cup { Call("c2c", n, 1, TRUE, TRUE) : n \in TimedFixedLengths }
    \cup { Call("c2c", n, 2, TRUE, FALSE) : n \in BatchedLengths }
    \cup { InterleavedCall(kind, n, 2, TRUE) :
             kind \in {"c2r", "r2c"}, n \in BatchedLengths }
    \cup { Call(kind, n, howmany, FALSE, fixedPoint) :
             kind \in {"c2c", "r2c", "c2r"}, n \in UntimedLengths,
             howmany \in {1, 2}, fixedPoint \in BOOLEAN }
    \cup { InterleavedCall(kind, n, 3, FALSE) :
             kind \in {"c2r", "r2c"}, n \in UntimedLengths }

=============================================================================
