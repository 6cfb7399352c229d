-------------------------- MODULE MCParallelExecution --------------------------
(***************************************************************************)
(* A small instance of ParallelExecution: a thread that executes a few     *)
(* shapes of loop, and a second one whose requests cross its own.          *)
(***************************************************************************)
EXTENDS ParallelExecution, TLC

Composition(rows, levels) ==
  [kind |-> "compositor", rows |-> rows, interleave |-> 1, levels |-> levels, large |-> TRUE]

Level(rows, interleave, large) ==
  [kind |-> "level", rows |-> rows, interleave |-> interleave, levels |-> 2, large |-> large]

(* Rows below, at and above the thread counts; even and odd numbers of     *)
(* levels, so that a row starts with its halves as they were or swapped;   *)
(* a short last block.                                                     *)
MCShapes ==
  { Composition(1, 3), Composition(2, 2), Composition(3, 3), Composition(5, 2),
    Composition(3, 4), Level(0, 1, TRUE), Level(1, 2, TRUE), Level(5, 1, TRUE),
    Level(7, 2, TRUE), Level(8, 4, TRUE), Level(9, 4, TRUE), Level(3, 1, FALSE) }

(* The second thread asks for one to three workers, depending on its       *)
(* thread count, so that requests and updates of unequal size cross in     *)
(* both orders.                                                            *)
MCJobsOf == << MCShapes, { Level(3, 1, TRUE) } >>

=============================================================================
