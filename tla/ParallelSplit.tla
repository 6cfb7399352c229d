----------------------------- MODULE ParallelSplit -----------------------------
(***************************************************************************)
(* How PLFFT divides the work of a parallel loop (plfft_parallel.hpp):     *)
(* make_parallel_split chooses the number of iterations, work_distribution *)
(* gives each iteration its range of rows.  Rows come in blocks of         *)
(* interleave, the indivisible unit of an interleaved twiddle table, and   *)
(* only the last block may be short.                                       *)
(***************************************************************************)
EXTENDS Integers

(* n rounded up to a multiple of r, divided by r.                          *)
IroundDiv(n, r) == (IF n % r # 0 THEN n - (n % r) + r ELSE n) \div r

(* A single iteration takes everything; its rows field is left zero.       *)
MakeParallelSplit(dimension, interleave, maxThreads) ==
  LET blocks  == IroundDiv(dimension, interleave)
      threads == IF maxThreads < blocks THEN maxThreads ELSE blocks
  IN  IF maxThreads = 1 \/ dimension = 0
      THEN [threads |-> 1, workPerThread |-> dimension, totalWork |-> dimension,
            modifier |-> 0, modifiedThreads |-> 1, rows |-> 0]
      ELSE [threads |-> threads, workPerThread |-> blocks \div threads,
            totalWork |-> dimension, modifier |-> 1,
            modifiedThreads |-> blocks - threads * (blocks \div threads),
            rows |-> interleave]

(* Seeded fault: iterations past the modified ones are not shifted.        *)
WorkStart_NoShift(t, split) ==
  (split.workPerThread * t
     + (IF t < split.modifiedThreads THEN t * split.modifier ELSE 0)) * split.rows

(* Seeded fault: every iteration is shifted as if all were modified.       *)
WorkStart_AllShifted(t, split) ==
  (split.workPerThread * t + t * split.modifier) * split.rows

(* work_distribution(t, split): where iteration t starts, and how many     *)
(* rows it takes.  The last iteration takes what is left.                  *)
WorkStart(t, split) ==
  (split.workPerThread * t
     + (IF t < split.modifiedThreads THEN t * split.modifier ELSE split.modifiedThreads))
  * split.rows

WorkCount(t, split) ==
  IF t = split.threads - 1
  THEN split.totalWork - WorkStart(t, split)
  ELSE (split.workPerThread + (IF t < split.modifiedThreads THEN split.modifier ELSE 0))
         * split.rows

WorkRows(t, split) ==
  {i \in 0..(split.totalWork - 1) :
     WorkStart(t, split) <= i /\ i < WorkStart(t, split) + WorkCount(t, split)}

=============================================================================
