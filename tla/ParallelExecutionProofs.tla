------------------------ MODULE ParallelExecutionProofs ------------------------
(***************************************************************************)
(* Proofs about ParallelExecution for every set of application threads,    *)
(* every thread count and every set of jobs: an execution asks OpenMP for  *)
(* a number of threads in range however the requests of other threads race *)
(* with it, only updates that cross shrink the thread pool, the iterations *)
(* of a loop keep to their own slots of the compositor buffer, and every   *)
(* row is stored once.                                                     *)
(***************************************************************************)
EXTENDS ParallelExecution, InductionLemmas

-----------------------------------------------------------------------------
(* The split: whatever the dimension, the interleave factor and the number *)
(* of threads, the ranges of the iterations tile the rows.                 *)

(* iround_div(n, r) is the least number of blocks of r rows that hold n    *)
(* rows.                                                                   *)
LEMMA IroundDivCovers ==
  ASSUME NEW n \in Nat \ {0}, NEW r \in Nat \ {0}
  PROVE  /\ IroundDiv(n, r) \in Nat \ {0}
         /\ (IroundDiv(n, r) - 1) * r < n
         /\ n <= IroundDiv(n, r) * r
<1> DEFINE q == n \div r
           m == n % r
<1>1. q \in Nat /\ m \in 0..(r - 1) /\ n = r * q + m
  BY DivisionFacts
<1>2. CASE m = 0
  <2>1. IroundDiv(n, r) = q
    BY <1>2 DEF IroundDiv
  <2>2. q # 0
    BY <1>1, <1>2
  <2> QED
    BY <1>1, <1>2, <2>1, <2>2
<1>3. CASE m # 0
  <2>1. n - m + r = r * (q + 1)
    BY <1>1
  <2>2. IroundDiv(n, r) = q + 1
    BY <1>1, <1>3, <2>1, ExactDivision DEF IroundDiv
  <2> QED
    BY <1>1, <1>3, <2>2
<1> QED
  BY <1>2, <1>3

(* make_parallel_split chooses between one and max_threads iterations.     *)
THEOREM SplitThreads ==
  ASSUME NEW dimension \in Nat, NEW interleave \in Nat \ {0},
         NEW team \in Nat \ {0}
  PROVE  MakeParallelSplit(dimension, interleave, team).threads \in 1..team
<1>1. CASE team = 1 \/ dimension = 0
  BY <1>1 DEF MakeParallelSplit
<1>2. CASE ~(team = 1 \/ dimension = 0)
  <2>1. IroundDiv(dimension, interleave) \in Nat \ {0}
    BY <1>2, IroundDivCovers
  <2> QED
    BY <1>2, <2>1 DEF MakeParallelSplit
<1> QED
  BY <1>1, <1>2

(* The parts of a split over several iterations: w blocks for each, and    *)
(* one more for the first m, make up all the blocks.                       *)
LEMMA SplitParts ==
  ASSUME NEW dimension \in Nat \ {0}, NEW interleave \in Nat \ {0},
         NEW team \in Nat \ {0, 1}
  PROVE  LET split  == MakeParallelSplit(dimension, interleave, team)
             blocks == IroundDiv(dimension, interleave)
         IN  /\ split.threads \in Nat \ {0}
             /\ split.workPerThread \in Nat \ {0}
             /\ split.modifiedThreads \in 0..(split.threads - 1)
             /\ blocks = split.threads * split.workPerThread + split.modifiedThreads
             /\ split.modifier = 1 /\ split.rows = interleave
             /\ split.totalWork = dimension
<1> DEFINE blocks  == IroundDiv(dimension, interleave)
           threads == IF team < blocks THEN team ELSE blocks
           w == blocks \div threads
           m == blocks - threads * w
<1>1. blocks \in Nat \ {0} /\ threads \in Nat \ {0} /\ threads <= blocks
  BY IroundDivCovers
<1>2. MakeParallelSplit(dimension, interleave, team) =
        [threads |-> threads, workPerThread |-> w, totalWork |-> dimension,
         modifier |-> 1, modifiedThreads |-> m, rows |-> interleave]
  BY DEF MakeParallelSplit
<1>3. w \in Nat /\ blocks % threads \in 0..(threads - 1)
        /\ blocks = threads * w + (blocks % threads)
  BY <1>1, DivisionFacts
<1>4. m \in 0..(threads - 1) /\ blocks = threads * w + m
  <2> HIDE DEF blocks, threads, w
  <2> QED
    BY <1>1, <1>3
<1>5. w # 0
  <2> HIDE DEF blocks, threads, w, m
  <2> QED
    BY <1>1, <1>4
<1> HIDE DEF blocks, threads, w, m
<1> QED
  BY <1>1, <1>2, <1>3, <1>4, <1>5 DEF blocks

(* The ranges tile the rows: the first starts at row 0, each one ends      *)
(* where the next starts, the last ends with the last row.  With several   *)
(* iterations none is empty, and each starts at a block.                   *)
THEOREM RangesTile ==
  ASSUME NEW dimension \in Nat, NEW interleave \in Nat \ {0},
         NEW team \in Nat \ {0}
  PROVE  LET split == MakeParallelSplit(dimension, interleave, team)
         IN  /\ WorkStart(0, split) = 0
             /\ \A t \in 0..(split.threads - 2) :
                  WorkStart(t + 1, split) = WorkStart(t, split) + WorkCount(t, split)
             /\ WorkStart(split.threads - 1, split)
                  + WorkCount(split.threads - 1, split) = dimension
             /\ \A t \in 0..(split.threads - 1) :
                  /\ WorkStart(t, split) \in Nat /\ WorkCount(t, split) \in Nat
                  /\ WorkStart(t, split) % interleave = 0
                  /\ split.threads > 1 => WorkCount(t, split) > 0
<1> DEFINE split == MakeParallelSplit(dimension, interleave, team)
<1>1. CASE team = 1 \/ dimension = 0
  <2>1. split = [threads |-> 1, workPerThread |-> dimension, totalWork |-> dimension,
                 modifier |-> 0, modifiedThreads |-> 1, rows |-> 0]
    BY <1>1 DEF MakeParallelSplit
  <2>2. WorkStart(0, split) = 0 /\ WorkCount(0, split) = dimension
    BY <2>1 DEF WorkStart, WorkCount
  <2>3. split.threads = 1
    BY <2>1
  <2>4. 0 % interleave = 0
    BY DivisionFacts
  <2> QED
    BY <2>2, <2>3, <2>4
<1>2. CASE ~(team = 1 \/ dimension = 0)
  <2> DEFINE p == split.threads
             w == split.workPerThread
             m == split.modifiedThreads
             blocks == IroundDiv(dimension, interleave)
             Before(t) == w * t + (IF t < m THEN t ELSE m)
  <2>1. /\ p \in Nat \ {0} /\ w \in Nat \ {0} /\ m \in 0..(p - 1)
        /\ blocks = p * w + m
        /\ split.modifier = 1 /\ split.rows = interleave
        /\ split.totalWork = dimension
    BY <1>2, SplitParts
  <2>2. blocks \in Nat \ {0} /\ (blocks - 1) * interleave < dimension
    BY <1>2, IroundDivCovers
  <2>3. \A t \in 0..(p - 1) : WorkStart(t, split) = Before(t) * interleave
    <3> HIDE DEF split
    <3> QED
      BY <2>1 DEF WorkStart
  <2>4. \A t \in 0..(p - 2) :
          WorkCount(t, split) = (w + (IF t < m THEN 1 ELSE 0)) * interleave
    <3> HIDE DEF split
    <3> QED
      BY <2>1 DEF WorkCount
  <2>5. WorkCount(p - 1, split) = dimension - Before(p - 1) * interleave
    <3>1. p - 1 \in 0..(p - 1)
      BY <2>1
    <3>2. WorkStart(p - 1, split) = Before(p - 1) * interleave
      BY <2>3, <3>1
    <3> HIDE DEF split, Before
    <3> QED
      BY <2>1, <3>2 DEF WorkCount
  <2> HIDE DEF split, p, w, m, blocks
  <2>6. \A t \in 0..(p - 1) : Before(t) \in Nat
    BY <2>1
  <2>7. \A t \in 0..(p - 2) : Before(t + 1) = Before(t) + (w + (IF t < m THEN 1 ELSE 0))
    BY <2>1
  <2>8. Before(p - 1) = blocks - w /\ Before(p - 1) <= blocks - 1
    <3>1. w * (p - 1) = p * w - w
      BY <2>1
    <3> QED
      BY <2>1, <3>1
  <2>9. Before(0) = 0
    BY <2>1
  <2> HIDE DEF Before
  <2>10. WorkStart(0, split) = 0
    BY <2>1, <2>3, <2>9
  <2>11. \A t \in 0..(p - 2) :
           WorkStart(t + 1, split) = WorkStart(t, split) + WorkCount(t, split)
    <3>1. SUFFICES ASSUME NEW t \in 0..(p - 2)
                   PROVE  WorkStart(t + 1, split) = WorkStart(t, split) + WorkCount(t, split)
      OBVIOUS
    <3> DEFINE c == w + (IF t < m THEN 1 ELSE 0)
    <3>2. t \in 0..(p - 1) /\ t + 1 \in 0..(p - 1) /\ c \in Nat
      BY <2>1
    <3>3. Before(t + 1) = Before(t) + c /\ Before(t) \in Nat
      BY <2>6, <2>7, <3>2
    <3>4. WorkCount(t, split) = c * interleave
      BY <2>4
    <3> HIDE DEF c
    <3>5. (Before(t) + c) * interleave = Before(t) * interleave + c * interleave
      BY <3>2, <3>3
    <3> QED
      BY <2>3, <3>2, <3>3, <3>4, <3>5
  <2>12. Before(p - 1) * interleave < dimension
    <3>1. Before(p - 1) \in Nat
      BY <2>1, <2>6
    <3>2. Before(p - 1) * interleave <= (blocks - 1) * interleave
      BY <2>2, <2>8, <3>1
    <3> QED
      BY <2>2, <3>1, <3>2
  <2>13. \A t \in 0..(p - 1) :
           /\ WorkStart(t, split) \in Nat /\ WorkStart(t, split) % interleave = 0
           /\ WorkCount(t, split) \in Nat \ {0}
    <3>1. SUFFICES ASSUME NEW t \in 0..(p - 1)
                   PROVE  /\ WorkStart(t, split) \in Nat
                          /\ WorkStart(t, split) % interleave = 0
                          /\ WorkCount(t, split) \in Nat \ {0}
      OBVIOUS
    <3>2. Before(t) \in Nat /\ WorkStart(t, split) = Before(t) * interleave
      BY <2>3, <2>6
    <3>3. (interleave * Before(t)) % interleave = 0
      BY <3>2, ExactDivision
    <3>4. WorkStart(t, split) \in Nat /\ WorkStart(t, split) % interleave = 0
      BY <3>2, <3>3
    <3>5. CASE t = p - 1
      BY <2>1, <2>5, <2>6, <2>12, <3>4, <3>5
    <3>6. CASE t # p - 1
      <4>1. t \in 0..(p - 2)
        BY <2>1, <3>6
      <4> DEFINE c == w + (IF t < m THEN 1 ELSE 0)
      <4>2. WorkCount(t, split) = c * interleave
        BY <2>4, <4>1
      <4>3. c \in Nat \ {0}
        BY <2>1
      <4> HIDE DEF c
      <4> QED
        BY <3>4, <4>2, <4>3
    <3> QED
      BY <3>5, <3>6
  <2>14. WorkStart(p - 1, split) + WorkCount(p - 1, split) = dimension
    BY <2>1, <2>3, <2>5, <2>6
  <2> QED
    BY <2>10, <2>11, <2>13, <2>14 DEF split, p
<1> QED
  BY <1>1, <1>2

-----------------------------------------------------------------------------
(* What a tiling means for a row: the ranges of two iterations have no row *)
(* in common, and every row has an iteration.                              *)

(* The end of the range of iteration t.                                    *)
WorkEnd(t, split) == WorkStart(t, split) + WorkCount(t, split)

LEMMA RangesOrdered ==
  ASSUME NEW dimension \in Nat, NEW interleave \in Nat \ {0},
         NEW team \in Nat \ {0}
  PROVE  LET split == MakeParallelSplit(dimension, interleave, team)
         IN  \A i, j \in 0..(split.threads - 1) :
               i < j => WorkEnd(i, split) <= WorkStart(j, split)
<1> DEFINE split == MakeParallelSplit(dimension, interleave, team)
           p == split.threads
<1>1. /\ p \in Nat \ {0}
      /\ \A t \in 0..(p - 2) : WorkStart(t + 1, split) = WorkEnd(t, split)
      /\ \A t \in 0..(p - 1) : WorkStart(t, split) \in Nat /\ WorkCount(t, split) \in Nat
  BY RangesTile, SplitThreads DEF WorkEnd
<1> HIDE DEF split, p
<1> SUFFICES ASSUME NEW i \in 0..(p - 1)
             PROVE  \A j \in 0..(p - 1) : i < j => WorkEnd(i, split) <= WorkStart(j, split)
  BY DEF split, p
<1> DEFINE Bad == {j \in 0..(p - 1) : i < j /\ ~(WorkEnd(i, split) <= WorkStart(j, split))}
<1>2. SUFFICES ASSUME Bad # {} PROVE FALSE
  OBVIOUS
<1>3. PICK j \in Bad : \A k \in Bad : j <= k
  <2>1. Bad \in SUBSET Nat
    BY <1>1
  <2> HIDE DEF Bad
  <2> QED
    BY <1>2, <2>1, LeastNumber
<1>4. /\ j - 1 \in 0..(p - 2) /\ j - 1 \in 0..(p - 1) /\ i <= j - 1 /\ (j - 1) + 1 = j
      /\ j - 1 \notin Bad
  BY <1>1, <1>3
<1>5. WorkStart(j, split) = WorkEnd(j - 1, split)
  BY <1>1, <1>4
<1>6. WorkEnd(j - 1, split) >= WorkStart(j - 1, split) /\ WorkStart(j - 1, split) \in Nat
      /\ WorkEnd(j - 1, split) \in Nat /\ WorkEnd(i, split) \in Nat
  BY <1>1, <1>4 DEF WorkEnd
<1>7. CASE i = j - 1
  BY <1>3, <1>5, <1>6, <1>7
<1>8. CASE i # j - 1
  <2>1. WorkEnd(i, split) <= WorkStart(j - 1, split)
    BY <1>4, <1>8
  <2> QED
    BY <1>3, <1>5, <1>6, <2>1
<1> QED
  BY <1>7, <1>8

(* No row belongs to two iterations.                                       *)
THEOREM RangesApart ==
  ASSUME NEW dimension \in Nat, NEW interleave \in Nat \ {0},
         NEW team \in Nat \ {0}, NEW row \in Int
  PROVE  LET split == MakeParallelSplit(dimension, interleave, team)
         IN  \A i, j \in 0..(split.threads - 1) :
               /\ WorkStart(i, split) <= row /\ row < WorkEnd(i, split)
               /\ WorkStart(j, split) <= row /\ row < WorkEnd(j, split)
               => i = j
<1> DEFINE split == MakeParallelSplit(dimension, interleave, team)
           p == split.threads
<1>1. /\ p \in Nat \ {0}
      /\ \A t \in 0..(p - 1) : WorkStart(t, split) \in Nat /\ WorkEnd(t, split) \in Nat
  <2>1. p \in 1..team
    BY SplitThreads
  <2>2. \A t \in 0..(p - 1) : WorkStart(t, split) \in Nat /\ WorkCount(t, split) \in Nat
    BY RangesTile
  <2> HIDE DEF split, p
  <2> QED
    BY <2>1, <2>2 DEF WorkEnd
<1>2. \A i, j \in 0..(p - 1) : i < j => WorkEnd(i, split) <= WorkStart(j, split)
  BY RangesOrdered
<1> HIDE DEF split, p
<1>3. ASSUME NEW i \in 0..(p - 1), NEW j \in 0..(p - 1), i < j,
             WorkStart(j, split) <= row, row < WorkEnd(i, split)
      PROVE  FALSE
  BY <1>1, <1>2, <1>3
<1>4. \A i, j \in 0..(p - 1) :
        /\ WorkStart(i, split) <= row /\ row < WorkEnd(i, split)
        /\ WorkStart(j, split) <= row /\ row < WorkEnd(j, split)
        => i = j
  BY <1>1, <1>3
<1> QED
  BY <1>4 DEF split, p

(* Every row belongs to an iteration.                                      *)
THEOREM RangesCover ==
  ASSUME NEW dimension \in Nat, NEW interleave \in Nat \ {0},
         NEW team \in Nat \ {0}, NEW row \in 0..(dimension - 1)
  PROVE  LET split == MakeParallelSplit(dimension, interleave, team)
         IN  \E i \in 0..(split.threads - 1) :
               WorkStart(i, split) <= row /\ row < WorkEnd(i, split)
<1> DEFINE split == MakeParallelSplit(dimension, interleave, team)
           p == split.threads
           Ends == {i \in 0..(p - 1) : row < WorkEnd(i, split)}
<1>1. /\ p \in Nat \ {0}
      /\ \A t \in 0..(p - 2) : WorkStart(t + 1, split) = WorkEnd(t, split)
      /\ \A t \in 0..(p - 1) : WorkStart(t, split) \in Nat /\ WorkEnd(t, split) \in Nat
      /\ WorkStart(0, split) = 0 /\ WorkEnd(p - 1, split) = dimension
  BY RangesTile, SplitThreads DEF WorkEnd
<1> HIDE DEF split, p
<1>2. p - 1 \in Ends /\ Ends \in SUBSET Nat
  BY <1>1
<1>3. PICK i \in Ends : \A k \in Ends : i <= k
  <2> HIDE DEF Ends
  <2> QED
    BY <1>2, LeastNumber
<1>4. WorkStart(i, split) <= row
  <2>1. CASE i = 0
    BY <1>1, <2>1
  <2>2. CASE i # 0
    <3>1. /\ i - 1 \in 0..(p - 2) /\ i - 1 \in 0..(p - 1) /\ (i - 1) + 1 = i
          /\ i - 1 \notin Ends
      BY <1>1, <1>3, <2>2
    <3>2. ~(row < WorkEnd(i - 1, split)) /\ WorkEnd(i - 1, split) \in Nat
      BY <1>1, <3>1
    <3> QED
      BY <1>1, <3>1, <3>2
  <2> QED
    BY <2>1, <2>2
<1> QED
  BY <1>3, <1>4 DEF split, p


-----------------------------------------------------------------------------
(* The inductive invariant.                                                *)

(* The split of a call is the one its job and buffer ask for, and is no    *)
(* wider than what OpenMP makes available until the call returns.          *)
SplitIsCurrent(t) ==
  /\ call[t].split = MakeParallelSplit(call[t].job.rows, call[t].job.interleave,
                                       call[t].slots)
  /\ call[t].pc # "returned" => call[t].slots <= available[t]
  /\ call[t].pc \in {"request", "update"} => call[t].split.threads > 1
  /\ call[t].pc = "loop" =>
       call[t].split.threads <= call[t].spawn /\ call[t].spawn <= available[t]

(* Iteration i owns slot i of each half of the buffer, whichever it reads  *)
(* from; in the middle of a row it reads its own intermediate.             *)
OwnsItsSlots(i, it, slots) ==
  \/ it.x = i /\ it.y = slots + i
  \/ it.y = i /\ it.x = slots + i

ReadsItsOwn(it, mem) ==
  it.level > 0 => it.left > 0 /\ mem[it.x] = [row |-> it.row, level |-> it.level]

IterationsAreApart(t) ==
  \A i \in 0..(call[t].split.threads - 1) :
    /\ OwnsItsSlots(i, iters[t][i], call[t].slots) /\ ReadsItsOwn(iters[t][i], memory[t])
    /\ call[t].job.kind = "level" => iters[t][i].level = 0

AreFunctions ==
  iters = [t \in Threads |-> iters[t]] /\ memory = [t \in Threads |-> memory[t]]

IInv ==
  /\ TypeOK /\ AreFunctions
  /\ \A t \in Threads : SplitIsCurrent(t) /\ IterationsAreApart(t)

-----------------------------------------------------------------------------

LEMMA SplitInType ==
  ASSUME NEW dimension \in Nat, NEW interleave \in Nat \ {0},
         NEW max \in Nat \ {0}
  PROVE  /\ MakeParallelSplit(dimension, interleave, max) \in SplitType
         /\ MakeParallelSplit(dimension, interleave, max).threads \in 1..max
<1>1. CASE max = 1 \/ dimension = 0
  BY <1>1 DEF MakeParallelSplit, SplitType
<1>2. CASE ~(max = 1 \/ dimension = 0)
  <2> DEFINE s == MakeParallelSplit(dimension, interleave, max)
  <2>1. /\ s.threads \in Nat \ {0} /\ s.workPerThread \in Nat
        /\ s.modifiedThreads \in Nat /\ s.modifier = 1 /\ s.rows = interleave
        /\ s.totalWork = dimension
    BY <1>2, SplitParts
  <2>2. s = [threads |-> s.threads, workPerThread |-> s.workPerThread,
             totalWork |-> s.totalWork, modifier |-> s.modifier,
             modifiedThreads |-> s.modifiedThreads, rows |-> s.rows]
    BY <1>2 DEF MakeParallelSplit
  <2>3. s.threads \in 1..max
    BY SplitThreads
  <2> HIDE DEF s
  <2>4. s \in SplitType
    BY <2>1, <2>2 DEF SplitType
  <2> QED
    BY <2>3, <2>4 DEF s
<1> QED
  BY <1>1, <1>2

(* The iterations a loop starts with.                                      *)
LEMMA FirstIterationsOK ==
  ASSUME NEW rows \in Nat, NEW interleave \in Nat \ {0}, NEW slots \in Nat \ {0},
         NEW i \in 0..(MakeParallelSplit(rows, interleave, slots).threads - 1)
  PROVE  LET it == FirstIteration(i, MakeParallelSplit(rows, interleave, slots), slots)
         IN  it \in IterationType /\ it.level = 0 /\ OwnsItsSlots(i, it, slots)
<1> DEFINE split == MakeParallelSplit(rows, interleave, slots)
<1>1. WorkStart(i, split) \in Nat /\ WorkCount(i, split) \in Nat
  BY RangesTile
<1>2. i \in Nat
  BY SplitThreads
<1> HIDE DEF split
<1>3. FirstIteration(i, split, slots) \in IterationType
  BY <1>1, <1>2 DEF FirstIteration, IterationType
<1>4. /\ FirstIteration(i, split, slots).level = 0
      /\ OwnsItsSlots(i, FirstIteration(i, split, slots), slots)
  BY DEF FirstIteration, OwnsItsSlots
<1> QED
  BY <1>3, <1>4 DEF split

LEMMA IInvInit == Init => IInv
<1> SUFFICES ASSUME Init PROVE IInv
  OBVIOUS
<1>1. /\ NoCall.split = MakeParallelSplit(0, 1, 1) /\ NoCall.slots = 1
      /\ NoCall.job.rows = 0 /\ NoCall.job.interleave = 1 /\ NoCall.pc = "returned"
  BY DEF NoCall, NoJob
<1>2. NoCall \in CallType
  <2>1. MakeParallelSplit(0, 1, 1) \in SplitType
    BY SplitInType
  <2> QED
    BY <2>1 DEF NoCall, NoJob, CallType, JobType
<1>3. NoCall.split.threads = 1
  BY DEF NoCall, MakeParallelSplit
<1>4. /\ FirstIteration(0, NoCall.split, 1) \in IterationType
      /\ FirstIteration(0, NoCall.split, 1).level = 0
      /\ OwnsItsSlots(0, FirstIteration(0, NoCall.split, 1), 1)
  BY <1>1, <1>3, FirstIterationsOK
<1> HIDE DEF NoCall
<1>5. TypeOK
  BY <1>1, <1>2, <1>3, <1>4 DEF Init, TypeOK, BufferSlots, Nothing
<1>6. AreFunctions
  BY DEF Init, AreFunctions
<1>7. ASSUME NEW t \in Threads PROVE SplitIsCurrent(t) /\ IterationsAreApart(t)
  <2>1. call[t] = NoCall /\ iters[t] = [i \in 0..0 |-> FirstIteration(i, NoCall.split, 1)]
    BY DEF Init
  <2>2. SplitIsCurrent(t)
    BY <1>1, <2>1 DEF SplitIsCurrent
  <2>3. IterationsAreApart(t)
    BY <1>1, <1>3, <1>4, <2>1 DEF IterationsAreApart, ReadsItsOwn
  <2> QED
    BY <2>2, <2>3
<1> QED
  BY <1>5, <1>6, <1>7 DEF IInv

-----------------------------------------------------------------------------
(* One lemma per action.                                                   *)

LEMMA SetNumThreadsOK ==
  ASSUME IInv, NEW t \in Threads, SetNumThreads(t)
  PROVE  IInv'
<1>1. TypeOK' /\ AreFunctions'
  BY DEF IInv, TypeOK, AreFunctions, SetNumThreads
<1>2. ASSUME NEW u \in Threads PROVE SplitIsCurrent(u)'
  BY <1>2 DEF IInv, TypeOK, SplitIsCurrent, SetNumThreads
<1>3. ASSUME NEW u \in Threads PROVE IterationsAreApart(u)'
  BY <1>3 DEF IInv, IterationsAreApart, SetNumThreads
<1> QED
  BY <1>1, <1>2, <1>3 DEF IInv

LEMMA ExecuteOK ==
  ASSUME IInv, NEW t \in Threads, NEW job \in JobsOf[t], Execute(t, job)
  PROVE  IInv'
<1> DEFINE slots == WantedThreads(t, job)
           split == MakeParallelSplit(job.rows, job.interleave, slots)
           newCall == [pc |-> IF split.threads > 1 THEN "request" ELSE "loop", job |-> job,
                       slots |-> slots, split |-> split, currentMax |-> 1, spawn |-> 1]
           newIters == [i \in 0..(split.threads - 1) |-> FirstIteration(i, split, slots)]
<1>1. job \in JobType /\ job.rows \in Nat /\ job.interleave \in Nat \ {0}
  BY ParallelAssumption DEF JobType
<1>2. slots \in Nat \ {0} /\ slots <= available[t] /\ available[t] \in Nat \ {0}
  <2>1. available[t] \in Nat \ {0}
    BY ParallelAssumption DEF IInv, TypeOK
  <2> QED
    BY <2>1 DEF WantedThreads
<1>3. split \in SplitType /\ split.threads \in 1..slots
  BY <1>1, <1>2, SplitInType
<1>4. ASSUME NEW i \in 0..(split.threads - 1)
      PROVE  LET it == FirstIteration(i, split, slots)
             IN  it \in IterationType /\ it.level = 0 /\ OwnsItsSlots(i, it, slots)
  BY <1>1, <1>2, <1>4, FirstIterationsOK
<1> HIDE DEF slots, split
<1>5. newCall \in CallType
  BY <1>1, <1>2, <1>3 DEF CallType
<1>6. newIters \in [0..(newCall.split.threads - 1) -> IterationType]
  BY <1>4
<1>7. /\ call' = [call EXCEPT ![t] = newCall] /\ iters' = [iters EXCEPT ![t] = newIters]
      /\ memory' = [memory EXCEPT ![t] = [s \in BufferSlots(slots) |-> Nothing]]
      /\ calls' = [calls EXCEPT ![t] = @ + 1]
      /\ UNCHANGED <<maxThreads, available, pool, lost>>
  BY DEF Execute, slots, split
<1>8. newCall.slots = slots /\ newCall.split = split /\ newCall.job = job
      /\ newCall.pc = (IF split.threads > 1 THEN "request" ELSE "loop") /\ newCall.spawn = 1
  OBVIOUS
<1>9. [s \in BufferSlots(slots) |-> Nothing] \in
        [BufferSlots(newCall.slots) -> [row : Int, level : Nat]]
  BY DEF Nothing
<1>10. \A i \in 0..(split.threads - 1) : newIters[i] = FirstIteration(i, split, slots)
  OBVIOUS
<1> HIDE DEF newCall, newIters
<1>11. TypeOK'
  <2>1. call' \in [Threads -> CallType] /\ call'[t] = newCall
    BY <1>5, <1>7 DEF IInv, TypeOK
  <2>2. ASSUME NEW u \in Threads
        PROVE  iters'[u] \in [0..(call'[u].split.threads - 1) -> IterationType]
    BY <1>6, <1>7, <2>1, <2>2 DEF IInv, TypeOK, AreFunctions
  <2>3. ASSUME NEW u \in Threads
        PROVE  memory'[u] \in [BufferSlots(call'[u].slots) -> [row : Int, level : Nat]]
    BY <1>7, <1>8, <1>9, <2>1, <2>3 DEF IInv, TypeOK, AreFunctions
  <2>4. /\ maxThreads' \in Nat \ {0} /\ available' \in [Threads -> ThreadCounts]
        /\ calls' \in [Threads -> Nat] /\ pool' \in [Threads -> Nat]
        /\ lost' \in [Threads -> BOOLEAN]
    BY <1>7 DEF IInv, TypeOK
  <2> QED
    BY <2>1, <2>2, <2>3, <2>4 DEF TypeOK
<1>12. AreFunctions'
  BY <1>7 DEF IInv, AreFunctions
<1>13. ASSUME NEW u \in Threads PROVE SplitIsCurrent(u)' /\ IterationsAreApart(u)'
  <2>1. CASE u = t
    <3>1. call'[u] = newCall /\ iters'[u] = newIters /\ available'[u] = available[t]
      BY <1>7, <2>1 DEF IInv, TypeOK, AreFunctions
    <3>2. SplitIsCurrent(u)'
      <4>1. split = MakeParallelSplit(newCall.job.rows, newCall.job.interleave, newCall.slots)
        BY <1>8 DEF split
      <4>2. split.threads \in Nat
        BY <1>3
      <4> QED
        BY <1>2, <1>8, <3>1, <4>1, <4>2 DEF SplitIsCurrent
    <3>3. IterationsAreApart(u)'
      BY <1>4, <1>8, <1>10, <3>1 DEF IterationsAreApart, ReadsItsOwn
    <3> QED
      BY <3>2, <3>3
  <2>2. CASE u # t
    BY <1>7, <2>2 DEF IInv, TypeOK, AreFunctions, SplitIsCurrent, IterationsAreApart
  <2> QED
    BY <2>1, <2>2
<1> QED
  BY <1>11, <1>12, <1>13 DEF IInv

(* A request changes nothing but the call's own pc, copy and answer, and   *)
(* the shared maximum.                                                     *)
LEMMA RequestReadOK ==
  ASSUME IInv, NEW t \in Threads, RequestRead(t)
  PROVE  IInv'
<1>1. /\ call[t] \in CallType /\ call[t].pc = "request"
      /\ call[t].split \in SplitType /\ call[t].slots \in Nat \ {0}
      /\ available[t] \in Nat \ {0} /\ maxThreads \in Nat \ {0}
  BY ParallelAssumption DEF IInv, TypeOK, CallType, RequestRead
<1>2. /\ call[t].split.threads > 1 /\ call[t].slots <= available[t]
      /\ call[t].split = MakeParallelSplit(call[t].job.rows, call[t].job.interleave,
                                           call[t].slots)
  BY <1>1 DEF IInv, SplitIsCurrent
<1>3. call[t].split.threads <= call[t].slots
  <2>1. call[t].job.rows \in Nat /\ call[t].job.interleave \in Nat \ {0}
    BY <1>1 DEF CallType, JobType
  <2>2. call[t].split.threads \in 1..call[t].slots
    BY <1>1, <1>2, <2>1, SplitThreads
  <2> QED
    BY <1>1, <2>2
<1>4. BoundedGetMaxThreads(t, maxThreads) \in Nat \ {0}
  BY <1>1 DEF BoundedGetMaxThreads
<1>5. call[t].split.threads <= maxThreads =>
        /\ call[t].split.threads <= BoundedGetMaxThreads(t, maxThreads)
        /\ BoundedGetMaxThreads(t, maxThreads) <= available[t]
  BY <1>1, <1>2, <1>3 DEF BoundedGetMaxThreads, SplitType
<1>6. TypeOK'
  <2>1. lost' \in [Threads -> BOOLEAN]
    BY DEF IInv, TypeOK, RequestRead
  <2> QED
    BY <1>1, <1>4, <2>1 DEF IInv, TypeOK, RequestRead, CallType
<1>7. AreFunctions'
  BY DEF IInv, AreFunctions, RequestRead
<1>8. ASSUME NEW u \in Threads PROVE SplitIsCurrent(u)'
  <2>1. CASE u = t
    <3>1. /\ call'[t].pc = (IF call[t].split.threads <= maxThreads THEN "loop" ELSE "update")
          /\ call'[t].spawn = (IF call[t].split.threads <= maxThreads
                              THEN BoundedGetMaxThreads(t, maxThreads)
                              ELSE call[t].spawn)
          /\ call'[t].split = call[t].split /\ call'[t].slots = call[t].slots
          /\ call'[t].job = call[t].job /\ available'[t] = available[t]
      BY <1>1 DEF IInv, TypeOK, CallType, RequestRead
    <3>2. call[t].split.threads \in Nat
      BY <1>1 DEF SplitType
    <3> QED
      BY <1>1, <1>2, <1>5, <2>1, <3>1, <3>2 DEF SplitIsCurrent
  <2>2. CASE u # t
    BY <2>2 DEF IInv, TypeOK, SplitIsCurrent, RequestRead
  <2> QED
    BY <2>1, <2>2
<1>9. ASSUME NEW u \in Threads PROVE IterationsAreApart(u)'
  BY <1>9 DEF IInv, TypeOK, CallType, IterationsAreApart, RequestRead
<1> QED
  BY <1>6, <1>7, <1>8, <1>9 DEF IInv

LEMMA RequestUpdateOK ==
  ASSUME IInv, NEW t \in Threads, RequestUpdate(t)
  PROVE  IInv'
<1> DEFINE newMax == BoundedGetMaxThreads(t, call[t].split.threads)
<1>1. /\ call[t] \in CallType /\ call[t].pc = "update"
      /\ call[t].split \in SplitType /\ call[t].slots \in Nat \ {0}
      /\ available[t] \in Nat \ {0}
  BY ParallelAssumption DEF IInv, TypeOK, CallType, RequestUpdate
<1>2. /\ call[t].split.threads > 1 /\ call[t].slots <= available[t]
      /\ call[t].split = MakeParallelSplit(call[t].job.rows, call[t].job.interleave,
                                           call[t].slots)
  BY <1>1 DEF IInv, SplitIsCurrent
<1>3. call[t].split.threads <= call[t].slots
  <2>1. call[t].job.rows \in Nat /\ call[t].job.interleave \in Nat \ {0}
    BY <1>1 DEF CallType, JobType
  <2>2. call[t].split.threads \in 1..call[t].slots
    BY <1>1, <1>2, <2>1, SplitThreads
  <2> QED
    BY <1>1, <2>2
<1>4. /\ newMax \in Nat \ {0} /\ newMax <= available[t]
      /\ call[t].split.threads <= newMax
  BY <1>1, <1>2, <1>3 DEF BoundedGetMaxThreads, SplitType
<1>5. /\ call' = [call EXCEPT ![t].pc = "loop", ![t].spawn = newMax]
      /\ maxThreads' = newMax /\ lost' = LostBy(t, newMax)
      /\ UNCHANGED <<available, iters, memory, output, calls, pool>>
  BY DEF RequestUpdate
<1> HIDE DEF newMax
<1>6. TypeOK'
  <2>1. lost' \in [Threads -> BOOLEAN]
    BY <1>5 DEF LostBy
  <2> QED
    BY <1>1, <1>4, <1>5, <2>1 DEF IInv, TypeOK, CallType
<1>7. AreFunctions'
  BY <1>5 DEF IInv, AreFunctions
<1>8. ASSUME NEW u \in Threads PROVE SplitIsCurrent(u)'
  BY <1>1, <1>2, <1>4, <1>5, <1>8 DEF IInv, TypeOK, CallType, SplitType, SplitIsCurrent
<1>9. ASSUME NEW u \in Threads PROVE IterationsAreApart(u)'
  BY <1>5, <1>9 DEF IInv, TypeOK, CallType, IterationsAreApart
<1> QED
  BY <1>6, <1>7, <1>8, <1>9 DEF IInv

LEMMA ReturnOK ==
  ASSUME IInv, NEW t \in Threads, Return(t)
  PROVE  IInv'
<1>1. TypeOK' /\ AreFunctions'
  <2>1. call' \in [Threads -> CallType]
    <3>1. /\ call \in [Threads -> CallType]
          /\ call' = [call EXCEPT ![t] =
                 [call[t] EXCEPT !.pc = "returned", !.currentMax = 1, !.spawn = 1]]
      BY DEF IInv, TypeOK, Return
    <3>2. [call[t] EXCEPT !.pc = "returned", !.currentMax = 1, !.spawn = 1] \in CallType
      <4>1. call[t] \in CallType /\ 1 \in Nat \ {0}
        BY <3>1
      <4> QED
        BY <4>1 DEF CallType
    <3> QED
      BY <3>1, <3>2
  <2>2. TypeOK'
    <3>1. \A u \in Threads : /\ call'[u].slots = call[u].slots
                             /\ call'[u].split = call[u].split /\ call[u].spawn \in Nat
      BY DEF IInv, TypeOK, CallType, Return
    <3>2. pool' \in [Threads -> Nat]
      BY <3>1 DEF IInv, TypeOK, Return
    <3> QED
      BY <2>1, <3>1, <3>2 DEF IInv, TypeOK, Return
  <2>3. AreFunctions'
    BY DEF IInv, AreFunctions, Return
  <2> QED
    BY <2>2, <2>3
<1>2. ASSUME NEW u \in Threads PROVE SplitIsCurrent(u)'
  BY <1>2 DEF IInv, TypeOK, CallType, SplitIsCurrent, Return
<1>3. ASSUME NEW u \in Threads PROVE IterationsAreApart(u)'
  BY <1>3 DEF IInv, TypeOK, CallType, IterationsAreApart, Return
<1> QED
  BY <1>1, <1>2, <1>3 DEF IInv

-----------------------------------------------------------------------------
(* The steps of an iteration.                                              *)

(* The slots of two iterations differ, and lie in the buffer.              *)
LEMMA SlotsApart ==
  ASSUME NEW slots \in Nat \ {0}, NEW threads \in 1..slots,
         NEW i \in 0..(threads - 1), NEW j \in 0..(threads - 1), NEW y, NEW z,
         y = i \/ y = slots + i, z = j \/ z = slots + j
  PROVE  z \in 0..(2 * slots - 1) /\ (i # j => y # z)
  BY SMT

(* A level of iteration i stores value in slot y of its pair and goes on   *)
(* as newIt: no other iteration is disturbed.                              *)
LEMMA LevelStoresOK ==
  ASSUME IInv, NEW t \in Threads, NEW i \in DOMAIN iters[t],
         NEW newIt \in IterationType, NEW y \in Nat, NEW value \in [row : Int, level : Nat],
         y = iters[t][i].y,
         iters' = [iters EXCEPT ![t] = [@ EXCEPT ![i] = newIt]],
         memory' = [memory EXCEPT ![t] = [@ EXCEPT ![y] = value]],
         UNCHANGED <<maxThreads, available, call, calls, pool, lost>>,
         newIt.x = y, newIt.y = iters[t][i].x,
         newIt.left > 0, value = [row |-> newIt.row, level |-> newIt.level],
         call[t].job.kind = "compositor"
  PROVE  IInv'
<1> DEFINE it == iters[t][i]
           slots == call[t].slots
           threads == call[t].split.threads
<1>1. /\ slots \in Nat \ {0} /\ threads \in Nat \ {0} /\ threads <= slots
      /\ i \in 0..(threads - 1) /\ it \in IterationType
      /\ iters[t] \in [0..(threads - 1) -> IterationType]
      /\ memory[t] \in [0..(2 * slots - 1) -> [row : Int, level : Nat]]
  <2>1. call[t] \in CallType /\ SplitIsCurrent(t)
    BY DEF IInv, TypeOK
  <2>2. threads <= slots /\ threads \in Nat \ {0} /\ slots \in Nat \ {0}
    BY <2>1, SplitThreads DEF SplitIsCurrent, CallType, JobType
  <2> QED
    BY <2>2 DEF IInv, TypeOK, BufferSlots
<1>2. \A j \in 0..(threads - 1) :
        OwnsItsSlots(j, iters[t][j], slots) /\ ReadsItsOwn(iters[t][j], memory[t])
  BY DEF IInv, IterationsAreApart
<1>3. y \in 0..(2 * slots - 1) /\ OwnsItsSlots(i, newIt, slots)
  <2>1. it.x \in Nat /\ it.y \in Nat
    BY <1>1 DEF IterationType
  <2>2. OwnsItsSlots(i, it, slots)
    BY <1>1, <1>2
  <2>3. OwnsItsSlots(i, newIt, slots)
    BY <2>2 DEF OwnsItsSlots
  <2>4. it.y = i \/ it.y = slots + i
    BY <2>2 DEF OwnsItsSlots
  <2> QED
    BY <1>1, <2>1, <2>3, <2>4
<1>4. /\ iters'[t] = [iters[t] EXCEPT ![i] = newIt]
      /\ memory'[t] = [memory[t] EXCEPT ![y] = value]
      /\ \A u \in Threads \ {t} : iters'[u] = iters[u] /\ memory'[u] = memory[u]
  BY DEF IInv, AreFunctions
<1>5. AreFunctions'
  BY DEF IInv, AreFunctions
<1>6. TypeOK'
  <2>1. iters'[t] \in [0..(threads - 1) -> IterationType]
    BY <1>1, <1>4
  <2>2. memory'[t] \in [0..(2 * slots - 1) -> [row : Int, level : Nat]]
    BY <1>1, <1>3, <1>4
  <2> QED
    BY <1>4, <2>1, <2>2 DEF IInv, TypeOK, BufferSlots
<1>7. \A u \in Threads : SplitIsCurrent(u)'
  BY DEF IInv, SplitIsCurrent
<1>8. ASSUME NEW j \in 0..(threads - 1)
      PROVE  OwnsItsSlots(j, iters'[t][j], slots) /\ ReadsItsOwn(iters'[t][j], memory'[t])
  <2>1. CASE j = i
    <3>1. iters'[t][j] = newIt
      BY <1>1, <1>4, <2>1
    <3>2. memory'[t][newIt.x] = value
      BY <1>1, <1>3, <1>4
    <3> QED
      BY <1>3, <2>1, <3>1, <3>2 DEF ReadsItsOwn
  <2>2. CASE j # i
    <3>1. iters'[t][j] = iters[t][j] /\ iters[t][j] \in IterationType
      BY <1>1, <1>4, <1>8, <2>2
    <3>2. iters[t][j].x # y /\ iters[t][j].x \in 0..(2 * slots - 1)
      <4>1. y = i \/ y = slots + i
        BY <1>1, <1>2 DEF OwnsItsSlots
      <4>2. iters[t][j].x = j \/ iters[t][j].x = slots + j
        BY <1>2, <1>8 DEF OwnsItsSlots
      <4> HIDE DEF slots, threads
      <4> QED
        BY <1>1, <1>8, <2>2, <4>1, <4>2, SlotsApart
    <3>3. memory'[t][iters[t][j].x] = memory[t][iters[t][j].x]
      BY <1>1, <1>4, <3>2
    <3> QED
      BY <1>2, <3>1, <3>3 DEF ReadsItsOwn
  <2> QED
    BY <2>1, <2>2
<1>9. \A u \in Threads : IterationsAreApart(u)'
  BY <1>4, <1>8 DEF IInv, IterationsAreApart
<1> QED
  BY <1>5, <1>6, <1>7, <1>9 DEF IInv

(* A step of iteration i that stores nothing in the buffer and leaves it   *)
(* between two rows.                                                       *)
LEMMA RowEndsOK ==
  ASSUME IInv, NEW t \in Threads, NEW i \in DOMAIN iters[t],
         NEW newIt \in IterationType,
         iters' = [iters EXCEPT ![t] = [@ EXCEPT ![i] = newIt]],
         UNCHANGED <<maxThreads, available, call, memory, calls, pool, lost>>,
         newIt.x = iters[t][i].x, newIt.y = iters[t][i].y, newIt.level = 0
  PROVE  IInv'
<1>1. /\ iters'[t] = [iters[t] EXCEPT ![i] = newIt]
      /\ \A u \in Threads \ {t} : iters'[u] = iters[u]
  BY DEF IInv, AreFunctions
<1>2. TypeOK' /\ AreFunctions'
  BY <1>1 DEF IInv, TypeOK, AreFunctions
<1>3. \A u \in Threads : SplitIsCurrent(u)'
  BY DEF IInv, SplitIsCurrent
<1>4. ASSUME NEW j \in 0..(call[t].split.threads - 1)
      PROVE  /\ OwnsItsSlots(j, iters'[t][j], call[t].slots)
             /\ ReadsItsOwn(iters'[t][j], memory[t])
  <2>1. OwnsItsSlots(j, iters[t][j], call[t].slots) /\ ReadsItsOwn(iters[t][j], memory[t])
    BY <1>4 DEF IInv, IterationsAreApart
  <2>2. iters'[t][j] = IF j = i THEN newIt ELSE iters[t][j]
    BY <1>1, <1>4 DEF IInv, TypeOK
  <2> QED
    BY <2>1, <2>2 DEF OwnsItsSlots, ReadsItsOwn
<1>5. \A u \in Threads : IterationsAreApart(u)'
  BY <1>1, <1>4 DEF IInv, IterationsAreApart
<1> QED
  BY <1>2, <1>3, <1>5 DEF IInv

LEMMA RunIterationOK ==
  ASSUME IInv, NEW t \in Threads, NEW i \in DOMAIN iters[t], RunIteration(t, i)
  PROVE  IInv'
<1> DEFINE it == iters[t][i]
<1>1. it \in IterationType /\ ReadsItsOwn(it, memory[t])
        /\ (call[t].job.kind = "level" => it.level = 0)
  BY DEF IInv, TypeOK, IterationsAreApart
<1>0. /\ it.row \in Nat /\ it.left \in Nat /\ it.level \in Nat
      /\ it.x \in Nat /\ it.y \in Nat
      /\ it = [row |-> it.row, left |-> it.left, level |-> it.level, x |-> it.x, y |-> it.y]
  BY <1>1 DEF IterationType
<1>2. CASE RunFirstLevel(t, i)
  <2> DEFINE newIt == [it EXCEPT !.level = 1, !.x = it.y, !.y = it.x]
             value == ResultOf(InputOf(it.row))
  <2>1. newIt \in IterationType
    BY <1>1 DEF IterationType
  <2>2. value = [row |-> it.row, level |-> 1] /\ value \in [row : Int, level : Nat]
    BY <1>1 DEF IterationType, ResultOf, InputOf
  <2>3. /\ iters' = [iters EXCEPT ![t] = [@ EXCEPT ![i] = newIt]]
        /\ memory' = [memory EXCEPT ![t] = [@ EXCEPT ![it.y] = value]]
        /\ UNCHANGED <<maxThreads, available, call, calls, pool, lost>>
    BY <1>1, <1>2 DEF RunFirstLevel, IInv, TypeOK, AreFunctions, IterationType
  <2>4. /\ newIt.x = it.y /\ newIt.y = it.x /\ newIt.left > 0
        /\ value = [row |-> newIt.row, level |-> newIt.level] /\ it.y \in Nat
        /\ call[t].job.kind = "compositor"
    BY <1>1, <1>2, <2>2 DEF RunFirstLevel, IterationType
  <2> QED
    BY <2>1, <2>2, <2>3, <2>4, LevelStoresOK
<1>3. CASE RunMiddleLevel(t, i)
  <2> DEFINE newIt == [it EXCEPT !.level = it.level + 1, !.x = it.y, !.y = it.x]
             value == ResultOf(memory[t][it.x])
  <2>1. newIt \in IterationType
    <3>1. it.level + 1 \in Nat
      BY <1>0
    <3> QED
      BY <1>1, <3>1 DEF IterationType
  <2>2. it.level > 0
    BY <1>1, <1>3 DEF RunMiddleLevel
  <2>3. memory[t][it.x] = [row |-> it.row, level |-> it.level] /\ it.left > 0
    BY <1>1, <2>2 DEF ReadsItsOwn
  <2>4. /\ value = [row |-> it.row, level |-> it.level + 1]
        /\ value \in [row : Int, level : Nat]
    BY <1>1, <2>3 DEF IterationType, ResultOf
  <2>5. /\ iters' = [iters EXCEPT ![t] = [@ EXCEPT ![i] = newIt]]
        /\ memory' = [memory EXCEPT ![t] = [@ EXCEPT ![it.y] = value]]
        /\ UNCHANGED <<maxThreads, available, call, calls, pool, lost>>
    BY <1>1, <1>3 DEF RunMiddleLevel, IInv, TypeOK, AreFunctions, IterationType
  <2>6. /\ newIt.x = it.y /\ newIt.y = it.x /\ newIt.left > 0
        /\ value = [row |-> newIt.row, level |-> newIt.level] /\ it.y \in Nat
        /\ call[t].job.kind = "compositor"
    BY <1>1, <1>3, <2>3, <2>4 DEF IterationType, RunMiddleLevel
  <2> QED
    BY <2>1, <2>4, <2>5, <2>6, LevelStoresOK
<1>4. CASE RunLastLevel(t, i)
  <2> DEFINE newIt == [it EXCEPT !.level = 0, !.row = it.row + 1, !.left = it.left - 1]
  <2>1. it.level > 0
    <3>1. call[t].job.levels \in Nat \ {0, 1}
      BY DEF IInv, TypeOK, CallType, JobType
    <3> QED
      BY <1>1, <1>4, <3>1 DEF RunLastLevel, IterationType
  <2>2. it.left > 0
    BY <1>1, <2>1 DEF ReadsItsOwn
  <2>3. newIt \in IterationType
    <3>1. it.left - 1 \in Nat /\ it.row + 1 \in Nat
      BY <1>0, <2>2
    <3> QED
      BY <1>1, <3>1 DEF IterationType
  <2>4. /\ iters' = [iters EXCEPT ![t] = [@ EXCEPT ![i] = newIt]]
        /\ UNCHANGED <<maxThreads, available, call, memory, calls, pool, lost>>
    BY <1>1, <1>4 DEF RunLastLevel, IInv, TypeOK, AreFunctions, IterationType
  <2>5. newIt.x = it.x /\ newIt.y = it.y /\ newIt.level = 0
    BY <1>1 DEF IterationType
  <2> QED
    BY <2>3, <2>4, <2>5, RowEndsOK
<1>5. CASE RunKernel(t, i)
  <2> DEFINE newIt == [it EXCEPT !.row = it.row + it.left, !.left = 0]
  <2>1. newIt \in IterationType
    <3>1. it.row + it.left \in Nat
      BY <1>0
    <3> QED
      BY <1>1, <3>1 DEF IterationType
  <2>2. /\ iters' = [iters EXCEPT ![t] = [@ EXCEPT ![i] = newIt]]
        /\ UNCHANGED <<maxThreads, available, call, memory, calls, pool, lost>>
    BY <1>1, <1>5 DEF RunKernel, IInv, TypeOK, AreFunctions, IterationType
  <2>3. newIt.x = it.x /\ newIt.y = it.y /\ newIt.level = 0
    BY <1>1, <1>5 DEF IterationType, RunKernel
  <2> QED
    BY <2>1, <2>2, <2>3, RowEndsOK
<1> QED
  BY <1>2, <1>3, <1>4, <1>5 DEF RunIteration

-----------------------------------------------------------------------------
(* The invariant, and the properties it implies.                           *)

LEMMA IInvStep == IInv /\ [Next]_vars => IInv'
<1> SUFFICES ASSUME IInv, [Next]_vars PROVE IInv'
  OBVIOUS
<1>1. CASE Next
  <2>1. PICK t \in Threads :
          \/ SetNumThreads(t)
          \/ \E job \in JobsOf[t] : Execute(t, job)
          \/ RequestRead(t)
          \/ RequestUpdate(t)
          \/ \E i \in DOMAIN iters[t] : RunIteration(t, i)
          \/ Return(t)
    BY <1>1 DEF Next
  <2>2. CASE SetNumThreads(t)
    BY <2>2, SetNumThreadsOK
  <2>3. CASE \E job \in JobsOf[t] : Execute(t, job)
    BY <2>3, ExecuteOK
  <2>4. CASE RequestRead(t)
    BY <2>4, RequestReadOK
  <2>5. CASE RequestUpdate(t)
    BY <2>5, RequestUpdateOK
  <2>6. CASE \E i \in DOMAIN iters[t] : RunIteration(t, i)
    BY <2>6, RunIterationOK
  <2>7. CASE Return(t)
    BY <2>7, ReturnOK
  <2> QED
    BY <2>1, <2>2, <2>3, <2>4, <2>5, <2>6, <2>7
<1>2. CASE UNCHANGED vars
  <2>1. TypeOK' /\ AreFunctions'
    BY <1>2 DEF IInv, vars, TypeOK, AreFunctions
  <2>2. \A t \in Threads : SplitIsCurrent(t)' /\ IterationsAreApart(t)'
    BY <1>2 DEF IInv, vars, SplitIsCurrent, IterationsAreApart
  <2> QED
    BY <2>1, <2>2 DEF IInv
<1> QED
  BY <1>1, <1>2

THEOREM Invariance == Spec => []IInv
<1>1. Init => IInv
  BY IInvInit
<1>2. IInv /\ [Next]_vars => IInv'
  BY IInvStep
<1> QED
  BY <1>1, <1>2, PTL DEF Spec

(* Type correctness: in particular the range of an iteration never has     *)
(* negative length, and indexes stay natural numbers.                      *)
THEOREM TypeCorrect == Spec => []TypeOK
<1>1. IInv => TypeOK
  BY DEF IInv
<1> QED
  BY <1>1, Invariance, PTL

(* parallel_state_t::request answers between the number of threads asked   *)
(* for and omp_get_max_threads(), whatever other threads write to          *)
(* max_threads between its two accesses (plfft_parallel.hpp:34-38).        *)
THEOREM RequestStaysInRange == Spec => []RequestInRange
<1>1. IInv => RequestInRange
  BY DEF IInv, SplitIsCurrent, RequestInRange
<1> QED
  BY <1>1, Invariance, PTL

(* Concurrent iterations of a composition never share a slot of the        *)
(* compositor buffer, nor leave it (exec_compositor.cpp:26-29, 79-85).     *)
THEOREM SlotsStayPrivate == Spec => []SlotsArePrivate
<1>1. IInv => SlotsArePrivate
  <2> SUFFICES ASSUME IInv, NEW t \in Threads,
                      NEW i \in DOMAIN iters[t], NEW j \in DOMAIN iters[t]
               PROVE  LET a == iters[t][i]
                          b == iters[t][j]
                      IN  /\ {a.x, a.y} \subseteq DOMAIN memory[t] /\ a.x # a.y
                          /\ i # j => {a.x, a.y} \cap {b.x, b.y} = {}
    BY DEF SlotsArePrivate
  <2> DEFINE slots == call[t].slots
             threads == call[t].split.threads
  <2>1. slots \in Nat \ {0} /\ threads \in 1..slots
    <3>1. call[t] \in CallType /\ SplitIsCurrent(t)
      BY DEF IInv, TypeOK
    <3> QED
      BY <3>1, SplitThreads DEF SplitIsCurrent, CallType, JobType
  <2>2. /\ i \in 0..(threads - 1) /\ j \in 0..(threads - 1)
        /\ DOMAIN memory[t] = 0..(2 * slots - 1)
    BY DEF IInv, TypeOK, BufferSlots
  <2>3. OwnsItsSlots(i, iters[t][i], slots) /\ OwnsItsSlots(j, iters[t][j], slots)
    BY <2>2 DEF IInv, IterationsAreApart
  <2> HIDE DEF slots, threads
  <2>4. /\ iters[t][i].x \in 0..(2 * slots - 1) /\ iters[t][i].y \in 0..(2 * slots - 1)
        /\ iters[t][i].x # iters[t][i].y
    BY <2>1, <2>2, <2>3 DEF OwnsItsSlots
  <2>5. ASSUME i # j
        PROVE  /\ iters[t][i].x # iters[t][j].x /\ iters[t][i].x # iters[t][j].y
               /\ iters[t][i].y # iters[t][j].x /\ iters[t][i].y # iters[t][j].y
    BY <2>1, <2>2, <2>3, <2>5 DEF OwnsItsSlots
  <2> QED
    BY <2>2, <2>4, <2>5
<1> QED
  BY <1>1, Invariance, PTL

(* A level always reads what the previous level of the same transform      *)
(* stored: the swaps of x_ptr and y_ptr keep in step with the levels       *)
(* (exec_compositor.cpp:36-48).                                            *)
THEOREM LevelsReadTheirOwnInput == Spec => []LevelsReadTheirInput
<1>1. IInv => LevelsReadTheirInput
  BY DEF IInv, TypeOK, IterationsAreApart, ReadsItsOwn, LevelsReadTheirInput
<1> QED
  BY <1>1, Invariance, PTL

-----------------------------------------------------------------------------
(* What an execution has stored, row by row.                               *)

CompleteLevel(job) == IF job.kind = "level" THEN 1 ELSE job.levels
CompleteRow(row, job) == << [row |-> row, level |-> CompleteLevel(job)] >>

(* Iteration i has stored the rows of its range before the one it is at,   *)
(* each once and complete, and none of the others.                         *)
InRange(row, i, split) == WorkStart(i, split) <= row /\ row < WorkEnd(i, split)

RangeProgress(t, i) ==
  /\ WorkStart(i, call[t].split) <= iters[t][i].row
  /\ iters[t][i].row + iters[t][i].left = WorkEnd(i, call[t].split)
  /\ \A row \in 0..(call[t].job.rows - 1) :
       InRange(row, i, call[t].split) =>
         output[t][row] = IF row < iters[t][i].row THEN CompleteRow(row, call[t].job)
                                                 ELSE << >>

Progress ==
  /\ DOMAIN output = Threads
  /\ \A t \in Threads :
       /\ DOMAIN output[t] = 0..(call[t].job.rows - 1)
       /\ call[t].pc = "returned" => Finished(t)
       /\ \A i \in 0..(call[t].split.threads - 1) : RangeProgress(t, i)

(* What IInv says of one thread and one of its iterations.                 *)
LEMMA CallFacts ==
  ASSUME IInv, NEW t \in Threads
  PROVE  /\ call[t].job \in JobType /\ call[t].job.rows \in Nat
         /\ call[t].slots \in Nat \ {0} /\ call[t].split.threads \in Nat \ {0}
         /\ call[t].split = MakeParallelSplit(call[t].job.rows, call[t].job.interleave,
                                              call[t].slots)
         /\ DOMAIN iters[t] = 0..(call[t].split.threads - 1)
         /\ \A i \in 0..(call[t].split.threads - 1) :
              /\ iters[t][i] \in IterationType
              /\ WorkStart(i, call[t].split) \in Nat /\ WorkEnd(i, call[t].split) \in Nat
              /\ WorkEnd(i, call[t].split) <= call[t].job.rows
<1>1. call[t] \in CallType /\ SplitIsCurrent(t)
        /\ iters[t] \in [0..(call[t].split.threads - 1) -> IterationType]
  BY DEF IInv, TypeOK
<1> DEFINE rows == call[t].job.rows
           interleave == call[t].job.interleave
           slots == call[t].slots
           split == MakeParallelSplit(rows, interleave, slots)
           p == split.threads
<1>2. /\ call[t].job \in JobType /\ rows \in Nat /\ interleave \in Nat \ {0}
      /\ slots \in Nat \ {0} /\ call[t].split \in SplitType
      /\ call[t].split.threads \in Nat \ {0} /\ call[t].split = split
  BY <1>1 DEF CallType, JobType, SplitType, SplitIsCurrent
<1> HIDE DEF rows, interleave, slots
<1>3. /\ p \in Nat \ {0} /\ WorkEnd(p - 1, split) = rows
      /\ \A i \in 0..(p - 1) : WorkStart(i, split) \in Nat /\ WorkEnd(i, split) \in Nat
      /\ \A i \in 0..(p - 1) : WorkStart(i, split) <= WorkEnd(i, split)
  <2>1. /\ p \in Nat \ {0} /\ WorkEnd(p - 1, split) = rows
        /\ \A i \in 0..(p - 1) : WorkStart(i, split) \in Nat /\ WorkCount(i, split) \in Nat
    BY <1>2, RangesTile, SplitThreads DEF WorkEnd
  <2> HIDE DEF split, p
  <2> QED
    BY <2>1 DEF WorkEnd
<1>4. \A i \in 0..(p - 1) : i < p - 1 => WorkEnd(i, split) <= WorkStart(p - 1, split)
  <2>1. \A i, j \in 0..(p - 1) : i < j => WorkEnd(i, split) <= WorkStart(j, split)
    BY <1>2, RangesOrdered
  <2>2. p - 1 \in 0..(p - 1)
    BY <1>3
  <2> HIDE DEF p
  <2> QED
    BY <2>1, <2>2
<1> HIDE DEF split, p
<1>5. \A i \in 0..(p - 1) : WorkEnd(i, split) <= rows
  <2> SUFFICES ASSUME NEW i \in 0..(p - 1) PROVE WorkEnd(i, split) <= rows
    OBVIOUS
  <2>0. p - 1 \in 0..(p - 1)
    BY <1>3
  <2>1. CASE i = p - 1
    BY <1>2, <1>3, <2>1
  <2>2. CASE i # p - 1
    BY <1>2, <1>3, <1>4, <2>0, <2>2
  <2> QED
    BY <2>1, <2>2
<1> QED
  BY <1>1, <1>2, <1>3, <1>5 DEF rows, interleave, slots, split, p

(* An iteration that is finished has stored its range; with every          *)
(* iteration finished, every row is stored.                                *)
LEMMA FinishedIsComplete ==
  ASSUME IInv, Progress, NEW t \in Threads, Finished(t), NEW row \in DOMAIN output[t]
  PROVE  output[t][row] = CompleteRow(row, call[t].job)
<1>1. /\ row \in 0..(call[t].job.rows - 1)
      /\ \A i \in 0..(call[t].split.threads - 1) : RangeProgress(t, i)
  BY DEF Progress
<1>2. PICK i \in 0..(call[t].split.threads - 1) : InRange(row, i, call[t].split)
  <2>1. call[t].job.interleave \in Nat \ {0}
    BY CallFacts DEF JobType
  <2> QED
    BY <1>1, <2>1, CallFacts, RangesCover DEF InRange
<1>3. iters[t][i].left = 0 /\ iters[t][i].row \in Nat
  BY CallFacts DEF Finished, IterationType
<1>4. iters[t][i].row = WorkEnd(i, call[t].split)
  BY <1>1, <1>3 DEF RangeProgress
<1> QED
  BY <1>1, <1>2, <1>4 DEF RangeProgress, InRange

(* A step of iteration i stores the rows from where it is up to newIt.row  *)
(* of its own range, and goes there.                                       *)
StoresRows(t, i, newIt) ==
  /\ newIt.row >= iters[t][i].row
  /\ newIt.row + newIt.left = iters[t][i].row + iters[t][i].left
  /\ iters' = [iters EXCEPT ![t] = [@ EXCEPT ![i] = newIt]]
  /\ DOMAIN output' = Threads
  /\ \A u \in Threads \ {t} : output'[u] = output[u]
  /\ DOMAIN output'[t] = DOMAIN output[t]
  /\ \A row \in DOMAIN output[t] :
       output'[t][row] = IF iters[t][i].row <= row /\ row < newIt.row
                         THEN Append(output[t][row],
                                     [row |-> row, level |-> CompleteLevel(call[t].job)])
                         ELSE output[t][row]

LEMMA StoresOK ==
  ASSUME IInv, Progress, NEW t \in Threads, NEW i \in DOMAIN iters[t],
         NEW newIt \in IterationType, StoresRows(t, i, newIt),
         call[t].pc # "returned", call' = call
  PROVE  Progress'
<1> USE DEF StoresRows
<1> DEFINE split == call[t].split
           rows == call[t].job.rows
           p == split.threads
<1>1. /\ iters'[t] = [iters[t] EXCEPT ![i] = newIt]
      /\ \A u \in Threads \ {t} : iters'[u] = iters[u]
  BY DEF IInv, AreFunctions
<1>2. /\ i \in 0..(p - 1) /\ DOMAIN output[t] = 0..(rows - 1)
      /\ iters'[t][i] = newIt
      /\ \A j \in 0..(p - 1) : j # i => iters'[t][j] = iters[t][j]
      /\ \A j \in 0..(p - 1) : RangeProgress(t, j)
  BY <1>1, CallFacts DEF Progress
<1>3. /\ iters[t][i].row \in Nat /\ iters[t][i].left \in Nat
      /\ newIt.row \in Nat /\ newIt.left \in Nat
  BY <1>2, CallFacts DEF IterationType
<1>4. /\ WorkStart(i, split) <= iters[t][i].row
      /\ iters[t][i].row + iters[t][i].left = WorkEnd(i, split)
      /\ \A row \in 0..(rows - 1) :
           InRange(row, i, split) =>
             output[t][row] = IF row < iters[t][i].row THEN CompleteRow(row, call[t].job)
                                                     ELSE << >>
      /\ WorkStart(i, split) \in Nat /\ WorkEnd(i, split) \in Nat
  BY <1>2, CallFacts DEF RangeProgress
<1>5. \A e : Append(<< >>, e) = << e >>
  OBVIOUS
<1>6. ASSUME NEW row \in 0..(rows - 1), InRange(row, i, split)
      PROVE  output'[t][row] = IF row < newIt.row THEN CompleteRow(row, call[t].job)
                                                ELSE << >>
  <2> HIDE DEF split, rows
  <2>1. CASE row < iters[t][i].row
    <3>0. row \in Int /\ row \in DOMAIN output[t] /\ ~(iters[t][i].row <= row)
      BY <1>2, <1>3, <2>1 DEF rows
    <3>1. output'[t][row] = output[t][row] /\ row < newIt.row
      <4>1. output'[t][row] = output[t][row]
        BY <3>0
      <4>2. row < newIt.row
        BY <1>3, <2>1, <3>0
      <4> QED
        BY <4>1, <4>2
    <3> QED
      BY <1>4, <1>6, <2>1, <3>1
  <2>2. CASE ~(row < iters[t][i].row)
    <3>1. output[t][row] = << >> /\ iters[t][i].row <= row
      BY <1>3, <1>4, <1>6, <2>2
    <3>2. CASE row < newIt.row
      BY <1>2, <1>5, <3>1, <3>2 DEF CompleteRow, rows
    <3>3. CASE ~(row < newIt.row)
      BY <1>2, <3>1, <3>3 DEF rows
    <3> QED
      BY <3>2, <3>3
  <2> QED
    BY <2>1, <2>2
<1>7. RangeProgress(t, i)'
  <2>1. WorkStart(i, split) <= newIt.row
    BY <1>3, <1>4
  <2>2. newIt.row + newIt.left = WorkEnd(i, split)
    BY <1>4
  <2> HIDE DEF split
  <2> QED
    BY <1>2, <1>6, <2>1, <2>2 DEF RangeProgress, split
<1>8. ASSUME NEW j \in 0..(p - 1), j # i PROVE RangeProgress(t, j)'
  <2>1. ASSUME NEW row \in 0..(rows - 1), InRange(row, j, split)
        PROVE  output'[t][row] = output[t][row]
    <3>1. ~InRange(row, i, split)
      <4>1. call[t].job.interleave \in Nat \ {0} /\ row \in Int
        BY CallFacts DEF JobType
      <4> DEFINE made == MakeParallelSplit(rows, call[t].job.interleave, call[t].slots)
      <4>2. \A k, l \in 0..(made.threads - 1) :
              InRange(row, k, made) /\ InRange(row, l, made) => k = l
        <5>1. rows \in Nat /\ call[t].slots \in Nat \ {0}
          BY CallFacts
        <5> HIDE DEF rows
        <5> QED
          BY <4>1, <5>1, RangesApart DEF InRange
      <4>3. made = split
        BY CallFacts
      <4> HIDE DEF made
      <4> HIDE DEF split, p
      <4> QED
        BY <1>2, <1>8, <2>1, <4>2, <4>3 DEF p
    <3>2. ~(iters[t][i].row <= row /\ row < newIt.row)
      BY <1>3, <1>4, <3>1 DEF InRange
    <3> QED
      BY <1>2, <3>2
  <2>2. RangeProgress(t, j) /\ iters'[t][j] = iters[t][j]
    BY <1>2, <1>8
  <2> QED
    BY <2>1, <2>2 DEF RangeProgress
<1>9. ASSUME NEW u \in Threads, u # t
      PROVE  /\ DOMAIN output'[u] = 0..(call[u].job.rows - 1)
             /\ call[u].pc = "returned" => Finished(u)'
             /\ \A j \in 0..(call[u].split.threads - 1) : RangeProgress(u, j)'
  <2>1. iters'[u] = iters[u] /\ output'[u] = output[u] /\ call'[u] = call[u]
    BY <1>1, <1>9
  <2> QED
    BY <2>1 DEF Progress, RangeProgress, Finished
<1> QED
  BY <1>2, <1>7, <1>8, <1>9 DEF Progress

(* An execution begins with nothing stored, each iteration at the start of *)
(* its range.                                                              *)
LEMMA BeginsWithNothing ==
  ASSUME NEW rows \in Nat, NEW interleave \in Nat \ {0}, NEW slots \in Nat \ {0},
         NEW i \in 0..(MakeParallelSplit(rows, interleave, slots).threads - 1)
  PROVE  LET split == MakeParallelSplit(rows, interleave, slots)
             it    == FirstIteration(i, split, slots)
         IN  /\ WorkStart(i, split) <= it.row /\ it.row + it.left = WorkEnd(i, split)
             /\ \A row \in Int : InRange(row, i, split) => ~(row < it.row)
<1> DEFINE split == MakeParallelSplit(rows, interleave, slots)
<1>1. WorkStart(i, split) \in Nat /\ WorkCount(i, split) \in Nat
  BY RangesTile
<1> HIDE DEF split
<1>2. /\ FirstIteration(i, split, slots).row = WorkStart(i, split)
      /\ FirstIteration(i, split, slots).left = WorkCount(i, split)
  BY DEF FirstIteration
<1> QED
  BY <1>1, <1>2 DEF InRange, WorkEnd, split

LEMMA ProgressInit == Init => Progress
<1> SUFFICES ASSUME Init PROVE Progress
  OBVIOUS
<1>1. /\ NoCall.split = MakeParallelSplit(0, 1, 1) /\ NoCall.slots = 1
      /\ NoCall.job.rows = 0 /\ NoCall.job.interleave = 1 /\ NoCall.pc = "returned"
  BY DEF NoCall, NoJob
<1>2. /\ NoCall.split.threads = 1 /\ WorkStart(0, NoCall.split) = 0
      /\ WorkCount(0, NoCall.split) = 0
  BY DEF NoCall, MakeParallelSplit, WorkStart, WorkCount
<1>3. DOMAIN output = Threads
  BY DEF Init
<1>4. ASSUME NEW t \in Threads
      PROVE  /\ DOMAIN output[t] = 0..(call[t].job.rows - 1)
             /\ call[t].pc = "returned" => Finished(t)
             /\ \A i \in 0..(call[t].split.threads - 1) : RangeProgress(t, i)
  <2>1. /\ call[t] = NoCall /\ output[t] = << >>
        /\ iters[t] = [i \in 0..0 |-> FirstIteration(i, NoCall.split, 1)]
    BY DEF Init
  <2>2. /\ iters[t][0].row = 0 /\ iters[t][0].left = 0 /\ DOMAIN iters[t] = 0..0
    BY <1>2, <2>1 DEF FirstIteration
  <2>3. DOMAIN output[t] = 0..(call[t].job.rows - 1)
    <3>1. 1..0 = 0..(0 - 1)
      OBVIOUS
    <3>2. DOMAIN << >> = 1..0
      OBVIOUS
    <3> QED
      BY <1>1, <2>1, <3>1, <3>2
  <2>4. Finished(t)
    BY <2>2 DEF Finished
  <2>5. RangeProgress(t, 0)
    BY <1>1, <1>2, <2>1, <2>2 DEF RangeProgress, WorkEnd
  <2> QED
    BY <1>2, <2>1, <2>3, <2>4, <2>5
<1> QED
  BY <1>3, <1>4 DEF Progress

(* A step that touches neither what is stored nor where the iterations     *)
(* are.                                                                    *)
LEMMA ProgressElsewhere ==
  ASSUME Progress, UNCHANGED <<iters, output>>,
         \A t \in Threads : /\ call'[t].job = call[t].job /\ call'[t].split = call[t].split
                            /\ call'[t].pc = "returned" => Finished(t)
  PROVE  Progress'
<1>1. ASSUME NEW t \in Threads
      PROVE  /\ DOMAIN output'[t] = 0..(call'[t].job.rows - 1)
             /\ call'[t].pc = "returned" => Finished(t)'
             /\ \A i \in 0..(call'[t].split.threads - 1) : RangeProgress(t, i)'
  <2>1. /\ call'[t].job = call[t].job /\ call'[t].split = call[t].split
        /\ call'[t].pc = "returned" => Finished(t)
    OBVIOUS
  <2>2. iters' = iters /\ output' = output
    OBVIOUS
  <2> QED
    BY <2>1, <2>2 DEF Progress, RangeProgress, Finished
<1> QED
  BY <1>1 DEF Progress

LEMMA ProgressExecute ==
  ASSUME IInv, IInv', Progress, NEW t \in Threads, NEW job \in JobsOf[t], Execute(t, job)
  PROVE  Progress'
<1> DEFINE slots == WantedThreads(t, job)
           split == MakeParallelSplit(job.rows, job.interleave, slots)
<1>1. job.rows \in Nat /\ job.interleave \in Nat \ {0}
  BY ParallelAssumption DEF JobType
<1>2. /\ call'[t].job = job /\ call'[t].split = split /\ call'[t].pc # "returned"
      /\ call'[t].slots = slots
      /\ iters'[t] = [i \in 0..(split.threads - 1) |-> FirstIteration(i, split, slots)]
      /\ output'[t] = [row \in 0..(job.rows - 1) |-> << >>]
      /\ DOMAIN output' = Threads
      /\ \A u \in Threads \ {t} :
           call'[u] = call[u] /\ iters'[u] = iters[u] /\ output'[u] = output[u]
  <2>1. call \in [Threads -> CallType] /\ AreFunctions /\ DOMAIN output = Threads
    BY DEF IInv, TypeOK, Progress
  <2> HIDE DEF slots
  <2> QED
    BY <2>1 DEF Execute, AreFunctions, slots
<1>3. slots \in Nat \ {0}
  <2>1. call'[t] \in CallType
    BY DEF IInv, TypeOK
  <2> QED
    BY <1>2, <2>1 DEF CallType
<1> HIDE DEF slots
<1>4. ASSUME NEW i \in 0..(split.threads - 1) PROVE RangeProgress(t, i)'
  <2>1. /\ WorkStart(i, split) <= FirstIteration(i, split, slots).row
        /\ FirstIteration(i, split, slots).row + FirstIteration(i, split, slots).left
             = WorkEnd(i, split)
        /\ \A row \in Int : InRange(row, i, split)
                            => ~(row < FirstIteration(i, split, slots).row)
    BY <1>1, <1>3, BeginsWithNothing
  <2> HIDE DEF split
  <2>2. iters'[t][i] = FirstIteration(i, split, slots)
    BY <1>2, <1>4
  <2> QED
    BY <1>2, <2>1, <2>2 DEF RangeProgress
<1> HIDE DEF split
<1>5. ASSUME NEW u \in Threads, u # t
      PROVE  /\ DOMAIN output'[u] = 0..(call'[u].job.rows - 1)
             /\ call'[u].pc = "returned" => Finished(u)'
             /\ \A i \in 0..(call'[u].split.threads - 1) : RangeProgress(u, i)'
  <2>1. call'[u] = call[u] /\ iters'[u] = iters[u] /\ output'[u] = output[u]
    BY <1>2, <1>5
  <2> QED
    BY <2>1 DEF Progress, RangeProgress, Finished
<1> QED
  BY <1>2, <1>4, <1>5 DEF Progress

LEMMA ProgressIteration ==
  ASSUME IInv, Progress, NEW t \in Threads, NEW i \in DOMAIN iters[t], RunIteration(t, i)
  PROVE  Progress'
<1> DEFINE it == iters[t][i]
<1>1. /\ i \in 0..(call[t].split.threads - 1) /\ it \in IterationType
      /\ ReadsItsOwn(it, memory[t]) /\ RangeProgress(t, i)
      /\ DOMAIN output = Threads /\ DOMAIN output[t] = 0..(call[t].job.rows - 1)
      /\ call[t].job \in JobType
      /\ WorkEnd(i, call[t].split) <= call[t].job.rows
      /\ WorkStart(i, call[t].split) \in Nat
  BY CallFacts DEF IInv, IterationsAreApart, Progress
<1>2. /\ it.row \in Nat /\ it.left \in Nat /\ it.level \in Nat
      /\ it.x \in Nat /\ it.y \in Nat
  BY <1>1 DEF IterationType
<1>3. call[t].pc = "loop" /\ call' = call
  BY DEF RunIteration, RunFirstLevel, RunMiddleLevel, RunLastLevel, RunKernel
<1>4. CASE RunFirstLevel(t, i) \/ RunMiddleLevel(t, i)
  <2> DEFINE newIt == iters'[t][i]
  <2>1. /\ iters' = [iters EXCEPT ![t] = [@ EXCEPT ![i] = newIt]]
        /\ newIt \in IterationType /\ newIt.row = it.row /\ newIt.left = it.left
        /\ output' = output
    <3>1. CASE RunFirstLevel(t, i)
      <4> DEFINE new == [it EXCEPT !.level = 1, !.x = it.y, !.y = it.x]
      <4>1. new \in IterationType /\ new.row = it.row /\ new.left = it.left
        BY <1>1 DEF IterationType
      <4>2. iters' = [iters EXCEPT ![t] = [@ EXCEPT ![i] = new]] /\ output' = output
        BY <1>1, <3>1 DEF RunFirstLevel, IInv, TypeOK, AreFunctions, IterationType
      <4> HIDE DEF new, it
      <4>3. iters'[t][i] = new
        BY <4>2 DEF IInv, TypeOK, AreFunctions
      <4> QED
        BY <4>1, <4>2, <4>3
    <3>2. CASE RunMiddleLevel(t, i)
      <4> DEFINE new == [it EXCEPT !.level = it.level + 1, !.x = it.y, !.y = it.x]
      <4>1. new \in IterationType /\ new.row = it.row /\ new.left = it.left
        <5>1. it.level + 1 \in Nat
          BY <1>2
        <5> QED
          BY <1>1, <5>1 DEF IterationType
      <4>2. iters' = [iters EXCEPT ![t] = [@ EXCEPT ![i] = new]] /\ output' = output
        BY <1>1, <3>2 DEF RunMiddleLevel, IInv, TypeOK, AreFunctions, IterationType
      <4> HIDE DEF new, it
      <4>3. iters'[t][i] = new
        BY <4>2 DEF IInv, TypeOK, AreFunctions
      <4> QED
        BY <4>1, <4>2, <4>3
    <3> QED
      BY <1>4, <3>1, <3>2
  <2> HIDE DEF newIt
  <2>2. \A row \in DOMAIN output[t] : ~(it.row <= row /\ row < newIt.row)
    BY <1>1, <1>2, <2>1
  <2>3. newIt.row >= it.row /\ newIt.row + newIt.left = it.row + it.left
    BY <1>2, <2>1
  <2>4. /\ DOMAIN output' = Threads
        /\ \A u \in Threads \ {t} : output'[u] = output[u]
        /\ DOMAIN output'[t] = DOMAIN output[t]
        /\ \A row \in DOMAIN output[t] :
             output'[t][row] = IF it.row <= row /\ row < newIt.row
                               THEN Append(output[t][row],
                                           [row |-> row, level |-> CompleteLevel(call[t].job)])
                               ELSE output[t][row]
    BY <1>1, <2>1, <2>2
  <2> QED
    BY <1>3, <2>1, <2>3, <2>4, StoresOK DEF StoresRows
<1>5. CASE RunLastLevel(t, i)
  <2> DEFINE newIt == [it EXCEPT !.level = 0, !.row = it.row + 1, !.left = it.left - 1]
             levels == call[t].job.levels
  <2>1. /\ levels \in Nat \ {0, 1} /\ it.level = levels - 1
        /\ call[t].job.kind = "compositor"
    BY <1>1, <1>5 DEF RunLastLevel, JobType
  <2>2. it.left > 0 /\ memory[t][it.x] = [row |-> it.row, level |-> it.level]
    <3> HIDE DEF it, levels
    <3> QED
      BY <1>1, <1>2, <2>1 DEF ReadsItsOwn
  <2>3. newIt \in IterationType /\ newIt.row = it.row + 1 /\ newIt.left = it.left - 1
    <3>1. it.left - 1 \in Nat /\ it.row + 1 \in Nat
      BY <1>2, <2>2
    <3> QED
      BY <1>1, <3>1 DEF IterationType
  <2>4. iters' = [iters EXCEPT ![t] = [@ EXCEPT ![i] = newIt]]
    BY <1>1, <1>5 DEF RunLastLevel, IInv, TypeOK, AreFunctions, IterationType
  <2>5. ResultOf(memory[t][it.x]) = [row |-> it.row, level |-> CompleteLevel(call[t].job)]
    <3>1. ResultOf([row |-> it.row, level |-> it.level])
            = [row |-> it.row, level |-> it.level + 1]
      BY DEF ResultOf
    <3>2. it.level + 1 = CompleteLevel(call[t].job)
      BY <2>1 DEF CompleteLevel
    <3> QED
      BY <2>2, <3>1, <3>2
  <2>6. output' = [output EXCEPT ![t][it.row] =
                     Append(@, [row |-> it.row, level |-> CompleteLevel(call[t].job)])]
    BY <1>5, <2>5 DEF RunLastLevel
  <2>7. it.row \in DOMAIN output[t]
    <3> HIDE DEF it
    <3>1. it.row + it.left = WorkEnd(i, call[t].split)
      BY <1>1 DEF RangeProgress, it
    <3>2. call[t].job.rows \in Nat
      BY CallFacts
    <3> QED
      BY <1>1, <1>2, <2>2, <3>1, <3>2
  <2>8. /\ DOMAIN output' = Threads
        /\ \A u \in Threads \ {t} : output'[u] = output[u]
        /\ DOMAIN output'[t] = DOMAIN output[t]
        /\ \A row \in DOMAIN output[t] :
             output'[t][row] = IF row = it.row
                               THEN Append(output[t][row],
                                           [row |-> row, level |-> CompleteLevel(call[t].job)])
                               ELSE output[t][row]
    BY <1>1, <2>6
  <2>9. \A row \in DOMAIN output[t] : row = it.row <=> it.row <= row /\ row < newIt.row
    <3> HIDE DEF it, newIt
    <3> QED
      BY <1>1, <1>2, <2>3
  <2>10. newIt.row >= it.row /\ newIt.row + newIt.left = it.row + it.left
    <3> HIDE DEF it, newIt
    <3> QED
      BY <1>2, <2>3
  <2> HIDE DEF newIt
  <2>11. StoresRows(t, i, newIt)
    BY <1>3, <2>3, <2>4, <2>8, <2>9, <2>10 DEF StoresRows
  <2> QED
    BY <1>3, <2>3, <2>4, <2>8, <2>11, StoresOK
<1>6. CASE RunKernel(t, i)
  <2> DEFINE newIt == [it EXCEPT !.row = it.row + it.left, !.left = 0]
  <2>1. newIt \in IterationType /\ newIt.row = it.row + it.left /\ newIt.left = 0
    <3>1. it.row + it.left \in Nat
      BY <1>2
    <3> QED
      BY <1>1, <3>1 DEF IterationType
  <2>2. iters' = [iters EXCEPT ![t] = [@ EXCEPT ![i] = newIt]]
    <3>1. /\ it \in IterationType /\ AreFunctions
          /\ iters[t] \in [0..(call[t].split.threads - 1) -> IterationType]
      BY <1>1 DEF IInv, TypeOK
    <3> QED
      BY <1>6, <3>1 DEF RunKernel, AreFunctions, IterationType
  <2>3. \A row : ResultOf(InputOf(row)) = [row |-> row, level |-> CompleteLevel(call[t].job)]
    <3>1. CompleteLevel(call[t].job) = 1
      BY <1>6 DEF CompleteLevel, RunKernel
    <3>2. \A row : ResultOf(InputOf(row)) = [row |-> row, level |-> 1]
      BY DEF ResultOf, InputOf
    <3> QED
      BY <3>1, <3>2
  <2>4. /\ DOMAIN output' = Threads
        /\ \A u \in Threads \ {t} : output'[u] = output[u]
        /\ DOMAIN output'[t] = DOMAIN output[t]
        /\ \A row \in DOMAIN output[t] :
             output'[t][row] = IF it.row <= row /\ row < it.row + it.left
                               THEN Append(output[t][row], ResultOf(InputOf(row)))
                               ELSE output[t][row]
    BY <1>1, <1>6 DEF RunKernel
  <2>5. newIt.row >= it.row /\ newIt.row + newIt.left = it.row + it.left
    <3> HIDE DEF it, newIt
    <3> QED
      BY <1>2, <2>1
  <2> HIDE DEF newIt
  <2>6. /\ DOMAIN output' = Threads
        /\ \A u \in Threads \ {t} : output'[u] = output[u]
        /\ DOMAIN output'[t] = DOMAIN output[t]
        /\ \A row \in DOMAIN output[t] :
             output'[t][row] = IF it.row <= row /\ row < newIt.row
                               THEN Append(output[t][row],
                                           [row |-> row, level |-> CompleteLevel(call[t].job)])
                               ELSE output[t][row]
    BY <2>1, <2>3, <2>4
  <2>7. StoresRows(t, i, newIt)
    BY <2>2, <2>5, <2>6 DEF StoresRows
  <2> QED
    BY <1>3, <2>1, <2>7, StoresOK
<1> QED
  BY <1>4, <1>5, <1>6 DEF RunIteration

LEMMA ProgressStep == IInv /\ IInv' /\ Progress /\ [Next]_vars => Progress'
<1> SUFFICES ASSUME IInv, IInv', Progress, [Next]_vars PROVE Progress'
  OBVIOUS
<1>1. CASE Next
  <2>1. PICK t \in Threads :
          \/ SetNumThreads(t)
          \/ \E job \in JobsOf[t] : Execute(t, job)
          \/ RequestRead(t)
          \/ RequestUpdate(t)
          \/ \E i \in DOMAIN iters[t] : RunIteration(t, i)
          \/ Return(t)
    BY <1>1 DEF Next
  <2>0. call \in [Threads -> CallType]
    BY DEF IInv, TypeOK
  <2>2. CASE SetNumThreads(t)
    BY <2>2, ProgressElsewhere DEF SetNumThreads, Progress
  <2>3. CASE \E job \in JobsOf[t] : Execute(t, job)
    BY <2>3, ProgressExecute
  <2>4. CASE RequestRead(t) \/ RequestUpdate(t)
    <3>1. /\ UNCHANGED <<iters, output>>
          /\ \A u \in Threads :
               /\ call'[u].job = call[u].job /\ call'[u].split = call[u].split
               /\ call'[u].pc = "returned" => call[u].pc = "returned"
      BY <2>0, <2>4 DEF RequestRead, RequestUpdate, CallType
    <3> QED
      BY <3>1, ProgressElsewhere DEF Progress
  <2>5. CASE \E i \in DOMAIN iters[t] : RunIteration(t, i)
    BY <2>5, ProgressIteration
  <2>6. CASE Return(t)
    <3>1. /\ UNCHANGED <<iters, output>> /\ Finished(t)
          /\ \A u \in Threads :
               /\ call'[u].job = call[u].job /\ call'[u].split = call[u].split
               /\ u # t => call'[u].pc = call[u].pc
      BY <2>0, <2>6 DEF Return, CallType
    <3> QED
      BY <3>1, ProgressElsewhere DEF Progress
  <2> QED
    BY <2>1, <2>2, <2>3, <2>4, <2>5, <2>6
<1>2. CASE UNCHANGED vars
  BY <1>2, ProgressElsewhere DEF vars, Progress
<1> QED
  BY <1>1, <1>2

(* When an execution returns, every row of it was stored by exactly one    *)
(* iteration, once, after all the levels of the composition: the split     *)
(* loses no row and gives none to two iterations, for every number of      *)
(* rows, interleave factor and number of threads (plfft_parallel.hpp:92-   *)
(* 160, exec_compositor.cpp:22-56).                                        *)
THEOREM RowsAreStoredOnce == Spec => []ReturnedComplete
<1>1. IInv /\ Progress => ReturnedComplete
  <2> SUFFICES ASSUME IInv, Progress, NEW t \in Threads, call[t].pc = "returned",
                      NEW row \in DOMAIN output[t]
               PROVE  output[t][row] = CompleteRow(row, call[t].job)
    BY DEF ReturnedComplete, CompleteRow, CompleteLevel
  <2> QED
    BY FinishedIsComplete DEF Progress
<1>2. Init => Progress
  BY ProgressInit
<1>3. IInv /\ IInv' /\ Progress /\ [Next]_vars => Progress'
  BY ProgressStep
<1> QED
  BY <1>1, <1>2, <1>3, Invariance, PTL DEF Spec

-----------------------------------------------------------------------------
(* The size of the thread pool, when the updates of max_threads cross.     *)

(* A parallel region of the thread is running: it is the next value of its *)
(* pool.                                                                   *)
InRegion(t) == call[t].pc = "loop" /\ call[t].split.threads > 1

(* Unless another thread undid a larger maximum since, max_threads is at   *)
(* least the size of the region a thread runs, or else of its last one,    *)
(* which is at most what OpenMP makes available; a request about to raise  *)
(* it asks for more than it read.                                          *)
PoolInvOf(t) ==
  /\ pool[t] <= available[t]
  /\ ~InRegion(t) => lost[t] \/ pool[t] <= maxThreads
  /\ InRegion(t) => lost[t] \/ call[t].spawn <= maxThreads
  /\ call[t].pc = "update" =>
       /\ call[t].split.threads > call[t].currentMax
       /\ lost[t] \/ pool[t] <= call[t].split.threads

PoolInv == \A t \in Threads : PoolInvOf(t)

LEMMA ThreadFacts ==
  ASSUME IInv, NEW t \in Threads
  PROVE  /\ maxThreads \in Nat \ {0} /\ available[t] \in Nat \ {0} /\ pool[t] \in Nat
         /\ lost[t] \in BOOLEAN /\ call[t].currentMax \in Nat
         /\ call[t].split.threads \in Nat \ {0} /\ call[t].slots \in Nat \ {0}
         /\ call[t].spawn \in Nat \ {0}
         /\ call[t].split.threads <= call[t].slots
         /\ call[t].pc # "returned" => call[t].slots <= available[t]
<1>1. /\ maxThreads \in Nat \ {0} /\ available[t] \in Nat \ {0} /\ pool[t] \in Nat
      /\ lost[t] \in BOOLEAN /\ call[t] \in CallType
  BY ParallelAssumption DEF IInv, TypeOK
<1>2. /\ call[t].job.rows \in Nat /\ call[t].job.interleave \in Nat \ {0}
      /\ call[t].slots \in Nat \ {0} /\ call[t].spawn \in Nat \ {0}
      /\ call[t].split \in SplitType /\ call[t].currentMax \in Nat
  BY <1>1 DEF CallType, JobType
<1>3. /\ call[t].split = MakeParallelSplit(call[t].job.rows, call[t].job.interleave,
                                           call[t].slots)
      /\ call[t].pc # "returned" => call[t].slots <= available[t]
  BY DEF IInv, SplitIsCurrent
<1>4. call[t].split.threads \in 1..call[t].slots
  BY <1>2, <1>3, SplitThreads
<1> QED
  BY <1>1, <1>2, <1>3, <1>4

(* What a thread does changes the pool of another only through             *)
(* max_threads, and a step that lowers max_threads marks the other thread. *)
LEMMA PoolOfOthers ==
  ASSUME IInv, PoolInv, NEW t \in Threads, NEW u \in Threads, u # t,
         call'[u] = call[u], pool'[u] = pool[u], available'[u] = available[u],
         lost[u] => lost'[u], maxThreads' < maxThreads => lost'[u], maxThreads' \in Nat
  PROVE  PoolInvOf(u)'
<1>1. /\ maxThreads \in Nat /\ pool[u] \in Nat /\ call[u].spawn \in Nat
      /\ PoolInvOf(u)
  BY ThreadFacts DEF PoolInv
<1>2. maxThreads' < maxThreads \/ maxThreads <= maxThreads'
  BY <1>1
<1>3. ASSUME NEW n \in Nat, lost[u] \/ n <= maxThreads
      PROVE  lost'[u] \/ n <= maxThreads'
  BY <1>1, <1>2, <1>3
<1>4. InRegion(u)' <=> InRegion(u)
  BY DEF InRegion
<1> QED
  BY <1>1, <1>3, <1>4 DEF PoolInvOf

LEMMA PoolStep ==
  ASSUME IInv, IInv', PoolInv, NEW t \in Threads,
         \/ SetNumThreads(t)
         \/ \E job \in JobsOf[t] : Execute(t, job)
         \/ RequestRead(t)
         \/ RequestUpdate(t)
         \/ \E i \in DOMAIN iters[t] : RunIteration(t, i)
         \/ Return(t)
  PROVE  PoolInv' /\ (EntersRegion(t) => call'[t].spawn >= pool[t] \/ lost[t])
<1> DEFINE Goal == EntersRegion(t) => call'[t].spawn >= pool[t] \/ lost[t]
<1>1. /\ available \in [Threads -> ThreadCounts] /\ call \in [Threads -> CallType]
      /\ pool \in [Threads -> Nat] /\ lost \in [Threads -> BOOLEAN]
      /\ maxThreads \in Nat /\ maxThreads' \in Nat
  BY DEF IInv, TypeOK
<1>2. PoolInvOf(t)
  BY DEF PoolInv
<1>3. ASSUME PoolInvOf(t)', Goal,
             \A u \in Threads \ {t} :
               /\ call'[u] = call[u] /\ pool'[u] = pool[u] /\ available'[u] = available[u]
               /\ lost[u] => lost'[u]
               /\ maxThreads' < maxThreads => lost'[u]
      PROVE  PoolInv' /\ Goal
  <2>1. ASSUME NEW u \in Threads PROVE PoolInvOf(u)'
    BY <1>1, <1>3, <2>1, PoolOfOthers
  <2> QED
    BY <1>3, <2>1 DEF PoolInv
<1>4. CASE SetNumThreads(t)
  <2>1. /\ maxThreads' = maxThreads /\ call' = call /\ pool'[t] = 0 /\ lost' = lost
        /\ available'[t] \in ThreadCounts /\ call[t].pc = "returned"
        /\ \A u \in Threads \ {t} : pool'[u] = pool[u] /\ available'[u] = available[u]
    BY <1>1, <1>4 DEF SetNumThreads
  <2>2. available'[t] \in Nat
    BY <2>1, ParallelAssumption
  <2>3. PoolInvOf(t)' /\ Goal
    BY <1>1, <2>1, <2>2 DEF PoolInvOf, InRegion, EntersRegion
  <2> QED
    BY <1>1, <1>3, <2>1, <2>3
<1>5. CASE \E job \in JobsOf[t] : Execute(t, job)
  <2> PICK job \in JobsOf[t] : Execute(t, job)
    BY <1>5
  <2> DEFINE split == MakeParallelSplit(job.rows, job.interleave, WantedThreads(t, job))
  <2>1. /\ UNCHANGED <<maxThreads, available, pool, lost>> /\ call'[t].split = split
        /\ call'[t].pc = IF split.threads > 1 THEN "request" ELSE "loop"
        /\ call[t].pc = "returned" /\ \A u \in Threads \ {t} : call'[u] = call[u]
    BY <1>1 DEF Execute
  <2> HIDE DEF split
  <2>2. PoolInvOf(t)' /\ Goal
    BY <1>2, <2>1 DEF PoolInvOf, InRegion, EntersRegion
  <2> QED
    BY <1>1, <1>3, <2>1, <2>2
<1>6. CASE RequestRead(t)
  <2>1. /\ UNCHANGED <<maxThreads, available, pool>> /\ call'[t].split = call[t].split
        /\ call'[t].currentMax = maxThreads /\ call[t].pc = "request"
        /\ call'[t].pc = IF call[t].split.threads <= maxThreads THEN "loop" ELSE "update"
        /\ call[t].split.threads <= maxThreads =>
             call'[t].spawn = BoundedGetMaxThreads(t, maxThreads)
        /\ lost'[t] = (lost[t] /\ ~(call[t].split.threads <= maxThreads))
        /\ \A u \in Threads \ {t} : call'[u] = call[u] /\ lost'[u] = lost[u]
    BY <1>1, <1>6 DEF RequestRead, CallType
  <2>2. /\ pool[t] \in Nat /\ maxThreads \in Nat \ {0} /\ available[t] \in Nat \ {0}
        /\ call[t].split.threads \in Nat
    BY ThreadFacts
  <2>3. /\ pool[t] <= available[t] /\ (lost[t] \/ pool[t] <= maxThreads)
    BY <1>2, <2>1 DEF PoolInvOf, InRegion
  <2>4. CASE call[t].split.threads <= maxThreads
    <3>1. /\ call'[t].spawn \in Nat /\ call'[t].spawn <= maxThreads
          /\ lost[t] \/ call'[t].spawn >= pool[t]
      BY <2>1, <2>2, <2>3, <2>4 DEF BoundedGetMaxThreads
    <3>2. PoolInvOf(t)'
      <4>1. /\ pool'[t] <= available'[t] /\ call'[t].pc = "loop"
            /\ call'[t].spawn <= maxThreads' /\ call'[t].split = call[t].split
        BY <2>1, <2>3, <2>4, <3>1
      <4>2. ~InRegion(t)' => lost'[t] \/ pool'[t] <= maxThreads'
        <5>1. call[t].split.threads > 1
          BY <2>1 DEF IInv, SplitIsCurrent
        <5> QED
          BY <4>1, <5>1 DEF InRegion
      <4> QED
        BY <4>1, <4>2 DEF PoolInvOf
    <3>3. Goal
      BY <3>1
    <3> QED
      BY <1>1, <1>3, <2>1, <3>2, <3>3
  <2>5. CASE ~(call[t].split.threads <= maxThreads)
    <3>0. lost'[t] <=> lost[t]
      BY <2>1, <2>5, Zenon
    <3>1. /\ call'[t].pc = "update" /\ call'[t].split = call[t].split
          /\ call[t].split.threads > maxThreads
      BY <2>1, <2>2, <2>5
    <3>2. lost[t] \/ pool[t] <= call[t].split.threads
      BY <2>2, <2>3, <3>1
    <3>3. PoolInvOf(t)'
      BY <2>1, <2>3, <3>0, <3>1, <3>2 DEF PoolInvOf, InRegion
    <3>4. Goal
      BY <3>1 DEF EntersRegion
    <3> QED
      BY <1>1, <1>3, <2>1, <3>3, <3>4
  <2> QED
    BY <2>4, <2>5
<1>7. CASE RequestUpdate(t)
  <2> DEFINE max == BoundedGetMaxThreads(t, call[t].split.threads)
  <2>1. /\ UNCHANGED <<available, pool>> /\ maxThreads' = max /\ lost' = LostBy(t, max)
        /\ call'[t].split = call[t].split /\ call'[t].pc = "loop" /\ call'[t].spawn = max
        /\ call[t].pc = "update" /\ \A u \in Threads \ {t} : call'[u] = call[u]
    BY <1>1, <1>7 DEF RequestUpdate, CallType
  <2>2. /\ pool[t] \in Nat /\ call[t].split.threads \in Nat \ {0}
        /\ call[t].currentMax \in Nat /\ available[t] \in Nat
        /\ call[t].split.threads <= call[t].slots /\ call[t].slots <= available[t]
        /\ call[t].slots \in Nat
    BY <2>1, ThreadFacts
  <2>3. /\ call[t].split.threads > call[t].currentMax
        /\ lost[t] \/ pool[t] <= call[t].split.threads
        /\ pool[t] <= available[t]
    BY <1>2, <2>1 DEF PoolInvOf
  <2>4. max = call[t].split.threads
    BY <2>2 DEF BoundedGetMaxThreads
  <2> HIDE DEF max
  <2>5. max < maxThreads => call[t].currentMax # maxThreads
    BY <1>1, <2>2, <2>3, <2>4
  <2>6. \A u \in Threads \ {t} :
          (lost[u] => lost'[u]) /\ (maxThreads' < maxThreads => lost'[u])
    BY <2>1, <2>5 DEF LostBy
  <2>7. PoolInvOf(t)'
    <3>1. call[t].split.threads > 1
      BY <2>1 DEF IInv, SplitIsCurrent
    <3>2. /\ pool'[t] <= available'[t] /\ call'[t].spawn <= maxThreads'
          /\ call'[t].split.threads > 1 /\ call'[t].pc = "loop"
      BY <2>1, <2>2, <2>3, <2>4, <3>1
    <3> QED
      BY <3>2 DEF PoolInvOf, InRegion
  <2>8. Goal
    BY <2>1, <2>2, <2>3, <2>4
  <2> QED
    BY <1>3, <2>1, <2>6, <2>7, <2>8
<1>8. CASE \E i \in DOMAIN iters[t] : RunIteration(t, i)
  <2>1. UNCHANGED <<maxThreads, available, call, pool, lost>>
    BY <1>8 DEF RunIteration, RunFirstLevel, RunMiddleLevel, RunLastLevel, RunKernel
  <2>2. PoolInvOf(t)' /\ Goal
    BY <1>2, <2>1 DEF PoolInvOf, InRegion, EntersRegion
  <2> QED
    BY <1>1, <1>3, <2>1, <2>2
<1>9. CASE Return(t)
  <2>1. /\ UNCHANGED <<maxThreads, available, lost>> /\ call'[t].pc = "returned"
        /\ pool'[t] = IF call[t].split.threads > 1 THEN call[t].spawn ELSE pool[t]
        /\ call[t].pc = "loop"
        /\ \A u \in Threads \ {t} : call'[u] = call[u] /\ pool'[u] = pool[u]
    BY <1>1, <1>9 DEF Return, CallType
  <2>2. call[t].spawn <= available[t]
    BY <2>1 DEF IInv, SplitIsCurrent
  <2>3. PoolInvOf(t)' /\ Goal
    BY <1>2, <2>1, <2>2 DEF PoolInvOf, InRegion, EntersRegion
  <2> QED
    BY <1>1, <1>3, <2>1, <2>3
<1> QED
  BY <1>4, <1>5, <1>6, <1>7, <1>8, <1>9

(* A parallel region never asks OpenMP for fewer threads than the one      *)
(* before it in the same thread, unless another thread's update of         *)
(* max_threads undid a larger one it had crossed: for every number of      *)
(* application threads, the maximum grows with the requests and is never   *)
(* more than what is available (plfft_parallel.hpp:16-53).                 *)
THEOREM OnlyLostUpdatesShrinkThePool == Spec => PoolShrinksOnlyByLostUpdate
<1>1. Init => PoolInv
  <2> SUFFICES ASSUME Init, NEW t \in Threads PROVE PoolInvOf(t)
    BY DEF PoolInv
  <2>1. call[t] = NoCall /\ pool[t] = 0 /\ maxThreads = 1 /\ available[t] \in ThreadCounts
    BY DEF Init
  <2>2. available[t] \in Nat /\ NoCall.pc = "returned"
    BY <2>1, ParallelAssumption DEF NoCall
  <2> QED
    BY <2>1, <2>2 DEF PoolInvOf, InRegion
<1>2. IInv /\ IInv' /\ PoolInv /\ [Next]_vars => PoolInv'
  <2> SUFFICES ASSUME IInv, IInv', PoolInv, [Next]_vars PROVE PoolInv'
    OBVIOUS
  <2>1. CASE Next
    BY <2>1, PoolStep DEF Next
  <2>2. CASE UNCHANGED vars
    BY <2>2 DEF PoolInv, PoolInvOf, InRegion, vars
  <2> QED
    BY <2>1, <2>2
<1>3. IInv /\ IInv' /\ PoolInv /\ [Next]_vars =>
        [\A t \in Threads : EntersRegion(t) => call'[t].spawn >= pool[t] \/ lost[t]]_vars
  <2> SUFFICES ASSUME IInv, IInv', PoolInv, Next, NEW t \in Threads, EntersRegion(t)
               PROVE  call'[t].spawn >= pool[t] \/ lost[t]
    OBVIOUS
  <2>1. PICK u \in Threads :
          \/ SetNumThreads(u)
          \/ \E job \in JobsOf[u] : Execute(u, job)
          \/ RequestRead(u)
          \/ RequestUpdate(u)
          \/ \E i \in DOMAIN iters[u] : RunIteration(u, i)
          \/ Return(u)
    BY DEF Next
  <2>2. u = t
    <3>1. u # t => call'[t] = call[t]
      BY <2>1 DEF SetNumThreads, Execute, RequestRead, RequestUpdate, Return,
                  RunIteration, RunFirstLevel, RunMiddleLevel, RunLastLevel, RunKernel,
                  IInv, TypeOK
    <3> QED
      BY <3>1 DEF EntersRegion
  <2> QED
    BY <2>1, <2>2, PoolStep
<1> QED
  BY <1>1, <1>2, <1>3, Invariance, PTL DEF Spec, PoolShrinksOnlyByLostUpdate

=============================================================================
