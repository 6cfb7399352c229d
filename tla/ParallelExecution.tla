--------------------------- MODULE ParallelExecution ---------------------------
(***************************************************************************)
(* Parallel execution of PLFFT plans in an OpenMP build: several threads   *)
(* of the application execute plans at once; each execution splits its     *)
(* rows (ParallelSplit), asks the process-wide parallel_state how many     *)
(* threads to spawn, and runs the iterations of its loop in the order and  *)
(* overlap OpenMP pleases (the schedule is the implementation's).          *)
(*                                                                         *)
(* A job is either the execution of a composition of levels, whose rows    *)
(* are whole transforms that bounce between the two halves of the          *)
(* compositor buffer of the calling thread (exec_compositor.cpp), or of    *)
(* one parallel level (level_ab_n, level_ab_t, level_ac_t, level_abx_t)    *)
(* or batched plan, one kernel call per iteration.                         *)
(*                                                                         *)
(* The unsynchronised read and write of max_threads are two steps of an    *)
(* aligned int: a value may be stale when used, but is one that was        *)
(* written.                                                                *)
(***************************************************************************)
EXTENDS ParallelSplit, FiniteSets, Sequences

CONSTANTS
  Threads,       (* threads of the application                             *)
  ThreadCounts,  (* what omp_set_num_threads may be called with            *)
  JobsOf,        (* what each thread executes, as sets of                  *)
                 (* [kind, rows, interleave, levels, large]                *)
  MaxCalls       (* bound: executions by each thread                       *)

JobType ==
  [kind : {"compositor", "level"}, rows : Nat, interleave : Nat \ {0},
   levels : Nat \ {0, 1}, large : BOOLEAN]

ASSUME ParallelAssumption ==
  /\ ThreadCounts \subseteq Nat \ {0} /\ ThreadCounts # {}
  /\ JobsOf \in [Threads -> SUBSET JobType]
  /\ MaxCalls \in Nat

VARIABLES
  maxThreads,  (* parallel_state.max_threads                               *)
  available,   (* what omp_get_max_threads() answers each thread           *)
  call,        (* the execution of each thread                             *)
  iters,       (* the iterations of its loop: [row, left, level, x, y]     *)
  memory,      (* its compositor buffer, in slots of one transform         *)
  output,      (* the values stored in each of its rows                    *)
  calls,       (* executions begun by each thread                          *)
  pool,        (* history: threads in its last parallel region since the   *)
               (* application set their number, the size of OpenMP's pool  *)
  lost         (* history: since the last request of the thread was        *)
               (* answered, the update of another one undid a larger       *)
               (* maximum that it had not read                             *)

vars == <<maxThreads, available, call, iters, memory, output, calls, pool, lost>>

-----------------------------------------------------------------------------

(* A value: the row it belongs to, and the levels applied to it.           *)
Nothing == [row |-> -1, level |-> 0]
InputOf(row) == [row |-> row, level |-> 0]
ResultOf(value) == [value EXCEPT !.level = @ + 1]

(* A thread that has executed nothing yet: as after a job without rows.    *)
NoJob == [kind |-> "level", rows |-> 0, interleave |-> 1, levels |-> 2, large |-> FALSE]
NoCall == [pc |-> "returned", job |-> NoJob, slots |-> 1,
           split |-> MakeParallelSplit(0, 1, 1), currentMax |-> 1, spawn |-> 1]

(* How many iterations execute() asks for.                                 *)
WantedThreads(t, job) ==
  IF (job.kind = "compositor" /\ job.rows = 1) \/ ~job.large THEN 1 ELSE available[t]

BoundedGetMaxThreads(t, max) ==
  IF max <= 1 THEN 1 ELSE IF max < available[t] THEN max ELSE available[t]

(* Seeded fault: the second half of the buffer begins after one transform. *)
FirstIteration_HalfAtOne(i, split, slots) ==
  [row |-> WorkStart(i, split), left |-> WorkCount(i, split), level |-> 0,
   x |-> i, y |-> 1 + i]

(* Iteration i of a loop: its first row, and its slot in each half.        *)
FirstIteration(i, split, slots) ==
  [row |-> WorkStart(i, split), left |-> WorkCount(i, split), level |-> 0,
   x |-> i, y |-> slots + i]

(* get_memory(compositor, n * 2 * nt), in slots of n elements.             *)
BufferSlots(slots) == 0..(2 * slots - 1)

Finished(t) == \A i \in DOMAIN iters[t] : iters[t][i].left = 0

Init ==
  /\ maxThreads = 1
  /\ available \in [Threads -> ThreadCounts]
  /\ call = [t \in Threads |-> NoCall]
  /\ iters = [t \in Threads |-> [i \in 0..0 |-> FirstIteration(i, NoCall.split, 1)]]
  /\ memory = [t \in Threads |-> [s \in BufferSlots(1) |-> Nothing]]
  /\ output = [t \in Threads |-> << >>]
  /\ calls = [t \in Threads |-> 0]
  /\ pool = [t \in Threads |-> 0]
  /\ lost = [t \in Threads |-> FALSE]

(* The application changes the number of threads between executions.       *)
SetNumThreads(t) ==
  /\ call[t].pc = "returned"
  /\ \E n \in ThreadCounts : available' = [available EXCEPT ![t] = n]
  /\ pool' = [pool EXCEPT ![t] = 0]
  /\ UNCHANGED <<maxThreads, call, iters, memory, output, calls, lost>>

(* execute(): make_parallel_split, then the loop.  A loop of a single      *)
(* iteration asks parallel_state for nothing.                              *)
Execute(t, job) ==
  LET slots == WantedThreads(t, job)
      split == MakeParallelSplit(job.rows, job.interleave, slots)
  IN  /\ call[t].pc = "returned" /\ calls[t] < MaxCalls
      /\ call' = [call EXCEPT ![t] =
           [pc |-> IF split.threads > 1 THEN "request" ELSE "loop", job |-> job,
            slots |-> slots, split |-> split, currentMax |-> 1, spawn |-> 1]]
      /\ iters' = [iters EXCEPT ![t] =
           [i \in 0..(split.threads - 1) |-> FirstIteration(i, split, slots)]]
      /\ memory' = [memory EXCEPT ![t] = [s \in BufferSlots(slots) |-> Nothing]]
      /\ output' = [output EXCEPT ![t] = [row \in 0..(job.rows - 1) |-> << >>]]
      /\ calls' = [calls EXCEPT ![t] = @ + 1]
      /\ UNCHANGED <<maxThreads, available, pool, lost>>

(* Seeded fault: without the local copy, max_threads is read once for the  *)
(* test and again for the answer.                                          *)
RequestRead_NoLocalCopy(t) ==
  LET tested == call[t].currentMax >= call[t].split.threads
      enough == call[t].split.threads <= maxThreads
  IN  /\ call[t].pc = "request"
      /\ call' = [call EXCEPT ![t].currentMax = IF tested THEN @ ELSE maxThreads,
                              ![t].pc = IF tested THEN "loop"
                                        ELSE IF enough THEN @ ELSE "update",
                              ![t].spawn = IF tested THEN BoundedGetMaxThreads(t, maxThreads)
                                           ELSE @]
      /\ lost' = [lost EXCEPT ![t] = @ /\ ~tested]
      /\ UNCHANGED <<maxThreads, available, iters, memory, output, calls, pool>>

(* parallel_state.request, up to the test of its copy of max_threads; the  *)
(* copy is also the answer when it is large enough.                        *)
RequestRead(t) ==
  LET enough == call[t].split.threads <= maxThreads
  IN  /\ call[t].pc = "request"
      /\ call' = [call EXCEPT ![t].currentMax = maxThreads,
                              ![t].pc = IF enough THEN "loop" ELSE "update",
                              ![t].spawn = IF enough THEN BoundedGetMaxThreads(t, maxThreads)
                                           ELSE @]
      /\ lost' = [lost EXCEPT ![t] = @ /\ ~enough]
      /\ UNCHANGED <<maxThreads, available, iters, memory, output, calls, pool>>

(* An update that lowers a maximum it has not read loses the update that   *)
(* raised it, for every other thread; the answer to t is a new start.      *)
LostBy(t, newMax) ==
  [u \in Threads |->
     u # t /\ (lost[u] \/ (newMax < maxThreads /\ call[t].currentMax # maxThreads))]

(* Seeded fault: the new maximum is not remembered.                        *)
RequestUpdate_Forgets(t) ==
  /\ call[t].pc = "update"
  /\ call' = [call EXCEPT ![t].pc = "loop",
                          ![t].spawn = BoundedGetMaxThreads(t, call[t].split.threads)]
  /\ lost' = [lost EXCEPT ![t] = FALSE]
  /\ UNCHANGED <<maxThreads, available, iters, memory, output, calls, pool>>

(* The rest of it: a larger request becomes the new maximum.               *)
RequestUpdate(t) ==
  LET newMax == BoundedGetMaxThreads(t, call[t].split.threads)
  IN  /\ call[t].pc = "update"
      /\ maxThreads' = newMax
      /\ call' = [call EXCEPT ![t].pc = "loop", ![t].spawn = newMax]
      /\ lost' = LostBy(t, newMax)
      /\ UNCHANGED <<available, iters, memory, output, calls, pool>>

(* Seeded fault: the swap of the pointers after the first level is missing.*)
RunFirstLevel_NoSwap(t, i) ==
  LET it == iters[t][i]
  IN  /\ call[t].pc = "loop" /\ call[t].job.kind = "compositor"
      /\ it.left > 0 /\ it.level = 0
      /\ memory' = [memory EXCEPT ![t][it.y] = ResultOf(InputOf(it.row))]
      /\ iters' = [iters EXCEPT ![t][i].level = 1]
      /\ UNCHANGED <<maxThreads, available, call, output, calls, pool, lost>>

(* The levels of a composition on one row: the first reads the input, the  *)
(* last writes the output, the others go from one half to the other.       *)
RunFirstLevel(t, i) ==
  LET it == iters[t][i]
  IN  /\ call[t].pc = "loop" /\ call[t].job.kind = "compositor"
      /\ it.left > 0 /\ it.level = 0
      /\ memory' = [memory EXCEPT ![t][it.y] = ResultOf(InputOf(it.row))]
      /\ iters' = [iters EXCEPT ![t][i].level = 1, ![t][i].x = it.y, ![t][i].y = it.x]
      /\ UNCHANGED <<maxThreads, available, call, output, calls, pool, lost>>

RunMiddleLevel(t, i) ==
  LET it == iters[t][i]
  IN  /\ call[t].pc = "loop" /\ call[t].job.kind = "compositor"
      /\ it.level \in 1..(call[t].job.levels - 2)
      /\ memory' = [memory EXCEPT ![t][it.y] = ResultOf(memory[t][it.x])]
      /\ iters' = [iters EXCEPT ![t][i].level = @ + 1, ![t][i].x = it.y, ![t][i].y = it.x]
      /\ UNCHANGED <<maxThreads, available, call, output, calls, pool, lost>>

RunLastLevel(t, i) ==
  LET it == iters[t][i]
  IN  /\ call[t].pc = "loop" /\ call[t].job.kind = "compositor"
      /\ it.level = call[t].job.levels - 1
      /\ output' = [output EXCEPT ![t][it.row] = Append(@, ResultOf(memory[t][it.x]))]
      /\ iters' = [iters EXCEPT ![t][i].level = 0, ![t][i].row = @ + 1, ![t][i].left = @ - 1]
      /\ UNCHANGED <<maxThreads, available, call, memory, calls, pool, lost>>

(* The kernel call of one iteration of a level: all its rows.              *)
RunKernel(t, i) ==
  LET it == iters[t][i]
  IN  /\ call[t].pc = "loop" /\ call[t].job.kind = "level" /\ it.left > 0
      /\ output' = [output EXCEPT ![t] =
           [row \in DOMAIN @ |-> IF it.row <= row /\ row < it.row + it.left
                                 THEN Append(@[row], ResultOf(InputOf(row)))
                                 ELSE @[row]]]
      /\ iters' = [iters EXCEPT ![t][i].row = @ + it.left, ![t][i].left = 0]
      /\ UNCHANGED <<maxThreads, available, call, memory, calls, pool, lost>>

(* The join at the end of the parallel region; the locals of request and   *)
(* parallel_loop are gone.                                                 *)
Return(t) ==
  /\ call[t].pc = "loop" /\ Finished(t)
  /\ call' = [call EXCEPT ![t].pc = "returned", ![t].currentMax = 1, ![t].spawn = 1]
  /\ pool' = [pool EXCEPT ![t] = IF call[t].split.threads > 1 THEN call[t].spawn ELSE @]
  /\ UNCHANGED <<maxThreads, available, iters, memory, output, calls, lost>>

RunIteration(t, i) ==
  RunFirstLevel(t, i) \/ RunMiddleLevel(t, i) \/ RunLastLevel(t, i) \/ RunKernel(t, i)

Next ==
  \E t \in Threads :
    \/ SetNumThreads(t)
    \/ \E job \in JobsOf[t] : Execute(t, job)
    \/ RequestRead(t)
    \/ RequestUpdate(t)
    \/ \E i \in DOMAIN iters[t] : RunIteration(t, i)
    \/ Return(t)

Spec == Init /\ [][Next]_vars

-----------------------------------------------------------------------------
(* Properties.                                                             *)

SplitType ==
  [threads : Nat \ {0}, workPerThread : Nat, totalWork : Nat, modifier : {0, 1},
   modifiedThreads : Nat, rows : Nat]
CallType ==
  [pc : {"request", "update", "loop", "returned"}, job : JobType,
   slots : Nat \ {0}, split : SplitType, currentMax : Nat \ {0}, spawn : Nat \ {0}]
IterationType == [row : Nat, left : Nat, level : Nat, x : Nat, y : Nat]

TypeOK ==
  /\ maxThreads \in Nat \ {0}
  /\ available \in [Threads -> ThreadCounts]
  /\ call \in [Threads -> CallType]
  /\ \A t \in Threads : iters[t] \in [0..(call[t].split.threads - 1) -> IterationType]
  /\ \A t \in Threads :
       memory[t] \in [BufferSlots(call[t].slots) -> [row : Int, level : Nat]]
  /\ calls \in [Threads -> Nat] /\ pool \in [Threads -> Nat]
  /\ lost \in [Threads -> BOOLEAN]

(* The number of threads spawned lies in [nt, omp_get_max_threads()],      *)
(* whatever the race on max_threads left in it: "our bounds checks ensures *)
(* that the returned value lies in the range" (plfft_parallel.hpp:36).     *)
RequestInRange ==
  \A t \in Threads :
    call[t].pc = "loop" =>
      call[t].split.threads <= call[t].spawn /\ call[t].spawn <= available[t]

(* Iterations of a loop never touch the same half-buffer slot, and none    *)
(* leaves the allocated buffer: no intermediate of one transform is        *)
(* overwritten by another thread's.                                        *)
SlotsArePrivate ==
  \A t \in Threads : \A i, j \in DOMAIN iters[t] :
    LET a == iters[t][i]
        b == iters[t][j]
    IN  /\ {a.x, a.y} \subseteq DOMAIN memory[t] /\ a.x # a.y
        /\ i # j => {a.x, a.y} \cap {b.x, b.y} = {}

(* A level finds, where it reads, what the previous level left there of    *)
(* the same transform.                                                     *)
LevelsReadTheirInput ==
  \A t \in Threads : \A i \in DOMAIN iters[t] :
    LET it == iters[t][i]
    IN  it.level > 0 => memory[t][it.x] = [row |-> it.row, level |-> it.level]

(* When an execution returns, every row was stored exactly once, and is    *)
(* its own transform, complete.                                            *)
ReturnedComplete ==
  \A t \in Threads :
    call[t].pc = "returned" =>
      \A row \in DOMAIN output[t] :
        output[t][row] =
          << [row |-> row, level |-> IF call[t].job.kind = "level"
                                     THEN 1 ELSE call[t].job.levels] >>

(* A parallel region spawns fewer threads than the one before it, although *)
(* the application left its thread count alone, only after another thread  *)
(* undid an update of max_threads that it crossed; otherwise the request   *)
(* never shrinks ("so that the OpenMP runtime never shrinks the thread     *)
(* pool", plfft_parallel.hpp:19; "not thread safe", :34).                  *)
EntersRegion(t) ==
  call[t].pc # "loop" /\ call'[t].pc = "loop" /\ call'[t].split.threads > 1

PoolShrinksOnlyByLostUpdate ==
  [][\A t \in Threads : EntersRegion(t) => call'[t].spawn >= pool[t] \/ lost[t]]_vars

=============================================================================
