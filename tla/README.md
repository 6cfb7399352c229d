# A verification development of PLFFT

PLFFT computes discrete Fourier transforms on Arm processors. An application
describes a transform, asks for a *plan* (`plfft_plan_create*`), executes it as
often as it likes from as many threads as it likes (`plfft_plan_execute`), and
destroys it. The TLA+ modules of this directory are about everything between the
call and the instructions of a kernel: how a plan is searched for and remembered,
what the chosen tree of plans or levels does with its pointers, strides, twiddle
tables and permutations, who owns the memory it works in, how rows are given to
threads, how long shared tables live, and how the assembler that generates
kernels allocates registers. Kernels themselves are taken for what their names
say, whole transforms; what they read and write is modelled.

Paths below are relative to `src/src/` unless they start with `src/`.

## 1. Inventory

| Part (source) | State it keeps | Operations | Interacts with | What makes it correct |
|---|---|---|---|---|
| Public API (`plfft.cpp`, `src/include/plfft.h`) | configuration, plan handle | create, set, plan, execute, destroy | chooses a planner; plans are executed from any thread | `PLFFT_OK` exactly with a plan that serves the configuration; an execution writes the transform of its input and nothing else |
| New planner (`planner/*`) | wisdom table, policy, deadline, recursion | `make_plan`, `lookup`, `update`, `measure` | strategies call it back for sub-plans; benchmarks execute candidates | it ends; what can be planned does not depend on the clock; wisdom rebuilds what it stands for; every plan computes its problem |
| Plans of the strategies (`planner/strategies/*`) | tables made at planning time | `execute` of every plan class | kernels, buffers, twiddle tables | the tree is equal to the transform, for every kind, stride and batch |
| Benchmarker (`planner/benchmarker.*`, `plfft_statistics.*`) | deadline, running statistics | `measure`, `timed_out` | planner | stops at the deadline; compares means |
| Legacy planner (`compositor.cpp`, `factorize.hpp`, `make_level_data.hpp`) | kept composition, candidate, permutation | `composite_init`, `audition_perms`, `factorize_square`, `factorize_descending` | kernel lists of the provider; recursion through Rader and Bluestein | success is determined by the length; what is adopted is what was measured |
| Levels (`level_*.cpp`, `rader.cpp`, `bluestein.cpp`, `exec_compositor.cpp`) | twiddle pointers, strides | `execute` of every level | kernels, the split of rows | every composition is equal to the transform, in whatever order its levels come |
| Composition execution (`exec_compositor.cpp`, `plfft_parallel.hpp`) | `max_threads`, halves of one buffer | `execute`, `request`, `make_parallel_split`, `work_distribution` | OpenMP; compositor buffer | every row once, from its own input; workers do not share slots |
| Plan execution (`fft_buffers.cpp`) | thread-local buffers and two nesting counters | `get_memory`, `release`, push and pop | recursion over the plan tree | two active plans never borrow one buffer; no block is replaced while in use |
| Twiddle tables (`generate_twiddles.hpp`, `plfft_static_hash_map.hpp`, `plfft_move_vector.hpp`) | a thread-local hash map of tables | look up or compute | plans keep raw pointers | a plan reads the table it was made with, as long as it is executed |
| Real-to-real wrapper (`r2r_plan.cpp`, `r2r_buffer_helper.hpp`) | two thread-local buffers | prepare, inner FFT, extract | the FFT planners | each of the eleven kinds is what its definition says |
| Batched wrapper (`batched_1d_plan.hpp`) | gather buffer | parallel loop, or gather | split | in-place batches are read before they are overwritten |
| Kernels assembled ahead of time (`providers/aot`) | constant tables | `get_kernel_data`, `lookup_fft_func_*` | both planners | every request of a plan or level has a kernel, which reads its twiddles as they were laid out |
| Kernels generated at run time (`providers/jit`, `providers/acle`) | a process-wide registry and mapped code | generate, clean | planners; sloejit | concurrent generation; code alive while plans hold it |
| sloejit (`src/sloejit`) | blocks, live ranges, interference, spill slots | `finalize`: allocate, spill, colour slots, tidy | the JIT provider | every instruction reads the value it reads in the source; preserved registers come back; allocation ends |

The hard behaviours: the nondeterminism of benchmarks and clock in both
planners; unsynchronized shared state (`max_threads`, the JIT registry);
thread-local state that outlives calls (buffers, counters, tables) and raw
pointers into it; mirrored half spectra and table offsets that depend on parity,
strides and layout at once; incremental data structures of the register
allocator. PROJECT.json lists every hazard at its line, with the property that
would catch it.

## 2. Plan

Done:

1. The planner and its strategies; the split and its parallel execution; proofs
   about the split and the execution.
2. Buffers of executing plans; the legacy planner; the lifetime of tables.
3. What plans and compositions compute, in exact arithmetic; the public API with
   real-to-real transforms and batches on top of them.
4. An abstract specification of planning that both planners implement.
5. The register allocator of sloejit, with the code it leaves.
6. The lookup of kernels assembled ahead of time.
7. Proofs about both planners, the strategies, the buffers, the tables and the
   register allocator.

Left:

- Proofs: the code that the register allocator leaves, and what plans compute.
- Model: the expression graphs of the JIT provider (Winograd's algorithms and
  their optimizer), the two SME2 strategies, the containers.

Where a property fails in general, one run checks it under the assumption that
makes it hold and one shows the violation without it: MCPlanTables and
MCPlanTablesExit, MCRegAlloc and MCRegAllocCall, MCRegAllocRespill, MCTransforms
and MCTransformsNarrow, MCCompositor and MCCompositorAdopt.

## 3. Modules

Planning:

**PlanStrategies** - the strategies of `planner.cpp:49-182` as operators: when a
strategy is applicable to a problem under a policy, which sub-problems it asks
for, in which order and with which policy, and what plan it makes of the
answers. A problem is the record of `problem.hpp` without the element type. A
plan is a record naming its strategy, problem and sub-plans, and whether it runs
a convolution inside a convolution. The lengths in the table of strategies
(`Radices`) and those with a kernel (`Base`) are constants.

**Planner** - `planner::make_plan` as a machine. The C++ recursion is an explicit
`stack` of frames; `pc` says where in `make_plan_impl` a frame is: `Lookup` is the
wisdom query, `TryStrategy` the head of the loop over strategies with its test
of the clock, `AskSubPlan` a strategy's call back into the planner,
`FinishCandidate` the return of a strategy, `Measure` and `MeasureTimesOut` the
two outcomes of a benchmark, `Finish` the wisdom update and the return,
`FinishRebuild` the path that recalls a plan, with the `abort` of line 307.
`Expire` is the clock. A benchmark prefers either plan. The history variable
`found` records which plan wisdom was stored for.

**Planning** - what a planner promises, abstractly: a request is asked and
answered once, with a plan that serves it if it can be planned and with none
otherwise, and the answer comes. `PlannedTransforms` instantiates it for Planner,
where "serves" means that executing the plan computes the transform of the
problem; `Compositor` for the legacy planner.

**Factorize** - `next_length_factorable_by`, `factorize_square`,
`factorize_descending`, `factorize_primes`, as functions of a list of kernel
lengths. The loops are recursive functions on the loop's variables: trial
division has a third, whether the factor divided just before, since the inner
`while` does not look at the bound of the `for`. The sort is an insertion sort.
Where the exact logarithm or root is an integer, `factorize_square` may round to
either side, so it is a set of results.

**Compositor** - `composite_init`: `Start` chooses the square factorization,
`Audition` is one round of `audition_perms` (build, measure, maybe adopt, test
the clock), `AuditionBluestein` the retry of lines 233-256, `FinishRound` the
next permutation, `FinishPhase` the move to the descending factorization or the
end, `Return` the hand-over. An estimate is one of `Means`; 0 is the estimate of
a plan that was never measured. The variable `measured` records the last
candidate for `AdoptsWhatItMeasured`.

What is computed:

**ExactNumbers** - complex numbers over a prime field that has the roots of unity
an instance needs. An identity between sums of products of twiddle factors that
holds for the complex numbers holds here, and an input of pairwise different
numbers tells a wrong index, sign, conjugate or table entry from a right one.
There is no rounding; fixed-point scaling is left out.

**Kernels** - twiddle tables with their three layouts (premultiplied, interleaved
by rows, with a row of ones), Rader's permutations, and every kernel shape the
providers generate: which elements it reads and writes through its four
pointers, what it conjugates, which twiddle entry it takes.

**PlanArithmetic** - the `execute` of every plan class of `planner/strategies`:
Cooley-Tukey with direct, Rader and Bluestein stages in both layouts, the
convolutions, the loop.

**CompositionArithmetic** - `make_level_data` and the `execute` of every kind of
level, `exec_compositor` with its two buffers, and the split over threads, for
the compositions that Compositor times and keeps.

**RealTransforms** - the preparation and extraction of the eleven real-to-real
kinds with the sizes as C ints, and their definitions as a reference.

**AotKernels** - `get_kernel_data`: the distance type, whether SME or SVE is
wanted, the twiddle layout; the tables there are; and the requests that
constructors of plans and levels make. A lookup without a table answers "none",
as the default template answers `nullptr`.

**Transforms** - the public API over all of this: `ConfigCreate`, `SetBatch`,
`SetField`, `PlanCreate` with its refusals in order, `PlanExecute`, and the steps
of an execution: `Gather`, `Row`, `PrepareInput`, `TransformInput`,
`ExtractResult`. Two callers execute one plan on their own memory, or a team of
workers shares a batch; `memory` is what the callers see. Buffers belong to the
worker, as thread-local memory does.

Memory and threads:

**ParallelSplit** - `make_parallel_split` and `work_distribution`, operators.

**ParallelExecution** - threads of the application that execute compositions or
single levels at the same time. `RequestRead` and `RequestUpdate` are the two
halves of the unsynchronized `parallel_state_t::request`: between them another
thread may write `max_threads`. `JobsOf` is what each thread executes. Two history
variables record what the code does not: `pool`, the size of a thread's last
parallel region, and `lost`, that since its last request another thread's update
lowered a maximum it had not read. The iterations of a loop then interleave level by
level; `iters` holds the row, level and two pointers of each, `memory` the
buffer, where a value is the row and the number of levels applied to it.
`SetNumThreads` is the application calling OpenMP (external). The two accesses of
an aligned int are atomic in every build; formally the race is undefined
behaviour, and the model takes the outcomes such a build produces.

**ExecBuffers** - execution as a recursion over a plan tree. `Node` is a table of
plan nodes; `stack` the active `execute()` calls of each thread; `pool` the size
of each thread-local buffer, `active` the two nesting counters and `mem` the
contents of the blocks. What a plan computes is the sequence of operations
applied to its data, so a buffer overwritten too early shows up as a wrong
sequence; `meaning` is the sequence a tree stands for, and
`ExecutionComputesItsPlan` compares the two on every return. A block that is
replaced is removed from `mem`. Plans run from input to output, to themselves in
place, and with buffers left by earlier plans. The constant `Nesting` bounds how
many buffers of each kind a node and its sub-plans have in use at once.

**PlanTables** - application threads that create, execute and destroy plans, start
and exit. `cache` is `cached_twiddles` of a thread with the capacity of its
bucket, `heap` the tables allocated, `plan` the raw pointers behind a handle.
`Create` begins a plan, `GenerateTwiddles` is one look-up and `ReturnPlan` hands
the plan over; between look-ups other threads may do anything, and a creation may
end without a plan (`FailCreation`), its tables staying behind in the cache. All
keys are in one bucket, the hardest case.

The assembler:

**LiveRanges** - functions as blocks of instructions over virtual and physical
registers with their positions; the liveness fixpoint, live ranges, and
interference, next to reference definitions over paths.

**RegAlloc** - `function::finalize` as a machine: the allocation queue, colouring,
the choice of what to spill, the edits a spill makes, the slots and their
sharing, substitution and the peephole pass.

**CompiledCode** - the source and the allocated code run in step: registers,
slots and what a call destroys.

Theorems (section 6):

**InductionLemmas, ParallelExecutionProofs, ExecBuffersProofs,
PlanTablesProofs, PlanStrategiesProofs, PlannerProofs, CompositorProofs,
RegAllocProofs** - each extends the module of its name (RegAllocProofs the
module CompiledCode, some of whose properties it proves) and proves its properties for
every value of the constants; InductionLemmas is about numbers, recursion and
folds.

**MCPlanner, MCParallelExecution, MCExecBuffers, MCCompositor, MCPlanTables,
MCTransforms, MCRegAlloc** - instances for TLC.

Definitions named `X_Y` next to a definition `X` are seeded faults: plausible
mistakes in the code `X` models. No specification uses them; they are listed as
mutants in PROJECT.json, and each property is violated by at least one.

## 4. Runs

| Run | Bounds | Shows |
|---|---|---|
| MCPlanner | kernels {2,3,4}, radices 2..5; timed calls of 4 lengths, 2 fixed-point, 2 batched in 3 layouts; untimed calls of 10 lengths up to 55, three kinds, batch 1 and 2, fixed point or not | `ReconstructionNeverFails`, `OutcomeIsDetermined`, `NoNestedConvolution`, `RecallIsFaithful`, `RecursionDescends`, `WisdomIsStable`, `NoSearchAfterDeadline`, and `ImplementsPlanning`: the call returns, and every plan it may return computes its transform |
| MCParallelLoop | 2 application threads, thread counts 1 to 4, 12 jobs on one thread and a level of 3 rows on the other, 2 calls each | `SlotsArePrivate`, `LevelsReadTheirInput`, `ReturnedComplete`, `RequestInRange`, `PoolShrinksOnlyByLostUpdate` |
| MCExecBuffers | 2 threads; 14 nodes: Cooley-Tukey plans nested to depth 3, inside and around convolutions by row and by column, compositions inside convolutions inside compositions | `BuffersArePrivate`, `BuffersOutliveTheirUse`, `CountersMatchFrames`, `ExecutionComputesItsPlan` |
| MCCompositor | AOT kernel list, 9 lengths up to 1334, two means | `SuccessIsDetermined`, `PaddedLengthIsPlannable`, `EveryOrderIsAuditioned`, `CandidatesAreExact`, `ImplementsPlanning` |
| MCCompositorAdopt | JIT kernel list | violation of `AdoptsWhatItMeasured` |
| MCPlanTables | 2 planning threads, 1 executing thread that may exit, 2 plans, 3 keys | `ExecutionReadsItsTables`, `OneTablePerKey` |
| MCPlanTablesExit | a planning thread may exit | violation of `ExecutionReadsItsTables` |
| MCTransforms | kernels {2,3}; FFTs of 1, 2, 4, 5, 8, 10 points, real-to-real transforms of 1, 2, 4, 5; up to two calls of setters; two builds; two callers or a team of two | `PlansServeTheirConfig`, `PlansFindTheirKernels`, `TransformsAreExact`, `OnlyOutputsChange` |
| MCTransformsNarrow | ints of 5 bits, a length of 36 | violation of `PlansServeTheirConfig` |
| MCRegAlloc | 131 functions of up to five blocks over nine values, with loops, also back to the entry; 3 registers, one preserved | `ReadsTheSourceValues`, `PreservesRegisters`, `LiveTogetherApart`, `LiveSetsAreExact`, `PositionsSuffice` |
| MCRegAllocCall | a reload before and after a call | violation of `ReadsTheSourceValues` |
| MCRegAllocRespill | a block with more values than registers | violation of `PositionsSuffice` |

Each passing run also checks the module's `TypeOK`. Deadlock is checked
everywhere; `Terminated` and `Finished` are a caller that has its answer, or a function that has returned.

Why the bounds are enough.

- *The planner* branches on a length being 1, a radix, a product of kernel
  lengths, a prime with or without a plannable predecessor, or a product of
  such, on the batch and on the stride layout; every class occurs. The timed
  lengths are few because each benchmark and each clock tick branches; a
  deadline can fall at every point of a search that recurses into loop,
  Cooley-Tukey and convolution sub-plans.
- *Exact arithmetic.* A run's prime has the roots of unity its lengths need:
  20161 in MCTransforms, 23761 in MCPlanner, 43201 in MCCompositor. What
  branches in a plan or level is parity of radix and rows, layout, place and
  stride; lengths 1 to 10 (22, 33 and 55 in MCPlanner) have them all.
  Compositions are measured with their real factors, and what they compute is
  checked on stand-ins of at most 36 points that keep the parity, algorithm and
  place of every factor, with a threshold of 20 points for three threads; the
  lookup of their kernels is checked on the real factors.
- *Batches*: one strided member, adjacent, padded, interleaved and transposed
  members, in place, overlapping and apart, and two that are refused.
- *The split* depends on rows below, equal to and above the number of threads and
  on a short last block; a proof removes the bound.
- *Crossing requests* need two application threads that ask for different numbers
  of workers, twice: to lose an update, one thread reads `max_threads`, the other
  raises it and uses it, and the first writes its smaller number. The second
  thread asks for 1, 2 or 3 workers and the first for up to 4, so either can be
  the one that loses. Without the local copy of `max_threads` in `request` (the
  fault seeded for `RequestInRange`) the answer is out of range only in such a
  crossing: TLC finds one in 14 states, with two calls of one thread and
  one of the other. Without its last disjunct, `lost[t]`,
  `PoolShrinksOnlyByLostUpdate` fails: lost updates do occur in the run.
- *ExecBuffers*: threads share nothing, which is what `BuffersArePrivate` says of
  two; the second thread is there so that a shared buffer would be seen.
- *The compositor*: only the number of factors and which are Rader's or
  Bluestein's matter; one to three factors, repeated or not, occur. Two means
  order two candidates in all ways.
- *PlanTables*: three keys, two of one length, and two plans show sharing,
  collision, growth and re-use of freed tables. `Handles` is a symmetry set: no
  liveness property is checked there.
- *Register allocation*: straight lines, phases whose slots can be shared, loops,
  diamonds, a diamond in a loop and calls, each with more values than registers,
  so that values are spilled, spilled again, and spilled at the boundary. A
  `Gap` of 4096 leaves 12 halvings between two instructions where the mantissa
  of a double leaves 52; that MCRegAlloc never needs them all is checked, that
  some function does is the other run. The allocator breaks ties by the order of
  a container; the model takes every choice.

## 5. Fairness

`Planner!Spec` has weak fairness on the planning thread's steps (`Step`), not on
the clock and not on how a benchmark ends: the code is a loop of one thread
which never blocks, so it goes on while it can. The liveness part of
`ImplementsPlanning` needs no more: the recursion descends and the list of
strategies is finite, even when time never runs out. `Compositor!Spec` has weak
fairness on the two audition steps for the same reason, and none on the caller.
The other modules state safety only and assume no fairness. That register
allocation ends is not stated as a liveness property; `PositionsSuffice` is what
goes wrong when it does not.

## 6. Proofs

`tlapm` checks every obligation of the proof modules. None of the invariants of
section 4 that they prove is inductive; each paragraph says what had to be added
and why.

*InductionLemmas.* `DivisionFacts`, `ExactDivision`: the backends do not decide
division by a variable, so the other modules reduce it to products.
`LeastNumber` is induction to the first order: a set of numbers that is not empty
has a least member, so a statement that fails has a first failure. `SetInduction`,
`MeasureInduction` and `SubsetInduction` carry that over to sets that are closed
under a successor, to arguments with a measure that shrinks, and to finite sets.
A recursive function says nothing to the provers before it is known to exist:
`RecursionExists` (over an initial segment of the numbers), `RecursionByMeasure`
and `FoldExists` (the folds of the community modules, which are recursive
functions on subsets) show that it satisfies its equation.

*ParallelExecutionProofs.* First the split. For every number of rows, block size and team: the split
uses between one thread and the number given (`SplitThreads`); its ranges follow
one another without a gap, each starts at a block, and when there are several
none is empty (`RangesTile`); no row is in two of them (`RangesApart`) and every
row is in one (`RangesCover`).

Then the execution. For every set of threads, thread counts, jobs and
number of calls: `TypeCorrect`, `RequestStaysInRange` (`RequestInRange`),
`SlotsStayPrivate` (`SlotsArePrivate`), `LevelsReadTheirOwnInput`
(`LevelsReadTheirInput`), `RowsAreStoredOnce` (`ReturnedComplete`) and
`OnlyLostUpdatesShrinkThePool` (`PoolShrinksOnlyByLostUpdate`). That a request is in range follows
from how the number of iterations was computed when the call began and from the
application not changing its thread count meanwhile; that a level reads its
input, from no other iteration writing that slot. `IInv` adds exactly these: a
call's split is the one computed for its job and slots, its slots are at most
what OpenMP offers (`SplitIsCurrent`), and an iteration's two pointers are its
own slot in the one half and in the other, in either order
(`IterationsAreApart`). `Progress` adds that what is stored so far is, for each
iteration, the rows of its range before the current one; with the ranges apart
and covering, a call that returns has stored each row once. `PoolInv` says that
`max_threads` is at least the size of a thread's region, running or last, unless
the thread is marked `lost`. The step to see is the update: it writes the number
requested, which is more than the number read; if it lowers the maximum, the one
read was not current any more, so the update crossed another one and marks every
other thread. The assumption is
`ParallelAssumption`: thread counts are positive and there is one, jobs have the
shape `JobType`.

*ExecBuffersProofs.* For every table of plan nodes and any number of threads:
`TypeCorrect`, `BuffersStayPrivate` (`BuffersArePrivate`), `BuffersOutliveThem`
(`BuffersOutliveTheirUse`), `CountersCountFrames` (`CountersMatchFrames`) and
`ExecutionsCompute` (`ExecutionComputesItsPlan`). What is missing from each is where in the tree the stack is. `Nested` says that
along a stack the nesting of each kind of buffer shrinks, so that there is room
below a frame for what its sub-plans will borrow; `StackedInOrder` that the
frames borrow the stacked buffers in order and that every buffer up to the
counter is borrowed by one, so that a push gives a buffer nobody has; `BufferOK`
that what a frame has borrowed is the block of its kind and depth, at least as
large as it asked for, and there. `NestingAssumption` is the fact about plans
that this rests on: a composition contains at most one other, and a convolution
none, which the planner guarantees (`ConvolutionsDoNotNest`) and
`fft_buffers.cpp:13-15` relies on. `NodeAssumption` says that the nodes form
trees, and that a Cooley-Tukey, Rader or Bluestein node has exactly two
sub-plans and a composition at least two.

`ExecutionsCompute` needs more, since a return is right only if every frame on
the way was. Its invariant `TInv` says that each thread's stack is `Traced`: some
sequence, which the program does not keep, gives for each active frame the value
its batches had when it was called and the batches it was called for. With the
operations done so far (`Place`, `SoFar`) each of these batches is then in the
frame's input, in the half of its buffer the last step left it in, or in its
output (`Settled`); the batches a frame handed to a sub-plan are in the hands of
the frame above (`Linked`). A step of a frame disturbs nothing else, because a
frame reaches only the caller's arrays and what the frames below lend it
(`Reach`), and a buffer newly borrowed is in nobody's reach (`LendsAreNew`, which
is where `IInv` is used). What a plan stands for, `meaning`, is a recursive
function on the table of nodes; `MeaningEquation` shows that it satisfies its
equation, by induction on the table, in which sub-plans come earlier.

*PlanTablesProofs.* For any threads, shapes and handles: `TypeCorrect`,
`TablesAreNotDuplicated` (`OneTablePerKey`), from `CacheOK`, which relates what
is cached to what is allocated; and `PlansKeepTheirTables`
(`ExecutionReadsItsTables`) under `PlannersStay`, that no thread that plans
exits, which MCPlanTablesExit shows to be needed. `Plain` adds that a thread that
does not plan caches nothing, so that its exit frees nothing.

*PlanStrategiesProofs.* For every list of kernel lengths: `PaddedLengthExists`,
the length a Bluestein convolution is padded to exists, at the latest at a power
of the smallest kernel length; `AsksDescend`, every problem a strategy asks for
is a problem, with the right policy, and smaller than the one it was asked to
solve. `StrategiesAreSound` and `StrategiesAreComplete` are the two halves of
what can be planned at all: a strategy that applies and whose sub-problems have
plans is only found for products of kernel lengths, or where convolutions are
allowed for a floating-point type, and there always is one. Complete they are
because batches are taken apart by the loop, and a single transform whose length
is no product of kernel lengths is of prime length, which Bluestein's strategy
takes, or has a smallest prime factor, which a kernel or a Bluestein stage takes
as the radix. `TableAssumption` is used for that: every
provider has a kernel of length 2 (the padded lengths need it), and the table of
strategies lists every length that has a kernel.

*PlannerProofs.* For every set of requests, kernels and radices, every outcome of
a benchmark and every clock: `TypeCorrect`, `SearchesDescend`
(`RecursionDescends`), `DeadlineEndsSearches` (`NoSearchAfterDeadline`),
`ConvolutionsDoNotNest` (`NoNestedConvolution`), `WisdomReconstructs`
(`ReconstructionNeverFails`), `WinnersAreRecalled` (`RecallIsFaithful`),
`WisdomOnlyGrows` (`WisdomIsStable`), `OutcomesAreDetermined`
(`OutcomeIsDetermined`) and `PlannerKeepsItsPromise`. The argument has five
layers:

- `Shape`: each frame below the top waits for an answer of a strategy that
  applies, each frame solves what the one below asked (or recalls it with a
  weaker policy), and the asks descend along the whole stack, not only from one
  frame to the next. The order is lexicographic: the right to convolve, the
  length, the batch.
- `CleanInv` adds that a plan made without the right to convolve has no
  convolution in it, which is why the parts of a convolution nest none.
- `RecallInv` adds what wisdom stands for: an entry names a strategy that
  applies, and the sub-plans of the plan it was stored for are themselves
  recalled by wisdom, as the very plans they were (`Held`). That persists because
  nobody searches for a problem that is held, and a problem that is searched for
  is not in wisdom; here the descent along the whole stack is needed, since a
  search below could otherwise store the problem of a search above it. A recall
  therefore finds an entry for every sub-problem, never reaches the abort of
  `planner.cpp:307`, and rebuilds the plan that won.
- `OutcomeInv` says of each frame that the strategies it has passed without a
  plan could not make one (`Fails`), and of each answer it has that it is a plan
  exactly if the ask is plannable. With the strategies sound and complete, a
  search that comes to the end of the table empty-handed was for a problem
  without a plan; the clock stops a search only when it holds one, and a recall
  always answers.
- `ResultIsHeld`: the answer of the call is a plan that wisdom stands for. So it
  solves the request (`Solves`): some strategy that the policy allows made it for
  the problem asked, from plans that solve what the strategy asked for, down to
  the kernels. `PlannerKeepsItsPromise` is the safety part of Planning with this
  reading of "serves". That such a plan computes the transform is checked by
  MCPlanner, where Planning is instantiated with the arithmetic.

The assumptions are `BaseAssumption`, `TableAssumption` and `RequestsAssumption`:
lengths, batches and radices are positive (`plfft.h:472`).

*CompositorProofs.* For every list of kernels, every length and every outcome of
the auditions: `CompositorIsTyped` (`TypeOK`), `SuccessDependsOnTheLength`
(`SuccessIsDetermined`), `PaddedLengthsArePlannable` (`PaddedLengthIsPlannable`),
`EveryOrderHasItsRound` (`EveryOrderIsAuditioned`)
and `CompositorKeepsItsPromise`, the safety part of Planning with the reading of
"serves" that the run checks as well. Most of it is about Factorize.

- Products: a factorization multiplies to its length in whatever order it is
  multiplied (`ProductTakesAny`, by exchanging the last two), so sorting it
  (`DescendingRearranges`) and going to the next permutation
  (`NextPermutationRearranges`) change neither the product nor which factors are
  kernels.
- Recursion: trial division, the greedy sweep over the kernels, the square
  factorization and the search for a padded length satisfy their equations, each
  by a measure that shrinks. A padded length exists because a power of a kernel
  length does.
- Agreement: `KernelsFactor`, the greedy division by the kernels in the order of
  the list, decides whether *some* product of kernels is the length. Both
  factorizations consist of kernels exactly for those lengths (`GreedySucceeds`,
  `SquareSucceeds`), whatever the rounding of logarithms and roots made the square
  one choose. This is where `KernelAssumption` is needed: with kernels of lengths 4
  and 6 and none of length 3, greed would factor 36 or not, depending on which of
  the two comes first. In both providers' lists every divisor of a kernel length has a
  kernel (`aot_kernel_data.cpp:282-301`, `jit_kernel_data.cpp:543-562`), so a
  length the kernels factor has prime factors with kernels only (`HasPrime`,
  `PrimeDivides`: Euclid's lemma, by descent), and no division can take that away.

- Orders: `NextIsSuccessor` says that `std::next_permutation` goes to the next
  order in lexicographic order, equal factors or not, and from the last to the
  first; the argument compares how many factors of two orders lie in a set
  (`RearrangedCounts`). Orders it does not leave are therefore all the orders
  (`ClosedOrdersAreAll`), and k factors have at most factorial(k)
  (`OrdersAreFew`). The invariant is `OrderInv`: the orders that had a round are as
  many as the rounds, each followed by the next, until they are all.

The invariant `CompositorInv` adds to the types that the factors under audition
multiply to the length and are kernels exactly if `KernelsFactor`
(`AuditionInv`). A first audition that fails then fails for a reason the second
shares; from the first success on, what is kept computes the transform, since the
first candidate is adopted whatever its time.

*RegAllocProofs.* For every source function, any number of registers and any
choice of victims: `LiveRegistersStayApart` (`LiveTogetherApart`), no two
registers that are live at once share a physical register.
`AllocationIsInvariant` is the invariant behind it. `Interfering`: whatever live
ranges overlap, `constraints` says so, so that what `apply_physical_subs` takes
away from the choices is enough; and registers still to be made are in no
constraint, so that a piece of a spilled register begins without a physical one.
`SpillableCode`: each block keeps an instruction that allocation did not insert,
places are in blocks that exist, and `reg_choices` holds physical registers only;
without it nothing could be said of the result of a spill. `SourceCode` is what
holds before ranges are taken: the code is the source's and the live sets hold
known registers only.

`SweepsFindTheLiveSets` (`LiveSetsAreExact`): when the sweeps end, a register is
live into a block exactly when a path from there reads it before it is written;
the entry counts as a reader of the parameters, which are live into it whether it
reads them or not. `LiveInv` is the invariant. Its upper half, `Sound`: what is
live is explained by a walk that takes no block twice (`Reached`); `WalkExtends`
puts a block before a walk, or cuts the walk where it comes back to that block, so
the walks stay no longer than the path that the property asks for. Its lower half:
after the first sweep every block is `Settled`, and later sweeps may pass over
blocks whose outputs did not grow without losing that; a sweep that changed no
start of a block leaves the blocks `Connected`. `ReachedIsLive` then takes a
register backwards along any path. `LiveAtStartMeans` says in closed form what
the fold over a block computes.

Most of the module is about one spill, a walk over the places of the victim that
inserts, erases and renames. `SpilledIsWalked` says what the walk must deliver:
every interval it adds is of a register made by the walk, or of the victim itself
if that is an input of the function, which alone keeps its name in the prologue.
The model writes the walk with the folds of the community modules, which are
recursive functions on subsets. `SubsetInduction` and `FoldExists` give what the
library does not: a fold over a finite set has a value, and stays in every set
that its steps stay in.

`AllocationIsTyped` (`TypeOK`): every operand is a register made so far, what is
allocated is a physical register, and the code that is run mentions no others. Its
invariant is `RegistersInv`. `TidyCode`: as long as there is a queue, every
operand of every instruction is allocated or in the queue (`Awaited`), and has
its place in `live_positions`; so when the queue is empty nothing is left without
a register, and substitution leaves physical registers only. That a spill keeps
this is the hard part, for the walk finds the victim by those places: a place
that was lost would leave an operand with the name of a register that exists no
more. `InHand` follows one block backwards: the victim is left only in the
instructions still to come and in those to be erased, and every piece has begun
a live interval or owes one to a use already passed (`Pending`); a use that gets
no reload has a place before it in the block, where the walk begins that interval
(`EarlierPlace`). `SpilledCovers` adds the
other blocks, the store at the entry and the reloads at the returns. The places
name instructions, so the invariant also says that no two instructions of a block
have one id (`Numbered`) and that positions ascend (`Ordered`), without which the
place before another cannot be found; a spill after which they do not ascend ends
the allocation ("positions exhausted").

The assumptions are `RegisterAssumption` (the preserved registers are physical
ones, and there is room between the positions of two instructions) and
`ProgramsAssumption`: a function is written over virtual registers and a block ends
with a branch to a block of the function or a return.

*Only model-checked*: the properties of
CompositionArithmetic (`CandidatesAreExact`), CompiledCode except
`TypeOK`, `LiveTogetherApart` and `LiveSetsAreExact`, and Transforms.
`ReadsTheSourceValues` and `PositionsSuffice` do not hold of every function
(section 7: MCRegAllocCall, MCRegAllocRespill), nor `PlansServeTheirConfig` of every
length (MCTransformsNarrow), so only instances can have them. The liveness part of `ImplementsPlanning` and
anything with ENABLED are out of the prover's reach. PlanArithmetic,
CompositionArithmetic and Transforms declare RECURSIVE operators, because a plan
executes its sub-plans, and so the SMT backend is not available for them or for
the modules that extend them; no theorem is about them. Compositor, which
CompositionArithmetic extends, does not reach them.

## 7. Findings

- `compositor.cpp:247` (MCCompositorAdopt): a Bluestein candidate that wins is
  rebuilt with Rader allowed, and its estimate is not kept.
- `generate_twiddles.hpp:80` (MCPlanTablesExit): a plan does not survive the
  thread that created it, which the documentation does not say.
- `r2r_plan.cpp:16` (MCTransformsNarrow): the length of a real-to-real transform
  is narrowed to int; `PLFFT_OK` with a plan for another length.
- `src/sloejit/src/aarch64/aarch64.cpp.mako:9870` (MCRegAllocCall): the peephole
  pass takes a reload after a call for redundant though the call destroyed the
  register. No kernel of PLFFT contains a call.
- `src/sloejit/src/ir.cpp:317` (MCRegAllocRespill): pieces of a spilled value are
  spilled again until two instructions have the same position.

With several application threads an update of `max_threads` can be lost and the
pool shrinks. The code's own note (`plfft_parallel.hpp:34-38`) accepts that, and
what it promises, the range of the answer, is checked and proved. That nothing but
such a crossing shrinks the pool is `PoolShrinksOnlyByLostUpdate`.

## 8. Not modelled

- *Rounding and scaling.* Arithmetic is exact: the accuracy of a chirp in half
  precision, and the shifts of fixed-point kernels, are outside.
- *The insides of kernels.* The expression graphs of the JIT provider (Winograd's
  algorithms, their optimizer and printer) and the assembled instructions decide
  how a transform of up to 40 points is summed, for which the tests compare
  every kernel with a reference. They are straight-line arithmetic without
  control; a model would repeat them term by term.
- *Generated text.* Most lines of the repository are generated:
  `providers/aot/aot_kernel_lookup.cpp` (tables of 21 function pointers and a
  lookup function for each), `kernels.hpp` and `kernel_lookup.hpp` (a declaration
  for each kernel and lookup), and the encoders of sloejit. The tables are in
  AotKernels as the sets of kernels, orders, distances and types they exist for;
  a definition for each table would say the same again.
- *The registry of generated kernels*: a process-wide map written without a lock,
  so two planning threads are undefined behaviour at once, and `clean()` unmaps
  code that live plans hold. Neither has a protocol to state a property of; both
  are listed as hazards.
- *The two SME2 strategies*: leaves like `direct`, on hardware with SME2 and with
  kernels written in intrinsics.
- *Register groups, lane masks and the frame record* of the register allocator.
- *Containers, feature detection, flop counts, the text of plans, floating-point
  statistics, benchmarks, examples and scripts.*
- *Integer widths* except in the real-to-real wrapper: the places where another
  width could matter are listed as hazards. *Allocation failure*: the library
  does not handle it.
