------------------------------ MODULE Transforms ------------------------------
(***************************************************************************)
(* PLFFT as its callers see it: a configuration is created and adjusted    *)
(* (src/src/plfft.cpp), a plan is made of it or refused, and the plan      *)
(* transforms batches in the caller's memory, serially by two callers at   *)
(* once or by a team of OpenMP threads (arm_fft1d_impl.hpp,                *)
(* batched_1d_plan.hpp, r2r_plan.cpp).  Memory is an array of real         *)
(* numbers; a complex number takes two of them.                            *)
(***************************************************************************)
EXTENDS PlanArithmetic, RealTransforms, ParallelSplit, AotKernels

CONSTANTS
  Builds,        (* set of [openmp, fixed, sme, fp16]: the library, the CPU *)
  Created,       (* set of [kind, payload, n]: what configurations are for *)
  BatchesOf(_),  (* of a configuration: [howmany, istride, idist, ostride, *)
                 (* odist], the arguments of set_batch                     *)
  Settings,      (* set of [field, value]: the other setters' calls        *)
  Preferences,   (* orders in which strategies may win, see PlanFor        *)
  Places,        (* set of [in, out]: where the buffers may start          *)
  MemorySize,    (* real numbers in a caller's memory                      *)
  MaxSetters,    (* bounds the setter calls on a configuration             *)
  NoConfig

VARIABLES
  build,     (* the build of the library and the machine it runs on        *)
  config,    (* the configuration, or NoConfig                             *)
  setters,   (* calls of setters so far                                    *)
  status,    (* of plfft_plan_create_from_config, or "none"                *)
  plan,      (* the plan, or NoPlan                                        *)
  made,      (* history: the configuration the plan was made of            *)
  memory,    (* caller -> its memory                                       *)
  place,     (* caller -> where its buffers are; Nowhere before execute    *)
  job,       (* worker -> what it has left to do                           *)
  buffer     (* worker -> its thread-local buffers, by name                *)

vars == <<build, config, setters, status, plan, made, memory, place, job, buffer>>

Callers == {0, 1}
Nowhere == [in |-> -1, out |-> -1]
Workers == {0, 1}

-----------------------------------------------------------------------------
(* Configurations.                                                         *)

Directions == {"FORWARD", "BACKWARD"}
FloatTypes == {"FP16", "FP32", "FP64"}
FixedTypes == FixedPoint

NewConfig(c) ==
  [kind |-> c.kind, payload |-> c.payload, n |-> c.n, howmany |-> 1, istride |-> 1,
   idist |-> c.n, ostride |-> 1, odist |-> c.n, data |-> "FP32", alias |-> "NO_ALIAS",
   sme |-> "DISABLED", rigor |-> "MEASURE"]

ValidPayload(c) ==
  CASE c.kind = "C2C" -> c.payload \in Directions
    [] c.kind = "R2R" -> c.payload \in R2rKinds
    [] OTHER -> TRUE

ValidBatch(c) ==
  IF c.howmany = 1 THEN c.istride > 0 /\ c.ostride > 0
  ELSE c.howmany > 0 /\ c.istride > 0 /\ c.idist > 0 /\ c.ostride > 0 /\ c.odist > 0

WantSme(c) == c.sme = "ENABLED"

(* The tests of plfft_plan_create_from_config before it plans, in order.   *)
Refusals(c) ==
  << <<c.n <= 0, "INVALID_SIZE">>,
     <<~ValidBatch(c), "UNSUPPORTED_BATCH">>,
     <<~ValidPayload(c), "INVALID_TRANSFORM_KIND">>,
     <<c.alias \notin {"NO_ALIAS", "MAY_ALIAS"}, "INVALID_IO_ALIAS">>,
     <<c.sme \notin {"DISABLED", "ENABLED"}, "INVALID_SME_MODE">>,
     <<WantSme(c) /\ c.kind = "R2R", "SME_UNSUPPORTED_R2R">>,
     <<WantSme(c) /\ c.data \in FixedTypes, "SME_UNSUPPORTED_FIXED_POINT">>,
     <<WantSme(c) /\ build.sme = "not built", "SME_NOT_ENABLED">>,
     <<WantSme(c) /\ build.sme = "not on this CPU", "SME_NOT_AVAILABLE">>,
     <<c.data = "FP16" /\ ~build.fp16, "FP16_NOT_AVAILABLE">>,
     <<c.rigor \notin {"ESTIMATE", "MEASURE", "PATIENT", "EXHAUSTIVE"},
       "INVALID_PLANNER_RIGOR">>,
     <<c.data \notin FloatTypes \cup (IF build.fixed THEN FixedTypes ELSE {}),
       "INVALID_DATA_TYPE">> >>

Refused(c) == {i \in DOMAIN Refusals(c) : Refusals(c)[i][1]}

-----------------------------------------------------------------------------
(* Making plans.                                                           *)

(* An FFT of the planner, or of the legacy planner of an OpenMP build.     *)
FftPlan(c, p, prefer) ==
  LET strategies ==
        SelectSeq(prefer, LAMBDA s : /\ c.data \in FixedTypes => ~IsConvolution(s)
                                     /\ s.r \in GetKernelNs(c.data) \cup {0})
      tree == PlanFor(p, {"CONVOLUTIONS"}, strategies)
  IN  IF p.n < 1 \/ (~build.openmp /\ tree = NoPlan) THEN NoPlan
      ELSE IF build.openmp THEN [class |-> "legacy", p |-> p]
      ELSE [class |-> "planner", p |-> p, tree |-> tree]

(* The constructor of r2r_plan: it takes its length as an int, and does    *)
(* not ask whether its FFT could be planned.                               *)
R2rPlan(c, istride, idist, prefer) ==
  LET n == AsInt(c.n)
  IN  [class |-> "r2r_plan", kind |-> c.payload, n |-> n, howmany |-> c.howmany,
       istride |-> istride, idist |-> idist, ostride |-> c.ostride, odist |-> c.odist,
       impl |-> FftPlan(c, Problem(FftKind(c.payload), TransformSize(c.payload, n),
                                   1, 1, 1, 0, 0, FftDirection(c.payload)), prefer)]

FftKindOf(c) == CASE c.kind = "C2C" -> "c2c" [] c.kind = "R2C" -> "r2c" [] OTHER -> "c2r"
DirectionOf(c) ==
  CASE c.kind = "C2C" -> c.payload [] c.kind = "R2C" -> "FORWARD" [] OTHER -> "BACKWARD"

(* make_1d_plan: DCT-1 is undefined for one point.                         *)
Make1dPlan(c, istride, idist, prefer) ==
  IF c.kind # "R2R"
  THEN FftPlan(c, Problem(FftKindOf(c), c.n, istride, c.ostride, c.howmany, idist, c.odist,
                          DirectionOf(c)), prefer)
  ELSE IF c.n = 1 /\ c.payload = "DCT_1" THEN NoPlan
  ELSE R2rPlan(c, istride, idist, prefer)

BatchedPlan(c, reorder, inner) ==
  [class |-> "batched_1d_plan", n |-> c.n, howmany |-> c.howmany, istride |-> c.istride,
   idist |-> c.idist, odist |-> c.odist, reorder |-> reorder, inner |-> inner]

(* Seeded fault: the wrapper is built around whatever make_1d_plan gives.  *)
WrapPlan_Unchecked(c, reorder, inner) == BatchedPlan(c, reorder, inner)

WrapPlan(c, reorder, inner) ==
  IF inner = NoPlan THEN NoPlan ELSE BatchedPlan(c, reorder, inner)

(* make_batched_1d_plan: an in-place transform other than c2c reads a      *)
(* batch from a buffer of its own, members packed n apart.                 *)
MakePlan(c, prefer) ==
  LET inplace == c.alias = "MAY_ALIAS"
      reorder == c.kind # "C2C" /\ inplace
  IN  IF c.data \in FixedTypes /\ c.kind = "R2R" THEN NoPlan
      ELSE IF ~build.openmp /\ ~reorder THEN Make1dPlan(c, c.istride, c.idist, prefer)
      ELSE IF c.howmany > 1 /\ reorder
      THEN WrapPlan(c, reorder, Make1dPlan(c, 1, c.n, prefer))
      ELSE WrapPlan(c, reorder, Make1dPlan(c, c.istride, c.idist, prefer))

-----------------------------------------------------------------------------
(* Memory.                                                                 *)

InWidth(c)  == IF c.kind \in {"C2C", "C2R"} THEN 2 ELSE 1
OutWidth(c) == IF c.kind \in {"C2C", "R2C"} THEN 2 ELSE 1
InCount(c)  == IF c.kind = "C2R" THEN c.n \div 2 + 1 ELSE c.n
OutCount(c) == IF c.kind = "R2C" THEN c.n \div 2 + 1 ELSE c.n

ElementCells(base, width, e) == (base + width * e)..(base + width * e + width - 1)

InputCells(c, at, b) ==
  UNION {ElementCells(at.in, InWidth(c), b * c.idist + j * c.istride) : j \in 0..(InCount(c) - 1)}
OutputCells(c, at, b) ==
  UNION {ElementCells(at.out, OutWidth(c), b * c.odist + k * c.ostride) : k \in 0..(OutCount(c) - 1)}

Members(c) == 0..(c.howmany - 1)

(* What src/docs/plfft.md asks of the buffers: a member's output is apart  *)
(* from the other members' buffers, and from its own input unless the      *)
(* configuration said they may alias.                                      *)
BuffersFit(c, at) ==
  /\ \A b \in Members(c) : InputCells(c, at, b) \cup OutputCells(c, at, b)
                             \subseteq 0..(MemorySize - 1)
  /\ \A b, d \in Members(c) :
       /\ b # d => OutputCells(c, at, b) \cap OutputCells(c, at, d) = {}
       /\ b # d \/ c.alias = "NO_ALIAS" => OutputCells(c, at, b) \cap InputCells(c, at, d) = {}

(* What a cell holds before a caller executes its plan, and what a read    *)
(* past the end of its memory gives.                                       *)
Fresh(caller, cell) == (cell * cell * 37 + cell * 11 + caller * 5 + 3) % Prime
Garbage == 4711

Scalar(mem, cell) == IF cell \in DOMAIN mem THEN mem[cell] ELSE Garbage

(* An array of elements of one or two scalars as indices to numbers.       *)
Element(mem, base, width, e) ==
  IF width = 2 THEN <<Scalar(mem, base + 2 * e), Scalar(mem, base + 2 * e + 1)>>
               ELSE <<Scalar(mem, base + e), 0>>

Store(mem, base, width, writes) ==
  [cell \in DOMAIN mem |->
     LET e == (cell - base) \div width
     IN  IF e \in DOMAIN writes THEN writes[e][((cell - base) % width) + 1] ELSE mem[cell]]
    @@ << >>

-----------------------------------------------------------------------------
(* Executing plans.                                                        *)

Inner == IF plan.class = "batched_1d_plan" THEN plan.inner ELSE plan
Howmany(p) == IF p.class = "r2r_plan" THEN p.howmany ELSE p.p.howmany

(* A kernel, a loop and the r2r plan take one member after another; the    *)
(* other plans read the whole batch before they write.                     *)
MemberWise(p) ==
  \/ p.class \in {"r2r_plan", "legacy"}
  \/ p.class = "planner" /\ p.tree.s.name \in {"direct", "fft1", "loop"}

(* Seeded fault: execute(howmany, in, out) runs the plan's own howmany.    *)
RowsPerStep_Own(p) == Howmany(p)

RowsPerStep(p) == IF MemberWise(p) THEN 1 ELSE Howmany(p)

(* One step of an FFT plan: the writes relative to its output pointer.     *)
RunFft(p, x, at) ==
  IF p.class = "legacy" THEN KernelN([p.p EXCEPT !.howmany = 1], x, at)
  ELSE IF ~MemberWise(p) THEN Execute(p.tree, x, at)
  ELSE IF p.tree.s.name = "loop" THEN Execute(p.tree.subs[1], x, at)
  ELSE KernelN([p.p EXCEPT !.howmany = 1], x, at)

Dists(p) == IF p.class = "r2r_plan" THEN p ELSE p.p

Idle == [pc |-> "idle", caller |-> 0, left |-> 0, in |-> 0, out |-> 0, packed |-> FALSE]

(* A worker's range of a batch.                                            *)
Range1d(caller, start, work) ==
  [pc |-> IF work = 0 THEN "idle" ELSE "row", caller |-> caller, left |-> work,
   in |-> start * Dists(Inner).idist, out |-> start * Dists(Inner).odist, packed |-> FALSE]

TeamRuns == build.openmp /\ plan.class = "batched_1d_plan" /\ plan.howmany > 1 /\ ~plan.reorder
Gathers == plan.class = "batched_1d_plan" /\ plan.howmany > 1 /\ plan.reorder

(* get_memory: buffers belong to the thread.                               *)
BufferOf(w) == w

(* What a row reads through: the caller's memory or the gathered batch.    *)
RowInput(w) ==
  [e \in 0..MemorySize |->
     IF job[w].packed
     THEN LET gathered == buffer[BufferOf(w)].batched
          IN  IF e \in DOMAIN gathered THEN gathered[e] ELSE <<Garbage, Garbage>>
     ELSE Element(memory[job[w].caller], place[job[w].caller].in, InWidth(made), e)]

(* The rows just done are taken off the range.                             *)
Advance(w) ==
  LET rows == RowsPerStep(Inner)
      next == [job[w] EXCEPT !.left = @ - rows, !.in = @ + rows * Dists(Inner).idist,
                             !.out = @ + rows * Dists(Inner).odist, !.pc = "row"]
  IN  job' = [job EXCEPT ![w] = IF next.left = 0 THEN Idle ELSE next]

Write(w, writes) ==
  LET caller == job[w].caller
  IN  memory' = [memory EXCEPT ![caller] =
                   Store(@, place[caller].out, OutWidth(made), Shift(writes, job[w].out))]

-----------------------------------------------------------------------------
(* Actions.                                                                *)

NoBuffers == [batched |-> << >>, r2r_in |-> << >>, r2r_out |-> << >>]

Init ==
  /\ build \in Builds
  /\ config = NoConfig /\ setters = 0 /\ status = "none" /\ plan = NoPlan /\ made = NoConfig
  /\ memory = [c \in Callers |-> [cell \in 0..(MemorySize - 1) |-> Fresh(c, cell)] @@ << >>]
  /\ place = [c \in Callers |-> Nowhere]
  /\ job = [w \in Workers |-> Idle]
  /\ buffer = [w \in Workers |-> NoBuffers]

executionVars == <<memory, place, job, buffer>>

(* plfft_config_create and its r2c, c2r and r2r forms.                     *)
ConfigCreate(c) ==
  /\ config = NoConfig /\ status = "none"
  /\ IF ValidPayload(c)
     THEN config' = NewConfig(c) /\ UNCHANGED status
     ELSE status' = "INVALID_TRANSFORM_KIND" /\ UNCHANGED config
  /\ UNCHANGED <<build, setters, plan, made, executionVars>>

(* plfft_config_set_batch.                                                 *)
SetBatch(batch) ==
  /\ config # NoConfig /\ setters < MaxSetters
  /\ config' = [config EXCEPT !.howmany = batch.howmany, !.istride = batch.istride,
                              !.idist = batch.idist, !.ostride = batch.ostride,
                              !.odist = batch.odist]
  /\ setters' = setters + 1
  /\ UNCHANGED <<build, status, plan, made, executionVars>>

(* plfft_config_set_data_type, _io_alias, _sme_mode and _rigor.            *)
SetField(field, value) ==
  /\ config # NoConfig /\ setters < MaxSetters
  /\ config' = [config EXCEPT ![field] = value]
  /\ setters' = setters + 1
  /\ UNCHANGED <<build, status, plan, made, executionVars>>

(* plfft_plan_create_from_config; the caller then destroys the             *)
(* configuration, which a plan does not refer to.                          *)
PlanCreate(prefer) ==
  /\ config # NoConfig
  /\ IF Refused(config) # {}
     THEN status' = Refusals(config)[Min(Refused(config))][2] /\ UNCHANGED <<plan, made>>
     ELSE /\ plan' = MakePlan(config, prefer)
          /\ status' = IF plan' = NoPlan THEN "PLAN_CREATION_FAILED" ELSE "OK"
          /\ made' = IF plan' = NoPlan THEN NoConfig ELSE config
  /\ config' = NoConfig /\ setters' = 0
  /\ UNCHANGED <<build, executionVars>>

(* plfft_plan_execute: a team takes the batch apart, or the calling thread *)
(* goes through it, from the buffer it gathers it in where that is needed. *)
(* The arithmetic of fixed-point data is not modelled.                     *)
PlanExecute(caller, at) ==
  /\ plan # NoPlan /\ made.data \in FloatTypes
  /\ place[caller] = Nowhere /\ BuffersFit(made, at)
  /\ build.openmp => caller = 0
  /\ place' = [place EXCEPT ![caller] = at]
  /\ IF TeamRuns
     THEN LET split == MakeParallelSplit(plan.howmany, 1, Cardinality(Workers))
          IN  job' = [w \in Workers |->
                        IF w < split.threads
                        THEN Range1d(caller, WorkStart(w, split), WorkCount(w, split))
                        ELSE Idle]
     ELSE job' = [job EXCEPT ![caller] =
                    [Range1d(caller, 0, Howmany(Inner)) EXCEPT
                       !.pc = IF Gathers THEN "gather" ELSE "row"]]
  /\ UNCHANGED <<build, config, setters, status, plan, made, memory, buffer>>

(* copy_input_into_buffer.                                                 *)
Gather(w) ==
  /\ job[w].pc = "gather"
  /\ LET x == RowInput(w)
     IN  buffer' = [buffer EXCEPT ![BufferOf(w)].batched =
                      Sweep(plan.howmany, LAMBDA i : Sweep(InCount(made), LAMBDA j :
                        Cell(i * plan.n + j, x[i * plan.idist + j * plan.istride])))]
  /\ job' = [job EXCEPT ![w].pc = "row", ![w].packed = TRUE]
  /\ UNCHANGED <<build, config, setters, status, plan, made, memory, place>>

(* execute() of a planner's and of a legacy plan.                          *)
Row(w) ==
  /\ job[w].pc = "row" /\ Inner.class # "r2r_plan"
  /\ Write(w, RunFft(Inner, RowInput(w), job[w].in))
  /\ Advance(w)
  /\ UNCHANGED <<build, config, setters, status, plan, made, place, buffer>>

(* The three parts of an iteration of r2r_plan::execute.  HC2R of a single *)
(* point reads element 1, beyond its input, and has no use for it.         *)
PrepareInput(w) ==
  /\ job[w].pc = "row" /\ Inner.class = "r2r_plan"
  /\ LET x == RowInput(w)
     IN  buffer' = [buffer EXCEPT ![BufferOf(w)].r2r_in =
           PrepareFftInput(Inner.kind, Inner.n,
                           [j \in 0..Inner.n |-> x[job[w].in + j * Inner.istride]])]
  /\ job' = [job EXCEPT ![w].pc = "transform"]
  /\ UNCHANGED <<build, config, setters, status, plan, made, memory, place>>

TransformInput(w) ==
  /\ job[w].pc = "transform"
  /\ buffer' = [buffer EXCEPT ![BufferOf(w)].r2r_out =
                  RunFft(Inner.impl, buffer[BufferOf(w)].r2r_in, 0)]
  /\ job' = [job EXCEPT ![w].pc = "extract"]
  /\ UNCHANGED <<build, config, setters, status, plan, made, memory, place>>

ExtractResult(w) ==
  /\ job[w].pc = "extract"
  /\ LET result == ExtractOutput(Inner.kind, Inner.n, buffer[BufferOf(w)].r2r_out)
     IN  Write(w, [e \in {i * Inner.ostride : i \in DOMAIN result} |->
                     result[e \div Inner.ostride]] @@ << >>)
  /\ Advance(w)
  /\ UNCHANGED <<build, config, setters, status, plan, made, place, buffer>>

Finished == /\ \/ config = NoConfig /\ status \notin {"none", "OK"}
               \/ status = "OK" /\ \A w \in Workers : job[w].pc = "idle"
            /\ UNCHANGED vars

Next ==
  \/ \E c \in Created : ConfigCreate(c)
  \/ config # NoConfig /\ \E batch \in BatchesOf(config) : SetBatch(batch)
  \/ \E s \in Settings : SetField(s.field, s.value)
  \/ \E prefer \in Preferences : PlanCreate(prefer)
  \/ \E caller \in Callers, at \in Places : PlanExecute(caller, at)
  \/ \E w \in Workers :
       Gather(w) \/ Row(w) \/ PrepareInput(w) \/ TransformInput(w) \/ ExtractResult(w)
  \/ Finished

Spec == Init /\ [][Next]_vars

-----------------------------------------------------------------------------
(* Properties.                                                             *)

Numbers == 0..(Prime - 1)
Ints == (-(2 ^ (IntWidth - 1)))..(2 ^ (IntWidth - 1) - 1)

(* Every cell holds a number, a plan has a class of the code's and an r2r  *)
(* plan a length that is an int, and a job never has less than nothing     *)
(* left of the batch.                                                      *)
TypeOK ==
  /\ build \in Builds /\ setters \in 0..MaxSetters
  /\ memory \in [Callers -> [0..(MemorySize - 1) -> Numbers]]
  /\ place \in [Callers -> Places \cup {Nowhere}]
  /\ plan # NoPlan =>
       /\ plan.class \in {"planner", "legacy", "r2r_plan", "batched_1d_plan"}
       /\ Inner # NoPlan /\ Inner.class = "r2r_plan" => Inner.n \in Ints
  /\ \A w \in Workers :
       /\ job[w].pc \in {"idle", "gather", "row", "transform", "extract"}
       /\ job[w].left >= 0 /\ (job[w].left > 0 => job[w].left <= made.howmany)
       /\ DOMAIN buffer[w] = {"batched", "r2r_in", "r2r_out"}

(* plfft_plan_create_from_config answers PLFFT_OK exactly when it hands    *)
(* out a plan, and that plan transforms the length that was configured     *)
(* with an FFT that exists.                                                *)
PlansServeTheirConfig ==
  /\ (status = "OK") = (plan # NoPlan)
  /\ plan # NoPlan =>
       /\ Inner # NoPlan
       /\ IF Inner.class = "r2r_plan" THEN Inner.n = made.n /\ Inner.impl # NoPlan
                                      ELSE Inner.p.n = made.n

RECURSIVE KernelCalls(_, _)

(* The kernels a plan of the planner's calls, in itself and its sub-plans. *)
KernelCalls(tree, how) ==
  LET stage == Stage(tree.p, tree.s.r) @@ how
  IN  (CASE tree.s.name = "direct" -> DirectCalls(tree.p @@ how, tree.p.howmany)
         [] tree.s.name = "ct_ab"  -> AbTwidCalls(stage)
         [] tree.s.name = "ct_ac"  -> AcTwidCalls(stage, stage.inner)
         [] OTHER                  -> {})
        \cup UNION {KernelCalls(tree.subs[i], how) : i \in DOMAIN tree.subs}

(* And the kernel of the legacy planner's direct plan; its compositions    *)
(* are CompositionArithmetic's.                                            *)
FftCalls(fft, how) ==
  IF fft.class = "planner" THEN KernelCalls(fft.tree, how)
  ELSE IF fft.p.n \in GetKernelNs(how.data) THEN DirectCalls(fft.p @@ how, fft.p.howmany)
  ELSE {}

(* The FFT a plan comes down to.                                           *)
InnerFft == IF Inner.class = "r2r_plan" THEN Inner.impl ELSE Inner

(* Every plan that is handed out calls kernels that exist, for the type of *)
(* data and on the machine it was made for, with SME or without: no length *)
(* the provider lists and no strategy leads to a null kernel, which a      *)
(* release build would call; and where the kernel reads twiddle factors,   *)
(* it reads them in the order the plan generated them in.                  *)
PlansFindTheirKernels ==
  plan # NoPlan =>
    \A call \in FftCalls(InnerFft, [data |-> made.data, sme |-> WantSme(made)]) :
      \A sve \in BOOLEAN : IsServed(call, sve)

(* What member b of a caller's batch should come to, of what its memory    *)
(* held before.                                                            *)
ExpectedOutputs(caller, b) ==
  LET mem == [cell \in 0..(MemorySize - 1) |-> Fresh(caller, cell)]
      x(j) == Element(mem, place[caller].in, InWidth(made), b * made.idist + j * made.istride)
  IN  IF made.kind = "R2R" THEN R2rOutputs(made.payload, made.n, x)
      ELSE Outputs(FftKindOf(made), made.n, DirectionOf(made), [j \in 0..(made.n - 1) |-> x(j)])

Done(caller) == place[caller] # Nowhere /\ \A w \in Workers : job[w].pc # "idle" => job[w].caller # caller

(* When plfft_plan_execute returns, every output of every member of the    *)
(* batch is the unnormalized transform of that member's input as it was    *)
(* before the call: whichever plan won, with any strides and distances,    *)
(* in place, partly overlapping or out of place, with another caller or    *)
(* the other threads of the team at work at the same time.                 *)
TransformsAreExact ==
  \A caller \in Callers : Done(caller) =>
    \A b \in Members(made) :
      LET expected == ExpectedOutputs(caller, b)
      IN  \A k \in 0..(OutCount(made) - 1) :
            expected[k] = Element(memory[caller], place[caller].out, OutWidth(made),
                                  b * made.odist + k * made.ostride)

(* At no moment of an execution has a cell of the caller's memory changed  *)
(* that is not an output of some member of its batch.                      *)
OnlyOutputsChange ==
  \A caller \in Callers :
    LET outputs == IF place[caller] = Nowhere THEN {}
                   ELSE UNION {OutputCells(made, place[caller], b) : b \in Members(made)}
    IN  \A cell \in (0..(MemorySize - 1)) \ outputs : memory[caller][cell] = Fresh(caller, cell)

=============================================================================
