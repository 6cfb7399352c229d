--------------------------- MODULE PlannedTransforms ---------------------------
(***************************************************************************)
(* The planner shown to keep its promise: the plan a search ends with,     *)
(* whatever the clock and the benchmarks did on the way, computes the      *)
(* transform of the problem it was asked for.                              *)
(***************************************************************************)
EXTENDS Planner, PlanArithmetic

(* A number that stands for no other: element i of a test input.           *)
Sample(i) == <<(i * i * 37 + i * 11 + 5) % Prime, (i * i * i * 91 + i * 17 + 7) % Prime>>

(* Executing the plan writes every output of every transform of the batch, *)
(* and nothing else, as the definition of the transform gives them.        *)
ComputesTheTransform(plan, req) ==
  LET p == req.prob
      x == [i \in 0..((p.howmany - 1) * p.idist + (p.n - 1) * p.istride) |->
              IF p.kind = "r2c" THEN Real(Sample(i)) ELSE Sample(i)] @@ << >>
  IN  Execute(plan, x, 0) = KernelN(p, x, 0)

PlannableRequest(req) ==
  \/ ~req.fixedPoint /\ AllowsConvolution(PolicyFromOptions(req.wantSme, req.timed))
  \/ IsProductOfBase(req.prob.n)

(* Every planning call returns; its answer computes the transform asked    *)
(* for, or is nullptr when without convolutions there is no such plan; and *)
(* nothing but the answer is seen of the search, its wisdom or its clock.  *)
Contract == INSTANCE Planning WITH
  None      <- NoPlan,
  Plannable <- PlannableRequest,
  Serves    <- ComputesTheTransform,
  phase     <- IF status = "running" THEN "asked" ELSE "answered",
  answer    <- result

ImplementsPlanning == Contract!Spec

=============================================================================
