------------------------------- MODULE Planner -------------------------------
(***************************************************************************)
(* The wisdom-driven recursive plan search of PLFFT's new 1-D planner      *)
(* (src/src/planner).  planner::make_plan solves a problem by trying an    *)
(* ordered list of strategies; a strategy asks the planner for plans of    *)
(* smaller problems, the candidates are benchmarked against a deadline,    *)
(* and the winner's strategy index is remembered in a wisdom table that    *)
(* later requests are rebuilt from.                                        *)
(*                                                                         *)
(* The C++ recursion is an explicit stack: one frame per active            *)
(* make_plan_impl call.  What the machine decides at run time (the clock   *)
(* and the outcome of a benchmark) is nondeterministic.  The module holds  *)
(* one plfft_plan_create call: the wisdom, the deadline and the stack are  *)
(* all local to make_planner_batched_1d_plan.                              *)
(***************************************************************************)
EXTENDS PlanStrategies

CONSTANT
  Requests   (* set of [prob, wantSme, timed, fixedPoint]: the calls       *)

(* plfft_plan_create refuses a length or a batch that is not positive.     *)
ASSUME RequestsAssumption ==
  Requests \subseteq
    [prob : Problems, wantSme : BOOLEAN, timed : BOOLEAN, fixedPoint : BOOLEAN]

VARIABLES
  request,   (* the call being served                                      *)
  stack,     (* frames of the active make_plan_impl calls, oldest first    *)
  wisdom,    (* problem -> sequence of entries [strategy, policy]          *)
  expired,   (* benchmarker::timed_out() would answer TRUE                 *)
  status,    (* "running", "done", or "abort" (std::abort())               *)
  result,    (* the plan the outermost call returned                       *)
  found      (* history: <<problem, policy>> -> the plan wisdom was stored *)
             (* for                                                        *)

vars == <<request, stack, wisdom, expired, status, result, found>>

-----------------------------------------------------------------------------
(* Policies: sets of permissions.                                          *)

ALLOW_ALL == {"CONVOLUTIONS", "PRUNING", "SME", "SME2"}

PolicyFromOptions(wantSme, timed) ==
  (ALLOW_ALL \ (IF wantSme THEN {} ELSE {"SME", "SME2"}))
             \ (IF timed THEN {"PRUNING"} ELSE {})

(* fixed-point data has null entries for the convolution strategies.       *)
IsNull(s) == request.fixedPoint /\ IsConvolution(s)

-----------------------------------------------------------------------------
(* Wisdom.                                                                 *)

Dominates(a, b) == b \subseteq a

NoEntry == [strategy |-> 0, policy |-> {}]

(* Seeded fault: problems are compared without their batch.                *)
WisdomEntries_IgnoringBatch(p) ==
  LET same == {q \in DOMAIN wisdom : q.n = p.n /\ q.kind = p.kind /\ q.dir = p.dir}
  IN  IF same # {} THEN wisdom[CHOOSE q \in same : TRUE] ELSE << >>

WisdomEntries(p) == IF p \in DOMAIN wisdom THEN wisdom[p] ELSE << >>

(* Seeded fault: an entry of exactly the requested policy is passed over.  *)
WisdomLookup_Strict(p, policy) ==
  LET es == WisdomEntries(p)
      best[i \in 0..Len(es)] ==
        IF i = 0 THEN NoEntry
        ELSE IF Dominates(policy, es[i].policy) /\ policy # es[i].policy
        THEN es[i] ELSE best[i - 1]
  IN  best[Len(es)]

(* The usable entry that dominates the best one before it, entry by entry. *)
BestEntry(es, policy) ==
  LET best[i \in 0..Len(es)] ==
        IF i = 0 THEN NoEntry
        ELSE IF /\ Dominates(policy, es[i].policy)
                /\ \/ best[i - 1] = NoEntry
                   \/ Dominates(es[i].policy, best[i - 1].policy)
        THEN es[i] ELSE best[i - 1]
  IN  best[Len(es)]

WisdomLookup(p, policy) == BestEntry(WisdomEntries(p), policy)

(* The table f with an entry for key.                                      *)
With(f, key, value) == [x \in DOMAIN f \cup {key} |-> IF x = key THEN value ELSE f[x]]

(* Seeded fault: the index saved is one past the strategy that won.        *)
WisdomUpdate_OffByOne(p, entry) ==
  wisdom' = With(wisdom, p, Append(WisdomEntries(p), [entry EXCEPT !.strategy = @ + 1]))

WisdomUpdate(p, entry) ==
  LET es   == WisdomEntries(p)
      same == {i \in DOMAIN es : es[i].policy = entry.policy}
  IN  wisdom' = With(wisdom, p,
                     IF same # {}
                     THEN [es EXCEPT ![CHOOSE i \in same : \A j \in same : i <= j] = entry]
                     ELSE Append(es, entry))

-----------------------------------------------------------------------------
(* Frames of make_plan_impl.                                               *)

NewFrame(p, policy) ==
  [p |-> p, policy |-> policy, pc |-> "lookup", strategy |-> 1,
   answers |-> << >>, best |-> NoPlan, bestStrategy |-> 0, candidate |-> NoPlan]

Top == Last(stack)
Below == Front(stack)
Prunes(f) == "PRUNING" \in f.policy

(* The frame after the one that is active becomes f.                       *)
Become(f) == stack' = Append(Below, f)

(* The active frame returns plan.                                          *)
Return(plan) ==
  IF Below = << >>
  THEN /\ stack' = << >>
       /\ status' = "done"
       /\ result' = plan
  ELSE /\ stack' = [Below EXCEPT ![Len(Below)].answers = Append(@, plan)]
       /\ UNCHANGED <<status, result>>

(* The next strategy the loop would ask that does not return nullptr at    *)
(* its null or applicability check.                                        *)
NextApplicable(f) ==
  {i \in f.strategy..Len(Strategies) :
     /\ ~IsNull(Strategies[i]) /\ IsApplicable(Strategies[i], f.p, f.policy)
     /\ \A j \in f.strategy..(i - 1) :
          IsNull(Strategies[j]) \/ ~IsApplicable(Strategies[j], f.p, f.policy)}

(* Seeded fault: the loop never looks at the clock.                        *)
OutOfTime_Never(f) == FALSE

OutOfTime(f) == ~Prunes(f) /\ f.best # NoPlan /\ expired

Init ==
  /\ request \in Requests
  /\ stack = << NewFrame(request.prob, PolicyFromOptions(request.wantSme, request.timed)) >>
  /\ wisdom = << >>
  /\ expired = ~request.timed
  /\ status = "running"
  /\ result = NoPlan
  /\ found = << >>

(* wisdom.lookup: a hit switches to the planner of the saved policy.       *)
Lookup ==
  /\ status = "running" /\ Top.pc = "lookup"
  /\ LET hit == WisdomLookup(Top.p, Top.policy)
     IN  IF hit = NoEntry
         THEN Become([Top EXCEPT !.pc = "search"])
         ELSE Become([Top EXCEPT !.pc = "rebuild", !.policy = hit.policy,
                                 !.strategy = hit.strategy])
  /\ UNCHANGED <<request, wisdom, expired, status, result, found>>

(* Choose the strategy to ask next, or leave the loop.                     *)
TryStrategy ==
  /\ status = "running" /\ Top.pc = "search"
  /\ IF OutOfTime(Top) \/ NextApplicable(Top) = {}
     THEN Become([Top EXCEPT !.pc = "exit"])
     ELSE \E i \in NextApplicable(Top) :
            Become([Top EXCEPT !.pc = "make", !.strategy = i])
  /\ UNCHANGED <<request, wisdom, expired, status, result, found>>

(* strategy->make_plan: not applicable or a missing sub-plan is nullptr;   *)
(* otherwise ask the (sub)planner for the sub-plans one after the other.   *)
Strategy == Strategies[Top.strategy]

MakesNoPlan ==
  IsNull(Strategy) \/ ~IsApplicable(Strategy, Top.p, Top.policy)
    \/ GivesUp(Strategy, Top.answers)

MissingAsks ==
  LET asks == Asks(Strategy, Top.p, Top.policy)
  IN  SubSeq(asks, Len(Top.answers) + 1, Len(asks))

AskSubPlan ==
  /\ status = "running" /\ Top.pc \in {"make", "rebuild"}
  /\ ~MakesNoPlan /\ MissingAsks # << >>
  /\ stack' = Append(stack, NewFrame(Head(MissingAsks).p, Head(MissingAsks).policy))
  /\ UNCHANGED <<request, wisdom, expired, status, result, found>>

MadePlan == Plan(Strategy, Top.p, Top.answers)

(* A search goes on to the next strategy after nullptr, keeps a pruned     *)
(* candidate, and measures any other.                                      *)
FinishCandidate ==
  /\ status = "running" /\ Top.pc = "make"
  /\ \/ /\ MakesNoPlan
        /\ Become([Top EXCEPT !.pc = "search", !.strategy = @ + 1, !.answers = << >>])
     \/ /\ ~MakesNoPlan /\ MissingAsks = << >> /\ Prunes(Top)
        /\ Become([Top EXCEPT !.pc = "exit", !.answers = << >>, !.best = MadePlan,
                              !.bestStrategy = Top.strategy])
     \/ /\ ~MakesNoPlan /\ MissingAsks = << >> /\ ~Prunes(Top)
        /\ Become([Top EXCEPT !.pc = "measure", !.answers = << >>, !.candidate = MadePlan])
  /\ UNCHANGED <<request, wisdom, expired, status, result, found>>

(* A plan recalled from wisdom is returned as it is; a nullptr there is    *)
(* the assert/abort "failed to reconstruct plan from wisdom".              *)
FinishRebuild ==
  /\ status = "running" /\ Top.pc = "rebuild"
  /\ IF MakesNoPlan
     THEN status' = "abort" /\ UNCHANGED <<stack, result>>
     ELSE MissingAsks = << >> /\ Return(MadePlan)
  /\ UNCHANGED <<request, wisdom, expired, found>>

(* Seeded fault: a candidate without a measured round is always dropped.   *)
MeasureTimesOut_Drops ==
  /\ status = "running" /\ Top.pc = "measure" /\ expired
  /\ Become([Top EXCEPT !.pc = "exit", !.candidate = NoPlan])
  /\ UNCHANGED <<request, wisdom, expired, status, result, found>>

(* bench.measure without a single round: a best-effort plan, and stop.     *)
MeasureTimesOut ==
  /\ status = "running" /\ Top.pc = "measure" /\ expired
  /\ Become(IF Top.best = NoPlan
            THEN [Top EXCEPT !.pc = "exit", !.best = Top.candidate,
                             !.bestStrategy = Top.strategy, !.candidate = NoPlan]
            ELSE [Top EXCEPT !.pc = "exit", !.candidate = NoPlan])
  /\ UNCHANGED <<request, wisdom, expired, status, result, found>>

(* Seeded fault: a better candidate replaces the plan but not the index.   *)
Measure_KeepsIndex(prefers) ==
  /\ status = "running" /\ Top.pc = "measure" /\ ~expired
  /\ Become(IF Top.best = NoPlan
            THEN [Top EXCEPT !.pc = "search", !.strategy = @ + 1, !.candidate = NoPlan,
                             !.best = Top.candidate, !.bestStrategy = Top.strategy]
            ELSE [Top EXCEPT !.pc = "search", !.strategy = @ + 1, !.candidate = NoPlan,
                             !.best = IF prefers THEN Top.candidate ELSE Top.best])
  /\ UNCHANGED <<request, wisdom, expired, status, result, found>>

(* bench.measure with a result, compared with the best one's (a search     *)
(* that goes on has a result for its best plan).                           *)
Measure(prefers) ==
  /\ status = "running" /\ Top.pc = "measure" /\ ~expired
  /\ Become(IF Top.best = NoPlan \/ prefers
            THEN [Top EXCEPT !.pc = "search", !.strategy = @ + 1, !.candidate = NoPlan,
                             !.best = Top.candidate, !.bestStrategy = Top.strategy]
            ELSE [Top EXCEPT !.pc = "search", !.strategy = @ + 1, !.candidate = NoPlan])
  /\ UNCHANGED <<request, wisdom, expired, status, result, found>>

(* The end of the search: remember the best strategy and return its plan.  *)
Finish ==
  /\ status = "running" /\ Top.pc = "exit"
  /\ IF Top.best = NoPlan
     THEN UNCHANGED <<wisdom, found>>
     ELSE /\ WisdomUpdate(Top.p, [strategy |-> Top.bestStrategy, policy |-> Top.policy])
          /\ found' = With(found, <<Top.p, Top.policy>>, Top.best)
  /\ Return(Top.best)
  /\ UNCHANGED <<request, expired>>

(* The clock passes target_secs_total.                                     *)
Expire ==
  /\ status = "running" /\ ~expired
  /\ expired' = TRUE
  /\ UNCHANGED <<request, stack, wisdom, status, result, found>>

Terminated == status # "running" /\ UNCHANGED vars

Step ==
  \/ Lookup \/ TryStrategy \/ AskSubPlan \/ FinishCandidate \/ FinishRebuild
  \/ MeasureTimesOut \/ (\E prefers \in BOOLEAN : Measure(prefers)) \/ Finish

Next == Step \/ Expire \/ Terminated

(* The planning thread keeps running; nothing is assumed of the clock.     *)
Spec == Init /\ [][Next]_vars /\ WF_vars(Step)

-----------------------------------------------------------------------------
(* Properties.                                                             *)

IsPlannable(p, policy) ==
  (AllowsConvolution(policy) /\ ~request.fixedPoint) \/ IsProductOfBase(p.n)

PlansOf(f) ==
  {f.best, f.candidate} \cup {f.answers[i] : i \in DOMAIN f.answers}

TypeOK ==
  /\ request \in Requests
  /\ status \in {"running", "done", "abort"}
  /\ expired \in BOOLEAN
  /\ \A i \in DOMAIN stack :
       /\ stack[i].pc \in {"lookup", "search", "make", "rebuild", "measure", "exit"}
       /\ stack[i].strategy \in 1..(Len(Strategies) + 1)
       /\ stack[i].policy \subseteq ALLOW_ALL
       /\ i < Len(stack) => stack[i].pc \in {"make", "rebuild"}
  /\ \A p \in DOMAIN wisdom : \A i \in DOMAIN wisdom[p] :
       wisdom[p][i].strategy \in DOMAIN Strategies

(* Wisdom can always be turned back into a plan: the std::abort of         *)
(* make_plan_impl is unreachable ("this should never happen!").            *)
ReconstructionNeverFails == status # "abort"

(* Whether a (sub)problem gets a plan depends on the problem and on the    *)
(* policy it was asked with, and on neither the clock, the benchmarks nor  *)
(* what wisdom already held.                                               *)
OutcomeIsDetermined ==
  /\ status = "done" =>
       (result # NoPlan) = IsPlannable(request.prob,
                             PolicyFromOptions(request.wantSme, request.timed))
  /\ \A i \in DOMAIN stack : \A k \in DOMAIN stack[i].answers :
       LET f   == stack[i]
           ask == Asks(Strategies[f.strategy], f.p, f.policy)[k]
       IN  (f.answers[k] # NoPlan) = IsPlannable(ask.p, ask.policy)

(* No plan runs a convolution inside the transforms of another: both would *)
(* use the one rader (or bluestein) buffer of the thread.                  *)
NoNestedConvolution ==
  \A plan \in {result} \cup UNION {PlansOf(stack[i]) : i \in DOMAIN stack} :
    plan # NoPlan => ~plan.nested

(* A plan rebuilt from wisdom is the plan that won when the wisdom was     *)
(* stored, all the way down: a benchmark is never thrown away.             *)
RecallIsFaithful ==
  \A i \in DOMAIN stack :
    LET f == stack[i]
    IN  f.pc = "rebuild" =>
          /\ <<f.p, f.policy>> \in DOMAIN found
          /\ LET winner == found[<<f.p, f.policy>>]
             IN  /\ Strategies[f.strategy] = winner.s
                 /\ \A k \in DOMAIN f.answers : f.answers[k] = winner.subs[k]

(* What wisdom holds of a problem under a policy is never revised: a       *)
(* problem is searched once, and every later request for it recalls.       *)
WisdomIsStable ==
  [][\A p \in DOMAIN wisdom : \A i \in DOMAIN wisdom[p] :
       p \in DOMAIN wisdom' /\ i \in DOMAIN wisdom'[p] /\ wisdom'[p][i] = wisdom[p][i]]_vars

(* Once a search has a plan in hand and the clock has run out, it asks no  *)
(* further strategy: late sub-searches only finish.                        *)
NoSearchAfterDeadline ==
  [][\A i \in DOMAIN stack :
       (/\ expired /\ ~Prunes(stack[i]) /\ stack[i].best # NoPlan
        /\ i \in DOMAIN stack' /\ stack'[i].p = stack[i].p)
       => stack'[i].strategy = stack[i].strategy
            \/ (stack[i].pc \in {"make", "measure"} /\ stack'[i].pc = "search")]_vars

(* The recursion is well founded: a sub-problem is shorter, or as long     *)
(* with a single batch, or its planner lost the right to convolve.         *)
RecursionDescends ==
  \A i \in 2..Len(stack) :
    LET outer == stack[i - 1]
        inner == stack[i]
    IN  \/ AllowsConvolution(outer.policy) /\ ~AllowsConvolution(inner.policy)
        \/ inner.p.n < outer.p.n
        \/ inner.p.n = outer.p.n /\ inner.p.howmany = 1 /\ outer.p.howmany > 1

=============================================================================
