---------------------------- MODULE PlanStrategies ----------------------------
(***************************************************************************)
(* The strategies of PLFFT's planner (src/src/planner/strategies): which   *)
(* problems each one applies to, which smaller problems it asks the        *)
(* planner for and under which policy, and when it answers nullptr.        *)
(* Constant operators only; Planner runs them.                             *)
(***************************************************************************)
EXTENDS Integers, Sequences, SequencesExt, FiniteSets

CONSTANTS
  Base,      (* lengths with a base kernel, ascending: get_kernel_ns()     *)
  Radices    (* lengths the strategy table lists for direct/cooley_tukey   *)

ASSUME BaseAssumption ==
  /\ Base \in Seq(Nat \ {0, 1}) /\ Base # << >>
  /\ Radices \in Seq(Nat \ {0, 1})
  /\ \A i, j \in DOMAIN Base : i < j => Base[i] < Base[j]

(* Every provider has a kernel of length 2, and the table of strategies    *)
(* lists every length a provider has a kernel for.                         *)
ASSUME TableAssumption ==
  /\ \E i \in DOMAIN Base : Base[i] = 2
  /\ \A i \in DOMAIN Base : \E j \in DOMAIN Radices : Radices[j] = Base[i]

(* nullptr: it has no field of a plan.                                     *)
NoPlan == [isNull |-> TRUE]

(* Number theory the strategies consult.                                   *)

IsBaseN(n) == \E i \in DOMAIN Base : Base[i] = n

SmallestPrimeFactor(n) ==
  IF \E d \in 2..n : d * d <= n /\ n % d = 0
  THEN CHOOSE d \in 2..n : n % d = 0 /\ \A e \in 2..(d - 1) : n % e # 0
  ELSE n

IsPrime(n) == n > 1 /\ SmallestPrimeFactor(n) = n

(* c with every factor f divided out.                                      *)
Strip(c, f) ==
  LET strip[k \in 1..c] == IF k % f = 0 THEN strip[k \div f] ELSE k
  IN  strip[c]

FactorableByBase(c) ==
  LET candidate[k \in 0..Len(Base)] ==
        IF k = 0 THEN c ELSE Strip(candidate[k - 1], Base[k])
  IN  candidate[Len(Base)] = 1

(* One of the powers of the smallest kernel length bounds the search.      *)
NextLengthFactorableByBase(n) ==
  CHOOSE l \in n..(Base[1] * n) :
    FactorableByBase(l) /\ \A k \in n..(l - 1) : ~FactorableByBase(k)

BluesteinConvolutionLength(n) == NextLengthFactorableByBase(2 * n - 1)

-----------------------------------------------------------------------------
(* Problems.                                                               *)

Problem(kind, n, istride, ostride, howmany, idist, odist, dir) ==
  [kind |-> kind, n |-> n, istride |-> istride, ostride |-> ostride,
   howmany |-> howmany, idist |-> idist, odist |-> odist, dir |-> dir]

Problems ==
  [kind : {"c2c", "r2c", "c2r"}, n : Nat \ {0}, istride : Int, ostride : Int,
   howmany : Nat \ {0}, idist : Int, odist : Int, dir : {"FORWARD", "BACKWARD"}]

(* Decimation in time for c2c and r2c, in frequency for c2r.               *)
IsDit(p) == p.kind \in {"c2c", "r2c"}

(* Batches packed on the recursive side and interleaved on the other.      *)
IsAcLayout(p) ==
  IF IsDit(p) THEN p.istride = p.howmany * p.idist /\ p.odist = 1
              ELSE p.idist = 1 /\ p.ostride = p.howmany * p.odist

(* What a radix-r step leaves: r (or howmany * r) transforms of n / r.     *)
AbStage(p, r) ==
  IF IsDit(p)
  THEN Problem(p.kind, p.n \div r, p.istride * r, r, r, p.istride, 1, p.dir)
  ELSE Problem(p.kind, p.n \div r, r, p.ostride * r, r, 1, p.ostride, p.dir)

AcStage(p, r) ==
  LET hr == p.howmany * r
  IN  IF IsDit(p)
      THEN Problem(p.kind, p.n \div r, p.istride * r, hr, hr, p.idist, 1, p.dir)
      ELSE Problem(p.kind, p.n \div r, hr, p.ostride * r, hr, 1, p.odist, p.dir)

(* The three plans of a convolution of length n over howmany columns: of   *)
(* the constant table b, forwards and backwards.                           *)
ConvolutionProblems(n, howmany) ==
  << Problem("c2c", n, 1, 1, 1, 0, 0, "FORWARD"),
     Problem("c2c", n, howmany, howmany, howmany, 1, 1, "FORWARD"),
     Problem("c2c", n, howmany, howmany, howmany, 1, 1, "BACKWARD") >>

(* Seeded fault: the inner problem keeps the batch.                        *)
LoopInner_KeepsBatch(p) == p

LoopInner(p) == Problem(p.kind, p.n, p.istride, p.ostride, 1, 0, 0, p.dir)

-----------------------------------------------------------------------------
(* Strategies, in the order of the table.  Those built with                *)
(* make_for_floating_point are null entries for fixed-point data.          *)

Named(name, rs) == [i \in DOMAIN rs |-> [name |-> name, r |-> rs[i]]]

ConvolutionNames ==
  << "ct_rader_ab", "ct_rader_ac", "ct_bluestein_ab", "ct_bluestein_ac",
     "rader", "bluestein" >>

Strategies ==
  Named("direct", Radices) \o Named("ct_ab", Reverse(Radices))
    \o Named("ct_ac", Reverse(Radices))
    \o [i \in DOMAIN ConvolutionNames |-> [name |-> ConvolutionNames[i], r |-> 0]]
    \o << [name |-> "loop", r |-> 0], [name |-> "fft1", r |-> 0] >>

IsConvolution(s) == \E i \in DOMAIN ConvolutionNames : s.name = ConvolutionNames[i]

(* The is_applicable of each strategy.                                     *)
IsProperBaseRadix(r, p) == r < p.n /\ p.n % r = 0 /\ IsBaseN(r)
AllowsConvolution(policy) == "CONVOLUTIONS" \in policy
IsConvolvablePrime(p) == ~IsBaseN(p.n) /\ p.n > 2 /\ IsPrime(p.n)
HasConvolvableRadix(p) ==
  p.n > 2 /\ ~IsPrime(p.n) /\ ~IsBaseN(SmallestPrimeFactor(p.n))

IsApplicable(s, p, policy) ==
  \/ s.name = "direct" /\ p.n = s.r /\ IsBaseN(p.n)
  \/ s.name = "ct_ab" /\ IsProperBaseRadix(s.r, p) /\ p.howmany = 1
  \/ s.name = "ct_ac" /\ IsProperBaseRadix(s.r, p) /\ IsAcLayout(p) /\ p.howmany > 1
  \/ /\ s.name \in {"ct_rader_ab", "ct_bluestein_ab"}
     /\ p.howmany = 1 /\ AllowsConvolution(policy) /\ HasConvolvableRadix(p)
  \/ /\ s.name \in {"ct_rader_ac", "ct_bluestein_ac"}
     /\ IsAcLayout(p) /\ p.howmany > 1
     /\ AllowsConvolution(policy) /\ HasConvolvableRadix(p)
  \/ s.name \in {"rader", "bluestein"} /\ AllowsConvolution(policy) /\ IsConvolvablePrime(p)
  \/ s.name = "loop" /\ p.n > 1 /\ p.howmany > 1
  \/ s.name = "fft1" /\ p.n = 1

(* The plans make_plan of strategy s asks the planner for, in order, each  *)
(* with the policy of the (sub)planner it asks.                            *)
Ask(ps, policy) == [i \in DOMAIN ps |-> [p |-> ps[i], policy |-> policy]]

ConvolutionLength(s, n) ==
  IF s.name \in {"rader", "ct_rader_ab", "ct_rader_ac"} THEN n - 1
                                       ELSE BluesteinConvolutionLength(n)

(* Seeded fault: the sub-planner of a convolution may convolve too.        *)
ConvolutionAsks_KeepsPolicy(s, n, howmany, policy) ==
  Ask(ConvolutionProblems(ConvolutionLength(s, n), howmany), policy)

ConvolutionAsks(s, n, howmany, policy) ==
  Ask(ConvolutionProblems(ConvolutionLength(s, n), howmany), policy \ {"CONVOLUTIONS"})

Asks(s, p, policy) ==
  LET spf == SmallestPrimeFactor(p.n)
      m   == p.n \div spf
      columns == IF p.kind = "c2r" THEN m \div 2 + 1 ELSE m
  IN  CASE s.name \in {"direct", "fft1"} -> << >>
        [] s.name = "ct_ab" -> Ask(<<AbStage(p, s.r)>>, policy)
        [] s.name = "ct_ac" -> Ask(<<AcStage(p, s.r)>>, policy)
        [] s.name = "loop"  -> Ask(<<LoopInner(p)>>, policy)
        [] s.name \in {"rader", "bluestein"} -> ConvolutionAsks(s, p.n, p.howmany, policy)
        [] s.name \in {"ct_rader_ab", "ct_bluestein_ab"} ->
             ConvolutionAsks(s, spf, columns, policy) \o Ask(<<AbStage(p, spf)>>, policy)
        [] s.name \in {"ct_rader_ac", "ct_bluestein_ac"} ->
             ConvolutionAsks(s, spf, columns, policy) \o Ask(<<AcStage(p, spf)>>, policy)

(* make_plan returns nullptr when an answer is missing, but looks only     *)
(* once it has all plans of a convolution, or its last answer.             *)
GivesUp(s, answers) ==
  /\ Len(answers) \in IF IsConvolution(s) THEN {3, 4} ELSE {1}
  /\ \E i \in DOMAIN answers : answers[i] = NoPlan

(* A plan: its strategy, its problem and its sub-plans, with whether its   *)
(* execution uses a convolution buffer, and whether it does so inside the  *)
(* forward or backward plan of a convolution that still owns its own.      *)
Plan(s, p, subs) ==
  LET inner == IF IsConvolution(s) THEN SubSeq(subs, 2, 3) ELSE << >>
  IN  [s |-> s, p |-> p, subs |-> subs,
       convolves |-> IsConvolution(s) \/ \E i \in DOMAIN subs : subs[i].convolves,
       nested |-> \/ \E i \in DOMAIN inner : inner[i].convolves
                  \/ \E i \in DOMAIN subs : subs[i].nested]

-----------------------------------------------------------------------------
(* n is a product of kernel lengths: what can be planned without           *)
(* convolutions.  A reference definition, not code.                        *)
IsProductOfBase(n) ==
  LET product[k \in 1..n] ==
        k = 1 \/ \E i \in DOMAIN Base : k % Base[i] = 0 /\ product[k \div Base[i]]
  IN  product[n]

=============================================================================
