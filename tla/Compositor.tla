------------------------------- MODULE Compositor -------------------------------
(***************************************************************************)
(* How the legacy planner, which OpenMP builds use, chooses a composition  *)
(* (compositor.cpp: composite_init and audition_perms): two factorisations *)
(* of the length, the orders of the factors, and for lengths that need a   *)
(* convolution the choice between Rader's algorithm and Bluestein's, timed *)
(* against each other until the time given is used up.                     *)
(***************************************************************************)
EXTENDS Factorize

CONSTANTS
  Lengths,    (* transform lengths asked for                               *)
  Integral,   (* TRUE for the fixed-point types                            *)
  Means       (* measured mean times, positive                             *)

ASSUME CompositorAssumption ==
  /\ Lengths \subseteq Nat \ {0}
  /\ Integral \in BOOLEAN
  /\ Means \subseteq Nat \ {0} /\ Means # {}

VARIABLES
  call,      (* the arguments: length, timed (target_secs_total > 0) and   *)
             (* convolutions (allow_convolutions)                          *)
  phase,     (* idle, square, descending, done                             *)
  step,      (* in a round of the audition: rader or bluestein             *)
  factors,   (* the order of the factors under audition                    *)
  perm,      (* rounds completed for this factorisation                    *)
  first,     (* the next candidate is adopted whatever its time            *)
  measured,  (* the candidate last timed                                   *)
  comp,      (* the composition kept: levels and estimate.mean             *)
  tried,     (* orders that had a round, of this factorisation (auxiliary) *)
  result     (* success1 of the first factorisation, then of the call      *)

vars == <<call, phase, step, factors, perm, first, measured, comp, tried, result>>

-----------------------------------------------------------------------------
(* The levels of a composition.                                            *)

PowersMod(g, n) ==
  LET power[i \in 0..(n - 2)] == IF i = 0 THEN 1 ELSE (power[i - 1] * g) % n
  IN  {power[i] : i \in 0..(n - 2)}

find_group_generator(n) == \E g \in 2..(n - 1) : Cardinality(PowersMod(g, n)) = n - 1

AllKernels(s) == \A f \in Range(s) : IsKernel(f)

(* composite_init succeeds without convolutions.  Whether the second       *)
(* factorisation decides as well depends on the time given.                *)
DirectlyPlannable(n, timed) ==
  \/ n < 2
  \/ /\ KernelNs # << >>
     /\ \E square \in factorize_square(n) :
          IF timed \/ ~AllKernels(square) THEN AllKernels(factorize_descending(n))
                                          ELSE TRUE

(* create_rader: a generator, and sub-plans without convolutions.          *)
RaderIsPossible(n, timed) ==
  find_group_generator(n) /\ (IsKernel(n - 1) \/ DirectlyPlannable(n - 1, timed))

(* Seeded fault: a level that may not convolve does.                       *)
Algorithm_Unrestricted(factor, timed, raders, bluestein) ==
  IF IsKernel(factor) THEN "direct"
  ELSE IF Integral THEN "none"
  ELSE IF raders /\ RaderIsPossible(factor, timed) THEN "rader"
  ELSE "bluestein"

(* make_level_data.                                                        *)
Algorithm(factor, timed, raders, bluestein) ==
  IF IsKernel(factor) THEN "direct"
  ELSE IF Integral \/ ~(raders \/ bluestein) THEN "none"
  ELSE IF raders /\ RaderIsPossible(factor, timed) THEN "rader"
  ELSE "bluestein"

(* composite_init_from_factors.                                            *)
LevelsOf(raders, bluestein) ==
  [i \in DOMAIN factors |->
     [n1 |-> factors[i], by |-> Algorithm(factors[i], call.timed, raders, bluestein)]]

Uses(levels, algorithm) == \E i \in DOMAIN levels : levels[i].by = algorithm

NoComposition == [levels |-> << >>, mean |-> 0]

-----------------------------------------------------------------------------
(* std::next_permutation.                                                  *)
ReverseFrom(s, k) == SubSeq(s, 1, k - 1) \o Reverse(SubSeq(s, k, Len(s)))

Exchange(s, i, j) == [s EXCEPT ![i] = s[j], ![j] = s[i]]

(* Seeded fault: the tail is left as it was.                               *)
NextPermutation_KeepsTail(s) ==
  LET ascents == {i \in 1..(Len(s) - 1) : s[i] < s[i + 1]}
  IN  IF ascents = {} THEN Reverse(s)
      ELSE LET i == Max(ascents)
               j == Max({k \in DOMAIN s : k > i /\ s[k] > s[i]})
           IN  Exchange(s, i, j)

NextPermutation(s) ==
  LET ascents == {i \in 1..(Len(s) - 1) : s[i] < s[i + 1]}
  IN  IF ascents = {} THEN Reverse(s)
      ELSE LET i == Max(ascents)
               j == Max({k \in DOMAIN s : k > i /\ s[k] > s[i]})
           IN  ReverseFrom(Exchange(s, i, j), i + 1)

Factorial(k) == Product([i \in 1..k |-> i])

NumPermutations == IF call.timed THEN Factorial(Len(factors)) ELSE 1

Init ==
  /\ call = [n |-> 1, timed |-> FALSE, convolutions |-> FALSE]
  /\ phase = "idle" /\ step = "rader"
  /\ factors = << >> /\ perm = 0 /\ first = TRUE /\ tried = {}
  /\ measured = NoComposition /\ comp = NoComposition
  /\ result = TRUE

(* composite_init, until the first audition.                               *)
Start(n, timed, convolutions) ==
  /\ phase = "idle"
  /\ call' = [n |-> n, timed |-> timed, convolutions |-> convolutions]
  /\ IF n < 2 \/ KernelNs = << >>
     THEN phase' = "done" /\ result' = (n < 2) /\ UNCHANGED factors
     ELSE phase' = "square" /\ factors' \in factorize_square(n) /\ UNCHANGED result
  /\ UNCHANGED <<step, perm, first, measured, comp, tried>>

(* audition_perms returns: to the second factorisation, or to the end.     *)
FinishPhase(success) ==
  /\ step' = "rader" /\ first' = FALSE
  /\ IF phase = "square" /\ (~success \/ call.timed)
     THEN /\ phase' = "descending"
          /\ factors' = factorize_descending(call.n) /\ perm' = 0 /\ tried' = {}
          /\ UNCHANGED result
     ELSE /\ phase' = "done" /\ result' = success
          /\ UNCHANGED <<factors, perm, tried>>

(* Seeded fault: one round too many.                                       *)
FinishRound_Late ==
  IF perm = NumPermutations
  THEN FinishPhase(TRUE)
  ELSE /\ factors' = NextPermutation(factors) /\ perm' = perm + 1
       /\ step' = "rader" /\ first' = FALSE /\ tried' = tried \cup {factors}
       /\ UNCHANGED <<phase, result>>

(* The next order of the factors, unless this was the last round.          *)
FinishRound ==
  IF perm + 1 = NumPermutations
  THEN FinishPhase(TRUE)
  ELSE /\ factors' = NextPermutation(factors) /\ perm' = perm + 1
       /\ step' = "rader" /\ first' = FALSE /\ tried' = tried \cup {factors}
       /\ UNCHANGED <<phase, result>>

(* composite_init_set_estimate: a mean, or none without time to measure.   *)
Estimates == IF call.timed THEN Means ELSE {0}

(* timer_end(t) >= target_secs_total: without time it is always so.        *)
TimeIsUp == IF call.timed THEN BOOLEAN ELSE {TRUE}

(* Seeded fault: the candidate must beat what is kept, first or not.       *)
Wins_Strictly(mean) == mean < comp.mean

Wins(mean) == first \/ mean < comp.mean

(* A round: the candidate is built for one transform and unit strides, and *)
(* rebuilt for the caller's when it is the best so far.                    *)
Audition ==
  LET levels == LevelsOf(call.convolutions, call.convolutions)
  IN  /\ phase \in {"square", "descending"} /\ step = "rader"
      /\ UNCHANGED call
      /\ IF Uses(levels, "none")
         THEN FinishPhase(FALSE) /\ UNCHANGED <<measured, comp>>
         ELSE \E mean \in Estimates, timeout \in TimeIsUp :
                /\ measured' = [levels |-> levels, mean |-> mean]
                /\ comp' = IF Wins(mean) THEN [levels |-> levels, mean |-> mean] ELSE comp
                /\ IF timeout THEN FinishPhase(TRUE)
                   ELSE IF Uses(levels, "rader")
                   THEN /\ step' = "bluestein" /\ first' = FALSE
                        /\ UNCHANGED <<phase, factors, perm, tried, result>>
                   ELSE FinishRound

(* The same order with Bluestein instead of Rader.  What is kept when it   *)
(* wins is built anew as in Audition, and without an estimate.             *)
AuditionBluestein ==
  LET levels == LevelsOf(FALSE, TRUE)
  IN  /\ phase \in {"square", "descending"} /\ step = "bluestein"
      /\ UNCHANGED call
      /\ \E mean \in Estimates, timeout \in TimeIsUp :
           /\ measured' = [levels |-> levels, mean |-> mean]
           /\ comp' = IF mean < comp.mean
                      THEN [levels |-> LevelsOf(call.convolutions, call.convolutions),
                            mean |-> 0]
                      ELSE comp
           /\ IF timeout THEN FinishPhase(TRUE) ELSE FinishRound

(* The composition goes to the caller.                                     *)
Return ==
  /\ phase = "done" /\ phase' = "idle"
  /\ step' = "rader" /\ factors' = << >> /\ perm' = 0 /\ first' = TRUE /\ tried' = {}
  /\ measured' = NoComposition /\ comp' = NoComposition /\ result' = TRUE
  /\ call' = [n |-> 1, timed |-> FALSE, convolutions |-> FALSE]

Next ==
  \/ \E n \in Lengths, timed, convolutions \in BOOLEAN : Start(n, timed, convolutions)
  \/ Audition \/ AuditionBluestein \/ Return

(* The audition is a loop of the calling thread: it goes on while it can.  *)
Spec == Init /\ [][Next]_vars /\ WF_vars(Audition \/ AuditionBluestein)

-----------------------------------------------------------------------------
Auditioning == phase \in {"square", "descending"}

TypeOK ==
  /\ call \in [n : Nat \ {0}, timed : BOOLEAN, convolutions : BOOLEAN]
  /\ phase \in {"idle", "square", "descending", "done"} /\ step \in {"rader", "bluestein"}
  /\ factors \in Seq(Nat \ {0, 1})
  /\ Auditioning => perm \in 0..(NumPermutations - 1)
  /\ first \in BOOLEAN /\ result \in BOOLEAN
  /\ comp.mean \in Nat /\ measured.mean \in Nat

(* Whether there is a composition depends on the length and on what is     *)
(* allowed, never on the time given, the measurements or the factorisation *)
(* that happened to be tried: create_rader and create_bluestein take the   *)
(* answer for an untimed plan to hold for a timed one.                     *)
SuccessIsDetermined ==
  phase = "done"
    => (result <=> \/ call.n = 1
                   \/ KernelNs # << >> /\ KernelsFactor(call.n)
                   \/ KernelNs # << >> /\ call.convolutions /\ ~Integral)

(* The length create_bluestein pads to can be planned without a            *)
(* convolution, with time and without ("composition1 failed in bluestein - *)
(* this should not happen").                                               *)
PaddedLengthIsPlannable ==
  \A i \in DOMAIN comp.levels :
    comp.levels[i].by = "bluestein"
      => LET n_pad == next_length_factorable_by(2 * comp.levels[i].n1 - 1)
         IN  /\ n_pad >= 2 * comp.levels[i].n1 - 1
             /\ \A timed \in BOOLEAN : DirectlyPlannable(n_pad, timed)

(* With time enough every order of the factors has its round, although     *)
(* equal factors make most of the factorial(k) rounds repetitions.         *)
EveryOrderIsAuditioned ==
  Auditioning /\ call.timed /\ step = "rader" /\ perm + 1 = NumPermutations
    => tried \cup {factors} =
         {[i \in DOMAIN factors |-> factors[p[i]]] :
            p \in Bijection(DOMAIN factors, DOMAIN factors)}

(* What is kept is what was timed: the composition that replaces the kept  *)
(* one runs the same levels by the same algorithms as the candidate that   *)
(* won, "simply to try Bluestein instead" included.                        *)
AdoptsWhatItMeasured ==
  [][comp' # comp /\ phase # "done" => comp' = measured']_vars

-----------------------------------------------------------------------------
(* A composition computes the transform asked for: its levels multiply to  *)
(* the length and each has an algorithm.  In particular it is not the      *)
(* empty composition the search starts from, which execute would take      *)
(* levels.front() of.                                                      *)
CompositionServes(answer, request) ==
  request.n > 1 =>
    /\ answer.levels # << >>
    /\ Product([i \in DOMAIN answer.levels |-> answer.levels[i].n1]) = request.n
    /\ ~Uses(answer.levels, "none")

Answered(success, levels) == [success |-> success, levels |-> levels]

LengthIsPlannable(request) ==
  \/ request.n = 1
  \/ KernelNs # << >> /\ (KernelsFactor(request.n) \/ (request.convolutions /\ ~Integral))

(* The legacy planner keeps the promise of a planner: every call returns,  *)
(* with a composition for the length asked for, or with success false when *)
(* there is none, however the auditions come out.                          *)
Contract == INSTANCE Planning WITH
  None      <- Answered(FALSE, << >>),
  Plannable <- LengthIsPlannable,
  Serves    <- CompositionServes,
  phase     <- IF phase = "idle" THEN "idle" ELSE IF phase = "done" THEN "answered" ELSE "asked",
  request   <- call,
  answer    <- IF phase = "done" /\ result THEN Answered(TRUE, comp.levels)
                                          ELSE Answered(FALSE, << >>)

ImplementsPlanning == Contract!Spec

=============================================================================
