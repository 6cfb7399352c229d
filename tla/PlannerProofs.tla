---------------------------- MODULE PlannerProofs ----------------------------
(***************************************************************************)
(* What the planner promises for every set of requests, every table of     *)
(* kernel lengths, every outcome of the benchmarks and every clock.        *)
(***************************************************************************)
EXTENDS Planner, PlanStrategiesProofs

-----------------------------------------------------------------------------
(* Tables and sequences.                                                   *)

LEMMA WithMeans ==
  ASSUME NEW f, NEW key, NEW value
  PROVE  /\ DOMAIN With(f, key, value) = DOMAIN f \cup {key}
         /\ With(f, key, value)[key] = value
         /\ \A x \in DOMAIN f : x # key => With(f, key, value)[x] = f[x]
BY DEF With

LEMMA FrontMeans ==
  ASSUME NEW T, NEW st \in Seq(T), st # << >>
  PROVE  /\ Front(st) \in Seq(T) /\ Len(Front(st)) = Len(st) - 1
         /\ \A i \in 1..(Len(st) - 1) : Front(st)[i] = st[i]
         /\ Len(st) \in Nat \ {0}
<1>1. Len(st) \in Nat \ {0} /\ DOMAIN st = 1..Len(st) /\ \A i \in 1..Len(st) : st[i] \in T
  OBVIOUS
<1>2. /\ SubSeq(st, 1, Len(st) - 1) \in Seq(T)
      /\ Len(SubSeq(st, 1, Len(st) - 1)) = Len(st) - 1
      /\ \A i \in 1..(Len(st) - 1) : SubSeq(st, 1, Len(st) - 1)[i] = st[i]
  BY <1>1, SubSeqProperties
<1> QED
  BY <1>1, <1>2 DEF Front

(* The stack after the active frame became g.                              *)
LEMMA BecomeMeans ==
  ASSUME NEW T, NEW st \in Seq(T), st # << >>, NEW g \in T
  PROVE  /\ Append(Front(st), g) \in Seq(T)
         /\ Len(Append(Front(st), g)) = Len(st)
         /\ Append(Front(st), g)[Len(st)] = g
         /\ \A i \in 1..(Len(st) - 1) : Append(Front(st), g)[i] = st[i]
<1>1. Len(st) \in Nat \ {0}
  OBVIOUS
<1>2. PICK low : low = Front(st)
  OBVIOUS
<1>3. low \in Seq(T) /\ Len(low) = Len(st) - 1 /\ \A i \in 1..(Len(st) - 1) : low[i] = st[i]
  BY <1>2, FrontMeans
<1> QED
  BY <1>1, <1>2, <1>3

LEMMA PushMeans ==
  ASSUME NEW T, NEW st \in Seq(T), NEW g \in T
  PROVE  /\ Append(st, g) \in Seq(T) /\ Len(Append(st, g)) = Len(st) + 1
         /\ Append(st, g)[Len(st) + 1] = g
         /\ \A i \in 1..Len(st) : Append(st, g)[i] = st[i]
OBVIOUS

-----------------------------------------------------------------------------
(* The best entry of a problem's wisdom.                                   *)

EntriesUnder(P) == [strategy : 1..Len(Strategies), policy : {P, Without(P)}]

(* One entry for a policy.                                                 *)
AreEntries(es, P) ==
  /\ es \in Seq(EntriesUnder(P))
  /\ \A i, j \in 1..Len(es) : es[i].policy = es[j].policy => i = j

IsBest(best, es, policy) ==
  best = [i \in 0..Len(es) |->
            IF i = 0 THEN NoEntry
            ELSE IF /\ Dominates(policy, es[i].policy)
                    /\ \/ best[i - 1] = NoEntry
                       \/ Dominates(es[i].policy, best[i - 1].policy)
            THEN es[i] ELSE best[i - 1]]

LEMMA BestExists ==
  ASSUME NEW T, NEW es \in Seq(T), NEW policy
  PROVE  \E best : IsBest(best, es, policy) /\ BestEntry(es, policy) = best[Len(es)]
<1> DEFINE S == T \cup {NoEntry}
           Takes(b, i) == /\ i \in 1..Len(es) /\ Dominates(policy, es[i].policy)
                          /\ b = NoEntry \/ Dominates(es[i].policy, b.policy)
           step == [x \in S \X Nat |-> IF Takes(x[1], x[2]) THEN es[x[2]] ELSE x[1]]
<1>1. NoEntry \in S /\ step \in [S \X Nat -> S]
  OBVIOUS
<1>2. \A b \in S, i \in 1..Len(es) : step[<<b, i>>] = IF Takes(b, i) THEN es[i] ELSE b
  OBVIOUS
<1> HIDE DEF S, step
<1>3. PICK best \in [0..Len(es) -> S] : Recurs(best, NoEntry, step, Len(es))
  <2>1. Len(es) \in Nat
    OBVIOUS
  <2> QED
    BY <1>1, <2>1, RecursionExists
<1>4. ASSUME NEW i \in 0..Len(es)
      PROVE  best[i] = IF i = 0 THEN NoEntry
                       ELSE IF Takes(best[i - 1], i) THEN es[i] ELSE best[i - 1]
  <2>1. best[i] = IF i = 0 THEN NoEntry ELSE step[<<best[i - 1], i>>]
    BY <1>3 DEF Recurs
  <2>2. i # 0 => i - 1 \in 0..Len(es) /\ i \in 1..Len(es)
    OBVIOUS
  <2>3. i # 0 => best[i - 1] \in S
    BY <2>2
  <2> HIDE DEF Takes
  <2> QED
    BY <1>2, <2>1, <2>2, <2>3
<1>5. best = [i \in 0..Len(es) |-> best[i]]
  BY <1>3
<1>6. IsBest(best, es, policy)
  BY <1>4, <1>5 DEF IsBest
<1> DEFINE chosen == CHOOSE b : IsBest(b, es, policy)
<1>7. IsBest(chosen, es, policy)
  BY <1>6
<1>8. BestEntry(es, policy) = chosen[Len(es)]
  BY DEF BestEntry, IsBest
<1> QED
  BY <1>7, <1>8

LEMMA BestIsAnEntry ==
  ASSUME NEW P, NEW es, AreEntries(es, P), NEW policy
  PROVE  LET b == BestEntry(es, policy)
         IN  /\ b # NoEntry => \E i \in 1..Len(es) : b = es[i] /\ es[i].policy \subseteq policy
             /\ (\E i \in 1..Len(es) : es[i].policy \subseteq policy) => b # NoEntry
             /\ (\E i \in 1..Len(es) : es[i].policy = policy) => b.policy = policy
<1>1. /\ es \in Seq(EntriesUnder(P)) /\ Len(es) \in Nat
      /\ \A i \in 1..Len(es) : es[i] \in EntriesUnder(P)
  BY DEF AreEntries
<1>2. PICK best : IsBest(best, es, policy) /\ BestEntry(es, policy) = best[Len(es)]
  BY <1>1, BestExists
<1>3. \A i \in 1..Len(es) : es[i] # NoEntry
  BY <1>1 DEF EntriesUnder, NoEntry
<1> DEFINE Fine(i) ==
      /\ best[i] # NoEntry => \E k \in 1..i : best[i] = es[k] /\ es[k].policy \subseteq policy
      /\ (\E k \in 1..i : es[k].policy \subseteq policy) => best[i] # NoEntry
      /\ (\E k \in 1..i : es[k].policy = policy) => best[i].policy = policy
<1>4. Fine(0)
  BY <1>1, <1>2 DEF IsBest
<1>5. ASSUME NEW i \in 1..Len(es), Fine(i - 1) PROVE Fine(i)
  <2>1. PICK b, e : b = best[i - 1] /\ e = es[i]
    OBVIOUS
  <2>2. best[i] = IF e.policy \subseteq policy /\ (b = NoEntry \/ b.policy \subseteq e.policy)
                  THEN e ELSE b
    <3>1. i \in 0..Len(es) /\ i # 0
      BY <1>1
    <3>2. best[i] = IF i = 0 THEN NoEntry
                    ELSE IF /\ Dominates(policy, es[i].policy)
                            /\ \/ best[i - 1] = NoEntry
                               \/ Dominates(es[i].policy, best[i - 1].policy)
                    THEN es[i] ELSE best[i - 1]
      BY <1>2, <3>1 DEF IsBest
    <3> QED
      BY <2>1, <3>1, <3>2 DEF Dominates
  <2>3. \A k \in 1..i : k \in 1..(i - 1) \/ k = i
    OBVIOUS
  <2>4. i \in 1..i /\ \A k \in 1..(i - 1) : k \in 1..i
    OBVIOUS
  <2>5. best[i] # NoEntry => \E k \in 1..i : best[i] = es[k] /\ es[k].policy \subseteq policy
    BY <1>5, <2>1, <2>2, <2>4
  <2>6. (\E k \in 1..i : es[k].policy \subseteq policy) => best[i] # NoEntry
    BY <1>3, <1>5, <2>1, <2>2, <2>3
  <2>7. (\E k \in 1..i : es[k].policy = policy) => best[i].policy = policy
    <3>1. SUFFICES ASSUME NEW k \in 1..i, es[k].policy = policy PROVE best[i].policy = policy
      OBVIOUS
    <3>2. CASE k = i
      <4>1. b = NoEntry \/ b.policy \subseteq policy
        BY <1>5, <2>1
      <4> QED
        BY <2>1, <2>2, <3>1, <3>2, <4>1
    <3>3. CASE k # i
      <4>1. b.policy = policy /\ b # NoEntry
        BY <1>5, <2>1, <2>3, <3>1, <3>3
      <4> QED
        BY <2>2, <4>1
    <3> QED
      BY <3>2, <3>3
  <2> QED
    BY <2>5, <2>6, <2>7
<1> HIDE DEF Fine
<1>6. Fine(Len(es))
  <2> DEFINE Bad == {i \in 0..Len(es) : ~Fine(i)}
  <2>1. SUFFICES ASSUME Bad # {} PROVE FALSE
    BY <1>1
  <2>2. PICK m \in Bad : \A k \in Bad : m <= k
    <3>1. Bad \in SUBSET Nat
      OBVIOUS
    <3> HIDE DEF Bad
    <3> QED
      BY <2>1, <3>1, LeastNumber
  <2>3. m \in 1..Len(es) /\ m - 1 \in 0..Len(es) /\ m - 1 \notin Bad
    BY <1>1, <1>4, <2>2
  <2> QED
    BY <1>5, <2>2, <2>3
<1> QED
  BY <1>2, <1>6 DEF Fine

(* The policies of a call: all it allows, or that without convolutions.    *)
LEMMA EntryOfPolicy ==
  ASSUME NEW P, AllowsConvolution(P), NEW es, AreEntries(es, P), NEW policy \in {P, Without(P)}
  PROVE  /\ BestEntry(es, policy) # NoEntry =>
              /\ \E i \in 1..Len(es) : BestEntry(es, policy) = es[i]
              /\ BestEntry(es, policy) \in EntriesUnder(P)
              /\ \/ BestEntry(es, policy).policy = policy
                 \/ /\ policy = P /\ BestEntry(es, policy).policy = Without(P)
                    /\ \A i \in 1..Len(es) : es[i].policy # P
         /\ BestEntry(es, policy) = NoEntry => \A i \in 1..Len(es) : es[i].policy # policy
<1>1. PICK b : b = BestEntry(es, policy)
  OBVIOUS
<1>2. /\ b # NoEntry => \E i \in 1..Len(es) : b = es[i] /\ es[i].policy \subseteq policy
      /\ (\E i \in 1..Len(es) : es[i].policy \subseteq policy) => b # NoEntry
      /\ (\E i \in 1..Len(es) : es[i].policy = policy) => b.policy = policy
  BY <1>1, BestIsAnEntry
<1>3. \A i \in 1..Len(es) : es[i] \in EntriesUnder(P)
  BY DEF AreEntries
<1>4. Without(P) \subseteq P /\ ~(P \subseteq Without(P))
  BY DEF Without, AllowsConvolution
<1>5. b # NoEntry =>
        /\ \E i \in 1..Len(es) : b = es[i]
        /\ b \in EntriesUnder(P) /\ b.policy \in {P, Without(P)} /\ b.policy \subseteq policy
  BY <1>2, <1>3 DEF EntriesUnder
<1>6. b # NoEntry =>
        \/ b.policy = policy
        \/ /\ policy = P /\ b.policy = Without(P)
           /\ \A i \in 1..Len(es) : es[i].policy # P
  BY <1>2, <1>4, <1>5
<1>7. b = NoEntry => \A i \in 1..Len(es) : es[i].policy # policy
  BY <1>2
<1> QED
  BY <1>1, <1>5, <1>6, <1>7

(* A further entry leaves what was found under another policy.             *)
LEMMA AppendKeepsBest ==
  ASSUME NEW P, AllowsConvolution(P), NEW es, AreEntries(es, P), NEW e \in EntriesUnder(P),
         AreEntries(Append(es, e), P),
         NEW policy \in {P, Without(P)}, BestEntry(es, policy) # NoEntry, policy # e.policy
  PROVE  BestEntry(Append(es, e), policy) = BestEntry(es, policy)
<1>1. PICK more, a, b : /\ more = Append(es, e) /\ a = BestEntry(more, policy)
                        /\ b = BestEntry(es, policy)
  OBVIOUS
<1>2. /\ es \in Seq(EntriesUnder(P)) /\ Len(more) = Len(es) + 1 /\ more[Len(more)] = e
      /\ \A i \in 1..Len(es) : more[i] = es[i] /\ i \in 1..Len(more) /\ i # Len(more)
      /\ Len(es) \in Nat /\ Len(more) \in 1..Len(more)
  BY <1>1, PushMeans DEF AreEntries
<1>3. /\ AreEntries(more, P)
      /\ \A i, j \in 1..Len(more) : more[i].policy = more[j].policy => i = j
  BY <1>1 DEF AreEntries
<1>4. PICK i \in 1..Len(es) : b = es[i]
  BY <1>1, EntryOfPolicy
<1>5. \/ b.policy = policy
      \/ /\ policy = P /\ b.policy = Without(P)
         /\ \A k \in 1..Len(es) : es[k].policy # P
  BY <1>1, EntryOfPolicy
<1>6. b = more[i] /\ i \in 1..Len(more) /\ b.policy # e.policy
  BY <1>2, <1>3, <1>4
<1>7. b.policy = policy
  <2>1. e.policy \in {P, Without(P)}
    BY DEF EntriesUnder
  <2> QED
    BY <1>5, <1>6, <2>1
<1>8. /\ a # NoEntry => \E k \in 1..Len(more) : a = more[k] /\ more[k].policy \subseteq policy
      /\ (\E k \in 1..Len(more) : more[k].policy \subseteq policy) => a # NoEntry
      /\ (\E k \in 1..Len(more) : more[k].policy = policy) => a.policy = policy
  <2>1. /\ BestEntry(more, policy) # NoEntry =>
             \E k \in 1..Len(more) : /\ BestEntry(more, policy) = more[k]
                                    /\ more[k].policy \subseteq policy
        /\ (\E k \in 1..Len(more) : more[k].policy \subseteq policy)
             => BestEntry(more, policy) # NoEntry
        /\ (\E k \in 1..Len(more) : more[k].policy = policy)
             => BestEntry(more, policy).policy = policy
    BY ONLY <1>3, BestIsAnEntry
  <2> QED
    BY <1>1, <2>1
<1>9. a # NoEntry
  <2>1. \E k \in 1..Len(more) : more[k].policy \subseteq policy
    BY <1>6, <1>7
  <2> QED
    BY <1>8, <2>1
<1>10. PICK j \in 1..Len(more) : a = more[j]
  BY <1>9, <1>8
<1>11. a.policy = policy
  <2>1. \E k \in 1..Len(more) : more[k].policy = policy
    BY <1>6, <1>7
  <2> QED
    BY <1>8, <2>1
<1> QED
  BY <1>1, <1>3, <1>6, <1>7, <1>10, <1>11

-----------------------------------------------------------------------------
(* The shape of the search: what the stack and the wisdom table look like. *)

Requested == PolicyFromOptions(request.wantSme, request.timed)

Places == {"lookup", "search", "make", "rebuild", "measure", "exit"}

(* Frames whose plans are members of S.                                    *)
FrameType(S, P) ==
  [p : Problems, policy : {P, Without(P)}, pc : Places,
   strategy : 1..(Len(Strategies) + 1), answers : Seq(S),
   best : S, bestStrategy : 0..Len(Strategies), candidate : S]

AsksOf(f) == Asks(Strategies[f.strategy], f.p, f.policy)

Key(f) == [p |-> f.p, policy |-> f.policy]

(* A frame with a strategy that applies, answered no more than it asked.   *)
InStrategy(f) ==
  /\ f.strategy \in 1..Len(Strategies)
  /\ ~IsNull(Strategies[f.strategy])
  /\ IsApplicable(Strategies[f.strategy], f.p, f.policy)
  /\ Len(f.answers) <= Len(AsksOf(f))

FrameIsWell(f) ==
  /\ f.pc \in {"make", "measure"} \/ f.answers # << >> => InStrategy(f)
  /\ f.pc = "rebuild" => f.strategy \in 1..Len(Strategies)
  /\ f.pc \notin {"make", "rebuild"} => f.answers = << >>
  /\ f.pc \in {"lookup", "rebuild"} => f.best = NoPlan
  /\ f.pc # "measure" => f.candidate = NoPlan
  /\ f.best # NoPlan => f.bestStrategy \in 1..Len(Strategies)

(* A frame below the active one waits for its next sub-plan.               *)
Waits(f) ==
  /\ f.pc \in {"make", "rebuild"} /\ InStrategy(f)
  /\ Len(f.answers) < Len(AsksOf(f))

(* What frame i was asked for: the call itself, or the next sub-plan of    *)
(* the frame below.                                                        *)
Asked(i) ==
  IF i = 1 THEN [p |-> request.prob, policy |-> Requested]
  ELSE AsksOf(stack[i - 1])[Len(stack[i - 1].answers) + 1]

(* A hit of the wisdom may take a right from the policy asked with.        *)
Answers(f, ask) ==
  /\ f.p = ask.p
  /\ \/ f.policy = ask.policy
     \/ f.pc = "rebuild" /\ f.policy = Without(ask.policy)

StackShape ==
  /\ \E S : NoPlan \in S /\ stack \in Seq(FrameType(S, Requested))
  /\ \A i \in 1..Len(stack) : FrameIsWell(stack[i]) /\ Answers(stack[i], Asked(i))
  /\ \A i \in 1..(Len(stack) - 1) : Waits(stack[i])
  /\ \A i, j \in 1..Len(stack) : i < j => Smaller(Asked(j), Key(stack[i]))

WisdomShape ==
  \A p \in DOMAIN wisdom : p \in Problems /\ AreEntries(wisdom[p], Requested)

Shape ==
  /\ request \in Requests /\ expired \in BOOLEAN
  /\ status \in {"running", "done", "abort"}
  /\ status = "running" => stack # << >>
  /\ StackShape /\ WisdomShape

LEMMA RequestedFacts ==
  ASSUME request \in Requests
  PROVE  /\ AllowsConvolution(Requested) /\ Requested \subseteq ALLOW_ALL
         /\ Without(Requested) \subseteq ALLOW_ALL
         /\ Without(Without(Requested)) = Without(Requested)
         /\ request.prob \in Problems
BY RequestsAssumption
   DEF Requested, PolicyFromOptions, AllowsConvolution, ALLOW_ALL, Without

LEMMA SmallerFacts ==
  ASSUME NEW T, NEW a \in [p : Problems, policy : T], NEW b \in [p : Problems, policy : T],
         NEW c \in [p : Problems, policy : T], Smaller(b, c)
  PROVE  /\ Smaller(a, b) => Smaller(a, c)
         /\ a.p = b.p /\ a.policy \in {b.policy, Without(b.policy)} => Smaller(a, c)
<1>1. /\ a.p.n \in Nat /\ b.p.n \in Nat /\ c.p.n \in Nat
      /\ a.p.howmany \in Nat /\ b.p.howmany \in Nat /\ c.p.howmany \in Nat
  BY DEF Problems
<1>2. Smaller(a, b) => Smaller(a, c)
  BY <1>1 DEF Smaller
<1>3. a.p = b.p /\ a.policy \in {b.policy, Without(b.policy)} => Smaller(a, c)
  <2>1. ~AllowsConvolution(Without(b.policy))
    BY DEF AllowsConvolution, Without
  <2>2. AllowsConvolution(b.policy) \/ Without(b.policy) = b.policy
    BY DEF AllowsConvolution, Without
  <2> QED
    BY <1>1, <2>1, <2>2 DEF Smaller
<1> QED
  BY <1>2, <1>3

(* The frames below the active one, and the active one.                    *)
LEMMA TopFacts ==
  ASSUME request \in Requests, StackShape, stack # << >>
  PROVE  \E S : /\ NoPlan \in S /\ stack \in Seq(FrameType(S, Requested))
                /\ Len(stack) \in Nat \ {0} /\ Len(stack) \in 1..Len(stack)
                /\ Top = stack[Len(stack)] /\ Top \in FrameType(S, Requested)
                /\ \A i \in 1..Len(stack) : stack[i] \in FrameType(S, Requested)
                /\ FrameIsWell(Top) /\ Answers(Top, Asked(Len(stack)))
<1>1. PICK S : NoPlan \in S /\ stack \in Seq(FrameType(S, Requested))
  BY DEF StackShape
<1>2. PICK T : T = FrameType(S, Requested)
  OBVIOUS
<1>3. stack \in Seq(T)
  BY <1>1, <1>2
<1>4. /\ Len(stack) \in Nat \ {0} /\ Len(stack) \in 1..Len(stack)
      /\ \A i \in 1..Len(stack) : stack[i] \in T
  BY <1>3
<1>5. Top = stack[Len(stack)]
  BY DEF Top, Last
<1>6. FrameIsWell(Top) /\ Answers(Top, Asked(Len(stack)))
  BY <1>4, <1>5 DEF StackShape
<1> QED
  BY <1>1, <1>2, <1>4, <1>5, <1>6

LEMMA AskedTyped ==
  ASSUME request \in Requests, StackShape, NEW i \in 1..Len(stack)
  PROVE  Asked(i) \in [p : Problems, policy : {Requested, Without(Requested)}]
<1>1. CASE i = 1
  BY <1>1, RequestedFacts DEF Asked
<1>2. CASE i # 1
  <2>1. PICK S : stack \in Seq(FrameType(S, Requested))
    BY DEF StackShape
  <2>2. PICK n : n = Len(stack) /\ n \in Nat
    BY <2>1
  <2>3. i - 1 \in 1..(n - 1) /\ i - 1 \in 1..n
    BY ONLY <1>2, <2>2, i \in 1..Len(stack)
  <2>4. PICK f : f = stack[i - 1]
    OBVIOUS
  <2>5. f \in FrameType(S, Requested)
    BY <2>1, <2>2, <2>3, <2>4
  <2>6. Waits(f)
    BY <2>2, <2>3, <2>4 DEF StackShape
  <2>7. PICK s : s = Strategies[f.strategy]
    OBVIOUS
  <2>8. s \in StrategyType /\ f.p \in Problems /\ f.policy \in {Requested, Without(Requested)}
    BY <2>5, <2>6, <2>7, StrategiesTyped DEF Waits, InStrategy, FrameType
  <2>9. AsksAreSound(s, f.p, f.policy)
    BY <2>6, <2>7, <2>8, AsksDescend DEF Waits, InStrategy
  <2>10. PICK asks : asks = AsksOf(f)
    OBVIOUS
  <2>11. asks \in Seq(AskType(f.policy))
    BY <2>7, <2>9, <2>10 DEF AsksAreSound, AsksOf
  <2>12. Len(f.answers) \in Nat /\ Len(f.answers) < Len(asks)
    BY <2>5, <2>6, <2>10 DEF Waits, FrameType
  <2>13. asks[Len(f.answers) + 1] \in AskType(f.policy)
    BY ONLY <2>11, <2>12
  <2>14. Asked(i) = asks[Len(f.answers) + 1]
    BY <1>2, <2>4, <2>10 DEF Asked
  <2>15. Without(f.policy) \in {Requested, Without(Requested)}
    BY <2>8, RequestedFacts
  <2> QED
    BY <2>8, <2>13, <2>14, <2>15 DEF AskType, Asking
<1> QED
  BY <1>1, <1>2

(* The stack is cut to its first m frames, the last of which became g.     *)
CutTo(m, g) ==
  /\ \E R : NoPlan \in R /\ stack' \in Seq(FrameType(R, Requested))
  /\ m \in 1..Len(stack) /\ Len(stack') = m /\ stack'[m] = g
  /\ \A i \in 1..(m - 1) : stack'[i] = stack[i]

(* The active frame asked for a further plan.                              *)
Pushes(ask) ==
  /\ \E R : NoPlan \in R /\ stack' \in Seq(FrameType(R, Requested))
  /\ Len(stack') = Len(stack) + 1
  /\ stack'[Len(stack) + 1] = NewFrame(ask.p, ask.policy)
  /\ \A i \in 1..Len(stack) : stack'[i] = stack[i]

LEMMA SameWell ==
  ASSUME request' = request
  PROVE  /\ Requested' = Requested
         /\ \A f : FrameIsWell(f)' = FrameIsWell(f)
         /\ \A f : Waits(f)' = Waits(f)
BY DEF Requested, FrameIsWell, Waits, InStrategy, IsNull

LEMMA AskedBelow ==
  ASSUME request' = request, NEW m \in Nat, \A i \in 1..(m - 1) : stack'[i] = stack[i]
  PROVE  \A i \in 1..m : Asked(i)' = Asked(i)
<1>1. ASSUME NEW i \in 1..m PROVE Asked(i)' = Asked(i)
  <2>1. i = 1 \/ i - 1 \in 1..(m - 1)
    OBVIOUS
  <2> QED
    BY <2>1, SameWell DEF Asked
<1> QED
  BY <1>1

LEMMA CutShape ==
  ASSUME request \in Requests, request' = request, StackShape,
         NEW m, NEW g, CutTo(m, g), FrameIsWell(g), Answers(g, Asked(m))
  PROVE  StackShape'
<1>1. m \in Nat /\ \A i \in 1..m : i \in 1..(m - 1) \/ i = m
  BY DEF CutTo
<1>2. \A i \in 1..m : Asked(i)' = Asked(i)
  BY <1>1, AskedBelow DEF CutTo
<1>3. PICK st, n : st = stack' /\ n = Len(stack)
  OBVIOUS
<1>4. /\ Len(st) = m /\ st[m] = g /\ \A i \in 1..(m - 1) : st[i] = stack[i]
      /\ m \in 1..n
  BY <1>3 DEF CutTo
<1>5. /\ \A i \in 1..n : FrameIsWell(stack[i]) /\ Answers(stack[i], Asked(i))
      /\ \A i \in 1..(n - 1) : Waits(stack[i])
      /\ \A i, j \in 1..n : i < j => Smaller(Asked(j), Key(stack[i]))
  BY <1>3 DEF StackShape
<1>6. n \in Nat
  <2>1. PICK S : stack \in Seq(FrameType(S, Requested))
    BY DEF StackShape
  <2> QED
    BY <1>3, <2>1
<1>7. /\ \A i \in 1..(m - 1) : i \in 1..n /\ i \in 1..(n - 1) /\ i \in 1..m
      /\ \A i \in 1..m : i \in 1..n
      /\ \A i, j \in 1..m : i < j => i \in 1..(m - 1)
  BY <1>1, <1>4, <1>6
<1>8. \A i \in 1..m : FrameIsWell(st[i]) /\ Answers(st[i], Asked(i)')
  BY <1>1, <1>2, <1>4, <1>5, <1>7
<1>9. \A i \in 1..(m - 1) : Waits(st[i])
  BY <1>4, <1>5, <1>7
<1>10. \A i, j \in 1..m : i < j => Smaller(Asked(j)', Key(st[i]))
  BY <1>2, <1>4, <1>5, <1>7
<1>11. \E R : NoPlan \in R /\ st \in Seq(FrameType(R, Requested))
  BY <1>3 DEF CutTo
<1> QED
  BY <1>3, <1>4, <1>8, <1>9, <1>10, <1>11, SameWell DEF StackShape

(* What the active frame asks for next.                                    *)
LEMMA NextAskFacts ==
  ASSUME request \in Requests, StackShape, NEW i \in 1..Len(stack), Waits(stack[i])
  PROVE  LET f == stack[i]
             ask == AsksOf(f)[Len(f.answers) + 1]
         IN  /\ ask \in [p : Problems, policy : {Requested, Without(Requested)}]
             /\ Smaller(ask, Key(f))
             /\ Key(f) \in [p : Problems, policy : {Requested, Without(Requested)}]
<1>1. PICK S : stack \in Seq(FrameType(S, Requested))
  BY DEF StackShape
<1>2. PICK f, s : f = stack[i] /\ s = Strategies[f.strategy]
  OBVIOUS
<1>3. f \in FrameType(S, Requested)
  BY <1>1, <1>2
<1>4. s \in StrategyType /\ f.p \in Problems /\ f.policy \in {Requested, Without(Requested)}
  BY <1>2, <1>3, StrategiesTyped DEF Waits, InStrategy, FrameType
<1>5. AsksAreSound(s, f.p, f.policy)
  BY <1>2, <1>4, AsksDescend DEF Waits, InStrategy
<1>6. PICK asks : asks = AsksOf(f)
  OBVIOUS
<1>7. asks \in Seq(AskType(f.policy)) /\ \A k \in 1..Len(asks) : Smaller(asks[k], Key(f))
  BY <1>2, <1>5, <1>6 DEF AsksAreSound, AsksOf, Key
<1>8. Len(f.answers) \in Nat /\ Len(f.answers) < Len(asks)
  BY <1>2, <1>3, <1>6 DEF Waits, FrameType
<1>9. PICK ask : ask = asks[Len(f.answers) + 1]
  OBVIOUS
<1>10. ask \in AskType(f.policy) /\ Smaller(ask, Key(f))
  BY ONLY <1>7, <1>8, <1>9
<1>11. Without(f.policy) \in {Requested, Without(Requested)}
  BY <1>4, RequestedFacts
<1>12. ask \in [p : Problems, policy : {Requested, Without(Requested)}]
  BY <1>4, <1>10, <1>11 DEF AskType, Asking
<1>13. Key(f) \in [p : Problems, policy : {Requested, Without(Requested)}]
  BY <1>4 DEF Key
<1> QED
  BY <1>2, <1>6, <1>9, <1>10, <1>12, <1>13

LEMMA PushShape ==
  ASSUME request \in Requests, request' = request, StackShape, stack # << >>, Waits(Top),
         NEW ask, ask = AsksOf(Top)[Len(Top.answers) + 1], Pushes(ask)
  PROVE  StackShape'
<1>1. PICK st, n, top : st = stack' /\ n = Len(stack) /\ top = Top
  OBVIOUS
<1>2. n \in Nat \ {0} /\ n \in 1..n /\ top = stack[n] /\ Answers(top, Asked(n))
  BY <1>1, TopFacts
<1>3. /\ Len(st) = n + 1 /\ st[n + 1] = NewFrame(ask.p, ask.policy)
      /\ \A i \in 1..n : st[i] = stack[i]
      /\ \E R : NoPlan \in R /\ st \in Seq(FrameType(R, Requested))
  BY <1>1 DEF Pushes
<1>4. \A i \in 1..n : Asked(i)' = Asked(i)
  BY <1>1, <1>2, <1>3, AskedBelow
<1>5. Asked(n + 1)' = ask
  <2>1. n + 1 # 1 /\ (n + 1) - 1 = n /\ stack'[n] = top
    BY <1>1, <1>2, <1>3
  <2>2. Asked(n + 1)' = AsksOf(stack'[n])[Len(stack'[n].answers) + 1]
    BY <2>1 DEF Asked
  <2> QED
    BY <1>1, <2>1, <2>2
<1>6. /\ \A i \in 1..n : FrameIsWell(stack[i]) /\ Answers(stack[i], Asked(i))
      /\ \A i \in 1..(n - 1) : Waits(stack[i])
      /\ \A i, j \in 1..n : i < j => Smaller(Asked(j), Key(stack[i]))
  BY <1>1 DEF StackShape
<1>7. FrameIsWell(NewFrame(ask.p, ask.policy)) /\ Answers(NewFrame(ask.p, ask.policy), ask)
  <2>1. PICK g : g = NewFrame(ask.p, ask.policy)
    OBVIOUS
  <2>2. /\ g.p = ask.p /\ g.policy = ask.policy /\ g.pc = "lookup" /\ g.answers = << >>
        /\ g.best = NoPlan /\ g.candidate = NoPlan
    BY <2>1 DEF NewFrame
  <2> QED
    BY ONLY <2>1, <2>2 DEF FrameIsWell, Answers
<1>8. \A i \in 1..(n + 1) : i \in 1..n \/ i = n + 1
  BY <1>2
<1>9. \A i \in 1..(n + 1) : FrameIsWell(st[i]) /\ Answers(st[i], Asked(i)')
  BY <1>3, <1>4, <1>5, <1>6, <1>7, <1>8
<1>10. \A i \in 1..n : Waits(st[i])
  <2>1. \A i \in 1..n : i \in 1..(n - 1) \/ i = n
    BY <1>2
  <2> QED
    BY <1>1, <1>2, <1>3, <1>6, <2>1
<1>11. ASSUME NEW i \in 1..n PROVE Smaller(ask, Key(st[i]))
  <2>1. PICK T : T = {Requested, Without(Requested)}
    OBVIOUS
  <2>2. /\ ask \in [p : Problems, policy : T] /\ Smaller(ask, Key(top))
        /\ Key(top) \in [p : Problems, policy : T]
    BY <1>1, <1>2, <2>1, NextAskFacts
  <2>3. CASE i = n
    BY <1>2, <1>3, <2>2, <2>3
  <2>4. CASE i # n
    <3>1. i \in 1..(n - 1) /\ i < n
      BY <1>2, <2>4
    <3>2. Waits(stack[i]) /\ Smaller(Asked(n), Key(stack[i]))
      BY <1>2, <1>6, <3>1
    <3>3. Key(stack[i]) \in [p : Problems, policy : T]
      BY <1>1, <2>1, <3>2, NextAskFacts
    <3>4. Asked(n) \in [p : Problems, policy : T]
      BY <1>1, <1>2, <2>1, AskedTyped
    <3>5. PICK a, b, c : a = Key(top) /\ b = Asked(n) /\ c = Key(stack[i])
      OBVIOUS
    <3>6. a.p = b.p /\ a.policy \in {b.policy, Without(b.policy)}
      BY <1>2, <3>5 DEF Answers, Key
    <3>7. Smaller(a, c)
      BY ONLY <2>2, <3>2, <3>3, <3>4, <3>5, <3>6, SmallerFacts
    <3>8. Smaller(ask, c)
      BY ONLY <2>2, <3>3, <3>5, <3>7, SmallerFacts
    <3> QED
      BY <1>3, <3>5, <3>8
  <2> QED
    BY <2>3, <2>4
<1>12. ASSUME NEW i \in 1..(n + 1), NEW j \in 1..(n + 1), i < j
       PROVE  Smaller(Asked(j)', Key(st[i]))
  <2>1. i \in 1..n
    BY <1>2, <1>12
  <2>2. CASE j = n + 1
    BY <1>5, <1>11, <2>1, <2>2
  <2>3. CASE j # n + 1
    BY <1>3, <1>4, <1>6, <1>8, <1>12, <2>1, <2>3
  <2> QED
    BY <2>2, <2>3
<1>13. (n + 1) - 1 = n
  BY <1>2
<1> QED
  BY <1>1, <1>3, <1>9, <1>10, <1>12, <1>13, SameWell DEF StackShape

(* The frame f with one more answer.                                       *)
Answered(f, g, plan) ==
  /\ g.p = f.p /\ g.policy = f.policy /\ g.pc = f.pc /\ g.strategy = f.strategy
  /\ g.answers = Append(f.answers, plan)
  /\ g.best = f.best /\ g.bestStrategy = f.bestStrategy /\ g.candidate = f.candidate

LEMMA FramesWiden ==
  ASSUME NEW S, NEW R, S \subseteq R, NEW P
  PROVE  /\ FrameType(S, P) \subseteq FrameType(R, P)
         /\ Seq(FrameType(S, P)) \subseteq Seq(FrameType(R, P))
<1>1. \A answers \in Seq(S) : answers \in Seq(R)
  OBVIOUS
<1>2. FrameType(S, P) \subseteq FrameType(R, P)
  BY <1>1 DEF FrameType
<1>3. \A T, U : T \subseteq U => Seq(T) \subseteq Seq(U)
  OBVIOUS
<1> QED
  BY <1>2, <1>3

LEMMA ReturnMeans ==
  ASSUME request \in Requests, StackShape, stack # << >>, NEW plan, Return(plan)
  PROVE  LET n == Len(stack)
         IN  \/ n = 1 /\ stack' = << >> /\ status' = "done" /\ result' = plan
             \/ /\ n > 1 /\ UNCHANGED <<status, result>> /\ Waits(stack[n - 1])
                /\ \E g : CutTo(n - 1, g) /\ Answered(stack[n - 1], g, plan)
<1>1. PICK S : /\ NoPlan \in S /\ stack \in Seq(FrameType(S, Requested))
               /\ Len(stack) \in Nat \ {0}
  BY TopFacts
<1>2. PICK n, low, R, T : /\ n = Len(stack) /\ low = Below /\ R = S \cup {plan}
                          /\ T = FrameType(R, Requested)
  OBVIOUS
<1>3. stack \in Seq(T) /\ n \in Nat \ {0}
  BY <1>1, <1>2, FramesWiden
<1>4. low \in Seq(T) /\ Len(low) = n - 1 /\ \A i \in 1..(n - 1) : low[i] = stack[i]
  BY <1>2, <1>3, FrontMeans DEF Below
<1>5. CASE n = 1
  <2>1. Below = << >>
    BY <1>2, <1>3, <1>4, <1>5
  <2> QED
    BY <1>2, <1>5, <2>1 DEF Return
<1>6. CASE n # 1
  <2>1. PICK m : m = n - 1
    OBVIOUS
  <2>2. m \in Nat \ {0} /\ m \in 1..Len(low) /\ m \in 1..n /\ m = Len(low) /\ n > 1
    BY <1>3, <1>4, <1>6, <2>1
  <2>3. PICK f : f = low[m]
    OBVIOUS
  <2>4. f \in T /\ f = stack[m]
    BY <1>4, <2>1, <2>2, <2>3
  <2>5. PICK g : g = [f EXCEPT !.answers = Append(@, plan)]
    OBVIOUS
  <2>6. Answered(f, g, plan)
    BY <1>2, <2>4, <2>5 DEF Answered, FrameType
  <2>7. g \in T
    <3>1. f.answers \in Seq(R) /\ plan \in R
      BY <1>2, <2>4 DEF FrameType
    <3>2. Append(f.answers, plan) \in Seq(R)
      BY ONLY <3>1
    <3> QED
      BY <1>2, <2>4, <2>5, <3>2 DEF FrameType
  <2>8. stack' = [low EXCEPT ![m] = g] /\ UNCHANGED <<status, result>>
    <3>1. Below # << >>
      BY <1>2, <2>2
    <3> QED
      BY <1>2, <2>2, <2>3, <2>5, <3>1 DEF Return
  <2>9. PICK st : st = [low EXCEPT ![m] = g]
    OBVIOUS
  <2>10. /\ st \in Seq(T) /\ Len(st) = m /\ st[m] = g
         /\ \A i \in 1..(m - 1) : st[i] = stack[i]
    BY <1>4, <2>1, <2>2, <2>7, <2>9
  <2>11. CutTo(m, g)
    BY <1>1, <1>2, <2>2, <2>8, <2>9, <2>10 DEF CutTo
  <2>12. Waits(stack[m])
    BY <1>2, <2>1, <2>2 DEF StackShape
  <2> QED
    BY <1>2, <2>1, <2>2, <2>4, <2>6, <2>8, <2>11, <2>12
<1> QED
  BY <1>5, <1>6

LEMMA ReturnShape ==
  ASSUME request \in Requests, request' = request, StackShape, stack # << >>, NEW plan,
         Return(plan)
  PROVE  StackShape'
<1>1. PICK n : n = Len(stack) /\ n \in Nat \ {0}
  BY TopFacts
<1>2. CASE n = 1
  <2>1. stack' = << >>
    BY <1>1, <1>2, ReturnMeans
  <2>2. \E S : NoPlan \in S /\ << >> \in Seq(FrameType(S, Requested'))
    <3>1. NoPlan \in {NoPlan} /\ << >> \in Seq(FrameType({NoPlan}, Requested'))
      OBVIOUS
    <3> QED
      BY <3>1
  <2>3. PICK st : st = << >>
    OBVIOUS
  <2>4. Len(st) = 0 /\ \A i \in 1..Len(st) : FALSE
    BY <2>3
  <2>5. \A i \in 1..(Len(st) - 1) : FALSE
    BY <2>4
  <2> QED
    BY <2>1, <2>2, <2>3, <2>4, <2>5 DEF StackShape
<1>3. CASE n # 1
  <2>1. PICK m, f, g : /\ m = n - 1 /\ f = stack[m] /\ Waits(f)
                       /\ CutTo(m, g) /\ Answered(f, g, plan)
    BY <1>1, <1>3, ReturnMeans
  <2>2. m \in 1..n
    BY <1>1, <2>1 DEF CutTo
  <2>3. FrameIsWell(f) /\ Answers(f, Asked(m))
    BY <1>1, <2>1, <2>2 DEF StackShape
  <2>4. PICK S : stack \in Seq(FrameType(S, Requested))
    BY DEF StackShape
  <2>5. f \in FrameType(S, Requested)
    BY <1>1, <2>1, <2>2, <2>4
  <2>6. f.answers \in Seq(S)
    BY <2>5 DEF FrameType
  <2>7. g.answers # << >> /\ Len(g.answers) = Len(f.answers) + 1 /\ Len(f.answers) \in Nat
    <3>1. f.answers \in Seq(S \cup {plan}) /\ plan \in S \cup {plan}
      BY <2>6
    <3>2. g.answers = Append(f.answers, plan)
      BY <2>1 DEF Answered
    <3> QED
      BY ONLY <3>1, <3>2
  <2>8. AsksOf(g) = AsksOf(f)
    BY <2>1 DEF AsksOf, Answered
  <2>9. Len(AsksOf(f)) \in Nat
    <3>1. PICK s : s = Strategies[f.strategy]
      OBVIOUS
    <3>2. s \in StrategyType /\ f.p \in Problems /\ IsApplicable(s, f.p, f.policy)
      BY <2>1, <2>5, <3>1, StrategiesTyped DEF Waits, InStrategy, FrameType
    <3>3. AsksAreSound(s, f.p, f.policy)
      BY <3>2, AsksDescend
    <3> QED
      BY <3>1, <3>3 DEF AsksAreSound, AsksOf
  <2>10. InStrategy(g)
    <3>1. Len(g.answers) <= Len(AsksOf(g))
      BY <2>1, <2>7, <2>8, <2>9 DEF Waits
    <3> QED
      BY <2>1, <3>1 DEF Waits, InStrategy, Answered
  <2>11. FrameIsWell(g)
    BY <2>1, <2>3, <2>10 DEF FrameIsWell, Waits, Answered
  <2>12. Answers(g, Asked(m))
    BY <2>1, <2>3 DEF Answers, Answered
  <2> QED
    BY <2>1, <2>11, <2>12, CutShape
<1> QED
  BY <1>2, <1>3

-----------------------------------------------------------------------------
(* What each action does to the active frame.                              *)

LEMMA BecomeCuts ==
  ASSUME request \in Requests, StackShape, stack # << >>,
         NEW S, NoPlan \in S, stack \in Seq(FrameType(S, Requested)),
         NEW g \in FrameType(S, Requested), Become(g)
  PROVE  CutTo(Len(stack), g)
<1>1. PICK st, n : st = stack' /\ n = Len(stack)
  OBVIOUS
<1>2. n \in Nat \ {0} /\ n \in 1..n
  BY <1>1, TopFacts
<1>3. st = Append(Front(stack), g)
  BY <1>1 DEF Become, Below
<1>4. /\ st \in Seq(FrameType(S, Requested)) /\ Len(st) = n /\ st[n] = g
      /\ \A i \in 1..(n - 1) : st[i] = stack[i]
  BY <1>1, <1>3, BecomeMeans
<1> QED
  BY <1>1, <1>2, <1>4 DEF CutTo

(* The plans of a frame may be of a wider set.                             *)
LEMMA TopIn ==
  ASSUME request \in Requests, StackShape, stack # << >>, NEW plan
  PROVE  \E S : /\ NoPlan \in S /\ plan \in S /\ stack \in Seq(FrameType(S, Requested))
                /\ Top \in FrameType(S, Requested)
<1>1. PICK S : /\ NoPlan \in S /\ stack \in Seq(FrameType(S, Requested))
               /\ Top \in FrameType(S, Requested)
  BY TopFacts
<1>2. /\ S \subseteq S \cup {plan} /\ plan \in S \cup {plan}
  OBVIOUS
<1> QED
  BY <1>1, <1>2, FramesWiden

LEMMA LookupMeans ==
  ASSUME Shape, Lookup
  PROVE  LET hit == WisdomLookup(Top.p, Top.policy)
         IN  \E g : /\ CutTo(Len(stack), g)
                    /\ g.p = Top.p /\ g.answers = << >>
                    /\ g.best = NoPlan /\ g.candidate = NoPlan
                    /\ IF hit = NoEntry
                       THEN g.pc = "search" /\ g.policy = Top.policy /\ g.strategy = Top.strategy
                       ELSE /\ g.pc = "rebuild" /\ g.policy = hit.policy
                            /\ g.strategy = hit.strategy
                            /\ hit.policy \in {Top.policy, Without(Top.policy)}
                            /\ hit.strategy \in 1..Len(Strategies)
<1>1. stack # << >> /\ request \in Requests /\ StackShape /\ WisdomShape /\ Top.pc = "lookup"
  BY DEF Shape, Lookup
<1>2. PICK S, top : /\ NoPlan \in S /\ stack \in Seq(FrameType(S, Requested))
                    /\ top = Top /\ top \in FrameType(S, Requested) /\ FrameIsWell(top)
  BY <1>1, TopFacts
<1>3. /\ top.p \in Problems /\ top.policy \in {Requested, Without(Requested)}
      /\ top.answers = << >> /\ top.best = NoPlan /\ top.candidate = NoPlan
  BY <1>1, <1>2, StrategiesTyped DEF FrameIsWell, FrameType
<1>4. PICK hit : hit = WisdomLookup(top.p, top.policy)
  OBVIOUS
<1>5. CASE hit = NoEntry
  <2>1. PICK g : g = [top EXCEPT !.pc = "search"]
    OBVIOUS
  <2>2. /\ g \in FrameType(S, Requested) /\ g.p = top.p /\ g.answers = top.answers
        /\ g.best = top.best /\ g.candidate = top.candidate /\ g.pc = "search"
        /\ g.policy = top.policy /\ g.strategy = top.strategy
    BY <1>2, <2>1 DEF FrameType, Places
  <2>3. Become(g)
    BY <1>2, <1>4, <1>5, <2>1 DEF Lookup
  <2> QED
    BY <1>1, <1>2, <1>3, <1>4, <1>5, <2>2, <2>3, BecomeCuts
<1>6. CASE hit # NoEntry
  <2>1. AllowsConvolution(Requested) /\ Without(Without(Requested)) = Without(Requested)
    BY <1>1, RequestedFacts
  <2>2. PICK es : es = WisdomEntries(top.p)
    OBVIOUS
  <2>3. hit = BestEntry(es, top.policy)
    BY <1>4, <2>2 DEF WisdomLookup
  <2>4. AreEntries(es, Requested)
    <3>1. AreEntries(<< >>, Requested)
      BY DEF AreEntries
    <3> QED
      BY <1>1, <2>2, <3>1 DEF WisdomEntries, WisdomShape
  <2>5. /\ hit \in EntriesUnder(Requested)
        /\ hit.policy = top.policy \/ (top.policy = Requested /\ hit.policy = Without(Requested))
    BY <1>3, <1>6, <2>1, <2>3, <2>4, EntryOfPolicy
  <2>6. /\ hit.policy \in {Requested, Without(Requested)} /\ hit.strategy \in 1..Len(Strategies)
        /\ hit.policy \in {top.policy, Without(top.policy)}
    BY <2>5 DEF EntriesUnder
  <2>7. PICK g : g = [top EXCEPT !.pc = "rebuild", !.policy = hit.policy,
                                 !.strategy = hit.strategy]
    OBVIOUS
  <2>8. hit.strategy \in 1..(Len(Strategies) + 1)
    BY <2>6, StrategiesTyped
  <2>9. /\ g \in FrameType(S, Requested) /\ g.p = top.p /\ g.answers = top.answers
        /\ g.best = top.best /\ g.candidate = top.candidate /\ g.pc = "rebuild"
        /\ g.policy = hit.policy /\ g.strategy = hit.strategy
    BY <1>2, <2>6, <2>7, <2>8 DEF FrameType, Places
  <2>10. Become(g)
    BY <1>2, <1>4, <1>6, <2>7 DEF Lookup
  <2> QED
    BY <1>1, <1>2, <1>3, <1>4, <1>6, <2>6, <2>9, <2>10, BecomeCuts
<1> QED
  BY <1>5, <1>6

LEMMA AsksOfSound ==
  ASSUME NEW f, f.p \in Problems, f.strategy \in 1..Len(Strategies),
         IsApplicable(Strategies[f.strategy], f.p, f.policy)
  PROVE  /\ AsksAreSound(Strategies[f.strategy], f.p, f.policy)
         /\ AsksOf(f) \in Seq(AskType(f.policy)) /\ Len(AsksOf(f)) \in Nat
<1>1. PICK s, asks : s = Strategies[f.strategy] /\ asks = AsksOf(f)
  OBVIOUS
<1>2. s \in StrategyType
  BY <1>1, StrategiesTyped
<1>3. AsksAreSound(s, f.p, f.policy)
  BY <1>1, <1>2, AsksDescend
<1>4. asks \in Seq(AskType(f.policy))
  BY <1>1, <1>3 DEF AsksAreSound, AsksOf
<1>5. Len(asks) \in Nat
  BY ONLY <1>4
<1> QED
  BY <1>1, <1>3, <1>4, <1>5

LEMMA TryStrategyMeans ==
  ASSUME Shape, TryStrategy
  PROVE  \E g : /\ CutTo(Len(stack), g)
                /\ g.p = Top.p /\ g.policy = Top.policy /\ g.answers = << >>
                /\ g.best = Top.best /\ g.bestStrategy = Top.bestStrategy
                /\ g.candidate = NoPlan
                /\ \/ /\ g.pc = "exit" /\ g.strategy = Top.strategy
                      /\ OutOfTime(Top) \/ NextApplicable(Top) = {}
                   \/ /\ g.pc = "make" /\ InStrategy(g) /\ ~OutOfTime(Top)
                      /\ g.strategy \in NextApplicable(Top)
<1>1. stack # << >> /\ request \in Requests /\ StackShape /\ Top.pc = "search"
  BY DEF Shape, TryStrategy
<1>2. PICK S, top : /\ NoPlan \in S /\ stack \in Seq(FrameType(S, Requested))
                    /\ top = Top /\ top \in FrameType(S, Requested) /\ FrameIsWell(top)
  BY <1>1, TopFacts
<1>3. /\ top.answers = << >> /\ top.candidate = NoPlan /\ top.p \in Problems
      /\ top.strategy \in 1..(Len(Strategies) + 1)
  BY <1>1, <1>2 DEF FrameIsWell, FrameType
<1>4. CASE /\ Become([top EXCEPT !.pc = "exit"])
           /\ OutOfTime(top) \/ NextApplicable(top) = {}
  <2>1. PICK g : g = [top EXCEPT !.pc = "exit"]
    OBVIOUS
  <2>2. /\ g \in FrameType(S, Requested) /\ g.p = top.p /\ g.answers = top.answers
        /\ g.best = top.best /\ g.candidate = top.candidate /\ g.pc = "exit"
        /\ g.policy = top.policy /\ g.strategy = top.strategy
        /\ g.bestStrategy = top.bestStrategy
    BY <1>2, <2>1 DEF FrameType, Places
  <2> QED
    BY <1>1, <1>2, <1>3, <1>4, <2>1, <2>2, BecomeCuts
<1>5. ASSUME NEW i \in NextApplicable(top), ~OutOfTime(top),
             Become([top EXCEPT !.pc = "make", !.strategy = i])
      PROVE  \E g : /\ CutTo(Len(stack), g)
                    /\ g.p = top.p /\ g.policy = top.policy /\ g.answers = << >>
                    /\ g.best = top.best /\ g.bestStrategy = top.bestStrategy
                    /\ g.candidate = NoPlan
                    /\ g.pc = "make" /\ InStrategy(g) /\ g.strategy = i
  <2>1. /\ i \in top.strategy..Len(Strategies) /\ ~IsNull(Strategies[i])
        /\ IsApplicable(Strategies[i], top.p, top.policy)
    BY <1>5 DEF NextApplicable
  <2>2. i \in 1..Len(Strategies) /\ i \in 1..(Len(Strategies) + 1)
    BY <1>3, <2>1, StrategiesTyped
  <2>3. PICK g : g = [top EXCEPT !.pc = "make", !.strategy = i]
    OBVIOUS
  <2>4. /\ g \in FrameType(S, Requested) /\ g.p = top.p /\ g.answers = top.answers
        /\ g.best = top.best /\ g.candidate = top.candidate /\ g.pc = "make"
        /\ g.policy = top.policy /\ g.strategy = i
        /\ g.bestStrategy = top.bestStrategy
    BY <1>2, <2>2, <2>3 DEF FrameType, Places
  <2>5. Len(AsksOf(g)) \in Nat
    BY <1>3, <2>1, <2>2, <2>4, AsksOfSound
  <2>6. Len(g.answers) <= Len(AsksOf(g))
    <3>1. Len(g.answers) = 0
      BY <1>3, <2>4
    <3> QED
      BY <2>5, <3>1
  <2>7. InStrategy(g)
    BY <2>1, <2>2, <2>4, <2>6 DEF InStrategy
  <2> QED
    BY <1>1, <1>2, <1>3, <1>5, <2>3, <2>4, <2>7, BecomeCuts
<1> QED
  BY <1>2, <1>4, <1>5 DEF TryStrategy

(* The active frame is in the middle of a strategy that has not given up.  *)
LEMMA Making ==
  ASSUME Shape, stack # << >>, Top.pc \in {"make", "rebuild"}, ~MakesNoPlan
  PROVE  /\ InStrategy(Top) /\ ~GivesUp(Strategy, Top.answers)
         /\ MissingAsks # << >> =>
              /\ Len(Top.answers) < Len(AsksOf(Top))
              /\ Head(MissingAsks) = AsksOf(Top)[Len(Top.answers) + 1]
         /\ MissingAsks = << >> => Len(Top.answers) = Len(AsksOf(Top))
<1>1. request \in Requests /\ StackShape
  BY DEF Shape
<1>2. PICK S, top : /\ top = Top /\ top \in FrameType(S, Requested) /\ FrameIsWell(top)
  BY <1>1, TopFacts
<1>3. top.strategy \in 1..Len(Strategies)
  BY <1>2 DEF FrameIsWell, InStrategy
<1>4. /\ ~IsNull(Strategies[top.strategy])
      /\ IsApplicable(Strategies[top.strategy], top.p, top.policy)
      /\ ~GivesUp(Strategies[top.strategy], top.answers)
  BY <1>2 DEF MakesNoPlan, Strategy
<1>5. top.p \in Problems /\ Len(top.answers) \in Nat
  BY <1>2 DEF FrameType
<1>6. PICK asks, n, k : asks = AsksOf(top) /\ n = Len(asks) /\ k = Len(top.answers)
  OBVIOUS
<1>7. n \in Nat /\ k \in Nat /\ asks \in Seq(AskType(top.policy))
  BY <1>3, <1>4, <1>5, <1>6, AsksOfSound
<1>8. InStrategy(top)
  <2>1. top.answers # << >> => InStrategy(top)
    BY <1>2 DEF FrameIsWell
  <2>2. CASE top.answers = << >>
    <3>1. k = 0
      BY <1>6, <2>2
    <3> QED
      BY <1>3, <1>4, <1>6, <1>7, <3>1 DEF InStrategy
  <2> QED
    BY <2>1, <2>2
<1>9. k <= n
  BY <1>6, <1>8 DEF InStrategy
<1>10. PICK missing : missing = SubSeq(asks, k + 1, n)
  OBVIOUS
<1>11. MissingAsks = missing
  BY <1>2, <1>6, <1>10 DEF MissingAsks, AsksOf, Strategy
<1>12. CASE k = n
  <2>1. missing = << >>
    BY <1>7, <1>10, <1>12, SubSeqEmpty
  <2> QED
    BY <1>2, <1>4, <1>6, <1>8, <1>11, <1>12, <2>1 DEF Strategy
<1>13. CASE k # n
  <2>1. k < n /\ k + 1 \in 1..n
    BY <1>7, <1>9, <1>13
  <2>2. /\ missing \in Seq(AskType(top.policy)) /\ Len(missing) = n - (k + 1) + 1
        /\ missing[1] = asks[k + 1]
    <3>1. DOMAIN asks = 1..n /\ \A i \in 1..n : asks[i] \in AskType(top.policy)
      BY <1>6, <1>7
    <3>2. /\ missing \in Seq(AskType(top.policy))
          /\ Len(missing) = IF k + 1 <= n THEN n - (k + 1) + 1 ELSE 0
          /\ \A i \in 1..(n - (k + 1) + 1) : missing[i] = asks[(k + 1) + i - 1]
      BY <1>7, <1>10, <2>1, <3>1, SubSeqProperties
    <3>3. 1 \in 1..(n - (k + 1) + 1) /\ (k + 1) + 1 - 1 = k + 1
      BY <1>7, <2>1
    <3> QED
      BY <2>1, <3>2, <3>3
  <2>3. missing # << >> /\ Head(missing) = asks[k + 1]
    <3>1. Len(missing) > 0
      BY <1>7, <2>1, <2>2
    <3> QED
      BY <2>2, <3>1
  <2> QED
    BY <1>2, <1>4, <1>6, <1>8, <1>11, <2>1, <2>3 DEF Strategy
<1> QED
  BY <1>12, <1>13

LEMMA AskMeans ==
  ASSUME Shape, AskSubPlan
  PROVE  /\ Waits(Top) /\ ~GivesUp(Strategy, Top.answers)
         /\ Pushes(AsksOf(Top)[Len(Top.answers) + 1])
<1>1. /\ stack # << >> /\ request \in Requests /\ StackShape
      /\ Top.pc \in {"make", "rebuild"} /\ ~MakesNoPlan /\ MissingAsks # << >>
  BY DEF Shape, AskSubPlan
<1>2. PICK ask : ask = AsksOf(Top)[Len(Top.answers) + 1]
  OBVIOUS
<1>3. /\ InStrategy(Top) /\ ~GivesUp(Strategy, Top.answers)
      /\ Len(Top.answers) < Len(AsksOf(Top)) /\ Head(MissingAsks) = ask
  BY <1>1, <1>2, Making
<1>4. Waits(Top)
  BY <1>1, <1>3 DEF Waits
<1>5. PICK S, n : /\ NoPlan \in S /\ stack \in Seq(FrameType(S, Requested))
                  /\ n = Len(stack) /\ n \in Nat \ {0} /\ n \in 1..n /\ Top = stack[n]
  BY <1>1, TopFacts
<1>6. ask \in [p : Problems, policy : {Requested, Without(Requested)}]
  BY <1>1, <1>2, <1>4, <1>5, NextAskFacts
<1>7. PICK g : g = NewFrame(ask.p, ask.policy)
  OBVIOUS
<1>8. g \in FrameType(S, Requested)
  <2>1. << >> \in Seq(S) /\ 1 \in 1..(Len(Strategies) + 1) /\ 0 \in 0..Len(Strategies)
    BY StrategiesTyped
  <2> QED
    BY <1>5, <1>6, <1>7, <2>1 DEF NewFrame, FrameType, Places
<1>9. stack' = Append(stack, g)
  BY <1>3, <1>7 DEF AskSubPlan
<1>10. PICK st : st = Append(stack, g)
  OBVIOUS
<1>11. /\ st \in Seq(FrameType(S, Requested)) /\ Len(st) = n + 1 /\ st[n + 1] = g
       /\ \A i \in 1..n : st[i] = stack[i]
  BY <1>5, <1>8, <1>10, PushMeans
<1>12. Pushes(ask)
  BY <1>5, <1>7, <1>9, <1>10, <1>11 DEF Pushes
<1> QED
  BY <1>2, <1>3, <1>4, <1>12

LEMMA CandidateMeans ==
  ASSUME Shape, FinishCandidate
  PROVE  \E g :
    /\ CutTo(Len(stack), g) /\ g.p = Top.p /\ g.policy = Top.policy /\ g.answers = << >>
    /\ \/ /\ g.pc = "search" /\ g.candidate = NoPlan
          /\ g.best = Top.best /\ g.bestStrategy = Top.bestStrategy
          /\ MakesNoPlan /\ g.strategy = Top.strategy + 1
       \/ /\ InStrategy(Top) /\ Len(Top.answers) = Len(AsksOf(Top))
          /\ ~GivesUp(Strategy, Top.answers)
          /\ \/ /\ g.pc = "exit" /\ g.candidate = NoPlan /\ g.strategy = Top.strategy
                /\ g.best = MadePlan /\ g.bestStrategy = Top.strategy
             \/ /\ g.pc = "measure" /\ g.candidate = MadePlan /\ g.strategy = Top.strategy
                /\ g.best = Top.best /\ g.bestStrategy = Top.bestStrategy
<1>1. stack # << >> /\ request \in Requests /\ StackShape /\ Top.pc = "make"
  BY DEF Shape, FinishCandidate
<1>2. PICK S, top, plan :
        /\ NoPlan \in S /\ plan \in S /\ stack \in Seq(FrameType(S, Requested))
        /\ top = Top /\ top \in FrameType(S, Requested) /\ plan = MadePlan
  <2>1. PICK plan : plan = MadePlan
    OBVIOUS
  <2> QED
    BY <1>1, <2>1, TopIn
<1>3. FrameIsWell(top)
  BY <1>1, <1>2, TopFacts
<1>4. top.candidate = NoPlan /\ top.strategy \in 1..Len(Strategies) /\ << >> \in Seq(S)
  BY <1>1, <1>2, <1>3 DEF FrameIsWell, InStrategy
<1>5. CASE MakesNoPlan /\ Become([top EXCEPT !.pc = "search", !.strategy = @ + 1,
                                             !.answers = << >>])
  <2>1. PICK g : g = [top EXCEPT !.pc = "search", !.strategy = @ + 1, !.answers = << >>]
    OBVIOUS
  <2>2. top.strategy + 1 \in 1..(Len(Strategies) + 1)
    BY <1>4, StrategiesTyped
  <2>3. /\ g \in FrameType(S, Requested) /\ g.p = top.p /\ g.answers = << >>
        /\ g.best = top.best /\ g.candidate = top.candidate /\ g.pc = "search"
        /\ g.policy = top.policy /\ g.bestStrategy = top.bestStrategy
        /\ g.strategy = top.strategy + 1
    BY <1>2, <1>4, <2>1, <2>2 DEF FrameType, Places
  <2>4. CutTo(Len(stack), g)
    BY <1>1, <1>2, <1>5, <2>1, <2>3, BecomeCuts
  <2> QED
    BY <1>2, <1>4, <1>5, <2>3, <2>4
<1>6. CASE /\ ~MakesNoPlan /\ MissingAsks = << >>
           /\ Become([top EXCEPT !.pc = "exit", !.answers = << >>, !.best = plan,
                                 !.bestStrategy = top.strategy])
  <2>1. PICK g : g = [top EXCEPT !.pc = "exit", !.answers = << >>, !.best = plan,
                                 !.bestStrategy = top.strategy]
    OBVIOUS
  <2>2. top.strategy \in 0..Len(Strategies)
    BY <1>4, StrategiesTyped
  <2>3. /\ g \in FrameType(S, Requested) /\ g.p = top.p /\ g.answers = << >>
        /\ g.best = plan /\ g.candidate = top.candidate /\ g.pc = "exit"
        /\ g.policy = top.policy /\ g.bestStrategy = top.strategy
        /\ g.strategy = top.strategy
    BY <1>2, <1>4, <2>1, <2>2 DEF FrameType, Places
  <2>4. /\ InStrategy(top) /\ Len(top.answers) = Len(AsksOf(top))
        /\ ~GivesUp(Strategy, top.answers)
    BY <1>1, <1>2, <1>6, Making
  <2>5. CutTo(Len(stack), g)
    BY <1>1, <1>2, <1>6, <2>1, <2>3, BecomeCuts
  <2> QED
    BY <1>2, <1>4, <2>3, <2>4, <2>5
<1>7. CASE /\ ~MakesNoPlan /\ MissingAsks = << >>
           /\ Become([top EXCEPT !.pc = "measure", !.answers = << >>, !.candidate = plan])
  <2>1. PICK g : g = [top EXCEPT !.pc = "measure", !.answers = << >>, !.candidate = plan]
    OBVIOUS
  <2>2. /\ g \in FrameType(S, Requested) /\ g.p = top.p /\ g.answers = << >>
        /\ g.best = top.best /\ g.candidate = plan /\ g.pc = "measure"
        /\ g.policy = top.policy /\ g.bestStrategy = top.bestStrategy
        /\ g.strategy = top.strategy
    BY <1>2, <1>4, <2>1 DEF FrameType, Places
  <2>3. /\ InStrategy(top) /\ Len(top.answers) = Len(AsksOf(top))
        /\ ~GivesUp(Strategy, top.answers)
    BY <1>1, <1>2, <1>7, Making
  <2>4. CutTo(Len(stack), g)
    BY <1>1, <1>2, <1>7, <2>1, <2>2, BecomeCuts
  <2> QED
    BY <1>2, <1>4, <2>2, <2>3, <2>4
<1> QED
  BY <1>2, <1>5, <1>6, <1>7 DEF FinishCandidate

LEMMA MeasureMeans ==
  ASSUME Shape, MeasureTimesOut \/ \E prefers \in BOOLEAN : Measure(prefers)
  PROVE  \E g :
    /\ Top.pc = "measure" /\ CutTo(Len(stack), g)
    /\ g.p = Top.p /\ g.policy = Top.policy /\ g.answers = << >>
    /\ g.candidate = NoPlan
    /\ g.pc = "search" \/ (g.pc = "exit" /\ g.strategy = Top.strategy)
    /\ \/ g.best = Top.candidate /\ g.bestStrategy = Top.strategy
       \/ Top.best # NoPlan /\ g.best = Top.best /\ g.bestStrategy = Top.bestStrategy
<1>1. stack # << >> /\ request \in Requests /\ StackShape /\ Top.pc = "measure"
  BY DEF Shape, MeasureTimesOut, Measure
<1>2. PICK S, top : /\ NoPlan \in S /\ stack \in Seq(FrameType(S, Requested))
                    /\ top = Top /\ top \in FrameType(S, Requested) /\ FrameIsWell(top)
  BY <1>1, TopFacts
<1>3. /\ top.answers = << >> /\ top.strategy \in 1..Len(Strategies)
      /\ top.strategy \in 0..Len(Strategies) /\ top.strategy + 1 \in 1..(Len(Strategies) + 1)
  <2>1. top.answers = << >> /\ top.strategy \in 1..Len(Strategies)
    BY <1>1, <1>2 DEF FrameIsWell, InStrategy
  <2> QED
    BY <2>1, StrategiesTyped
<1> DEFINE Fine(g) ==
      /\ g \in FrameType(S, Requested) /\ g.p = top.p /\ g.policy = top.policy
      /\ g.answers = << >> /\ g.candidate = NoPlan
      /\ g.pc = "search" \/ (g.pc = "exit" /\ g.strategy = top.strategy)
      /\ \/ g.best = top.candidate /\ g.bestStrategy = top.strategy
         \/ top.best # NoPlan /\ g.best = top.best /\ g.bestStrategy = top.bestStrategy
<1>4. ASSUME NEW g, Become(g), Fine(g)
      PROVE  \E h : CutTo(Len(stack), h) /\ Fine(h)
  <2>1. CutTo(Len(stack), g)
    BY <1>1, <1>2, <1>4, BecomeCuts
  <2> QED
    BY <1>4, <2>1
<1>5. CASE MeasureTimesOut
  <2>1. PICK a, b :
          /\ a = [top EXCEPT !.pc = "exit", !.best = top.candidate,
                             !.bestStrategy = top.strategy, !.candidate = NoPlan]
          /\ b = [top EXCEPT !.pc = "exit", !.candidate = NoPlan]
    OBVIOUS
  <2>2. Fine(a) /\ (top.best # NoPlan => Fine(b))
    BY <1>2, <1>3, <2>1 DEF FrameType, Places
  <2>3. Become(a) \/ (top.best # NoPlan /\ Become(b))
    BY <1>2, <1>5, <2>1 DEF MeasureTimesOut
  <2> QED
    BY <1>1, <1>2, <1>4, <2>2, <2>3
<1>6. CASE \E prefers \in BOOLEAN : Measure(prefers)
  <2>1. PICK a, b :
          /\ a = [top EXCEPT !.pc = "search", !.strategy = @ + 1, !.candidate = NoPlan,
                             !.best = top.candidate, !.bestStrategy = top.strategy]
          /\ b = [top EXCEPT !.pc = "search", !.strategy = @ + 1, !.candidate = NoPlan]
    OBVIOUS
  <2>2. Fine(a) /\ (top.best # NoPlan => Fine(b))
    BY <1>2, <1>3, <2>1 DEF FrameType, Places
  <2>3. Become(a) \/ (top.best # NoPlan /\ Become(b))
    BY <1>2, <1>6, <2>1 DEF Measure
  <2> QED
    BY <1>1, <1>2, <1>4, <2>2, <2>3
<1> QED
  BY <1>5, <1>6

LEMMA EntriesStayApart ==
  ASSUME NEW P, NEW es, AreEntries(es, P), NEW e \in EntriesUnder(P)
  PROVE  LET same == {i \in DOMAIN es : es[i].policy = e.policy}
         IN  AreEntries(IF same # {}
                        THEN [es EXCEPT ![CHOOSE i \in same : \A j \in same : i <= j] = e]
                        ELSE Append(es, e), P)
<1>1. PICK n, T : n = Len(es) /\ T = EntriesUnder(P)
  OBVIOUS
<1>2. /\ es \in Seq(T) /\ n \in Nat /\ DOMAIN es = 1..n /\ \A i \in 1..n : es[i] \in T
      /\ \A i, j \in 1..n : es[i].policy = es[j].policy => i = j
  BY <1>1 DEF AreEntries
<1> DEFINE same == {i \in DOMAIN es : es[i].policy = e.policy}
<1>3. CASE same = {}
  <2>1. PICK more : more = Append(es, e)
    OBVIOUS
  <2>2. /\ more \in Seq(T) /\ Len(more) = n + 1 /\ more[n + 1] = e
        /\ \A i \in 1..n : more[i] = es[i] /\ more[i].policy # e.policy
    BY <1>1, <1>2, <1>3, <2>1
  <2>3. \A i \in 1..(n + 1) : i \in 1..n \/ i = n + 1
    BY <1>2
  <2>4. \A i, j \in 1..(n + 1) : more[i].policy = more[j].policy => i = j
    BY <1>2, <2>2, <2>3
  <2> QED
    BY <1>1, <1>3, <2>1, <2>2, <2>4 DEF AreEntries
<1>4. CASE same # {}
  <2>1. \E i \in same : \A j \in same : i <= j
    <3>1. same \in SUBSET Nat
      BY <1>2
    <3> HIDE DEF same
    <3> QED
      BY <1>4, <3>1, LeastNumber
  <2>2. PICK m : m = CHOOSE i \in same : \A j \in same : i <= j
    OBVIOUS
  <2>3. m \in same
    <3> HIDE DEF same
    <3> QED
      BY <2>1, <2>2
  <2>4. m \in 1..n /\ es[m].policy = e.policy
    BY <1>2, <2>3
  <2>5. PICK more : more = [es EXCEPT ![m] = e]
    OBVIOUS
  <2>6. /\ more \in Seq(T) /\ Len(more) = n
        /\ \A i \in 1..n : more[i].policy = es[i].policy
    BY <1>1, <1>2, <2>4, <2>5
  <2>7. AreEntries(more, P)
    BY <1>1, <1>2, <2>6 DEF AreEntries
  <2> QED
    BY <1>4, <2>2, <2>5, <2>7
<1> QED
  BY <1>3, <1>4

LEMMA FinishMeans ==
  ASSUME Shape, Finish
  PROVE  /\ stack # << >> /\ Top.pc = "exit" /\ Return(Top.best)
         /\ Top.best = NoPlan => UNCHANGED <<wisdom, found>>
         /\ Top.best # NoPlan =>
              LET e == [strategy |-> Top.bestStrategy, policy |-> Top.policy]
              IN  /\ found' = With(found, <<Top.p, Top.policy>>, Top.best)
                  /\ e \in EntriesUnder(Requested) /\ Top.p \in Problems
                  /\ \E more : /\ wisdom' = With(wisdom, Top.p, more)
                               /\ AreEntries(more, Requested)
                               /\ (\A i \in 1..Len(WisdomEntries(Top.p)) :
                                     WisdomEntries(Top.p)[i].policy # Top.policy)
                                  => more = Append(WisdomEntries(Top.p), e)
<1>1. /\ stack # << >> /\ request \in Requests /\ StackShape /\ WisdomShape
      /\ Top.pc = "exit" /\ Return(Top.best)
  BY DEF Shape, Finish
<1>2. PICK S, top : /\ top = Top /\ top \in FrameType(S, Requested) /\ FrameIsWell(top)
  BY <1>1, TopFacts
<1>3. CASE top.best = NoPlan
  BY <1>1, <1>2, <1>3 DEF Finish
<1>4. CASE top.best # NoPlan
  <2>1. PICK e, es : /\ e = [strategy |-> top.bestStrategy, policy |-> top.policy]
                     /\ es = WisdomEntries(top.p)
    OBVIOUS
  <2>2. e \in EntriesUnder(Requested) /\ e.policy = top.policy /\ top.p \in Problems
    BY <1>2, <1>4, <2>1 DEF FrameIsWell, FrameType, EntriesUnder
  <2>3. AreEntries(es, Requested)
    <3>1. AreEntries(<< >>, Requested)
      BY DEF AreEntries
    <3> QED
      BY <1>1, <2>1, <3>1 DEF WisdomEntries, WisdomShape
  <2> DEFINE same == {i \in DOMAIN es : es[i].policy = e.policy}
  <2>4. PICK more : more = IF same # {}
                           THEN [es EXCEPT ![CHOOSE i \in same : \A j \in same : i <= j] = e]
                           ELSE Append(es, e)
    OBVIOUS
  <2>5. AreEntries(more, Requested)
    BY <2>2, <2>3, <2>4, EntriesStayApart
  <2>6. /\ wisdom' = With(wisdom, top.p, more)
        /\ found' = With(found, <<top.p, top.policy>>, top.best)
    BY <1>2, <1>4, <2>1, <2>4 DEF Finish, WisdomUpdate
  <2>7. (\A i \in 1..Len(es) : es[i].policy # top.policy) => more = Append(es, e)
    <3>1. DOMAIN es = 1..Len(es)
      BY <2>3 DEF AreEntries
    <3> QED
      BY <2>2, <2>4, <3>1
  <2> QED
    BY <1>1, <1>2, <1>4, <2>1, <2>2, <2>5, <2>6, <2>7
<1> QED
  BY <1>2, <1>3, <1>4

-----------------------------------------------------------------------------
(* The shape of the search is an invariant.                                *)

LEMMA InitShape == Init => Shape
<1> SUFFICES ASSUME Init PROVE Shape
  OBVIOUS
<1>1. request \in Requests /\ status = "running" /\ wisdom = << >>
  BY DEF Init
<1>2. PICK r : r = request /\ r.timed \in BOOLEAN /\ r.prob \in Problems
  BY <1>1, RequestsAssumption
<1>3. expired \in BOOLEAN
  BY <1>2 DEF Init
<1>4. PICK f : f = NewFrame(request.prob, Requested)
  OBVIOUS
<1>5. stack = <<f>>
  BY <1>4 DEF Init, Requested
<1>6. /\ f.p = request.prob /\ f.policy = Requested /\ f.pc = "lookup" /\ f.answers = << >>
      /\ f.best = NoPlan /\ f.candidate = NoPlan
  BY <1>4 DEF NewFrame
<1>7. f \in FrameType({NoPlan}, Requested)
  <2>1. << >> \in Seq({NoPlan}) /\ 1 \in 1..(Len(Strategies) + 1) /\ 0 \in 0..Len(Strategies)
    BY StrategiesTyped
  <2>2. request.prob \in Problems
    BY <1>2
  <2> QED
    BY <1>4, <2>1, <2>2 DEF NewFrame, FrameType, Places
<1>8. PICK st : st = <<f>>
  OBVIOUS
<1>9. st \in Seq(FrameType({NoPlan}, Requested)) /\ Len(st) = 1 /\ st[1] = f
  BY <1>7, <1>8
<1>10. FrameIsWell(f) /\ Answers(f, Asked(1))
  <2>1. FrameIsWell(f)
    BY ONLY <1>6 DEF FrameIsWell
  <2>2. Asked(1) = [p |-> request.prob, policy |-> Requested]
    BY DEF Asked
  <2> QED
    BY <1>6, <2>1, <2>2 DEF Answers
<1>11. \A i \in 1..1 : i = 1
  OBVIOUS
<1>12. StackShape
  <2>1. NoPlan \in {NoPlan}
    OBVIOUS
  <2>2. \A i \in 1..Len(st) : FrameIsWell(st[i]) /\ Answers(st[i], Asked(i))
    BY <1>9, <1>10, <1>11
  <2>3. \A i \in 1..(Len(st) - 1) : Waits(st[i])
    BY <1>9
  <2>4. \A i, j \in 1..Len(st) : i < j => Smaller(Asked(j), Key(st[i]))
    BY <1>9, <1>11
  <2> QED
    BY <1>5, <1>8, <1>9, <2>1, <2>2, <2>3, <2>4 DEF StackShape
<1>13. WisdomShape
  <2>1. DOMAIN wisdom = {}
    BY <1>1
  <2> QED
    BY <2>1 DEF WisdomShape
<1>14. stack # << >>
  BY <1>5, <1>8, <1>9
<1> QED
  BY <1>1, <1>3, <1>12, <1>13, <1>14 DEF Shape

(* A frame that stays where it is keeps what it answers.                   *)
LEMMA TopAnswers ==
  ASSUME Shape, stack # << >>, Top.pc # "rebuild", NEW g, g.p = Top.p,
         \/ g.policy = Top.policy
         \/ g.pc = "rebuild" /\ g.policy = Without(Top.policy)
  PROVE  Answers(g, Asked(Len(stack)))
<1>1. Answers(Top, Asked(Len(stack)))
  BY TopFacts DEF Shape
<1> QED
  BY <1>1 DEF Answers

LEMMA StackStep == Shape /\ Step => StackShape' /\ request' = request
<1> SUFFICES ASSUME Shape, Step PROVE StackShape' /\ request' = request
  OBVIOUS
<1>1. stack # << >> /\ request \in Requests /\ StackShape
  BY DEF Shape, Step, Lookup, TryStrategy, AskSubPlan, FinishCandidate, FinishRebuild,
         MeasureTimesOut, Measure, Finish
<1>2. request' = request
  BY DEF Step, Lookup, TryStrategy, AskSubPlan, FinishCandidate, FinishRebuild,
         MeasureTimesOut, Measure, Finish
<1>3. FrameIsWell(Top)
  BY <1>1, TopFacts
<1>4. CASE Lookup
  <2>1. PICK hit, g :
          /\ CutTo(Len(stack), g)
          /\ g.p = Top.p /\ g.answers = << >>
          /\ g.best = NoPlan /\ g.candidate = NoPlan
          /\ IF hit = NoEntry
             THEN g.pc = "search" /\ g.policy = Top.policy
             ELSE /\ g.pc = "rebuild" /\ g.policy = hit.policy
                  /\ g.strategy = hit.strategy
                  /\ hit.policy \in {Top.policy, Without(Top.policy)}
                  /\ hit.strategy \in 1..Len(Strategies)
    <3>1. PICK hit : hit = WisdomLookup(Top.p, Top.policy)
      OBVIOUS
    <3> QED
      BY <1>4, <3>1, LookupMeans
  <2>2. Top.pc # "rebuild"
    BY <1>4 DEF Lookup
  <2>3. FrameIsWell(g)
    BY <2>1 DEF FrameIsWell
  <2>4. Answers(g, Asked(Len(stack)))
    BY <1>1, <2>1, <2>2, TopAnswers
  <2> QED
    BY <1>1, <1>2, <2>1, <2>3, <2>4, CutShape
<1>5. CASE TryStrategy
  <2>1. PICK g :
          /\ CutTo(Len(stack), g)
          /\ g.p = Top.p /\ g.policy = Top.policy /\ g.answers = << >>
          /\ g.best = Top.best /\ g.bestStrategy = Top.bestStrategy
          /\ g.candidate = NoPlan
          /\ g.pc = "exit" \/ (g.pc = "make" /\ InStrategy(g))
    BY <1>5, TryStrategyMeans
  <2>2. Top.pc # "rebuild"
    BY <1>5 DEF TryStrategy
  <2>3. FrameIsWell(g)
    BY <1>3, <2>1 DEF FrameIsWell
  <2>4. Answers(g, Asked(Len(stack)))
    BY <1>1, <2>1, <2>2, TopAnswers
  <2> QED
    BY <1>1, <1>2, <2>1, <2>3, <2>4, CutShape
<1>6. CASE AskSubPlan
  <2>1. PICK ask : ask = AsksOf(Top)[Len(Top.answers) + 1]
    OBVIOUS
  <2>2. Waits(Top) /\ Pushes(ask)
    BY <1>6, <2>1, AskMeans
  <2> QED
    BY <1>1, <1>2, <2>1, <2>2, PushShape
<1>7. CASE FinishCandidate
  <2>1. PICK g :
          /\ CutTo(Len(stack), g)
          /\ g.p = Top.p /\ g.policy = Top.policy /\ g.answers = << >>
          /\ \/ /\ g.pc = "search" /\ g.candidate = NoPlan
                /\ g.best = Top.best /\ g.bestStrategy = Top.bestStrategy
             \/ /\ InStrategy(Top) /\ Len(Top.answers) = Len(AsksOf(Top))
                /\ \/ /\ g.pc = "exit" /\ g.candidate = NoPlan
                      /\ g.bestStrategy = Top.strategy
                   \/ /\ g.pc = "measure" /\ g.strategy = Top.strategy
                      /\ g.best = Top.best /\ g.bestStrategy = Top.bestStrategy
    BY <1>7, CandidateMeans
  <2>2. Top.pc # "rebuild"
    BY <1>7 DEF FinishCandidate
  <2>3. InStrategy(Top) => Top.strategy \in 1..Len(Strategies)
    BY DEF InStrategy
  <2>4. FrameIsWell(g)
    <3>1. g.pc = "measure" => InStrategy(g)
      <4>1. SUFFICES ASSUME g.pc = "measure" PROVE InStrategy(g)
        OBVIOUS
      <4>2. InStrategy(Top) /\ g.strategy = Top.strategy
        BY <2>1, <4>1
      <4>3. AsksOf(g) = AsksOf(Top)
        BY <2>1, <4>2 DEF AsksOf
      <4>4. Top.p \in Problems
        BY <1>1, TopFacts DEF FrameType
      <4>5. Len(AsksOf(Top)) \in Nat
        BY <4>2, <4>4, AsksOfSound DEF InStrategy
      <4>6. Len(g.answers) <= Len(AsksOf(g))
        <5>1. Len(g.answers) = 0
          BY <2>1
        <5> QED
          BY <4>3, <4>5, <5>1
      <4> QED
        BY <2>1, <4>2, <4>6 DEF InStrategy
    <3> QED
      BY <1>3, <2>1, <2>3, <3>1 DEF FrameIsWell
  <2>5. Answers(g, Asked(Len(stack)))
    BY <1>1, <2>1, <2>2, TopAnswers
  <2> QED
    BY <1>1, <1>2, <2>1, <2>4, <2>5, CutShape
<1>8. CASE FinishRebuild
  <2>1. CASE MakesNoPlan
    <3>1. stack' = stack
      BY <1>8, <2>1 DEF FinishRebuild
    <3>2. PICK n : n = Len(stack) /\ n \in Nat
      BY <1>1, TopFacts
    <3>3. \A i \in 1..n : Asked(i)' = Asked(i)
      BY <1>2, <3>1, <3>2, AskedBelow
    <3> QED
      BY <1>1, <1>2, <3>1, <3>2, <3>3, SameWell DEF StackShape
  <2>2. CASE ~MakesNoPlan
    <3>1. PICK plan : plan = MadePlan
      OBVIOUS
    <3>2. Return(plan)
      BY <1>8, <2>2, <3>1 DEF FinishRebuild
    <3> QED
      BY <1>1, <1>2, <3>2, ReturnShape
  <2> QED
    BY <2>1, <2>2
<1>9. CASE MeasureTimesOut \/ \E prefers \in BOOLEAN : Measure(prefers)
  <2>1. PICK g :
          /\ Top.pc = "measure" /\ CutTo(Len(stack), g)
          /\ g.p = Top.p /\ g.policy = Top.policy /\ g.answers = << >>
          /\ g.candidate = NoPlan /\ g.pc \in {"exit", "search"}
          /\ \/ g.best = Top.candidate /\ g.bestStrategy = Top.strategy
             \/ g.best = Top.best /\ g.bestStrategy = Top.bestStrategy
    BY <1>9, MeasureMeans
  <2>2. FrameIsWell(g)
    <3>1. Top.strategy \in 1..Len(Strategies)
      BY <1>3, <2>1 DEF FrameIsWell, InStrategy
    <3> QED
      BY <1>3, <2>1, <3>1 DEF FrameIsWell
  <2>3. Answers(g, Asked(Len(stack)))
    BY <1>1, <2>1, TopAnswers
  <2> QED
    BY <1>1, <1>2, <2>1, <2>2, <2>3, CutShape
<1>10. CASE Finish
  <2>1. PICK plan : plan = Top.best
    OBVIOUS
  <2>2. Return(plan)
    BY <1>10, <2>1, FinishMeans
  <2> QED
    BY <1>1, <1>2, <2>2, ReturnShape
<1> QED
  BY <1>4, <1>5, <1>6, <1>7, <1>8, <1>9, <1>10 DEF Step

LEMMA WisdomStep == Shape /\ Step => WisdomShape'
<1> SUFFICES ASSUME Shape, Step PROVE WisdomShape'
  OBVIOUS
<1>1. WisdomShape /\ Requested' = Requested
  BY StackStep, SameWell DEF Shape
<1>2. CASE UNCHANGED wisdom
  BY <1>1, <1>2 DEF WisdomShape
<1>3. CASE Finish /\ Top.best # NoPlan
  <2>1. PICK p, more : /\ p = Top.p /\ p \in Problems /\ wisdom' = With(wisdom, p, more)
                       /\ AreEntries(more, Requested)
    BY <1>3, FinishMeans
  <2>2. PICK w : w = With(wisdom, p, more)
    OBVIOUS
  <2>3. /\ DOMAIN w = DOMAIN wisdom \cup {p} /\ w[p] = more
        /\ \A q \in DOMAIN wisdom : q # p => w[q] = wisdom[q]
    BY ONLY <2>2 DEF With
  <2> QED
    BY <1>1, <2>1, <2>2, <2>3 DEF WisdomShape
<1>4. CASE Finish /\ Top.best = NoPlan
  BY <1>2, <1>4, FinishMeans
<1> QED
  BY <1>2, <1>3, <1>4
     DEF Step, Lookup, TryStrategy, AskSubPlan, FinishCandidate, FinishRebuild,
         MeasureTimesOut, Measure

LEMMA ShapeStep == Shape /\ [Next]_vars => Shape'
<1> SUFFICES ASSUME Shape, [Next]_vars PROVE Shape'
  OBVIOUS
<1>1. CASE Step
  <2>1. StackShape' /\ request' = request /\ WisdomShape'
    BY <1>1, StackStep, WisdomStep
  <2>2. expired' = expired /\ status = "running"
    BY <1>1
       DEF Step, Lookup, TryStrategy, AskSubPlan, FinishCandidate, FinishRebuild,
           MeasureTimesOut, Measure, Finish
  <2>3. stack # << >> /\ StackShape /\ request \in Requests
    BY <2>2 DEF Shape
  <2>4. PICK n : n = Len(stack) /\ n \in Nat \ {0} /\ n \in 1..n
    BY <2>3, TopFacts
  <2>5. \A m, g : CutTo(m, g) => stack' # << >>
    <3>1. \A st, m : m \in 1..n /\ Len(st) = m => st # << >>
      OBVIOUS
    <3> QED
      BY <2>4, <3>1 DEF CutTo
  <2>6. ASSUME NEW plan, Return(plan)
        PROVE  \/ status' = "done"
               \/ status' = status /\ stack' # << >>
    BY <2>3, <2>5, <2>6, ReturnMeans
  <2>7. \/ status' \in {"done", "abort"}
        \/ status' = status /\ stack' # << >>
    <3>1. CASE Lookup
      <4>1. PICK g : CutTo(Len(stack), g)
        BY <3>1, LookupMeans
      <4> QED
        BY <2>5, <3>1, <4>1 DEF Lookup
    <3>2. CASE TryStrategy
      <4>1. PICK g : CutTo(Len(stack), g)
        BY <3>2, TryStrategyMeans
      <4> QED
        BY <2>5, <3>2, <4>1 DEF TryStrategy
    <3>3. CASE AskSubPlan
      <4>1. PICK ask : Pushes(ask)
        BY <3>3, AskMeans
      <4>2. Len(stack') = n + 1
        BY <2>4, <4>1 DEF Pushes
      <4>3. \A st : Len(st) = n + 1 => st # << >>
        BY <2>4
      <4> QED
        BY <3>3, <4>2, <4>3 DEF AskSubPlan
    <3>4. CASE FinishCandidate
      <4>1. PICK g : CutTo(Len(stack), g)
        BY <3>4, CandidateMeans
      <4> QED
        BY <2>5, <3>4, <4>1 DEF FinishCandidate
    <3>5. CASE FinishRebuild
      <4>1. status' = "abort" \/ \E plan : Return(plan)
        BY <3>5 DEF FinishRebuild
      <4> QED
        BY <2>6, <4>1
    <3>6. CASE MeasureTimesOut \/ \E prefers \in BOOLEAN : Measure(prefers)
      <4>1. PICK g : CutTo(Len(stack), g)
        BY <3>6, MeasureMeans
      <4> QED
        BY <2>5, <3>6, <4>1 DEF MeasureTimesOut, Measure
    <3>7. CASE Finish
      <4>1. \E plan : Return(plan)
        BY <3>7 DEF Finish
      <4> QED
        BY <2>6, <4>1
    <3> QED
      BY <1>1, <3>1, <3>2, <3>3, <3>4, <3>5, <3>6, <3>7 DEF Step
  <2> QED
    BY <2>1, <2>2, <2>7 DEF Shape
<1>2. CASE Expire \/ Terminated \/ UNCHANGED vars
  <2>1. /\ UNCHANGED <<request, stack, wisdom, status>>
        /\ expired' \in BOOLEAN
    BY <1>2 DEF Expire, Terminated, vars, Shape
  <2>2. Requested' = Requested
    BY <2>1, SameWell
  <2>3. StackShape'
    <3>1. PICK S : stack \in Seq(FrameType(S, Requested))
      BY DEF Shape, StackShape
    <3>2. PICK n : n = Len(stack) /\ n \in Nat
      BY <3>1
    <3>3. \A i \in 1..n : Asked(i)' = Asked(i)
      BY <2>1, <3>2, AskedBelow
    <3> QED
      BY <2>1, <3>2, <3>3, SameWell DEF StackShape, Shape
  <2>4. WisdomShape'
    BY <2>1, <2>2 DEF WisdomShape, Shape
  <2> QED
    BY <2>1, <2>3, <2>4 DEF Shape
<1> QED
  BY <1>1, <1>2 DEF Next

LEMMA ShapeIsInvariant == Spec => []Shape
<1>1. Init => Shape
  BY InitShape
<1>2. Shape /\ [Next]_vars => Shape'
  BY ShapeStep
<1> QED
  BY <1>1, <1>2, PTL DEF Spec

(* The search stays well formed: frames of the known places and policies,  *)
(* callers waiting in a strategy, wisdom that names strategies of the      *)
(* table (planner::make_plan_impl, wisdom_table).                          *)
THEOREM TypeCorrect == Spec => []TypeOK
<1>1. Shape => TypeOK
  <2> SUFFICES ASSUME Shape PROVE TypeOK
    OBVIOUS
  <2>1. PICK S : stack \in Seq(FrameType(S, Requested))
    BY DEF Shape, StackShape
  <2>2. DOMAIN stack = 1..Len(stack) /\ Len(stack) \in Nat
    BY <2>1
  <2>3. Requested \subseteq ALLOW_ALL /\ Without(Requested) \subseteq ALLOW_ALL
    BY RequestedFacts DEF Shape
  <2>4. ASSUME NEW i \in DOMAIN stack
        PROVE  /\ stack[i].pc \in {"lookup", "search", "make", "rebuild", "measure", "exit"}
               /\ stack[i].strategy \in 1..(Len(Strategies) + 1)
               /\ stack[i].policy \subseteq ALLOW_ALL
               /\ i < Len(stack) => stack[i].pc \in {"make", "rebuild"}
    <3>1. i \in 1..Len(stack) /\ (i < Len(stack) => i \in 1..(Len(stack) - 1))
      BY <2>2
    <3>2. PICK f : f = stack[i]
      OBVIOUS
    <3>3. f \in FrameType(S, Requested)
      BY <2>1, <3>1, <3>2
    <3>4. i < Len(stack) => Waits(f)
      BY <3>1, <3>2 DEF Shape, StackShape
    <3> QED
      BY <2>3, <3>2, <3>3, <3>4 DEF FrameType, Places, Waits
  <2>5. ASSUME NEW p \in DOMAIN wisdom, NEW i \in DOMAIN wisdom[p]
        PROVE  wisdom[p][i].strategy \in DOMAIN Strategies
    <3>1. PICK es : es = wisdom[p]
      OBVIOUS
    <3>2. es \in Seq(EntriesUnder(Requested))
      BY <3>1 DEF Shape, WisdomShape, AreEntries
    <3>3. es[i] \in EntriesUnder(Requested)
      BY <3>1, <3>2
    <3> QED
      BY <3>1, <3>3, StrategiesTyped DEF EntriesUnder
  <2> QED
    BY <2>4, <2>5 DEF TypeOK, Shape
<1> QED
  BY <1>1, ShapeIsInvariant, PTL

(* The recursion of the planner is well founded: what a make_plan_impl     *)
(* call asks of the planner is smaller than what it solves itself.         *)
THEOREM SearchesDescend == Spec => []RecursionDescends
<1>1. Shape => RecursionDescends
  <2> SUFFICES ASSUME Shape, NEW i \in 2..Len(stack)
               PROVE  \/ /\ AllowsConvolution(stack[i - 1].policy)
                         /\ ~AllowsConvolution(stack[i].policy)
                      \/ stack[i].p.n < stack[i - 1].p.n
                      \/ /\ stack[i].p.n = stack[i - 1].p.n /\ stack[i].p.howmany = 1
                         /\ stack[i - 1].p.howmany > 1
    BY DEF RecursionDescends
  <2>1. PICK S : stack \in Seq(FrameType(S, Requested))
    BY DEF Shape, StackShape
  <2>2. /\ i \in 1..Len(stack) /\ i - 1 \in 1..Len(stack) /\ i - 1 < i
        /\ i - 1 \in 1..(Len(stack) - 1)
    BY <2>1
  <2>3. PICK T : T = {Requested, Without(Requested)}
    OBVIOUS
  <2>4. PICK a, b, c : a = Key(stack[i]) /\ b = Asked(i) /\ c = Key(stack[i - 1])
    OBVIOUS
  <2>5. Smaller(b, c)
    BY <2>2, <2>4 DEF Shape, StackShape
  <2>6. a.p = b.p /\ a.policy \in {b.policy, Without(b.policy)}
    <3>1. Answers(stack[i], b)
      BY <2>2, <2>4 DEF Shape, StackShape
    <3> QED
      BY <2>4, <3>1 DEF Answers, Key
  <2>7. a \in [p : Problems, policy : T] /\ c \in [p : Problems, policy : T]
    <3>1. stack[i] \in FrameType(S, Requested) /\ stack[i - 1] \in FrameType(S, Requested)
      BY <2>1, <2>2
    <3> QED
      BY <2>3, <2>4, <3>1 DEF FrameType, Key
  <2>8. b \in [p : Problems, policy : T]
    BY <2>2, <2>3, <2>4, AskedTyped DEF Shape
  <2>9. Smaller(a, c)
    BY ONLY <2>5, <2>6, <2>7, <2>8, SmallerFacts
  <2> QED
    BY <2>4, <2>9 DEF Smaller, Key
<1> QED
  BY <1>1, ShapeIsInvariant, PTL

(* What a search may still do after the deadline with a plan in hand.      *)
OnlyFinishes(f, g) ==
  (expired /\ ~Prunes(f) /\ f.best # NoPlan /\ g.p = f.p)
    => g.strategy = f.strategy \/ (f.pc \in {"make", "measure"} /\ g.pc = "search")

LEMMA LateStep ==
  ASSUME Shape, Step
  PROVE  \A i \in DOMAIN stack : i \in DOMAIN stack' => OnlyFinishes(stack[i], stack'[i])
<1>1. stack # << >> /\ request \in Requests /\ StackShape
  BY DEF Shape, Step, Lookup, TryStrategy, AskSubPlan, FinishCandidate, FinishRebuild,
         MeasureTimesOut, Measure, Finish
<1>2. PICK n, top : /\ n = Len(stack) /\ n \in Nat \ {0} /\ n \in 1..n
                    /\ top = Top /\ top = stack[n] /\ FrameIsWell(top)
  BY <1>1, TopFacts
<1>3. DOMAIN stack = 1..n
  BY <1>1, <1>2, TopFacts
<1>4. ASSUME NEW m \in 1..n, NEW g, CutTo(m, g), OnlyFinishes(stack[m], g)
      PROVE  \A i \in DOMAIN stack : i \in DOMAIN stack' => OnlyFinishes(stack[i], stack'[i])
  <2>1. PICK st : st = stack'
    OBVIOUS
  <2>2. /\ DOMAIN st = 1..m /\ st[m] = g /\ \A i \in 1..(m - 1) : st[i] = stack[i]
    BY <1>4, <2>1 DEF CutTo
  <2>3. \A i \in 1..m : i = m \/ i \in 1..(m - 1)
    BY <1>2
  <2>4. \A f : OnlyFinishes(f, f)
    BY DEF OnlyFinishes
  <2> QED
    BY <1>4, <2>1, <2>2, <2>3, <2>4
<1>5. ASSUME NEW plan, Return(plan)
      PROVE  \A i \in DOMAIN stack : i \in DOMAIN stack' => OnlyFinishes(stack[i], stack'[i])
  <2>1. CASE n = 1
    <3>1. stack' = << >>
      BY <1>1, <1>2, <1>5, <2>1, ReturnMeans
    <3> QED
      BY <3>1
  <2>2. CASE n # 1
    <3>1. PICK m, g : m = n - 1 /\ CutTo(m, g) /\ Answered(stack[m], g, plan)
      BY <1>1, <1>2, <1>5, <2>2, ReturnMeans
    <3>2. OnlyFinishes(stack[m], g)
      BY <3>1 DEF Answered, OnlyFinishes
    <3>3. m \in 1..n
      BY <1>2, <2>2, <3>1
    <3> QED
      BY <1>4, <3>1, <3>2, <3>3
  <2> QED
    BY <2>1, <2>2
<1>6. CASE Lookup
  <2>1. PICK g : CutTo(n, g)
    BY <1>2, <1>6, LookupMeans
  <2>2. top.best = NoPlan
    BY <1>2, <1>6 DEF FrameIsWell, Lookup
  <2> QED
    BY <1>2, <1>4, <2>1, <2>2 DEF OnlyFinishes
<1>7. CASE TryStrategy
  <2>1. PICK g : /\ CutTo(n, g)
                 /\ g.strategy = top.strategy \/ ~OutOfTime(top)
    BY <1>2, <1>7, TryStrategyMeans
  <2> QED
    BY <1>2, <1>4, <2>1 DEF OnlyFinishes, OutOfTime
<1>8. CASE AskSubPlan
  <2>1. PICK ask, st : Pushes(ask) /\ st = stack'
    BY <1>8, AskMeans
  <2>2. \A i \in 1..n : st[i] = stack[i]
    BY <1>2, <2>1 DEF Pushes
  <2> QED
    BY <1>3, <2>1, <2>2 DEF OnlyFinishes
<1>9. CASE FinishCandidate
  <2>1. PICK g : CutTo(n, g) /\ (g.pc = "search" \/ g.strategy = top.strategy)
    BY <1>2, <1>9, CandidateMeans
  <2> QED
    BY <1>2, <1>4, <1>9, <2>1 DEF OnlyFinishes, FinishCandidate
<1>10. CASE FinishRebuild
  <2>1. stack' = stack \/ \E plan : Return(plan)
    BY <1>10 DEF FinishRebuild
  <2>2. stack' = stack => \A i \in DOMAIN stack : OnlyFinishes(stack[i], stack'[i])
    BY DEF OnlyFinishes
  <2> QED
    BY <1>5, <2>1, <2>2
<1>11. CASE MeasureTimesOut \/ \E prefers \in BOOLEAN : Measure(prefers)
  <2>1. PICK g : /\ top.pc = "measure" /\ CutTo(n, g)
                 /\ g.pc = "search" \/ g.strategy = top.strategy
    BY <1>2, <1>11, MeasureMeans
  <2> QED
    BY <1>2, <1>4, <2>1 DEF OnlyFinishes
<1>12. CASE Finish
  <2>1. \E plan : Return(plan)
    BY <1>12 DEF Finish
  <2> QED
    BY <1>5, <2>1
<1> QED
  BY <1>6, <1>7, <1>8, <1>9, <1>10, <1>11, <1>12 DEF Step

(* Once a search has a plan in hand and the clock has run out, it asks no  *)
(* further strategy (the timed_out test of planner::make_plan_impl).       *)
THEOREM DeadlineEndsSearches == Spec => NoSearchAfterDeadline
<1>1. Shape /\ [Next]_vars
        => [\A i \in DOMAIN stack :
              (/\ expired /\ ~Prunes(stack[i]) /\ stack[i].best # NoPlan
               /\ i \in DOMAIN stack' /\ stack'[i].p = stack[i].p)
              => stack'[i].strategy = stack[i].strategy
                   \/ (stack[i].pc \in {"make", "measure"} /\ stack'[i].pc = "search")]_vars
  <2>1. Shape /\ Step
          => \A i \in DOMAIN stack :
               (/\ expired /\ ~Prunes(stack[i]) /\ stack[i].best # NoPlan
                /\ i \in DOMAIN stack' /\ stack'[i].p = stack[i].p)
               => stack'[i].strategy = stack[i].strategy
                    \/ (stack[i].pc \in {"make", "measure"} /\ stack'[i].pc = "search")
    BY LateStep DEF OnlyFinishes
  <2>2. Expire \/ Terminated \/ UNCHANGED vars => stack' = stack
    BY DEF Expire, Terminated, vars
  <2> QED
    BY <2>1, <2>2 DEF Next
<1> QED
  BY <1>1, ShapeIsInvariant, PTL DEF Spec, NoSearchAfterDeadline

-----------------------------------------------------------------------------
(* No plan runs a convolution inside the transforms of another.            *)

Clean(plan, policy) ==
  plan # NoPlan =>
    ~plan.nested /\ (~AllowsConvolution(policy) => ~plan.convolves)

LEMMA PlanIsClean ==
  ASSUME NEW s \in StrategyType, NEW p \in Problems, NEW policy, IsApplicable(s, p, policy),
         NEW S, NEW answers \in Seq(S), Len(answers) = Len(Asks(s, p, policy)),
         ~GivesUp(s, answers),
         \A k \in 1..Len(answers) : Clean(answers[k], Asks(s, p, policy)[k].policy)
  PROVE  Clean(Plan(s, p, answers), policy)
<1>1. PICK asks, n : asks = Asks(s, p, policy) /\ n = Len(answers)
  OBVIOUS
<1>2. /\ asks \in Seq(AskType(policy))
      /\ Len(asks) \in IF IsConvolution(s) THEN {3, 4} ELSE {0, 1}
      /\ IsConvolution(s) => /\ AllowsConvolution(policy)
                             /\ \A k \in 1..3 : asks[k].policy = Without(policy)
  BY <1>1, AsksDescend DEF AsksAreSound
<1>3. n = Len(asks) /\ n \in Nat /\ DOMAIN answers = 1..n
  BY <1>1
<1>4. \A k \in 1..n : answers[k] # NoPlan
  <2>1. n = 0 \/ n \in IF IsConvolution(s) THEN {3, 4} ELSE {1}
    BY <1>2, <1>3
  <2> QED
    BY <1>1, <1>3, <2>1 DEF GivesUp
<1>5. ASSUME NEW k \in 1..n
      PROVE  /\ ~answers[k].nested
             /\ ~AllowsConvolution(asks[k].policy) => ~answers[k].convolves
  BY <1>1, <1>4 DEF Clean
<1>6. ~AllowsConvolution(Without(policy))
  BY DEF AllowsConvolution, Without
<1>7. ASSUME NEW k \in 1..n, ~AllowsConvolution(policy) PROVE ~answers[k].convolves
  <2>1. asks[k] \in AskType(policy)
    BY <1>2, <1>3
  <2>2. asks[k].policy \in {policy, Without(policy)}
    BY <2>1 DEF AskType, Asking
  <2> QED
    BY <1>5, <1>6, <1>7, <2>2
<1>8. PICK inner : inner = IF IsConvolution(s) THEN SubSeq(answers, 2, 3) ELSE << >>
  OBVIOUS
<1>9. ASSUME NEW k \in DOMAIN inner PROVE ~inner[k].convolves
  <2>1. IsConvolution(s)
    BY <1>8, <1>9
  <2>2. n \in {3, 4} /\ inner = SubSeq(answers, 2, 3)
    BY <1>2, <1>3, <1>8, <2>1
  <2>3. \A i \in 2..3 : answers[i] \in S
    BY <1>1, <2>2
  <2>4. inner \in Seq(S) /\ Len(inner) = 2 /\ \A i \in 1..2 : inner[i] = answers[i + 1]
    <3>1. /\ inner \in Seq(S) /\ Len(inner) = IF 2 <= 3 THEN 3 - 2 + 1 ELSE 0
          /\ \A i \in 1..(3 - 2 + 1) : inner[i] = answers[2 + i - 1]
      BY <2>2, <2>3, SubSeqProperties
    <3> QED
      BY <3>1
  <2>5. k \in 1..2
    BY <1>9, <2>4
  <2>6. k + 1 \in 1..n /\ k + 1 \in 1..3
    BY <2>2, <2>5
  <2>7. ~answers[k + 1].convolves
    BY <1>2, <1>5, <1>6, <2>1, <2>6
  <2> QED
    BY <2>4, <2>5, <2>7
<1>10. PICK plan : plan = Plan(s, p, answers)
  OBVIOUS
<1>11. /\ plan.convolves <=> IsConvolution(s) \/ \E i \in 1..n : answers[i].convolves
       /\ plan.nested <=> \/ \E i \in DOMAIN inner : inner[i].convolves
                          \/ \E i \in 1..n : answers[i].nested
  BY <1>3, <1>8, <1>10 DEF Plan
<1>12. ~plan.nested
  BY <1>5, <1>9, <1>11
<1>13. ~AllowsConvolution(policy) => ~plan.convolves
  BY <1>2, <1>7, <1>11
<1> QED
  BY <1>10, <1>12, <1>13 DEF Clean

FrameIsClean(f) ==
  /\ Clean(f.best, f.policy) /\ Clean(f.candidate, f.policy)
  /\ \A k \in 1..Len(f.answers) : Clean(f.answers[k], AsksOf(f)[k].policy)

NothingNests ==
  /\ Clean(result, Requested)
  /\ \A i \in 1..Len(stack) : FrameIsClean(stack[i])

CleanInv == Shape /\ NothingNests

LEMMA MadePlanIsClean ==
  ASSUME CleanInv, stack # << >>, InStrategy(Top), Len(Top.answers) = Len(AsksOf(Top)),
         ~GivesUp(Strategy, Top.answers)
  PROVE  Clean(MadePlan, Top.policy)
<1>1. request \in Requests /\ StackShape
  BY DEF CleanInv, Shape
<1>2. PICK S, n, top : /\ top = Top /\ top \in FrameType(S, Requested)
                       /\ n = Len(stack) /\ n \in 1..n /\ top = stack[n]
  BY <1>1, TopFacts
<1>3. FrameIsClean(top)
  BY <1>2 DEF CleanInv, NothingNests
<1>4. PICK s, p, policy, answers :
        /\ s = Strategies[top.strategy] /\ p = top.p /\ policy = top.policy
        /\ answers = top.answers
  OBVIOUS
<1>5. s \in StrategyType /\ p \in Problems /\ answers \in Seq(S) /\ IsApplicable(s, p, policy)
  BY <1>2, <1>4, StrategiesTyped DEF FrameType, InStrategy
<1>6. AsksOf(top) = Asks(s, p, policy)
  BY <1>4 DEF AsksOf
<1>7. /\ Len(answers) = Len(Asks(s, p, policy)) /\ ~GivesUp(s, answers)
      /\ \A k \in 1..Len(answers) : Clean(answers[k], Asks(s, p, policy)[k].policy)
  BY <1>2, <1>3, <1>4, <1>6 DEF FrameIsClean, Strategy
<1>8. Clean(Plan(s, p, answers), policy)
  BY ONLY <1>5, <1>7, PlanIsClean
<1> QED
  BY <1>2, <1>4, <1>8 DEF MadePlan, Strategy

LEMMA CutIsClean ==
  ASSUME CleanInv, request' = request, result' = result, NEW m, NEW g, CutTo(m, g),
         FrameIsClean(g)
  PROVE  NothingNests'
<1>1. PICK st, n : st = stack' /\ n = Len(stack)
  OBVIOUS
<1>2. /\ m \in 1..n /\ Len(st) = m /\ st[m] = g /\ \A i \in 1..(m - 1) : st[i] = stack[i]
  BY <1>1 DEF CutTo
<1>3. n \in Nat
  <2>1. PICK S : stack \in Seq(FrameType(S, Requested))
    BY DEF CleanInv, Shape, StackShape
  <2> QED
    BY <1>1, <2>1
<1>4. \A i \in 1..m : i = m \/ (i \in 1..(m - 1) /\ i \in 1..n)
  BY <1>2, <1>3
<1>5. \A i \in 1..m : FrameIsClean(st[i])
  BY <1>1, <1>2, <1>4 DEF CleanInv, NothingNests
<1> QED
  BY <1>1, <1>2, <1>5, SameWell DEF CleanInv, NothingNests

LEMMA ReturnIsClean ==
  ASSUME CleanInv, request' = request, stack # << >>, NEW plan, Return(plan),
         Clean(plan, Top.policy)
  PROVE  NothingNests'
<1>1. request \in Requests /\ StackShape
  BY DEF CleanInv, Shape
<1>2. PICK S, n, ask :
        /\ stack \in Seq(FrameType(S, Requested))
        /\ n = Len(stack) /\ n \in Nat \ {0} /\ n \in 1..n
        /\ ask = Asked(n) /\ Answers(Top, ask)
  BY <1>1, TopFacts
<1>3. Clean(plan, ask.policy)
  <2>1. ~AllowsConvolution(Without(ask.policy))
    BY DEF AllowsConvolution, Without
  <2> QED
    BY <1>2, <2>1 DEF Answers, Clean
<1>4. CASE n = 1
  <2>1. stack' = << >> /\ result' = plan
    BY <1>1, <1>2, <1>4, ReturnMeans
  <2>2. ask.policy = Requested
    BY <1>2, <1>4 DEF Asked
  <2>3. Len(<< >>) = 0 /\ \A i \in 1..0 : FALSE
    OBVIOUS
  <2> QED
    BY <1>3, <2>1, <2>2, <2>3, SameWell DEF NothingNests
<1>5. CASE n # 1
  <2>1. PICK m, f, g : /\ m = n - 1 /\ f = stack[m] /\ CutTo(m, g) /\ Answered(f, g, plan)
                       /\ result' = result
    BY <1>1, <1>2, <1>5, ReturnMeans
  <2>2. m \in 1..n /\ n # 1 /\ n - 1 = m
    BY <1>2, <1>5, <2>1
  <2>3. FrameIsClean(f) /\ f \in FrameType(S, Requested)
    BY <1>2, <2>1, <2>2 DEF CleanInv, NothingNests
  <2>4. ask = AsksOf(f)[Len(f.answers) + 1]
    BY <1>2, <1>5, <2>1 DEF Asked
  <2>5. PICK before, after, k : before = f.answers /\ after = g.answers /\ k = Len(before)
    OBVIOUS
  <2>6. /\ k \in Nat /\ Len(after) = k + 1 /\ after[k + 1] = plan
        /\ \A i \in 1..k : after[i] = before[i]
    <3>1. before \in Seq(S \cup {plan}) /\ plan \in S \cup {plan}
      BY <2>3, <2>5 DEF FrameType
    <3>2. after = Append(before, plan)
      BY <2>1, <2>5 DEF Answered
    <3> QED
      BY ONLY <2>5, <3>1, <3>2
  <2>7. AsksOf(g) = AsksOf(f)
    BY <2>1 DEF Answered, AsksOf
  <2>8. \A i \in 1..(k + 1) : i \in 1..k \/ i = k + 1
    BY <2>6
  <2>9. \A i \in 1..(k + 1) : Clean(after[i], AsksOf(g)[i].policy)
    BY <1>3, <2>3, <2>4, <2>5, <2>6, <2>7, <2>8 DEF FrameIsClean
  <2>10. FrameIsClean(g)
    BY <2>1, <2>3, <2>5, <2>6, <2>9 DEF FrameIsClean, Answered
  <2> QED
    BY <2>1, <2>10, CutIsClean
<1> QED
  BY <1>4, <1>5

(* A frame between strategies: nothing answered yet.                       *)
LEMMA CleanBetween ==
  ASSUME NEW g, g.answers = << >>, Clean(g.best, g.policy), Clean(g.candidate, g.policy)
  PROVE  FrameIsClean(g)
<1>1. \A k \in 1..Len(g.answers) : FALSE
  OBVIOUS
<1> QED
  BY <1>1 DEF FrameIsClean

LEMMA CleanStep == CleanInv /\ Step => NothingNests'
<1> SUFFICES ASSUME CleanInv, Step PROVE NothingNests'
  OBVIOUS
<1>1. /\ stack # << >> /\ Shape /\ request \in Requests /\ StackShape /\ request' = request
  BY StackStep
     DEF CleanInv, Shape, Step, Lookup, TryStrategy, AskSubPlan, FinishCandidate,
         FinishRebuild, MeasureTimesOut, Measure, Finish
<1>2. PICK S, n, top :
        /\ stack \in Seq(FrameType(S, Requested))
        /\ n = Len(stack) /\ n \in Nat \ {0} /\ n \in 1..n
        /\ top = Top /\ top = stack[n] /\ FrameIsWell(top)
  BY <1>1, TopFacts
<1>3. FrameIsClean(top)
  BY <1>2 DEF CleanInv, NothingNests
<1>4. \A policy : Clean(NoPlan, policy)
  BY DEF Clean
<1>5. ASSUME NEW g, CutTo(n, g), g.answers = << >>, result' = result,
             Clean(g.best, g.policy), Clean(g.candidate, g.policy)
      PROVE  NothingNests'
  BY <1>1, <1>5, CleanBetween, CutIsClean
<1>6. CASE Lookup
  <2>1. PICK g : CutTo(n, g) /\ g.answers = << >> /\ g.best = NoPlan /\ g.candidate = NoPlan
    BY <1>1, <1>2, <1>6, LookupMeans
  <2> QED
    BY <1>4, <1>5, <1>6, <2>1 DEF Lookup
<1>7. CASE TryStrategy
  <2>1. PICK g : /\ CutTo(n, g) /\ g.answers = << >> /\ g.policy = top.policy
                 /\ g.best = top.best /\ g.candidate = NoPlan
    BY <1>1, <1>2, <1>7, TryStrategyMeans
  <2> QED
    BY <1>3, <1>4, <1>5, <1>7, <2>1 DEF TryStrategy, FrameIsClean
<1>8. CASE AskSubPlan
  <2>1. PICK ask, st, g : Pushes(ask) /\ st = stack' /\ g = NewFrame(ask.p, ask.policy)
    BY <1>1, <1>8, AskMeans
  <2>2. Len(st) = n + 1 /\ st[n + 1] = g /\ \A i \in 1..n : st[i] = stack[i]
    BY <1>2, <2>1 DEF Pushes
  <2>3. g.answers = << >> /\ g.best = NoPlan /\ g.candidate = NoPlan
    BY <2>1 DEF NewFrame
  <2>4. FrameIsClean(g)
    BY <1>4, <2>3, CleanBetween
  <2>5. \A i \in 1..(n + 1) : i \in 1..n \/ i = n + 1
    BY <1>2
  <2>6. \A i \in 1..(n + 1) : FrameIsClean(st[i])
    BY <1>2, <2>2, <2>4, <2>5 DEF CleanInv, NothingNests
  <2>7. result' = result
    BY <1>8 DEF AskSubPlan
  <2> QED
    BY <1>1, <2>1, <2>2, <2>6, <2>7, SameWell DEF CleanInv, NothingNests
<1>9. CASE FinishCandidate
  <2>1. PICK plan : plan = MadePlan
    OBVIOUS
  <2>2. PICK g :
          /\ CutTo(n, g) /\ g.policy = top.policy /\ g.answers = << >>
          /\ \/ /\ g.candidate = NoPlan /\ g.best = top.best
             \/ /\ InStrategy(top) /\ Len(top.answers) = Len(AsksOf(top))
                /\ ~GivesUp(Strategy, top.answers)
                /\ \/ g.candidate = NoPlan /\ g.best = plan
                   \/ g.candidate = plan /\ g.best = top.best
    BY <1>1, <1>2, <1>9, <2>1, CandidateMeans
  <2>3. (/\ InStrategy(top) /\ Len(top.answers) = Len(AsksOf(top))
         /\ ~GivesUp(Strategy, top.answers)) => Clean(plan, top.policy)
    BY <1>1, <1>2, <2>1, MadePlanIsClean
  <2>4. Clean(g.best, g.policy) /\ Clean(g.candidate, g.policy)
    BY <1>3, <1>4, <2>2, <2>3 DEF FrameIsClean
  <2> QED
    BY <1>5, <1>9, <2>2, <2>4 DEF FinishCandidate
<1>10. CASE FinishRebuild
  <2>1. CASE MakesNoPlan
    <3>1. stack' = stack /\ result' = result
      BY <1>10, <2>1 DEF FinishRebuild
    <3> QED
      BY <1>1, <3>1, SameWell DEF CleanInv, NothingNests
  <2>2. CASE ~MakesNoPlan
    <3>1. PICK plan : plan = MadePlan
      OBVIOUS
    <3>2. Return(plan) /\ MissingAsks = << >> /\ Top.pc = "rebuild"
      BY <1>10, <2>2, <3>1 DEF FinishRebuild
    <3>3. /\ InStrategy(Top) /\ Len(Top.answers) = Len(AsksOf(Top))
          /\ ~GivesUp(Strategy, Top.answers)
      BY <1>1, <2>2, <3>2, Making
    <3>4. Clean(plan, Top.policy)
      BY <1>1, <3>1, <3>3, MadePlanIsClean
    <3> QED
      BY <1>1, <3>2, <3>4, ReturnIsClean
  <2> QED
    BY <2>1, <2>2
<1>11. CASE MeasureTimesOut \/ \E prefers \in BOOLEAN : Measure(prefers)
  <2>1. PICK g : /\ CutTo(n, g) /\ g.policy = top.policy /\ g.answers = << >>
                 /\ g.candidate = NoPlan /\ g.best \in {top.candidate, top.best}
    BY <1>1, <1>2, <1>11, MeasureMeans
  <2>2. result' = result
    BY <1>11 DEF MeasureTimesOut, Measure
  <2> QED
    BY <1>3, <1>4, <1>5, <2>1, <2>2 DEF FrameIsClean
<1>12. CASE Finish
  <2>1. PICK plan : plan = top.best
    OBVIOUS
  <2>2. Return(plan) /\ Clean(plan, Top.policy)
    BY <1>1, <1>2, <1>3, <1>12, <2>1, FinishMeans DEF FrameIsClean
  <2> QED
    BY <1>1, <2>2, ReturnIsClean
<1> QED
  BY <1>6, <1>7, <1>8, <1>9, <1>10, <1>11, <1>12 DEF Step

(* No plan is ever made, kept or returned that runs a convolution inside   *)
(* the transforms of another (the buffers of rader and bluestein are one   *)
(* for a thread).                                                          *)
THEOREM ConvolutionsDoNotNest == Spec => []NoNestedConvolution
<1>1. Init => CleanInv
  <2> SUFFICES ASSUME Init PROVE CleanInv
    OBVIOUS
  <2>1. Shape
    BY InitShape
  <2>2. PICK f, st : f = NewFrame(request.prob, Requested) /\ st = <<f>>
    OBVIOUS
  <2>3. stack = st /\ result = NoPlan
    BY <2>2 DEF Init, Requested
  <2>4. Len(st) = 1 /\ st[1] = f /\ \A i \in 1..1 : i = 1
    BY <2>2
  <2>5. f.answers = << >> /\ f.best = NoPlan /\ f.candidate = NoPlan
    BY <2>2 DEF NewFrame
  <2>6. \A policy : Clean(NoPlan, policy)
    BY DEF Clean
  <2>7. FrameIsClean(f)
    BY <2>5, <2>6, CleanBetween
  <2> QED
    BY <2>1, <2>3, <2>4, <2>6, <2>7 DEF CleanInv, NothingNests
<1>2. CleanInv /\ [Next]_vars => CleanInv'
  <2> SUFFICES ASSUME CleanInv, [Next]_vars PROVE CleanInv'
    OBVIOUS
  <2>1. Shape'
    BY ShapeStep DEF CleanInv
  <2>2. CASE Step
    BY <2>1, <2>2, CleanStep DEF CleanInv
  <2>3. CASE Expire \/ Terminated \/ UNCHANGED vars
    <3>1. UNCHANGED <<request, stack, result>>
      BY <2>3 DEF Expire, Terminated, vars
    <3> QED
      BY <2>1, <3>1, SameWell DEF CleanInv, NothingNests
  <2> QED
    BY <2>2, <2>3 DEF Next
<1>3. CleanInv => NoNestedConvolution
  <2> SUFFICES ASSUME CleanInv PROVE NoNestedConvolution
    OBVIOUS
  <2>1. PICK S : stack \in Seq(FrameType(S, Requested))
    BY DEF CleanInv, Shape, StackShape
  <2>2. ASSUME NEW i \in DOMAIN stack, NEW plan \in PlansOf(stack[i]), plan # NoPlan
        PROVE  ~plan.nested
    <3>1. i \in 1..Len(stack) /\ stack[i] \in FrameType(S, Requested)
      BY <2>1
    <3>2. PICK f : f = stack[i]
      OBVIOUS
    <3>3. FrameIsClean(f) /\ f.answers \in Seq(S)
      BY <3>1, <3>2 DEF CleanInv, NothingNests, FrameType
    <3>4. DOMAIN f.answers = 1..Len(f.answers)
      BY <3>3
    <3>5. \E policy : Clean(plan, policy)
      BY <2>2, <3>2, <3>3, <3>4 DEF PlansOf, FrameIsClean
    <3> QED
      BY <2>2, <3>5 DEF Clean
  <2>3. result # NoPlan => ~result.nested
    BY DEF CleanInv, NothingNests, Clean
  <2> QED
    BY <2>2, <2>3 DEF NoNestedConvolution
<1> QED
  BY <1>1, <1>2, <1>3, PTL DEF Spec

-----------------------------------------------------------------------------
(* What the wisdom recalls, and why it always can.                         *)

KeyType == [p : Problems, policy : {Requested, Without(Requested)}]

(* What is being searched for.                                             *)
Searching(f) == f.pc \in {"search", "make", "measure", "exit"}
Flight == {Key(stack[i]) : i \in {j \in 1..Len(stack) : Searching(stack[j])}}

(* The ask is recalled as this plan, now and as long as the call lasts: no *)
(* search for it is under way that could replace what the wisdom has.      *)
Held(ask, plan) ==
  LET hit == WisdomLookup(ask.p, ask.policy)
  IN  /\ plan # NoPlan /\ hit # NoEntry
      /\ <<ask.p, hit.policy>> \in DOMAIN found
      /\ found[<<ask.p, hit.policy>>] = plan
      /\ ask \notin Flight

(* The plan is the strategy with sub-plans that are recalled.              *)
Built(plan, strategy, p, policy) ==
  /\ strategy \in 1..Len(Strategies) /\ ~IsNull(Strategies[strategy])
  /\ IsApplicable(Strategies[strategy], p, policy)
  /\ \E subs :
       /\ \E S : subs \in Seq(S)
       /\ Len(subs) = Len(Asks(Strategies[strategy], p, policy))
       /\ plan = Plan(Strategies[strategy], p, subs)
       /\ \A k \in 1..Len(subs) : Held(Asks(Strategies[strategy], p, policy)[k], subs[k])

EntryIsBuilt(p, e) ==
  /\ <<p, e.policy>> \in DOMAIN found /\ found[<<p, e.policy>>] # NoPlan
  /\ Built(found[<<p, e.policy>>], e.strategy, p, e.policy)

FoundIsBuilt ==
  \A p \in DOMAIN wisdom : \A i \in 1..Len(wisdom[p]) : EntryIsBuilt(p, wisdom[p][i])

NoEntryOf(p, policy) ==
  \A i \in 1..Len(WisdomEntries(p)) : WisdomEntries(p)[i].policy # policy

(* A frame that was asked for ask.                                         *)
FrameIsHeld(f, ask) ==
  /\ f.best # NoPlan => Built(f.best, f.bestStrategy, f.p, f.policy)
  /\ f.candidate # NoPlan => Built(f.candidate, f.strategy, f.p, f.policy)
  /\ \A k \in 1..Len(f.answers) :
       f.answers[k] = NoPlan \/ Held(AsksOf(f)[k], f.answers[k])
  /\ Searching(f) => NoEntryOf(f.p, f.policy)
  /\ f.pc = "rebuild" =>
       /\ \E plan : Held(ask, plan)
       /\ WisdomLookup(ask.p, ask.policy) = [strategy |-> f.strategy, policy |-> f.policy]
       /\ \A k \in 1..Len(f.answers) : f.answers[k] # NoPlan

StackIsHeld == \A i \in 1..Len(stack) : FrameIsHeld(stack[i], Asked(i))

RecallInv == Shape /\ FoundIsBuilt /\ StackIsHeld /\ status # "abort"

(* What a finished call returns is what the wisdom has for it.             *)
Call == [p |-> request.prob, policy |-> Requested]
ResultIsHeld == status = "done" => result = NoPlan \/ Held(Call, result)

(* A step that takes nothing back.                                         *)
Persists ==
  \A ask \in KeyType : \A plan :
    Held(ask, plan) =>
      /\ Held(ask, plan)'
      /\ WisdomLookup(ask.p, ask.policy)' = WisdomLookup(ask.p, ask.policy)

LEMMA QuietPersists ==
  ASSUME UNCHANGED <<wisdom, found>>,
         \A ask \in Flight' : ask \in Flight \/ WisdomLookup(ask.p, ask.policy) = NoEntry
  PROVE  Persists
<1>1. \A p, policy : WisdomLookup(p, policy)' = WisdomLookup(p, policy)
  BY DEF WisdomLookup, WisdomEntries
<1> QED
  BY <1>1 DEF Persists, Held

LEMMA AskOfFrame ==
  ASSUME request \in Requests, NEW strategy \in 1..Len(Strategies), NEW p \in Problems,
         NEW policy \in {Requested, Without(Requested)},
         IsApplicable(Strategies[strategy], p, policy)
  PROVE  LET asks == Asks(Strategies[strategy], p, policy)
         IN  /\ Len(asks) \in Nat
             /\ \A k \in 1..Len(asks) : asks[k] \in KeyType
<1>1. PICK asks : asks = Asks(Strategies[strategy], p, policy)
  OBVIOUS
<1>2. AsksAreSound(Strategies[strategy], p, policy)
  BY StrategiesTyped, AsksDescend
<1>3. asks \in Seq(AskType(policy))
  BY <1>1, <1>2 DEF AsksAreSound
<1>4. Len(asks) \in Nat /\ \A k \in 1..Len(asks) : asks[k] \in AskType(policy)
  BY ONLY <1>3
<1>5. Without(policy) \in {Requested, Without(Requested)}
  BY RequestedFacts
<1>6. AskType(policy) \subseteq KeyType
  BY <1>5 DEF AskType, Asking, KeyType
<1> QED
  BY <1>1, <1>4, <1>6

LEMMA BuiltPersists ==
  ASSUME request \in Requests, request' = request, Persists,
         NEW plan, NEW strategy, NEW p \in Problems,
         NEW policy \in {Requested, Without(Requested)}, Built(plan, strategy, p, policy)
  PROVE  Built(plan, strategy, p, policy)'
<1>1. /\ strategy \in 1..Len(Strategies) /\ ~IsNull(Strategies[strategy])
      /\ IsApplicable(Strategies[strategy], p, policy)
  BY DEF Built
<1>2. PICK s, asks : s = Strategies[strategy] /\ asks = Asks(s, p, policy)
  OBVIOUS
<1>3. PICK subs : /\ \E S : subs \in Seq(S)
                  /\ Len(subs) = Len(asks) /\ plan = Plan(s, p, subs)
                  /\ \A k \in 1..Len(subs) : Held(asks[k], subs[k])
  BY <1>2 DEF Built
<1>4. \A k \in 1..Len(asks) : asks[k] \in KeyType
  BY <1>1, <1>2, AskOfFrame
<1>5. \A k \in 1..Len(subs) : Held(asks[k], subs[k])'
  BY <1>3, <1>4 DEF Persists
<1>6. IsNull(s)' = IsNull(s)
  BY DEF IsNull
<1> QED
  BY <1>1, <1>2, <1>3, <1>5, <1>6 DEF Built

LEMMA FramePersists ==
  ASSUME request \in Requests, request' = request, Persists,
         NEW S, NEW f \in FrameType(S, Requested), FrameIsWell(f),
         NEW ask \in KeyType, FrameIsHeld(f, ask),
         Searching(f) /\ NoEntryOf(f.p, f.policy) => NoEntryOf(f.p, f.policy)'
  PROVE  FrameIsHeld(f, ask)'
<1>1. f.p \in Problems /\ f.policy \in {Requested, Without(Requested)}
  BY DEF FrameType
<1>2. f.best # NoPlan => Built(f.best, f.bestStrategy, f.p, f.policy)'
  <2>1. PICK plan, strategy, p, policy :
          plan = f.best /\ strategy = f.bestStrategy /\ p = f.p /\ policy = f.policy
    OBVIOUS
  <2>2. plan # NoPlan => Built(plan, strategy, p, policy)'
    BY <1>1, <2>1, BuiltPersists DEF FrameIsHeld
  <2> QED
    BY <2>1, <2>2
<1>3. f.candidate # NoPlan => Built(f.candidate, f.strategy, f.p, f.policy)'
  <2>1. PICK plan, strategy, p, policy :
          plan = f.candidate /\ strategy = f.strategy /\ p = f.p /\ policy = f.policy
    OBVIOUS
  <2>2. plan # NoPlan => Built(plan, strategy, p, policy)'
    BY <1>1, <2>1, BuiltPersists DEF FrameIsHeld
  <2> QED
    BY <2>1, <2>2
<1>4. ASSUME NEW k \in 1..Len(f.answers)
      PROVE  f.answers[k] = NoPlan \/ Held(AsksOf(f)[k], f.answers[k])'
  <2>1. f.answers \in Seq(S)
    BY DEF FrameType
  <2>2. f.answers # << >> /\ Len(f.answers) \in Nat
    BY <2>1
  <2>3. InStrategy(f)
    BY <2>2 DEF FrameIsWell
  <2>4. PICK asks, n : asks = AsksOf(f) /\ n = Len(asks)
    OBVIOUS
  <2>5. n \in Nat /\ \A j \in 1..n : asks[j] \in KeyType
    BY <1>1, <2>3, <2>4, AskOfFrame DEF InStrategy, AsksOf
  <2>6. k \in 1..n
    BY <2>2, <2>3, <2>4, <2>5 DEF InStrategy
  <2>7. PICK a, plan : a = asks[k] /\ plan = f.answers[k]
    OBVIOUS
  <2>8. plan = NoPlan \/ Held(a, plan)
    BY <2>4, <2>7 DEF FrameIsHeld
  <2>9. plan = NoPlan \/ Held(a, plan)'
    BY <2>5, <2>6, <2>7, <2>8 DEF Persists
  <2> QED
    BY <2>4, <2>7, <2>9
<1>5. f.pc = "rebuild" =>
        /\ \E plan : Held(ask, plan)'
        /\ WisdomLookup(ask.p, ask.policy)' = [strategy |-> f.strategy, policy |-> f.policy]
        /\ \A k \in 1..Len(f.answers) : f.answers[k] # NoPlan
  BY DEF FrameIsHeld, Persists
<1>6. Searching(f) => NoEntryOf(f.p, f.policy)'
  BY DEF FrameIsHeld
<1> QED
  BY <1>2, <1>3, <1>4, <1>5, <1>6 DEF FrameIsHeld

(* A problem is not among those being searched below the frame asked for   *)
(* it, nor in flight once that frame is gone or recalls.                   *)
LEMMA SmallerIsOther ==
  ASSUME NEW T, NEW a \in [p : Problems, policy : T], NEW b \in [p : Problems, policy : T],
         Smaller(a, b)
  PROVE  a # b
BY DEF Smaller, Problems

LEMMA AskedIsOther ==
  ASSUME Shape, NEW i \in 1..Len(stack), NEW j \in 1..Len(stack), i < j
  PROVE  Asked(j) # Key(stack[i])
<1>1. request \in Requests /\ StackShape
  BY DEF Shape
<1>2. PICK S, n : stack \in Seq(FrameType(S, Requested)) /\ n = Len(stack) /\ n \in Nat
  BY <1>1 DEF StackShape
<1>3. PICK T : T = {Requested, Without(Requested)}
  OBVIOUS
<1>4. Asked(j) \in [p : Problems, policy : T]
  BY <1>1, <1>3, AskedTyped
<1>5. Key(stack[i]) \in [p : Problems, policy : T]
  <2>1. stack[i] \in FrameType(S, Requested)
    BY <1>2
  <2> QED
    BY <1>3, <2>1 DEF FrameType, Key
<1>6. Smaller(Asked(j), Key(stack[i]))
  BY <1>1 DEF StackShape
<1> QED
  BY <1>4, <1>5, <1>6, SmallerIsOther

LEMMA CutFlight ==
  ASSUME Shape, NEW m, NEW g, CutTo(m, g)
  PROVE  \A key \in Flight' : key \in Flight \/ (key = Key(g) /\ Searching(g))
<1>1. PICK st, n : st = stack' /\ n = Len(stack)
  OBVIOUS
<1>2. /\ m \in 1..n /\ Len(st) = m /\ st[m] = g /\ \A i \in 1..(m - 1) : st[i] = stack[i]
  BY <1>1 DEF CutTo
<1>3. n \in Nat
  <2>1. PICK S : stack \in Seq(FrameType(S, Requested))
    BY DEF Shape, StackShape
  <2> QED
    BY <1>1, <2>1
<1>4. \A i \in 1..m : i = m \/ (i \in 1..(m - 1) /\ i \in 1..n)
  BY <1>2, <1>3
<1>5. SUFFICES ASSUME NEW key \in Flight' PROVE key \in Flight \/ (key = Key(g) /\ Searching(g))
  OBVIOUS
<1>6. PICK i \in 1..m : Searching(st[i]) /\ key = Key(st[i])
  BY <1>1, <1>2, <1>5 DEF Flight
<1>7. CASE i = m
  BY <1>2, <1>6, <1>7
<1>8. CASE i # m
  <2>1. i \in 1..n /\ Searching(stack[i]) /\ key = Key(stack[i])
    BY <1>2, <1>4, <1>6, <1>8
  <2> QED
    BY <1>1, <2>1 DEF Flight
<1> QED
  BY <1>7, <1>8

LEMMA PushFlight ==
  ASSUME Shape, stack # << >>, NEW ask, Pushes(ask)
  PROVE  Flight' \subseteq Flight
<1>1. PICK st, n : st = stack' /\ n = Len(stack) /\ n \in Nat
  BY TopFacts DEF Shape
<1>2. /\ Len(st) = n + 1 /\ st[n + 1] = NewFrame(ask.p, ask.policy)
      /\ \A i \in 1..n : st[i] = stack[i]
  BY <1>1 DEF Pushes
<1>3. ~Searching(st[n + 1])
  BY <1>2 DEF Searching, NewFrame
<1>4. \A i \in 1..(n + 1) : i \in 1..n \/ i = n + 1
  BY <1>1
<1> QED
  BY <1>1, <1>2, <1>3, <1>4 DEF Flight

(* What is being searched for stays unknown to the wisdom.                 *)
LowerStay ==
  \A i \in 1..(Len(stack) - 1) : \A f :
    f = stack[i] /\ Searching(f) /\ NoEntryOf(f.p, f.policy) => NoEntryOf(f.p, f.policy)'

(* The frames below the one that changed.                                  *)
LEMMA CutIsHeld ==
  ASSUME RecallInv, request' = request, Persists, NEW m, NEW g, CutTo(m, g),
         LowerStay,
         \A ask : ask = Asked(m) => FrameIsHeld(g, ask)'
  PROVE  StackIsHeld'
<1>1. request \in Requests /\ StackShape
  BY DEF RecallInv, Shape
<1>2. PICK S, st, n : /\ stack \in Seq(FrameType(S, Requested)) /\ st = stack' /\ n = Len(stack)
                      /\ n \in Nat
  <2>1. PICK S : stack \in Seq(FrameType(S, Requested))
    BY <1>1 DEF StackShape
  <2>2. PICK st, n : st = stack' /\ n = Len(stack)
    OBVIOUS
  <2>3. n \in Nat
    BY <2>1, <2>2
  <2> QED
    BY <2>1, <2>2, <2>3
<1>3. /\ m \in 1..n /\ Len(st) = m /\ st[m] = g /\ \A i \in 1..(m - 1) : st[i] = stack[i]
  BY <1>2 DEF CutTo
<1>4. \A i \in 1..m : i = m \/ (i \in 1..(m - 1) /\ i \in 1..n)
  BY <1>2, <1>3
<1>5. \A i \in 1..m : Asked(i)' = Asked(i)
  BY <1>2, <1>3, AskedBelow
<1>6. ASSUME NEW i \in 1..(m - 1) PROVE FrameIsHeld(st[i], Asked(i))'
  <2>1. i \in 1..n
    BY <1>2, <1>3
  <2>2. PICK f, ask : f = stack[i] /\ ask = Asked(i)
    OBVIOUS
  <2>3. f \in FrameType(S, Requested) /\ FrameIsWell(f) /\ ask \in KeyType
    BY <1>1, <1>2, <2>1, <2>2, AskedTyped DEF StackShape, KeyType
  <2>4. FrameIsHeld(f, ask)
    BY <1>2, <2>1, <2>2 DEF RecallInv, StackIsHeld
  <2>5. Searching(f) /\ NoEntryOf(f.p, f.policy) => NoEntryOf(f.p, f.policy)'
    <3>1. i \in 1..(n - 1)
      BY <1>2, <1>3, <1>6
    <3> QED
      BY <1>2, <2>2, <3>1 DEF LowerStay
  <2>6. FrameIsHeld(f, ask)'
    BY <1>1, <2>3, <2>4, <2>5, FramePersists
  <2> QED
    BY <1>3, <1>4, <1>5, <1>6, <2>2, <2>6
<1>7. \A i \in 1..m : FrameIsHeld(st[i], Asked(i))'
  BY <1>3, <1>4, <1>5, <1>6
<1> QED
  BY <1>2, <1>3, <1>7 DEF StackIsHeld

LEMMA ReturnIsHeld ==
  ASSUME RecallInv, request' = request, stack # << >>, Persists, LowerStay,
         NEW plan, Return(plan),
         \A ask : ask = Asked(Len(stack)) => plan = NoPlan \/ Held(ask, plan)',
         Len(stack) > 1 /\ stack[Len(stack) - 1].pc = "rebuild" => plan # NoPlan
  PROVE  StackIsHeld'
<1>1. request \in Requests /\ StackShape /\ Shape
  BY DEF RecallInv, Shape
<1>2. PICK S, n, last :
        /\ stack \in Seq(FrameType(S, Requested))
        /\ n = Len(stack) /\ n \in Nat \ {0} /\ n \in 1..n /\ last = Asked(n)
  BY <1>1, TopFacts
<1>3. plan = NoPlan \/ Held(last, plan)'
  BY <1>2
<1>4. CASE n = 1
  <2>1. stack' = << >>
    BY <1>1, <1>2, <1>4, ReturnMeans
  <2>2. Len(<< >>) = 0 /\ \A i \in 1..0 : FALSE
    OBVIOUS
  <2> QED
    BY <2>1, <2>2 DEF StackIsHeld
<1>5. CASE n # 1
  <2>1. PICK m, f, g, ask :
          /\ m = n - 1 /\ f = stack[m] /\ CutTo(m, g) /\ Answered(f, g, plan)
          /\ Waits(f) /\ ask = Asked(m)
    BY <1>1, <1>2, <1>5, ReturnMeans
  <2>2. m \in 1..n /\ n # 1 /\ n - 1 = m /\ m \in 1..(n - 1) /\ n > 1
    BY <1>2, <1>5, <2>1
  <2>3. f \in FrameType(S, Requested) /\ FrameIsWell(f) /\ ask \in KeyType
    BY <1>1, <1>2, <2>1, <2>2, AskedTyped DEF StackShape, KeyType
  <2>4. FrameIsHeld(f, ask)
    BY <1>2, <2>1, <2>2 DEF RecallInv, StackIsHeld
  <2>5. Searching(f) /\ NoEntryOf(f.p, f.policy) => NoEntryOf(f.p, f.policy)'
    BY <1>2, <2>1, <2>2 DEF LowerStay
  <2>6. FrameIsHeld(f, ask)'
    BY <1>1, <2>3, <2>4, <2>5, FramePersists
  <2>7. PICK before, after, k, asks :
          before = f.answers /\ after = g.answers /\ k = Len(before) /\ asks = AsksOf(f)
    OBVIOUS
  <2>8. last = asks[k + 1]
    BY <1>2, <1>5, <2>1, <2>7 DEF Asked
  <2>9. /\ k \in Nat /\ Len(after) = k + 1 /\ after[k + 1] = plan
        /\ \A i \in 1..k : after[i] = before[i]
    <3>1. before \in Seq(S \cup {plan}) /\ plan \in S \cup {plan}
      BY <2>3, <2>7 DEF FrameType
    <3>2. after = Append(before, plan)
      BY <2>1, <2>7 DEF Answered
    <3> QED
      BY ONLY <2>7, <3>1, <3>2
  <2>10. AsksOf(g) = asks
    BY <2>1, <2>7 DEF Answered, AsksOf
  <2>11. \A i \in 1..(k + 1) : i \in 1..k \/ i = k + 1
    BY <2>9
  <2>12. \A i \in 1..k : before[i] = NoPlan \/ Held(asks[i], before[i])'
    BY <2>6, <2>7 DEF FrameIsHeld
  <2>13. \A i \in 1..(k + 1) : after[i] = NoPlan \/ Held(asks[i], after[i])'
    BY <1>3, <2>8, <2>9, <2>11, <2>12
  <2>14. f.pc = "rebuild" => \A i \in 1..(k + 1) : after[i] # NoPlan
    <3>1. f.pc = "rebuild" => plan # NoPlan /\ \A i \in 1..k : before[i] # NoPlan
      BY <1>2, <2>1, <2>2, <2>4, <2>7 DEF FrameIsHeld
    <3> QED
      BY <2>9, <2>11, <3>1
  <2>15. /\ g.best # NoPlan => Built(g.best, g.bestStrategy, g.p, g.policy)'
         /\ g.candidate # NoPlan => Built(g.candidate, g.strategy, g.p, g.policy)'
         /\ Searching(g) => NoEntryOf(g.p, g.policy)'
         /\ g.pc = "rebuild" =>
              /\ \E held : Held(ask, held)'
              /\ WisdomLookup(ask.p, ask.policy)'
                   = [strategy |-> g.strategy, policy |-> g.policy]
    BY <2>1, <2>6 DEF FrameIsHeld, Answered, Searching
  <2>16. \A i \in 1..Len(g.answers) :
           g.answers[i] = NoPlan \/ Held(AsksOf(g)[i], g.answers[i])'
    BY <2>7, <2>9, <2>10, <2>13
  <2>17. FrameIsHeld(g, ask)'
    BY <2>1, <2>7, <2>9, <2>14, <2>15, <2>16 DEF FrameIsHeld, Answered
  <2> QED
    BY <2>1, <2>17, CutIsHeld
<1> QED
  BY <1>4, <1>5

LEMMA ReturnIsResult ==
  ASSUME request \in Requests, request' = request, StackShape, stack # << >>,
         status = "running", NEW plan, Return(plan),
         \A ask : ask = Asked(Len(stack)) => plan = NoPlan \/ Held(ask, plan)'
  PROVE  ResultIsHeld'
<1>1. PICK n, ask : n = Len(stack) /\ ask = Asked(n)
  OBVIOUS
<1>2. n # 1 => status' = status
  BY <1>1, ReturnMeans
<1>3. n = 1 => result' = plan /\ ask = Call
  BY <1>1, ReturnMeans DEF Asked, Call
<1>4. plan = NoPlan \/ Held(ask, plan)'
  BY <1>1
<1>5. Call' = Call
  BY SameWell DEF Call
<1> QED
  BY <1>2, <1>3, <1>4, <1>5 DEF ResultIsHeld

(* The wisdom unchanged.                                                   *)
LEMMA QuietFound ==
  ASSUME RecallInv, request' = request, UNCHANGED <<wisdom, found>>, Persists
  PROVE  FoundIsBuilt' /\ LowerStay
<1>1. request \in Requests /\ WisdomShape
  BY DEF RecallInv, Shape
<1>2. LowerStay
  BY DEF LowerStay, NoEntryOf, WisdomEntries
<1>3. ASSUME NEW p \in DOMAIN wisdom, NEW i \in 1..Len(wisdom[p])
      PROVE  \A e : e = wisdom[p][i] => EntryIsBuilt(p, e)'
  <2>1. SUFFICES ASSUME NEW e, e = wisdom[p][i] PROVE EntryIsBuilt(p, e)'
    OBVIOUS
  <2>2. e \in EntriesUnder(Requested) /\ p \in Problems
    <3>1. wisdom[p] \in Seq(EntriesUnder(Requested)) /\ p \in Problems
      BY <1>1 DEF WisdomShape, AreEntries
    <3> QED
      BY <2>1, <3>1
  <2>3. EntryIsBuilt(p, e)
    BY <2>1 DEF RecallInv, FoundIsBuilt
  <2>4. PICK plan, strategy, policy :
          plan = found[<<p, e.policy>>] /\ strategy = e.strategy /\ policy = e.policy
    OBVIOUS
  <2>5. Built(plan, strategy, p, policy) /\ policy \in {Requested, Without(Requested)}
    BY <2>2, <2>3, <2>4 DEF EntryIsBuilt, EntriesUnder
  <2>6. Built(plan, strategy, p, policy)'
    BY <1>1, <2>2, <2>5, BuiltPersists
  <2>7. found' = found
    OBVIOUS
  <2> QED
    BY <2>3, <2>4, <2>6, <2>7 DEF EntryIsBuilt
<1>4. FoundIsBuilt'
  BY <1>3 DEF FoundIsBuilt
<1> QED
  BY <1>2, <1>4

(* What a frame that recalls will return: the plan that was found, whose   *)
(* sub-plans are those it has been given.                                  *)
Recalls(f, winner, subs) ==
  /\ <<f.p, f.policy>> \in DOMAIN found /\ winner = found[<<f.p, f.policy>>]
  /\ f.strategy \in 1..Len(Strategies) /\ ~IsNull(Strategies[f.strategy])
  /\ IsApplicable(Strategies[f.strategy], f.p, f.policy)
  /\ \E S : subs \in Seq(S)
  /\ Len(subs) = Len(AsksOf(f)) /\ winner = Plan(Strategies[f.strategy], f.p, subs)
  /\ \A k \in 1..Len(subs) : Held(AsksOf(f)[k], subs[k])
  /\ \A k \in 1..Len(f.answers) : k \in 1..Len(subs) /\ f.answers[k] = subs[k]

LEMMA HeldIsOne ==
  ASSUME NEW ask, NEW a, NEW b, Held(ask, a), Held(ask, b)
  PROVE  a = b
BY DEF Held

LEMMA HitIsAnEntry ==
  ASSUME RecallInv, NEW ask \in KeyType, WisdomLookup(ask.p, ask.policy) # NoEntry
  PROVE  /\ ask.p \in DOMAIN wisdom
         /\ EntryIsBuilt(ask.p, WisdomLookup(ask.p, ask.policy))
         /\ WisdomLookup(ask.p, ask.policy) \in EntriesUnder(Requested)
<1>1. request \in Requests /\ WisdomShape /\ AllowsConvolution(Requested)
  BY RequestedFacts DEF RecallInv, Shape
<1>2. PICK p, policy, es, e :
        /\ p = ask.p /\ policy = ask.policy /\ es = WisdomEntries(p)
        /\ e = BestEntry(es, policy)
  OBVIOUS
<1>3. e = WisdomLookup(ask.p, ask.policy) /\ e # NoEntry
  BY <1>2 DEF WisdomLookup
<1>4. AreEntries(es, Requested)
  <2>1. AreEntries(<< >>, Requested)
    BY DEF AreEntries
  <2> QED
    BY <1>1, <1>2, <2>1 DEF WisdomEntries, WisdomShape
<1>5. policy \in {Requested, Without(Requested)}
  BY <1>2 DEF KeyType
<1>6. PICK j \in 1..Len(es) : e = es[j] /\ e \in EntriesUnder(Requested)
  <2>1. PICK P : P = Requested
    OBVIOUS
  <2>2. AllowsConvolution(P) /\ AreEntries(es, P) /\ policy \in {P, Without(P)}
    BY <1>1, <1>4, <1>5, <2>1
  <2>3. BestEntry(es, policy) # NoEntry =>
          /\ \E j \in 1..Len(es) : BestEntry(es, policy) = es[j]
          /\ BestEntry(es, policy) \in EntriesUnder(P)
    BY ONLY <2>2, EntryOfPolicy
  <2> QED
    BY <1>2, <1>3, <2>1, <2>3
<1>7. p \in DOMAIN wisdom /\ es = wisdom[p]
  <2>1. es # << >>
    BY <1>6
  <2> QED
    BY <1>2, <2>1 DEF WisdomEntries
<1>8. EntryIsBuilt(p, e)
  BY <1>6, <1>7 DEF RecallInv, FoundIsBuilt
<1> QED
  BY <1>2, <1>3, <1>6, <1>7, <1>8

LEMMA RebuildRecalls ==
  ASSUME RecallInv, NEW i \in 1..Len(stack), stack[i].pc = "rebuild"
  PROVE  \E winner, subs : Recalls(stack[i], winner, subs) /\ Held(Asked(i), winner)
<1>1. request \in Requests /\ StackShape /\ Shape
  BY DEF RecallInv, Shape
<1>2. PICK S : stack \in Seq(FrameType(S, Requested))
  BY <1>1 DEF StackShape
<1>3. PICK f, ask : f = stack[i] /\ ask = Asked(i)
  OBVIOUS
<1>4. /\ f \in FrameType(S, Requested) /\ FrameIsWell(f) /\ ask \in KeyType
      /\ f.p = ask.p /\ FrameIsHeld(f, ask) /\ f.pc = "rebuild"
  BY <1>1, <1>2, <1>3, AskedTyped
     DEF StackShape, KeyType, RecallInv, StackIsHeld, Answers
<1>5. PICK held, e : /\ Held(ask, held) /\ e = WisdomLookup(ask.p, ask.policy)
                     /\ e = [strategy |-> f.strategy, policy |-> f.policy]
  BY <1>4 DEF FrameIsHeld
<1>6. e # NoEntry /\ held = found[<<ask.p, e.policy>>]
  BY <1>5 DEF Held
<1>7. EntryIsBuilt(ask.p, e)
  BY <1>4, <1>5, <1>6, HitIsAnEntry
<1>8. PICK p, strategy, policy, winner :
        /\ p = f.p /\ strategy = f.strategy /\ policy = f.policy
        /\ winner = found[<<p, policy>>]
  OBVIOUS
<1>9. /\ <<p, policy>> \in DOMAIN found /\ winner # NoPlan /\ winner = held
      /\ Built(winner, strategy, p, policy)
  BY <1>4, <1>5, <1>6, <1>7, <1>8 DEF EntryIsBuilt
<1>10. PICK s, asks : s = Strategies[strategy] /\ asks = Asks(s, p, policy)
  OBVIOUS
<1>11. AsksOf(f) = asks
  BY <1>8, <1>10 DEF AsksOf
<1>12. /\ strategy \in 1..Len(Strategies) /\ ~IsNull(s) /\ IsApplicable(s, p, policy)
  BY <1>9, <1>10 DEF Built
<1>13. PICK subs : /\ \E T : subs \in Seq(T)
                   /\ Len(subs) = Len(asks) /\ winner = Plan(s, p, subs)
                   /\ \A k \in 1..Len(subs) : Held(asks[k], subs[k])
  BY <1>9, <1>10 DEF Built
<1>14. ASSUME NEW k \in 1..Len(f.answers)
       PROVE  k \in 1..Len(subs) /\ f.answers[k] = subs[k]
  <2>1. f.answers \in Seq(S)
    BY <1>4 DEF FrameType
  <2>2. f.answers # << >> /\ Len(f.answers) \in Nat
    BY <2>1
  <2>3. Len(f.answers) <= Len(asks) /\ Len(asks) \in Nat
    <3>1. InStrategy(f) /\ f.p \in Problems
      BY <1>4, <2>2 DEF FrameIsWell, FrameType
    <3> QED
      BY <1>11, <3>1, AsksOfSound DEF InStrategy
  <2>4. k \in 1..Len(subs)
    BY <1>13, <2>2, <2>3
  <2>5. Held(asks[k], f.answers[k])
    BY <1>4, <1>11 DEF FrameIsHeld
  <2> QED
    BY <1>13, <2>4, <2>5, HeldIsOne
<1>15. Recalls(f, winner, subs)
  BY <1>8, <1>9, <1>10, <1>11, <1>12, <1>13, <1>14 DEF Recalls
<1> QED
  BY <1>3, <1>5, <1>9, <1>15

(* A frame above one that recalls recalls too: no search for its problem   *)
(* is under way.                                                           *)
LEMMA AboveRebuild ==
  ASSUME RecallInv, NEW i \in 1..Len(stack), i > 1, stack[i - 1].pc = "rebuild",
         stack[i].pc \notin {"lookup", "rebuild"}
  PROVE  FALSE
<1>1. request \in Requests /\ StackShape
  BY DEF RecallInv, Shape
<1>2. PICK S, n : stack \in Seq(FrameType(S, Requested)) /\ n = Len(stack)
  BY <1>1 DEF StackShape
<1>3. n \in Nat /\ i - 1 \in 1..n /\ i - 1 \in 1..(n - 1)
  BY <1>2
<1>4. PICK f, g, ask : f = stack[i - 1] /\ g = stack[i] /\ ask = Asked(i)
  OBVIOUS
<1>5. PICK winner, subs : Recalls(f, winner, subs)
  BY <1>2, <1>3, <1>4, RebuildRecalls
<1>6. Waits(f) /\ Answers(g, ask) /\ f \in FrameType(S, Requested) /\ g \in FrameType(S, Requested)
  BY <1>1, <1>2, <1>3, <1>4 DEF StackShape
<1>7. ask = AsksOf(f)[Len(f.answers) + 1]
  BY <1>4 DEF Asked
<1>8. Len(f.answers) + 1 \in 1..Len(subs)
  <2>1. Len(f.answers) < Len(AsksOf(f)) /\ Len(f.answers) \in Nat /\ Len(subs) = Len(AsksOf(f))
    BY <1>5, <1>6 DEF Waits, Recalls, FrameType
  <2>2. Len(subs) \in Nat
    BY <1>5 DEF Recalls
  <2> QED
    BY <2>1, <2>2
<1>9. ask \notin Flight
  BY <1>5, <1>7, <1>8 DEF Recalls, Held
<1>10. Searching(g)
  BY <1>4, <1>6 DEF Searching, FrameType, Places
<1>11. ask = Key(g)
  <2>1. ask \in KeyType
    BY <1>1, <1>4, AskedTyped DEF KeyType
  <2> QED
    BY <1>4, <1>6, <2>1 DEF Answers, Key, KeyType
<1>12. Key(g) \in Flight
  BY <1>4, <1>10 DEF Flight
<1> QED
  BY <1>9, <1>11, <1>12

LEMMA ReturnFlight ==
  ASSUME Shape, stack # << >>, NEW plan, Return(plan)
  PROVE  /\ Flight' \subseteq Flight
         /\ \A key \in Flight' : key # Asked(Len(stack))
<1>1. request \in Requests /\ StackShape
  BY DEF Shape
<1>2. PICK n : n = Len(stack) /\ n \in Nat \ {0} /\ n \in 1..n
  BY <1>1, TopFacts
<1>3. SUFFICES ASSUME NEW key \in Flight'
               PROVE  \E i \in 1..(n - 1) : Searching(stack[i]) /\ key = Key(stack[i])
  <2>1. ASSUME NEW i \in 1..(n - 1), Searching(stack[i]), NEW key, key = Key(stack[i])
        PROVE  key \in Flight /\ key # Asked(n)
    <3>1. i \in 1..n /\ i < n
      BY <1>2
    <3> QED
      BY <1>2, <2>1, <3>1, AskedIsOther DEF Flight
  <2> QED
    BY <1>2, <2>1
<1>4. CASE n = 1
  <2>1. stack' = << >>
    BY <1>1, <1>2, <1>4, ReturnMeans
  <2>2. Len(<< >>) = 0 /\ \A i \in 1..0 : FALSE
    OBVIOUS
  <2> QED
    BY <1>3, <2>1, <2>2 DEF Flight
<1>5. CASE n # 1
  <2>1. PICK m, f, g, st :
          /\ m = n - 1 /\ f = stack[m] /\ CutTo(m, g) /\ Answered(f, g, plan)
          /\ st = stack'
    BY <1>1, <1>2, <1>5, ReturnMeans
  <2>2. Len(st) = m /\ st[m] = g /\ \A i \in 1..(m - 1) : st[i] = stack[i]
    BY <2>1 DEF CutTo
  <2>3. PICK i \in 1..m : Searching(st[i]) /\ key = Key(st[i])
    BY <1>3, <2>1, <2>2 DEF Flight
  <2>4. m \in Nat /\ (i = m \/ i \in 1..(m - 1)) /\ i \in 1..(n - 1)
    BY <1>2, <2>1, <2>3
  <2>5. Searching(g) = Searching(f) /\ Key(g) = Key(f)
    BY <2>1 DEF Answered, Searching, Key
  <2> QED
    BY <2>1, <2>2, <2>3, <2>4, <2>5
<1> QED
  BY <1>4, <1>5

LEMMA RebuildStep ==
  ASSUME RecallInv, FinishRebuild, request' = request
  PROVE  FoundIsBuilt' /\ StackIsHeld' /\ status' # "abort" /\ ResultIsHeld'
<1>1. /\ stack # << >> /\ Shape /\ StackShape /\ request \in Requests /\ status # "abort"
      /\ Top.pc = "rebuild"
  BY DEF RecallInv, Shape, FinishRebuild
<1>2. PICK S, n, top :
        /\ stack \in Seq(FrameType(S, Requested))
        /\ n = Len(stack) /\ n \in Nat \ {0} /\ n \in 1..n /\ top = Top /\ top = stack[n]
        /\ top \in FrameType(S, Requested)
  BY <1>1, TopFacts
<1>3. PICK winner, subs : Recalls(top, winner, subs) /\ Held(Asked(n), winner)
  BY <1>1, <1>2, RebuildRecalls
<1>4. \A k \in 1..Len(top.answers) : top.answers[k] # NoPlan
  BY <1>1, <1>2 DEF RecallInv, StackIsHeld, FrameIsHeld
<1>5. top.answers \in Seq(S) /\ DOMAIN top.answers = 1..Len(top.answers)
  BY <1>2 DEF FrameType
<1>6. ~MakesNoPlan
  BY <1>2, <1>3, <1>4, <1>5 DEF MakesNoPlan, Strategy, Recalls, GivesUp
<1>7. Return(MadePlan) /\ MissingAsks = << >> /\ UNCHANGED <<wisdom, found>>
  BY <1>6 DEF FinishRebuild
<1>8. Len(top.answers) = Len(AsksOf(top))
  BY <1>1, <1>2, <1>6, <1>7, Making
<1>9. top.answers = subs
  <2>1. PICK T : subs \in Seq(T)
    BY <1>3 DEF Recalls
  <2>2. PICK answers : answers = top.answers
    OBVIOUS
  <2>3. Len(answers) = Len(subs) /\ \A k \in 1..Len(answers) : answers[k] = subs[k]
    BY <1>3, <1>8, <2>2 DEF Recalls
  <2>4. answers \in Seq(S)
    BY <1>5, <2>2
  <2>5. /\ answers = [k \in 1..Len(answers) |-> answers[k]]
        /\ subs = [k \in 1..Len(subs) |-> subs[k]]
    BY ONLY <2>1, <2>4
  <2> QED
    BY ONLY <2>2, <2>3, <2>5
<1>10. MadePlan = winner
  BY <1>2, <1>3, <1>9 DEF MadePlan, Strategy, Recalls
<1>11. Return(winner)
  BY <1>7, <1>10
<1>12. Persists
  BY <1>1, <1>7, <1>11, ReturnFlight, QuietPersists
<1>13. FoundIsBuilt' /\ LowerStay
  BY <1>7, <1>12, QuietFound
<1>14. PICK ask : ask = Asked(n)
  OBVIOUS
<1>15. winner # NoPlan /\ Held(ask, winner)'
  <2>1. ask \in KeyType
    BY <1>1, <1>2, <1>14, AskedTyped DEF KeyType
  <2> QED
    BY <1>3, <1>12, <1>14, <2>1 DEF Persists, Held
<1>16. StackIsHeld'
  BY <1>1, <1>2, <1>11, <1>12, <1>13, <1>14, <1>15, ReturnIsHeld
<1>17. status' # "abort"
  <2>1. status' = "done" \/ status' = status
    BY <1>1, <1>11, ReturnMeans
  <2> QED
    BY <1>1, <2>1
<1>18. ResultIsHeld'
  <2>1. status = "running"
    BY DEF FinishRebuild
  <2> QED
    BY <1>1, <1>2, <1>11, <1>14, <1>15, <2>1, ReturnIsResult
<1> QED
  BY <1>13, <1>16, <1>17, <1>18

(* The wisdom of one problem grew by the entry of a policy it had none of. *)
Grows(p, policy, e, best) ==
  /\ p \in Problems /\ e \in EntriesUnder(Requested) /\ e.policy = policy
  /\ e.strategy \in 1..Len(Strategies)
  /\ NoEntryOf(p, policy)
  /\ wisdom' = With(wisdom, p, Append(WisdomEntries(p), e))
  /\ AreEntries(Append(WisdomEntries(p), e), Requested)
  /\ found' = With(found, <<p, policy>>, best)

(* The tables w and fo after that.                                         *)
Grown(p, policy, e, best, w, fo, es) ==
  /\ DOMAIN w = DOMAIN wisdom \cup {p} /\ w[p] = Append(es, e)
  /\ \A q \in DOMAIN wisdom : q # p => w[q] = wisdom[q]
  /\ \A q : q # p => WisdomEntries(q)' = WisdomEntries(q)
  /\ WisdomEntries(p)' = Append(es, e)
  /\ AreEntries(es, Requested)
  /\ DOMAIN fo = DOMAIN found \cup {<<p, policy>>} /\ fo[<<p, policy>>] = best
  /\ \A key \in DOMAIN found : key # <<p, policy>> => fo[key] = found[key]

LEMMA GrowsMeans ==
  ASSUME RecallInv, NEW p, NEW policy, NEW e, NEW best, Grows(p, policy, e, best),
         NEW w, w = wisdom', NEW fo, fo = found', NEW es, es = WisdomEntries(p)
  PROVE  Grown(p, policy, e, best, w, fo, es)
<1>1. PICK more : more = Append(es, e)
  OBVIOUS
<1>2. w = With(wisdom, p, more) /\ fo = With(found, <<p, policy>>, best)
  BY <1>1 DEF Grows
<1>3. /\ DOMAIN w = DOMAIN wisdom \cup {p} /\ w[p] = more
      /\ \A q \in DOMAIN wisdom : q # p => w[q] = wisdom[q]
  BY ONLY <1>2 DEF With
<1>4. /\ DOMAIN fo = DOMAIN found \cup {<<p, policy>>} /\ fo[<<p, policy>>] = best
      /\ \A key \in DOMAIN found : key # <<p, policy>> => fo[key] = found[key]
  BY ONLY <1>2 DEF With
<1>5. AreEntries(es, Requested)
  <2>1. AreEntries(<< >>, Requested)
    BY DEF AreEntries
  <2> QED
    BY <2>1 DEF WisdomEntries, RecallInv, Shape, WisdomShape
<1>6. /\ \A q : q # p => WisdomEntries(q)' = WisdomEntries(q)
      /\ WisdomEntries(p)' = more
  BY <1>3 DEF WisdomEntries
<1> QED
  BY <1>1, <1>3, <1>4, <1>5, <1>6 DEF Grown

(* Nothing recalled is lost when the wisdom grows by a problem in flight.  *)
LEMMA GrowsPersists ==
  ASSUME RecallInv, NEW p, NEW policy, NEW e, NEW best, Grows(p, policy, e, best),
         [p |-> p, policy |-> policy] \in Flight, Flight' \subseteq Flight
  PROVE  Persists
<1>1. SUFFICES ASSUME NEW ask \in KeyType, NEW plan, Held(ask, plan)
               PROVE  /\ Held(ask, plan)'
                      /\ WisdomLookup(ask.p, ask.policy)' = WisdomLookup(ask.p, ask.policy)
  BY DEF Persists
<1>2. PICK q, pol, es, hit :
        /\ q = ask.p /\ pol = ask.policy /\ es = WisdomEntries(q)
        /\ hit = WisdomLookup(q, pol) /\ hit = BestEntry(es, pol)
  BY DEF WisdomLookup
<1>3. /\ plan # NoPlan /\ hit # NoEntry /\ <<q, hit.policy>> \in DOMAIN found
      /\ found[<<q, hit.policy>>] = plan /\ ask \notin Flight
  BY <1>1, <1>2 DEF Held
<1>4. ask \notin Flight'
  BY <1>3
<1>5. PICK w, fo, own : /\ w = wisdom' /\ fo = found' /\ own = WisdomEntries(p)
                        /\ Grown(p, policy, e, best, w, fo, own)
  BY GrowsMeans
<1>6. ASSUME BestEntry(es, pol) = WisdomLookup(q, pol)', <<q, hit.policy>> # <<p, policy>>
      PROVE  /\ Held(ask, plan)'
             /\ WisdomLookup(ask.p, ask.policy)' = WisdomLookup(ask.p, ask.policy)
  <2>1. WisdomLookup(ask.p, ask.policy)' = hit
    BY <1>2, <1>6
  <2>2. <<q, hit.policy>> \in DOMAIN fo /\ fo[<<q, hit.policy>>] = plan
    BY <1>3, <1>5, <1>6 DEF Grown
  <2> QED
    BY <1>2, <1>3, <1>4, <1>5, <2>1, <2>2 DEF Held
<1>7. CASE q # p
  <2>1. WisdomEntries(q)' = es
    BY <1>2, <1>5, <1>7 DEF Grown
  <2>2. BestEntry(es, pol) = WisdomLookup(q, pol)'
    BY <2>1 DEF WisdomLookup
  <2> QED
    BY <1>6, <1>7, <2>2
<1>8. CASE q = p
  <2>1. pol # policy
    <3>1. ask = [p |-> q, policy |-> pol]
      BY <1>2 DEF KeyType
    <3> QED
      BY <1>3, <1>8, <3>1
  <2>2. PICK P, more : P = Requested /\ more = Append(es, e)
    OBVIOUS
  <2>3. /\ AllowsConvolution(P) /\ AreEntries(es, P) /\ e \in EntriesUnder(P)
        /\ AreEntries(more, P) /\ pol \in {P, Without(P)} /\ pol # e.policy
    BY <1>2, <1>5, <1>8, <2>1, <2>2, RequestedFacts
       DEF Grown, Grows, RecallInv, Shape, KeyType
  <2>4. BestEntry(es, pol) # NoEntry
    BY <1>2, <1>3
  <2>5. BestEntry(more, pol) = BestEntry(es, pol)
    BY ONLY <2>2, <2>3, <2>4, AppendKeepsBest
  <2>6. WisdomEntries(p)' = more
    BY <1>2, <1>5, <1>8, <2>2 DEF Grown
  <2>7. BestEntry(es, pol) = WisdomLookup(q, pol)'
    BY <1>8, <2>5, <2>6 DEF WisdomLookup
  <2>8. \E i \in 1..Len(es) : BestEntry(es, pol) = es[i]
    BY ONLY <2>3, <2>4, EntryOfPolicy
  <2>9. hit.policy # policy
    BY <1>2, <1>8, <2>8 DEF Grows, NoEntryOf
  <2> QED
    BY <1>6, <2>7, <2>9
<1> QED
  BY <1>7, <1>8

LEMMA GrowsFound ==
  ASSUME RecallInv, request' = request,
         NEW p, NEW policy, NEW e, NEW best, Grows(p, policy, e, best), Persists,
         best # NoPlan, Built(best, e.strategy, p, policy)
  PROVE  FoundIsBuilt'
<1>1. request \in Requests /\ WisdomShape
  BY DEF RecallInv, Shape
<1>2. PICK es, w, fo : es = WisdomEntries(p) /\ w = wisdom' /\ fo = found'
  OBVIOUS
<1>3. /\ DOMAIN w = DOMAIN wisdom \cup {p} /\ w[p] = Append(es, e)
      /\ \A q \in DOMAIN wisdom : q # p => w[q] = wisdom[q]
      /\ DOMAIN fo = DOMAIN found \cup {<<p, policy>>} /\ fo[<<p, policy>>] = best
      /\ \A key \in DOMAIN found : key # <<p, policy>> => fo[key] = found[key]
      /\ AreEntries(es, Requested)
  <2>1. Grown(p, policy, e, best, w, fo, es)
    BY <1>2, GrowsMeans
  <2> QED
    BY <2>1 DEF Grown
<1>4. ASSUME NEW q \in DOMAIN wisdom, NEW i \in 1..Len(wisdom[q]), NEW old,
             old = wisdom[q][i], <<q, old.policy>> # <<p, policy>>
      PROVE  EntryIsBuilt(q, old)'
  <2>1. old \in EntriesUnder(Requested) /\ q \in Problems
    <3>1. wisdom[q] \in Seq(EntriesUnder(Requested)) /\ q \in Problems
      BY <1>1 DEF WisdomShape, AreEntries
    <3> QED
      BY <1>4, <3>1
  <2>2. EntryIsBuilt(q, old)
    BY <1>4 DEF RecallInv, FoundIsBuilt
  <2>3. PICK plan, strategy, pol :
          plan = found[<<q, old.policy>>] /\ strategy = old.strategy /\ pol = old.policy
    OBVIOUS
  <2>4. Built(plan, strategy, q, pol) /\ pol \in {Requested, Without(Requested)}
    BY <2>1, <2>2, <2>3 DEF EntryIsBuilt, EntriesUnder
  <2>5. Built(plan, strategy, q, pol)'
    BY <1>1, <2>1, <2>4, BuiltPersists
  <2>6. <<q, pol>> \in DOMAIN fo /\ fo[<<q, pol>>] = plan /\ plan # NoPlan
    BY <1>3, <1>4, <2>2, <2>3 DEF EntryIsBuilt
  <2> QED
    BY <1>2, <2>3, <2>5, <2>6 DEF EntryIsBuilt
<1>5. \A new : new = e => EntryIsBuilt(p, new)'
  <2>1. SUFFICES ASSUME NEW new, new = e PROVE EntryIsBuilt(p, new)'
    OBVIOUS
  <2>2. PICK strategy : strategy = new.strategy
    OBVIOUS
  <2>3. p \in Problems /\ policy \in {Requested, Without(Requested)} /\ new.policy = policy
    BY <2>1 DEF Grows, EntriesUnder
  <2>4. Built(best, strategy, p, policy)'
    BY <1>1, <2>1, <2>2, <2>3, BuiltPersists
  <2> QED
    BY <1>2, <1>3, <2>2, <2>3, <2>4 DEF EntryIsBuilt
<1>6. ASSUME NEW q \in DOMAIN w, NEW i \in 1..Len(w[q]), NEW entry, entry = w[q][i]
      PROVE  EntryIsBuilt(q, entry)'
  <2>1. CASE q # p
    <3>1. q \in DOMAIN wisdom /\ i \in 1..Len(wisdom[q]) /\ entry = wisdom[q][i]
      BY <1>3, <1>6, <2>1
    <3> QED
      BY <1>4, <2>1, <3>1
  <2>2. CASE q = p
    <3>1. es \in Seq(EntriesUnder(Requested)) /\ e \in EntriesUnder(Requested)
      BY <1>3 DEF AreEntries, Grows
    <3>2. PICK more : more = Append(es, e)
      OBVIOUS
    <3>3. /\ Len(more) = Len(es) + 1 /\ Len(es) \in Nat /\ more[Len(es) + 1] = e
          /\ \A k \in 1..Len(es) : more[k] = es[k]
      BY <3>1, <3>2, PushMeans
    <3>4. entry = more[i] /\ (i \in 1..Len(es) \/ i = Len(es) + 1)
      BY <1>3, <1>6, <2>2, <3>2, <3>3
    <3>5. CASE i = Len(es) + 1
      BY <1>5, <2>2, <3>3, <3>4, <3>5
    <3>6. CASE i \in 1..Len(es)
      <4>1. entry = es[i]
        BY <3>3, <3>4, <3>6
      <4>2. entry.policy # policy
        BY <1>2, <3>6, <4>1 DEF Grows, NoEntryOf
      <4>3. p \in DOMAIN wisdom /\ es = wisdom[p]
        <5>1. es # << >>
          BY <3>6
        <5> QED
          BY <1>2, <5>1 DEF WisdomEntries
      <4> QED
        BY <1>4, <2>2, <3>6, <4>1, <4>2, <4>3
    <3> QED
      BY <3>4, <3>5, <3>6
  <2> QED
    BY <2>1, <2>2
<1> QED
  BY <1>2, <1>6 DEF FoundIsBuilt

LEMMA FinishStep ==
  ASSUME RecallInv, Finish, request' = request
  PROVE  FoundIsBuilt' /\ StackIsHeld' /\ status' # "abort" /\ ResultIsHeld'
<1>1. /\ stack # << >> /\ Shape /\ StackShape /\ request \in Requests /\ status # "abort"
      /\ Top.pc = "exit" /\ Return(Top.best) /\ status = "running"
  BY FinishMeans DEF RecallInv, Shape, Finish
<1>2. PICK S, n, top, ask, best :
        /\ stack \in Seq(FrameType(S, Requested))
        /\ n = Len(stack) /\ n \in Nat \ {0} /\ n \in 1..n /\ top = Top /\ top = stack[n]
        /\ top \in FrameType(S, Requested) /\ FrameIsWell(top)
        /\ ask = Asked(n) /\ Answers(top, ask) /\ best = top.best
  BY <1>1, TopFacts
<1>3. Return(best)
  BY <1>1, <1>2
<1>4. ask \in KeyType /\ ask = Key(top)
  <2>1. ask \in KeyType
    BY <1>1, <1>2, AskedTyped DEF KeyType
  <2> QED
    BY <1>1, <1>2, <2>1 DEF Answers, Key, KeyType
<1>5. FrameIsHeld(top, ask) /\ Searching(top)
  BY <1>1, <1>2 DEF RecallInv, StackIsHeld, Searching
<1>6. status' # "abort"
  <2>1. status' = "done" \/ status' = status
    BY <1>1, <1>3, ReturnMeans
  <2> QED
    BY <1>1, <2>1
<1>7. Flight' \subseteq Flight /\ ask \notin Flight' /\ ask \in Flight
  <2>1. ask \in Flight
    BY <1>2, <1>4, <1>5 DEF Flight
  <2> QED
    BY <1>1, <1>2, <1>3, <2>1, ReturnFlight
<1>8. CASE best = NoPlan
  <2>1. UNCHANGED <<wisdom, found>>
    BY <1>1, <1>2, <1>8, FinishMeans
  <2>2. Persists
    BY <1>7, <2>1, QuietPersists
  <2>3. FoundIsBuilt' /\ LowerStay
    BY <2>1, <2>2, QuietFound
  <2>4. ~(n > 1 /\ stack[n - 1].pc = "rebuild")
    BY <1>1, <1>2, AboveRebuild
  <2>5. StackIsHeld'
    BY <1>1, <1>2, <1>3, <1>8, <2>2, <2>3, <2>4, ReturnIsHeld
  <2>6. ResultIsHeld'
    BY <1>1, <1>3, <1>8, ReturnIsResult
  <2> QED
    BY <1>6, <2>3, <2>5, <2>6
<1>9. CASE best # NoPlan
  <2>1. PICK p, policy, e, es :
          /\ p = top.p /\ policy = top.policy /\ es = WisdomEntries(p)
          /\ e = [strategy |-> top.bestStrategy, policy |-> top.policy]
    OBVIOUS
  <2>2. NoEntryOf(p, policy) /\ Built(best, e.strategy, p, policy)
    BY <1>2, <1>5, <1>9, <2>1 DEF FrameIsHeld
  <2>3. Grows(p, policy, e, best)
    <3>1. /\ found' = With(found, <<p, policy>>, best)
          /\ e \in EntriesUnder(Requested) /\ p \in Problems
          /\ \E more : /\ wisdom' = With(wisdom, p, more)
                       /\ AreEntries(more, Requested)
                       /\ (\A i \in 1..Len(es) : es[i].policy # policy) => more = Append(es, e)
      BY <1>1, <1>2, <1>9, <2>1, FinishMeans
    <3>2. \A i \in 1..Len(es) : es[i].policy # policy
      BY <2>1, <2>2 DEF NoEntryOf
    <3>3. e.policy = policy /\ e.strategy \in 1..Len(Strategies)
      BY <1>2, <1>9, <2>1 DEF FrameIsWell
    <3> QED
      BY <2>1, <2>2, <3>1, <3>2, <3>3 DEF Grows
  <2>4. ask = [p |-> p, policy |-> policy]
    BY <1>4, <2>1 DEF Key
  <2>5. Persists
    BY <1>7, <2>3, <2>4, GrowsPersists
  <2>6. FoundIsBuilt'
    BY <1>9, <2>2, <2>3, <2>5, GrowsFound
  <2>7. PICK w, fo : w = wisdom' /\ fo = found' /\ Grown(p, policy, e, best, w, fo, es)
    BY <2>1, <2>3, GrowsMeans
  <2>8. PICK more : more = Append(es, e)
    OBVIOUS
  <2>9. /\ Len(more) = Len(es) + 1 /\ Len(es) \in Nat /\ more[Len(more)] = e
        /\ \A k \in 1..Len(es) : more[k] = es[k]
    <3>1. es \in Seq(EntriesUnder(Requested)) /\ e \in EntriesUnder(Requested)
      BY <2>3, <2>7 DEF Grown, AreEntries, Grows
    <3> QED
      BY <2>8, <3>1, PushMeans
  <2>10. WisdomEntries(p)' = more
    BY <2>7, <2>8 DEF Grown
  <2>11. LowerStay
    <3>1. SUFFICES ASSUME NEW i \in 1..(n - 1), NEW f, f = stack[i], NoEntryOf(f.p, f.policy)
                   PROVE  NoEntryOf(f.p, f.policy)'
      BY <1>2 DEF LowerStay
    <3>2. CASE f.p # p
      <4>1. WisdomEntries(f.p)' = WisdomEntries(f.p)
        BY <2>7, <3>2 DEF Grown
      <4> QED
        BY <3>1, <4>1 DEF NoEntryOf
    <3>3. CASE f.p = p
      <4>1. i \in 1..n /\ i < n
        BY <1>2
      <4>2. ask # Key(f)
        BY <1>1, <1>2, <3>1, <4>1, AskedIsOther
      <4>3. f.policy # policy
        BY <2>4, <3>3, <4>2 DEF Key
      <4>4. \A k \in 1..Len(more) : k \in 1..Len(es) \/ k = Len(more)
        BY <2>9
      <4>5. \A k \in 1..Len(more) : more[k].policy # f.policy
        BY <2>1, <2>9, <3>1, <3>3, <4>3, <4>4 DEF NoEntryOf
      <4> QED
        BY <2>10, <3>3, <4>5 DEF NoEntryOf
    <3> QED
      BY <3>2, <3>3
  <2>12. Held(ask, best)'
    <3>1. PICK P : P = Requested
      OBVIOUS
    <3>2. /\ AllowsConvolution(P) /\ AreEntries(more, P) /\ policy \in {P, Without(P)}
      BY <1>1, <2>1, <2>3, <2>8, <3>1, <1>2, RequestedFacts DEF Grows, FrameType
    <3>3. Len(more) \in 1..Len(more) /\ more[Len(more)].policy = policy
      BY <2>3, <2>9 DEF Grows
    <3>4. PICK hit : hit = BestEntry(more, policy)
      OBVIOUS
    <3>5. hit # NoEntry
      BY ONLY <3>2, <3>3, <3>4, EntryOfPolicy
    <3>6. \/ hit.policy = policy
          \/ policy = P /\ \A i \in 1..Len(more) : more[i].policy # P
      BY ONLY <3>2, <3>4, <3>5, EntryOfPolicy
    <3>7. hit.policy = policy
      BY <3>3, <3>6
    <3>8. WisdomLookup(p, policy)' = hit
      BY <2>10, <3>4 DEF WisdomLookup
    <3>9. WisdomLookup(ask.p, ask.policy)' = hit /\ ask.p = p
      BY <2>4, <3>8
    <3>10. <<p, policy>> \in DOMAIN fo /\ fo[<<p, policy>>] = best
      BY <2>7 DEF Grown
    <3> QED
      BY <1>7, <1>9, <2>7, <3>5, <3>7, <3>9, <3>10 DEF Held
  <2>13. StackIsHeld'
    BY <1>1, <1>2, <1>3, <1>9, <2>5, <2>11, <2>12, ReturnIsHeld
  <2>14. ResultIsHeld'
    BY <1>1, <1>2, <1>3, <2>12, ReturnIsResult
  <2> QED
    BY <1>6, <2>6, <2>13, <2>14
<1> QED
  BY <1>8, <1>9

(* The steps that leave the wisdom alone and change the active frame.      *)
LEMMA QuietCut ==
  ASSUME RecallInv, Step, UNCHANGED <<wisdom, found>>, stack # << >>,
         NEW g, CutTo(Len(stack), g),
         Searching(g) => Key(g) \in Flight \/ WisdomLookup(g.p, g.policy) = NoEntry,
         \A ask : ask = Asked(Len(stack)) => FrameIsHeld(g, ask)
  PROVE  FoundIsBuilt' /\ StackIsHeld'
<1>1. /\ Shape /\ request \in Requests /\ StackShape /\ StackShape' /\ request' = request
  BY StackStep DEF RecallInv, Shape
<1>2. PICK n, ask : n = Len(stack) /\ n \in 1..n /\ ask = Asked(n)
  BY <1>1, TopFacts
<1>3. Key(g).p = g.p /\ Key(g).policy = g.policy
  BY DEF Key
<1>4. \A key \in Flight' : key \in Flight \/ WisdomLookup(key.p, key.policy) = NoEntry
  <2>1. \A key \in Flight' : key \in Flight \/ (key = Key(g) /\ Searching(g))
    BY <1>1, CutFlight
  <2> QED
    BY <1>3, <2>1
<1>5. Persists
  BY <1>4, QuietPersists
<1>6. FoundIsBuilt' /\ LowerStay
  BY <1>1, <1>5, QuietFound
<1>7. PICK R : g \in FrameType(R, Requested)
  <2>1. PICK R, st : st = stack' /\ st \in Seq(FrameType(R, Requested)) /\ Len(st) = n /\ st[n] = g
    BY <1>2 DEF CutTo
  <2> QED
    BY <1>2, <2>1
<1>8. FrameIsWell(g)
  <2>1. Len(stack') = n /\ stack'[n] = g
    BY <1>2 DEF CutTo
  <2>2. \A i \in 1..Len(stack') : FrameIsWell(stack'[i])
    BY <1>1, SameWell DEF StackShape
  <2> QED
    BY <1>2, <2>1, <2>2
<1>9. ask \in KeyType /\ FrameIsHeld(g, ask)
  BY <1>1, <1>2, AskedTyped DEF KeyType
<1>10. NoEntryOf(g.p, g.policy) => NoEntryOf(g.p, g.policy)'
  BY DEF NoEntryOf, WisdomEntries
<1>11. FrameIsHeld(g, ask)'
  BY <1>1, <1>5, <1>7, <1>8, <1>9, <1>10, FramePersists
<1> QED
  BY <1>1, <1>2, <1>5, <1>6, <1>11, CutIsHeld

LEMMA MadePlanIsBuilt ==
  ASSUME RecallInv, stack # << >>, InStrategy(Top), Len(Top.answers) = Len(AsksOf(Top)),
         ~GivesUp(Strategy, Top.answers)
  PROVE  Built(MadePlan, Top.strategy, Top.p, Top.policy)
<1>1. request \in Requests /\ StackShape /\ Shape
  BY DEF RecallInv, Shape
<1>2. PICK S, n, top, ask : /\ top = Top /\ top \in FrameType(S, Requested)
                            /\ n = Len(stack) /\ n \in 1..n /\ top = stack[n]
                            /\ ask = Asked(n)
  BY <1>1, TopFacts
<1>3. FrameIsHeld(top, ask)
  BY <1>2 DEF RecallInv, StackIsHeld
<1>4. PICK s, asks, answers, p, policy, m :
        /\ s = Strategies[top.strategy] /\ asks = AsksOf(top) /\ answers = top.answers
        /\ p = top.p /\ policy = top.policy /\ m = Len(answers)
  OBVIOUS
<1>5. /\ top.strategy \in 1..Len(Strategies) /\ ~IsNull(s) /\ IsApplicable(s, p, policy)
      /\ p \in Problems /\ answers \in Seq(S)
  BY <1>2, <1>4 DEF InStrategy, FrameType
<1>6. asks = Asks(s, p, policy) /\ AsksAreSound(s, p, policy)
  BY <1>4, <1>5, AsksOfSound DEF AsksOf
<1>7. m = Len(asks) /\ DOMAIN answers = 1..m /\ ~GivesUp(s, answers)
  BY <1>2, <1>4, <1>5 DEF Strategy
<1>8. \A k \in 1..m : answers[k] # NoPlan
  <2>1. m \in IF IsConvolution(s) THEN {3, 4} ELSE {0, 1}
    BY <1>6, <1>7 DEF AsksAreSound
  <2>2. m = 0 \/ m \in IF IsConvolution(s) THEN {3, 4} ELSE {1}
    BY <2>1
  <2> QED
    BY <1>4, <1>7, <2>2 DEF GivesUp
<1>9. \A k \in 1..m : Held(asks[k], answers[k])
  BY <1>3, <1>4, <1>8 DEF FrameIsHeld
<1>10. MadePlan = Plan(s, p, answers)
  BY <1>2, <1>4 DEF MadePlan, Strategy
<1> QED
  BY <1>2, <1>4, <1>5, <1>6, <1>7, <1>9, <1>10 DEF Built

LEMMA LookupStep ==
  ASSUME RecallInv, Lookup
  PROVE  FoundIsBuilt' /\ StackIsHeld'
<1>1. /\ Shape /\ request \in Requests /\ StackShape /\ WisdomShape /\ stack # << >>
      /\ Top.pc = "lookup" /\ UNCHANGED <<wisdom, found>>
  BY DEF RecallInv, Shape, Lookup
<1>2. PICK S, n, top, ask :
        /\ stack \in Seq(FrameType(S, Requested))
        /\ n = Len(stack) /\ n \in Nat \ {0} /\ n \in 1..n /\ top = Top /\ top = stack[n]
        /\ top \in FrameType(S, Requested) /\ ask = Asked(n) /\ Answers(top, ask)
  BY <1>1, TopFacts
<1>3. ask \in KeyType /\ ask.p = top.p /\ ask.policy = top.policy
  <2>1. ask \in KeyType
    BY <1>1, <1>2, AskedTyped DEF KeyType
  <2> QED
    BY <1>1, <1>2, <2>1 DEF Answers
<1>4. PICK hit : hit = WisdomLookup(ask.p, ask.policy)
  OBVIOUS
<1>5. PICK g : /\ CutTo(n, g)
               /\ g.p = top.p /\ g.answers = << >>
               /\ g.best = NoPlan /\ g.candidate = NoPlan
               /\ IF hit = NoEntry
                  THEN g.pc = "search" /\ g.policy = top.policy
                  ELSE /\ g.pc = "rebuild" /\ g.policy = hit.policy
                       /\ g.strategy = hit.strategy
  <2>1. hit = WisdomLookup(Top.p, Top.policy)
    BY <1>2, <1>3, <1>4
  <2> QED
    BY <1>1, <1>2, <2>1, LookupMeans
<1>6. \A k \in 1..Len(g.answers) : FALSE
  BY <1>5
<1>7. CASE hit = NoEntry
  <2>1. NoEntryOf(g.p, g.policy)
    <3>1. PICK P, es, policy : P = Requested /\ es = WisdomEntries(g.p) /\ policy = g.policy
      OBVIOUS
    <3>2. AreEntries(es, P)
      <4>1. AreEntries(<< >>, P)
        BY DEF AreEntries
      <4> QED
        BY <1>1, <3>1, <4>1 DEF WisdomEntries, WisdomShape
    <3>3. AllowsConvolution(P) /\ policy \in {P, Without(P)}
      BY <1>1, <1>2, <1>5, <1>7, <3>1, RequestedFacts DEF FrameType
    <3>4. BestEntry(es, policy) = NoEntry
      BY <1>3, <1>4, <1>5, <1>7, <3>1 DEF WisdomLookup
    <3>5. \A i \in 1..Len(es) : es[i].policy # policy
      BY ONLY <3>2, <3>3, <3>4, EntryOfPolicy
    <3> QED
      BY <3>1, <3>5 DEF NoEntryOf
  <2>2. FrameIsHeld(g, ask)
    BY <1>5, <1>6, <1>7, <2>1 DEF FrameIsHeld
  <2>3. WisdomLookup(g.p, g.policy) = NoEntry
    BY <1>3, <1>4, <1>5, <1>7
  <2> QED
    BY <1>1, <1>2, <1>5, <2>2, <2>3, QuietCut DEF Step
<1>8. CASE hit # NoEntry
  <2>1. EntryIsBuilt(ask.p, hit) /\ hit \in EntriesUnder(Requested)
    BY <1>3, <1>4, <1>8, HitIsAnEntry
  <2>2. hit = [strategy |-> g.strategy, policy |-> g.policy]
    BY <1>5, <1>8, <2>1 DEF EntriesUnder
  <2>3. ask \notin Flight
    <3>1. SUFFICES ASSUME NEW i \in 1..n, Searching(stack[i]), ask = Key(stack[i]) PROVE FALSE
      BY <1>2 DEF Flight
    <3>2. i # n
      BY <1>1, <1>2, <3>1 DEF Searching
    <3>3. i < n
      BY <1>2, <3>2
    <3> QED
      BY <1>1, <1>2, <3>1, <3>3, AskedIsOther
  <2>4. Held(ask, found[<<ask.p, hit.policy>>])
    BY <1>4, <1>8, <2>1, <2>3 DEF Held, EntryIsBuilt
  <2>5. ~Searching(g)
    BY <1>5, <1>8 DEF Searching
  <2>6. FrameIsHeld(g, ask)
    BY <1>4, <1>5, <1>6, <1>8, <2>2, <2>4, <2>5 DEF FrameIsHeld
  <2> QED
    BY <1>1, <1>2, <1>5, <2>5, <2>6, QuietCut DEF Step
<1> QED
  BY <1>7, <1>8

LEMMA AskStep ==
  ASSUME RecallInv, AskSubPlan
  PROVE  FoundIsBuilt' /\ StackIsHeld'
<1>1. /\ Shape /\ request \in Requests /\ StackShape /\ stack # << >>
      /\ UNCHANGED <<wisdom, found>> /\ request' = request
  BY DEF RecallInv, Shape, AskSubPlan
<1>2. PICK S, n, st, next, g :
        /\ stack \in Seq(FrameType(S, Requested))
        /\ n = Len(stack) /\ n \in Nat \ {0} /\ st = stack'
        /\ Pushes(next) /\ g = NewFrame(next.p, next.policy)
  <2>1. PICK next : Pushes(next)
    BY <1>1, AskMeans
  <2> QED
    BY <1>1, <2>1, TopFacts
<1>3. Len(st) = n + 1 /\ st[n + 1] = g /\ \A i \in 1..n : st[i] = stack[i]
  BY <1>2 DEF Pushes
<1>4. Flight' \subseteq Flight
  BY <1>1, <1>2, PushFlight
<1>5. Persists
  BY <1>1, <1>4, QuietPersists
<1>6. FoundIsBuilt'
  BY <1>1, <1>5, QuietFound
<1>7. \A i \in 1..n : Asked(i)' = Asked(i)
  BY <1>1, <1>2, <1>3, AskedBelow
<1>8. ASSUME NEW i \in 1..n PROVE FrameIsHeld(st[i], Asked(i))'
  <2>1. PICK f, ask : f = stack[i] /\ ask = Asked(i)
    OBVIOUS
  <2>2. f \in FrameType(S, Requested) /\ FrameIsWell(f) /\ ask \in KeyType
    BY <1>1, <1>2, <2>1, AskedTyped DEF StackShape, KeyType
  <2>3. FrameIsHeld(f, ask)
    BY <1>2, <2>1 DEF RecallInv, StackIsHeld
  <2>4. NoEntryOf(f.p, f.policy) => NoEntryOf(f.p, f.policy)'
    BY <1>1 DEF NoEntryOf, WisdomEntries
  <2>5. FrameIsHeld(f, ask)'
    BY <1>1, <1>5, <2>2, <2>3, <2>4, FramePersists
  <2> QED
    BY <1>3, <1>7, <2>1, <2>5
<1>9. \A ask : FrameIsHeld(g, ask)'
  <2>1. /\ g.answers = << >> /\ g.best = NoPlan /\ g.candidate = NoPlan /\ g.pc = "lookup"
    BY <1>2 DEF NewFrame
  <2>2. ~Searching(g) /\ \A k \in 1..Len(g.answers) : FALSE
    BY <2>1 DEF Searching
  <2> QED
    BY <2>1, <2>2 DEF FrameIsHeld
<1>10. \A i \in 1..(n + 1) : i \in 1..n \/ i = n + 1
  BY <1>2
<1>11. \A i \in 1..(n + 1) : FrameIsHeld(st[i], Asked(i))'
  BY <1>3, <1>8, <1>9, <1>10
<1>12. StackIsHeld'
  BY <1>2, <1>3, <1>11 DEF StackIsHeld
<1> QED
  BY <1>6, <1>12

(* A search that goes on keeps plans that are built of what is recalled.   *)
LEMMA SearchStep ==
  ASSUME RecallInv, Step,
         \/ TryStrategy \/ FinishCandidate
         \/ MeasureTimesOut \/ (\E prefers \in BOOLEAN : Measure(prefers))
  PROVE  FoundIsBuilt' /\ StackIsHeld'
<1>1. /\ Shape /\ request \in Requests /\ StackShape /\ stack # << >>
      /\ UNCHANGED <<wisdom, found>> /\ Top.pc \in {"search", "make", "measure"}
  BY DEF RecallInv, Shape, TryStrategy, FinishCandidate, MeasureTimesOut, Measure
<1>2. PICK S, n, top, ask :
        /\ stack \in Seq(FrameType(S, Requested))
        /\ n = Len(stack) /\ n \in Nat \ {0} /\ n \in 1..n /\ top = Top /\ top = stack[n]
        /\ top \in FrameType(S, Requested) /\ ask = Asked(n)
  BY <1>1, TopFacts
<1>3. FrameIsHeld(top, ask) /\ Searching(top)
  BY <1>1, <1>2 DEF RecallInv, StackIsHeld, Searching
<1>4. NoEntryOf(top.p, top.policy) /\ Key(top) \in Flight
  BY <1>2, <1>3 DEF FrameIsHeld, Flight
<1> DEFINE Kept(g) ==
      /\ g.best # NoPlan => Built(g.best, g.bestStrategy, g.p, g.policy)
      /\ g.candidate # NoPlan => Built(g.candidate, g.strategy, g.p, g.policy)
<1>5. ASSUME NEW g, CutTo(n, g), g.p = top.p, g.policy = top.policy, g.answers = << >>,
             g.pc # "rebuild", Kept(g)
      PROVE  FoundIsBuilt' /\ StackIsHeld'
  <2>1. \A k \in 1..Len(g.answers) : FALSE
    BY <1>5
  <2>2. FrameIsHeld(g, ask)
    BY <1>4, <1>5, <2>1 DEF FrameIsHeld
  <2>3. Key(g) = Key(top)
    BY <1>5 DEF Key
  <2> QED
    BY <1>1, <1>2, <1>4, <1>5, <2>2, <2>3, QuietCut
<1>6. /\ top.best # NoPlan => Built(top.best, top.bestStrategy, top.p, top.policy)
      /\ top.candidate # NoPlan => Built(top.candidate, top.strategy, top.p, top.policy)
  BY <1>3 DEF FrameIsHeld
<1> HIDE DEF Kept
<1>7. CASE TryStrategy
  <2>1. PICK g : /\ CutTo(n, g)
                 /\ g.p = top.p /\ g.policy = top.policy /\ g.answers = << >>
                 /\ g.best = top.best /\ g.bestStrategy = top.bestStrategy
                 /\ g.candidate = NoPlan /\ g.pc # "rebuild"
    BY <1>1, <1>2, <1>7, TryStrategyMeans
  <2>2. Kept(g)
    BY <1>6, <2>1 DEF Kept
  <2> QED
    BY <1>5, <2>1, <2>2
<1>8. CASE FinishCandidate
  <2>1. PICK plan : plan = MadePlan
    OBVIOUS
  <2>2. PICK g :
          /\ CutTo(n, g)
          /\ g.p = top.p /\ g.policy = top.policy /\ g.answers = << >>
          /\ \/ /\ g.pc = "search" /\ g.candidate = NoPlan
                /\ g.best = top.best /\ g.bestStrategy = top.bestStrategy
             \/ /\ InStrategy(top) /\ Len(top.answers) = Len(AsksOf(top))
                /\ ~GivesUp(Strategy, top.answers)
                /\ \/ /\ g.pc = "exit" /\ g.candidate = NoPlan
                      /\ g.best = plan /\ g.bestStrategy = top.strategy
                   \/ /\ g.pc = "measure" /\ g.candidate = plan
                      /\ g.strategy = top.strategy
                      /\ g.best = top.best /\ g.bestStrategy = top.bestStrategy
    BY <1>1, <1>2, <1>8, <2>1, CandidateMeans
  <2>3. (/\ InStrategy(top) /\ Len(top.answers) = Len(AsksOf(top))
         /\ ~GivesUp(Strategy, top.answers))
        => Built(plan, top.strategy, top.p, top.policy)
    BY <1>1, <1>2, <2>1, MadePlanIsBuilt
  <2>4. Kept(g) /\ g.pc # "rebuild"
    BY <1>6, <2>2, <2>3 DEF Kept
  <2> QED
    BY <1>5, <2>2, <2>4
<1>9. CASE MeasureTimesOut \/ \E prefers \in BOOLEAN : Measure(prefers)
  <2>1. PICK g : /\ CutTo(n, g)
                 /\ g.p = top.p /\ g.policy = top.policy /\ g.answers = << >>
                 /\ g.candidate = NoPlan /\ g.pc # "rebuild"
                 /\ \/ g.best = top.candidate /\ g.bestStrategy = top.strategy
                    \/ g.best = top.best /\ g.bestStrategy = top.bestStrategy
    BY <1>1, <1>2, <1>9, MeasureMeans
  <2>2. Kept(g)
    BY <1>6, <2>1 DEF Kept
  <2> QED
    BY <1>5, <2>1, <2>2
<1> QED
  BY <1>7, <1>8, <1>9

LEMMA RecallStep == RecallInv /\ [Next]_vars => RecallInv'
<1> SUFFICES ASSUME RecallInv, [Next]_vars PROVE RecallInv'
  OBVIOUS
<1>1. Shape'
  BY ShapeStep DEF RecallInv
<1>2. CASE Step
  <2>1. request' = request
    BY <1>2, StackStep DEF RecallInv
  <2>2. CASE Lookup
    BY <1>1, <2>2, LookupStep DEF RecallInv, Lookup
  <2>3. CASE AskSubPlan
    BY <1>1, <2>3, AskStep DEF RecallInv, AskSubPlan
  <2>4. CASE \/ TryStrategy \/ FinishCandidate
             \/ MeasureTimesOut \/ (\E prefers \in BOOLEAN : Measure(prefers))
    <3>1. status' = status
      BY <2>4 DEF TryStrategy, FinishCandidate, MeasureTimesOut, Measure
    <3> QED
      BY <1>1, <1>2, <2>4, <3>1, SearchStep DEF RecallInv
  <2>5. CASE FinishRebuild
    BY <1>1, <2>1, <2>5, RebuildStep DEF RecallInv
  <2>6. CASE Finish
    BY <1>1, <2>1, <2>6, FinishStep DEF RecallInv
  <2> QED
    BY <1>2, <2>2, <2>3, <2>4, <2>5, <2>6 DEF Step
<1>3. CASE Expire \/ Terminated \/ UNCHANGED vars
  <2>1. UNCHANGED <<request, stack, wisdom, status, found>>
    BY <1>3 DEF Expire, Terminated, vars
  <2>2. Flight' = Flight
    BY <2>1 DEF Flight
  <2>3. Persists
    BY <2>1, <2>2, QuietPersists
  <2>4. FoundIsBuilt'
    BY <2>1, <2>3, QuietFound
  <2>5. StackIsHeld'
    <3>1. PICK S, n : stack \in Seq(FrameType(S, Requested)) /\ n = Len(stack) /\ n \in Nat
      <4>1. PICK S : stack \in Seq(FrameType(S, Requested))
        BY DEF RecallInv, Shape, StackShape
      <4>2. PICK n : n = Len(stack)
        OBVIOUS
      <4>3. n \in Nat
        BY <4>1, <4>2
      <4> QED
        BY <4>1, <4>2, <4>3
    <3>2. \A i \in 1..n : Asked(i)' = Asked(i)
      BY <2>1, <3>1, AskedBelow
    <3>3. ASSUME NEW i \in 1..n PROVE FrameIsHeld(stack[i], Asked(i))'
      <4>1. PICK f, ask : f = stack[i] /\ ask = Asked(i)
        OBVIOUS
      <4>2. /\ request \in Requests /\ f \in FrameType(S, Requested) /\ FrameIsWell(f)
            /\ ask \in KeyType
        BY <3>1, <4>1, AskedTyped DEF RecallInv, Shape, StackShape, KeyType
      <4>3. FrameIsHeld(f, ask)
        BY <3>1, <4>1 DEF RecallInv, StackIsHeld
      <4>4. NoEntryOf(f.p, f.policy) => NoEntryOf(f.p, f.policy)'
        BY <2>1 DEF NoEntryOf, WisdomEntries
      <4>5. FrameIsHeld(f, ask)'
        BY <2>1, <2>3, <4>2, <4>3, <4>4, FramePersists
      <4>6. stack'[i] = f
        BY <2>1, <4>1
      <4> QED
        BY <3>2, <4>1, <4>5, <4>6
    <3> QED
      BY <2>1, <3>1, <3>3 DEF StackIsHeld
  <2> QED
    BY <1>1, <2>1, <2>4, <2>5 DEF RecallInv
<1> QED
  BY <1>2, <1>3 DEF Next

LEMMA InitRecall == Init => RecallInv
<1> SUFFICES ASSUME Init PROVE RecallInv
  OBVIOUS
<1>1. Shape /\ status # "abort" /\ wisdom = << >>
  BY InitShape DEF Init
<1>2. PICK f, st : f = NewFrame(request.prob, Requested) /\ st = <<f>>
  OBVIOUS
<1>3. stack = st
  BY <1>2 DEF Init, Requested
<1>4. Len(st) = 1 /\ st[1] = f /\ \A i \in 1..1 : i = 1
  BY <1>2
<1>5. f.answers = << >> /\ f.best = NoPlan /\ f.candidate = NoPlan /\ f.pc = "lookup"
  BY <1>2 DEF NewFrame
<1>6. ~Searching(f) /\ \A k \in 1..Len(f.answers) : FALSE
  BY <1>5 DEF Searching
<1>7. \A ask : FrameIsHeld(f, ask)
  BY <1>5, <1>6 DEF FrameIsHeld
<1>8. DOMAIN wisdom = {}
  BY <1>1
<1> QED
  BY <1>1, <1>3, <1>4, <1>7, <1>8 DEF RecallInv, FoundIsBuilt, StackIsHeld

LEMMA RecallIsInvariant == Spec => []RecallInv
<1>1. Init => RecallInv
  BY InitRecall
<1>2. RecallInv /\ [Next]_vars => RecallInv'
  BY RecallStep
<1> QED
  BY <1>1, <1>2, PTL DEF Spec

(* The std::abort of make_plan_impl is unreachable: what the wisdom names  *)
(* can always be made into a plan again.                                   *)
THEOREM WisdomReconstructs == Spec => []ReconstructionNeverFails
<1>1. RecallInv => ReconstructionNeverFails
  BY DEF RecallInv, ReconstructionNeverFails
<1> QED
  BY <1>1, RecallIsInvariant, PTL

(* A plan rebuilt from the wisdom is the plan that won the search the      *)
(* wisdom remembers, with the sub-plans it had.                            *)
THEOREM WinnersAreRecalled == Spec => []RecallIsFaithful
<1>1. RecallInv => RecallIsFaithful
  <2> SUFFICES ASSUME RecallInv, NEW i \in DOMAIN stack, stack[i].pc = "rebuild"
               PROVE  /\ <<stack[i].p, stack[i].policy>> \in DOMAIN found
                      /\ LET winner == found[<<stack[i].p, stack[i].policy>>]
                         IN  /\ Strategies[stack[i].strategy] = winner.s
                             /\ \A k \in DOMAIN stack[i].answers :
                                  stack[i].answers[k] = winner.subs[k]
    BY DEF RecallIsFaithful
  <2>1. PICK S : stack \in Seq(FrameType(S, Requested))
    BY DEF RecallInv, Shape, StackShape
  <2>2. PICK f : f = stack[i]
    OBVIOUS
  <2>3. i \in 1..Len(stack) /\ f \in FrameType(S, Requested)
    BY <2>1, <2>2
  <2>4. PICK winner, subs : Recalls(f, winner, subs)
    BY <2>2, <2>3, RebuildRecalls
  <2>5. winner.s = Strategies[f.strategy] /\ winner.subs = subs
    BY <2>4 DEF Recalls, Plan
  <2>6. DOMAIN f.answers = 1..Len(f.answers)
    BY <2>3 DEF FrameType
  <2> QED
    BY <2>2, <2>4, <2>5, <2>6 DEF Recalls
<1> QED
  BY <1>1, RecallIsInvariant, PTL

(* What the wisdom holds of a problem is never revised: wisdom_table       *)
(* update only ever appends.                                               *)
THEOREM WisdomOnlyGrows == Spec => WisdomIsStable
<1>1. RecallInv /\ [Next]_vars
        => [\A p \in DOMAIN wisdom : \A i \in DOMAIN wisdom[p] :
              p \in DOMAIN wisdom' /\ i \in DOMAIN wisdom'[p]
                /\ wisdom'[p][i] = wisdom[p][i]]_vars
  <2> SUFFICES ASSUME RecallInv, [Next]_vars, NEW p \in DOMAIN wisdom, NEW i \in DOMAIN wisdom[p]
               PROVE  p \in DOMAIN wisdom' /\ i \in DOMAIN wisdom'[p]
                        /\ wisdom'[p][i] = wisdom[p][i]
    OBVIOUS
  <2>1. CASE UNCHANGED wisdom
    BY <2>1
  <2>2. CASE Finish
    <3>1. PICK S, n, top :
            /\ n = Len(stack) /\ n \in 1..n /\ top = Top /\ top = stack[n] /\ top.pc = "exit"
      <4>1. stack # << >> /\ request \in Requests /\ StackShape /\ Top.pc = "exit"
        BY <2>2, FinishMeans DEF RecallInv, Shape
      <4> QED
        BY <4>1, TopFacts
    <3>2. NoEntryOf(top.p, top.policy)
      BY <3>1 DEF RecallInv, StackIsHeld, FrameIsHeld, Searching
    <3>3. CASE top.best = NoPlan
      BY <2>1, <2>2, <3>1, <3>3, FinishMeans DEF RecallInv
    <3>4. CASE top.best # NoPlan
      <4>1. PICK q, e, es, more, w :
              /\ q = top.p /\ es = WisdomEntries(q) /\ w = wisdom'
              /\ e \in EntriesUnder(Requested)
              /\ w = With(wisdom, q, more) /\ more = Append(es, e)
        <5>1. PICK q, e, es : /\ q = top.p /\ es = WisdomEntries(q)
                              /\ e = [strategy |-> top.bestStrategy, policy |-> top.policy]
          OBVIOUS
        <5>2. \A k \in 1..Len(es) : es[k].policy # top.policy
          BY <3>2, <5>1 DEF NoEntryOf
        <5>3. /\ e \in EntriesUnder(Requested)
              /\ \E more : /\ wisdom' = With(wisdom, q, more)
                           /\ (\A k \in 1..Len(es) : es[k].policy # top.policy)
                                => more = Append(es, e)
          BY <2>2, <3>1, <3>4, <5>1, FinishMeans DEF RecallInv
        <5> QED
          BY <5>1, <5>2, <5>3
      <4>2. /\ DOMAIN w = DOMAIN wisdom \cup {q} /\ w[q] = more
            /\ \A x \in DOMAIN wisdom : x # q => w[x] = wisdom[x]
        BY ONLY <4>1 DEF With
      <4>3. CASE p # q
        BY <4>1, <4>2, <4>3
      <4>4. CASE p = q
        <5>1. es = wisdom[p] /\ i \in DOMAIN es
          BY <4>1, <4>4 DEF WisdomEntries
        <5>2. es \in Seq(EntriesUnder(Requested))
          BY <5>1 DEF RecallInv, Shape, WisdomShape, AreEntries
        <5>3. i \in DOMAIN more /\ more[i] = es[i]
          BY <4>1, <5>1, <5>2
        <5> QED
          BY <4>1, <4>2, <4>4, <5>1, <5>3
      <4> QED
        BY <4>3, <4>4
    <3> QED
      BY <3>3, <3>4
  <2> QED
    BY <2>1, <2>2
       DEF Next, Step, Lookup, TryStrategy, AskSubPlan, FinishCandidate, FinishRebuild,
           MeasureTimesOut, Measure, Expire, Terminated, vars
<1> QED
  BY <1>1, RecallIsInvariant, PTL DEF Spec, WisdomIsStable

-----------------------------------------------------------------------------
(* Whether a call is answered with a plan depends on the call alone.       *)

(* Strategy j makes no plan of the problem, whatever happens.              *)
Fails(j, p, policy) == ~Succeeds(Strategies[j], p, policy, request.fixedPoint)

FrameIsTrue(f) ==
  /\ f.best # NoPlan => IsPlannable(f.p, f.policy)
  /\ f.candidate # NoPlan => IsPlannable(f.p, f.policy)
  /\ f.pc = "measure" => f.candidate # NoPlan
  /\ f.pc = "lookup" => f.strategy = 1
  /\ f.pc \in {"search", "make"} /\ f.best = NoPlan =>
       \A j \in 1..(f.strategy - 1) : Fails(j, f.p, f.policy)
  /\ f.pc = "exit" /\ f.best = NoPlan =>
       \A j \in 1..Len(Strategies) : Fails(j, f.p, f.policy)
  /\ \A k \in 1..Len(f.answers) :
       f.answers[k] # NoPlan <=> IsPlannable(AsksOf(f)[k].p, AsksOf(f)[k].policy)

AnswersAreTrue ==
  /\ status = "done" => (result # NoPlan <=> IsPlannable(request.prob, Requested))
  /\ \A i \in 1..Len(stack) : FrameIsTrue(stack[i])

OutcomeInv == Shape /\ AnswersAreTrue

LEMMA PlannableFacts ==
  ASSUME request \in Requests
  PROVE  /\ request.fixedPoint \in BOOLEAN
         /\ \A p, policy : IsPlannable(p, policy) <=> HasPlan(p, policy, request.fixedPoint)
<1>1. request.fixedPoint \in BOOLEAN
  BY RequestsAssumption
<1> QED
  BY <1>1 DEF IsPlannable, HasPlan

LEMMA SameTruth ==
  ASSUME request' = request
  PROVE  /\ \A p, policy : IsPlannable(p, policy)' <=> IsPlannable(p, policy)
         /\ \A f : FrameIsTrue(f)' <=> FrameIsTrue(f)
<1>1. \A p, policy : IsPlannable(p, policy)' <=> IsPlannable(p, policy)
  BY DEF IsPlannable
<1>2. \A j, p, policy : Fails(j, p, policy)' <=> Fails(j, p, policy)
  BY DEF Fails
<1> QED
  BY <1>1, <1>2 DEF FrameIsTrue

LEMMA PlanIsSome == \A s, p, subs : Plan(s, p, subs) # NoPlan
<1> SUFFICES ASSUME NEW s, NEW p, NEW subs PROVE Plan(s, p, subs) # NoPlan
  OBVIOUS
<1>1. PICK plan : plan = Plan(s, p, subs)
  OBVIOUS
<1>2. DOMAIN plan = {"s", "p", "subs", "convolves", "nested"}
  BY <1>1 DEF Plan
<1>3. DOMAIN NoPlan = {"isNull"}
  BY DEF NoPlan
<1>4. "s" # "isNull"
  OBVIOUS
<1> QED
  BY <1>1, <1>2, <1>3, <1>4

(* A strategy that has all its plans makes one.                            *)
LEMMA MadePlanIsTrue ==
  ASSUME OutcomeInv, stack # << >>, InStrategy(Top), Len(Top.answers) = Len(AsksOf(Top)),
         ~GivesUp(Strategy, Top.answers)
  PROVE  MadePlan # NoPlan /\ IsPlannable(Top.p, Top.policy)
<1>1. request \in Requests /\ StackShape
  BY DEF OutcomeInv, Shape
<1>2. PICK S, n, top : /\ top = Top /\ top \in FrameType(S, Requested)
                       /\ n = Len(stack) /\ n \in 1..n /\ top = stack[n]
  BY <1>1, TopFacts
<1>3. FrameIsTrue(top)
  BY <1>2 DEF OutcomeInv, AnswersAreTrue
<1>4. PICK s, asks, k : s = Strategies[top.strategy] /\ asks = AsksOf(top) /\ k = Len(asks)
  OBVIOUS
<1>5. s \in StrategyType /\ top.p \in Problems /\ IsApplicable(s, top.p, top.policy) /\ ~IsNull(s)
  BY <1>2, <1>4, StrategiesTyped DEF FrameType, InStrategy
<1>6. Len(asks) \in IF IsConvolution(s) THEN {3, 4} ELSE {0, 1}
  BY <1>4, <1>5, AsksDescend DEF AsksAreSound, AsksOf
<1>7. DOMAIN top.answers = 1..k /\ Len(top.answers) = k
  BY <1>2, <1>4 DEF FrameType
<1>8. \A i \in 1..k : top.answers[i] # NoPlan
  <2>1. k = 0 \/ k \in IF IsConvolution(s) THEN {3, 4} ELSE {1}
    BY <1>4, <1>6
  <2>2. ~GivesUp(s, top.answers)
    BY <1>2, <1>4 DEF Strategy
  <2> QED
    BY <1>7, <2>1, <2>2 DEF GivesUp
<1>9. \A i \in 1..k : HasPlan(asks[i].p, asks[i].policy, request.fixedPoint)
  BY <1>1, <1>3, <1>4, <1>7, <1>8, PlannableFacts DEF FrameIsTrue
<1>10. Succeeds(s, top.p, top.policy, request.fixedPoint)
  BY <1>4, <1>5, <1>9 DEF Succeeds, IsNull, AsksOf
<1>11. IsPlannable(top.p, top.policy)
  BY <1>1, <1>5, <1>10, PlannableFacts, StrategiesAreSound
<1>12. MadePlan # NoPlan
  BY PlanIsSome DEF MadePlan
<1> QED
  BY <1>2, <1>11, <1>12

(* A strategy that gave up would have done so in any case.                 *)
LEMMA GaveUpFails ==
  ASSUME OutcomeInv, stack # << >>, Top.pc = "make", MakesNoPlan
  PROVE  Fails(Top.strategy, Top.p, Top.policy)
<1>1. request \in Requests /\ StackShape
  BY DEF OutcomeInv, Shape
<1>2. PICK S, n, top : /\ top = Top /\ top \in FrameType(S, Requested) /\ FrameIsWell(top)
                       /\ n = Len(stack) /\ n \in 1..n /\ top = stack[n]
  BY <1>1, TopFacts
<1>3. FrameIsTrue(top) /\ InStrategy(top)
  BY <1>2 DEF OutcomeInv, AnswersAreTrue, FrameIsWell
<1>4. PICK s, asks : s = Strategies[top.strategy] /\ asks = AsksOf(top)
  OBVIOUS
<1>5. GivesUp(s, top.answers)
  BY <1>2, <1>3, <1>4 DEF MakesNoPlan, Strategy, InStrategy
<1>6. PICK k \in 1..Len(top.answers) : top.answers[k] = NoPlan
  <2>1. DOMAIN top.answers = 1..Len(top.answers)
    BY <1>2 DEF FrameType
  <2> QED
    BY <1>5, <2>1 DEF GivesUp
<1>7. k \in 1..Len(asks)
  <2>1. Len(asks) \in Nat
    BY <1>2, <1>3, <1>4, AsksOfSound DEF InStrategy, FrameType
  <2>2. Len(top.answers) \in Nat /\ Len(top.answers) <= Len(asks)
    BY <1>2, <1>3, <1>4 DEF InStrategy, FrameType
  <2> QED
    BY <2>1, <2>2
<1>8. ~HasPlan(asks[k].p, asks[k].policy, request.fixedPoint)
  BY <1>1, <1>3, <1>4, <1>6, PlannableFacts DEF FrameIsTrue
<1> QED
  BY <1>2, <1>4, <1>7, <1>8 DEF Fails, Succeeds, AsksOf

(* When every strategy fails there is no plan.                             *)
LEMMA AllFail ==
  ASSUME request \in Requests, NEW p \in Problems, NEW policy,
         \A j \in 1..Len(Strategies) : Fails(j, p, policy)
  PROVE  ~IsPlannable(p, policy)
BY PlannableFacts, StrategiesAreComplete DEF Fails

(* No strategy from the frame's on is worth asking.                        *)
LEMMA NoneApplies ==
  ASSUME NEW f, f.strategy \in Nat \ {0}, NextApplicable(f) = {},
         NEW j \in f.strategy..Len(Strategies)
  PROVE  Fails(j, f.p, f.policy)
<1> DEFINE Able == {i \in f.strategy..Len(Strategies) :
                      ~IsNull(Strategies[i]) /\ IsApplicable(Strategies[i], f.p, f.policy)}
<1>1. Able = {}
  <2>1. SUFFICES ASSUME Able # {} PROVE FALSE
    OBVIOUS
  <2>2. PICK i \in Able : \A k \in Able : i <= k
    <3>1. Able \in SUBSET Nat
      OBVIOUS
    <3> HIDE DEF Able
    <3> QED
      BY <2>1, <3>1, LeastNumber
  <2>3. i \in f.strategy..Len(Strategies) /\ Len(Strategies) \in Nat
    BY StrategiesTyped
  <2>4. ASSUME NEW k \in f.strategy..(i - 1)
        PROVE  IsNull(Strategies[k]) \/ ~IsApplicable(Strategies[k], f.p, f.policy)
    <3>1. k \in f.strategy..Len(Strategies) /\ ~(i <= k)
      BY <2>3
    <3>2. k \notin Able
      BY <2>2, <3>1
    <3> QED
      BY <3>1, <3>2
  <2>5. i \in NextApplicable(f)
    BY <2>2, <2>4 DEF NextApplicable
  <2> QED
    BY <2>5
<1>2. j \notin Able
  BY <1>1
<1> QED
  BY <1>2 DEF Fails, Succeeds, IsNull

LEMMA CutIsTrue ==
  ASSUME OutcomeInv, request' = request, status' # "done", NEW m, NEW g, CutTo(m, g),
         FrameIsTrue(g)
  PROVE  AnswersAreTrue'
<1>1. PICK st, n : st = stack' /\ n = Len(stack)
  OBVIOUS
<1>2. /\ m \in 1..n /\ Len(st) = m /\ st[m] = g /\ \A i \in 1..(m - 1) : st[i] = stack[i]
  BY <1>1 DEF CutTo
<1>3. n \in Nat
  <2>1. PICK S : stack \in Seq(FrameType(S, Requested))
    BY DEF OutcomeInv, Shape, StackShape
  <2> QED
    BY <1>1, <2>1
<1>4. \A i \in 1..m : i = m \/ (i \in 1..(m - 1) /\ i \in 1..n)
  BY <1>2, <1>3
<1>5. \A i \in 1..m : FrameIsTrue(st[i])
  BY <1>1, <1>2, <1>4 DEF OutcomeInv, AnswersAreTrue
<1> QED
  BY <1>1, <1>2, <1>5, SameTruth DEF AnswersAreTrue

(* The active frame returns the truth about what it was asked for.         *)
LEMMA ReturnIsTrue ==
  ASSUME OutcomeInv, request' = request, status = "running", stack # << >>, NEW plan,
         Return(plan),
         plan # NoPlan <=> IsPlannable(Asked(Len(stack)).p, Asked(Len(stack)).policy)
  PROVE  AnswersAreTrue'
<1>1. request \in Requests /\ StackShape
  BY DEF OutcomeInv, Shape
<1>2. PICK S, n, ask :
        /\ stack \in Seq(FrameType(S, Requested))
        /\ n = Len(stack) /\ n \in Nat \ {0} /\ n \in 1..n
        /\ ask = Asked(n)
  BY <1>1, TopFacts
<1>3. plan # NoPlan <=> IsPlannable(ask.p, ask.policy)
  BY <1>2
<1>4. CASE n = 1
  <2>1. stack' = << >> /\ result' = plan
    BY <1>1, <1>2, <1>4, ReturnMeans
  <2>2. ask.p = request.prob /\ ask.policy = Requested
    BY <1>2, <1>4 DEF Asked
  <2>3. Len(<< >>) = 0 /\ \A i \in 1..0 : FALSE
    OBVIOUS
  <2>4. IsPlannable(request.prob, Requested)' <=> IsPlannable(request.prob, Requested)
    BY SameWell DEF IsPlannable
  <2> QED
    BY <1>3, <2>1, <2>2, <2>3, <2>4 DEF AnswersAreTrue
<1>5. CASE n # 1
  <2>1. PICK m, f, g : /\ m = n - 1 /\ f = stack[m] /\ CutTo(m, g) /\ Answered(f, g, plan)
                       /\ Waits(f) /\ status' = status
    BY <1>1, <1>2, <1>5, ReturnMeans
  <2>2. m \in 1..n /\ n # 1 /\ n - 1 = m
    BY <1>2, <1>5, <2>1
  <2>3. FrameIsTrue(f) /\ f \in FrameType(S, Requested)
    BY <1>2, <2>1, <2>2 DEF OutcomeInv, AnswersAreTrue
  <2>4. ask = AsksOf(f)[Len(f.answers) + 1]
    BY <1>2, <1>5, <2>1 DEF Asked
  <2>5. PICK before, after, k : before = f.answers /\ after = g.answers /\ k = Len(before)
    OBVIOUS
  <2>6. /\ k \in Nat /\ Len(after) = k + 1 /\ after[k + 1] = plan
        /\ \A i \in 1..k : after[i] = before[i]
    <3>1. before \in Seq(S \cup {plan}) /\ plan \in S \cup {plan}
      BY <2>3, <2>5 DEF FrameType
    <3>2. after = Append(before, plan)
      BY <2>1, <2>5 DEF Answered
    <3> QED
      BY ONLY <2>5, <3>1, <3>2
  <2>7. AsksOf(g) = AsksOf(f)
    BY <2>1 DEF Answered, AsksOf
  <2>8. \A i \in 1..(k + 1) : i \in 1..k \/ i = k + 1
    BY <2>6
  <2>9. \A i \in 1..(k + 1) :
          after[i] # NoPlan <=> IsPlannable(AsksOf(g)[i].p, AsksOf(g)[i].policy)
    BY <1>3, <2>3, <2>4, <2>5, <2>6, <2>7, <2>8 DEF FrameIsTrue
  <2>10. FrameIsTrue(g)
    <3>1. /\ g.best = f.best /\ g.candidate = f.candidate /\ g.pc = f.pc /\ g.p = f.p
          /\ g.policy = f.policy /\ g.strategy = f.strategy
      BY <2>1 DEF Answered
    <3> QED
      BY <2>3, <2>5, <2>6, <2>9, <3>1 DEF FrameIsTrue
  <2> QED
    BY <2>1, <2>10, CutIsTrue
<1> QED
  BY <1>4, <1>5

(* A frame between strategies: nothing answered yet.                       *)
LEMMA TrueBetween ==
  ASSUME NEW g, g.answers = << >>, g.best # NoPlan => IsPlannable(g.p, g.policy),
         g.candidate # NoPlan => IsPlannable(g.p, g.policy),
         g.pc # "lookup", g.pc = "measure" => g.candidate # NoPlan,
         g.pc \in {"search", "make"} /\ g.best = NoPlan =>
           \A j \in 1..(g.strategy - 1) : Fails(j, g.p, g.policy),
         g.pc = "exit" /\ g.best = NoPlan =>
           \A j \in 1..Len(Strategies) : Fails(j, g.p, g.policy)
  PROVE  FrameIsTrue(g)
<1>1. \A k \in 1..Len(g.answers) : FALSE
  OBVIOUS
<1> QED
  BY <1>1 DEF FrameIsTrue

LEMMA TruthStep == OutcomeInv /\ Step => AnswersAreTrue'
<1> SUFFICES ASSUME OutcomeInv, Step PROVE AnswersAreTrue'
  OBVIOUS
<1>1. /\ stack # << >> /\ Shape /\ request \in Requests /\ StackShape /\ request' = request
      /\ status = "running"
  BY StackStep
     DEF OutcomeInv, Shape, Step, Lookup, TryStrategy, AskSubPlan, FinishCandidate,
         FinishRebuild, MeasureTimesOut, Measure, Finish
<1>2. PICK S, n, top :
        /\ stack \in Seq(FrameType(S, Requested))
        /\ n = Len(stack) /\ n \in Nat \ {0} /\ n \in 1..n
        /\ top = Top /\ top = stack[n] /\ FrameIsWell(top) /\ top \in FrameType(S, Requested)
        /\ Answers(top, Asked(n))
  BY <1>1, TopFacts
<1>3. FrameIsTrue(top)
  BY <1>2 DEF OutcomeInv, AnswersAreTrue
<1>4. top.p \in Problems /\ top.strategy \in Nat \ {0}
  BY <1>2, StrategiesTyped DEF FrameType
<1>5. ASSUME NEW g, CutTo(n, g), status' = status, FrameIsTrue(g) PROVE AnswersAreTrue'
  BY <1>1, <1>5, CutIsTrue
<1>6. CASE Lookup
  <2>1. PICK hit, g :
          /\ CutTo(n, g) /\ g.p = top.p /\ g.answers = << >>
          /\ g.best = NoPlan /\ g.candidate = NoPlan
          /\ IF hit = NoEntry THEN g.pc = "search" /\ g.strategy = top.strategy
                              ELSE g.pc = "rebuild"
    <3>1. PICK hit : hit = WisdomLookup(top.p, top.policy)
      OBVIOUS
    <3> QED
      BY <1>1, <1>2, <1>6, <3>1, LookupMeans
  <2>2. g.pc = "search" => g.strategy = 1
    BY <1>2, <1>3, <1>6, <2>1 DEF Lookup, FrameIsTrue
  <2>3. g.pc = "search" => \A j \in 1..(g.strategy - 1) : FALSE
    BY <2>2
  <2>4. g.pc \in {"search", "rebuild"}
    BY <2>1
  <2>5. FrameIsTrue(g)
    BY <2>1, <2>3, <2>4, TrueBetween
  <2> QED
    BY <1>5, <1>6, <2>1, <2>5 DEF Lookup
<1>7. CASE TryStrategy
  <2>1. PICK g : /\ CutTo(n, g) /\ g.p = top.p /\ g.answers = << >> /\ g.policy = top.policy
                 /\ g.best = top.best /\ g.candidate = NoPlan
                 /\ \/ g.pc = "exit" /\ (OutOfTime(top) \/ NextApplicable(top) = {})
                    \/ g.pc = "make" /\ g.strategy \in NextApplicable(top)
    BY <1>1, <1>2, <1>7, TryStrategyMeans
  <2>2. top.best = NoPlan => \A j \in 1..(top.strategy - 1) : Fails(j, top.p, top.policy)
    BY <1>2, <1>3, <1>7 DEF TryStrategy, FrameIsTrue
  <2>3. g.best # NoPlan => IsPlannable(g.p, g.policy)
    BY <1>3, <2>1 DEF FrameIsTrue
  <2>4. CASE g.pc = "exit"
    <3>1. ASSUME g.best = NoPlan, NEW j \in 1..Len(Strategies)
          PROVE  Fails(j, g.p, g.policy)
      <4>1. NextApplicable(top) = {}
        BY <2>1, <2>4, <3>1 DEF OutOfTime
      <4>2. j \in 1..(top.strategy - 1) \/ j \in top.strategy..Len(Strategies)
        BY <1>4, StrategiesTyped
      <4>3. j \in top.strategy..Len(Strategies) => Fails(j, top.p, top.policy)
        BY <1>4, <4>1, NoneApplies
      <4> QED
        BY <2>1, <2>2, <3>1, <4>2, <4>3
    <3>2. FrameIsTrue(g)
      BY <2>1, <2>3, <2>4, <3>1, TrueBetween
    <3> QED
      BY <1>5, <1>7, <2>1, <3>2 DEF TryStrategy
  <2>5. CASE g.pc = "make"
    <3>1. ASSUME g.best = NoPlan, NEW j \in 1..(g.strategy - 1)
          PROVE  Fails(j, g.p, g.policy)
      <4>1. PICK i : i = g.strategy
        OBVIOUS
      <4>2. /\ i \in top.strategy..Len(Strategies)
            /\ \A k \in top.strategy..(i - 1) :
                 IsNull(Strategies[k]) \/ ~IsApplicable(Strategies[k], top.p, top.policy)
        BY <2>1, <2>5, <4>1 DEF NextApplicable
      <4>3. j \in 1..(top.strategy - 1) \/ j \in top.strategy..(i - 1)
        BY <1>4, <4>1, <4>2, StrategiesTyped
      <4>4. j \in top.strategy..(i - 1) => Fails(j, top.p, top.policy)
        BY <4>2 DEF Fails, Succeeds, IsNull
      <4> QED
        BY <2>1, <2>2, <3>1, <4>3, <4>4
    <3>2. FrameIsTrue(g)
      BY <2>1, <2>3, <2>5, <3>1, TrueBetween
    <3> QED
      BY <1>5, <1>7, <2>1, <3>2 DEF TryStrategy
  <2> QED
    BY <2>1, <2>4, <2>5
<1>8. CASE AskSubPlan
  <2>1. PICK ask, st, g : Pushes(ask) /\ st = stack' /\ g = NewFrame(ask.p, ask.policy)
    BY <1>1, <1>8, AskMeans
  <2>2. Len(st) = n + 1 /\ st[n + 1] = g /\ \A i \in 1..n : st[i] = stack[i]
    BY <1>2, <2>1 DEF Pushes
  <2>3. /\ g.answers = << >> /\ g.best = NoPlan /\ g.candidate = NoPlan
        /\ g.pc = "lookup" /\ g.strategy = 1
    BY <2>1 DEF NewFrame
  <2>4. FrameIsTrue(g)
    <3>1. \A k \in 1..Len(g.answers) : FALSE
      BY <2>3
    <3> QED
      BY <2>3, <3>1 DEF FrameIsTrue
  <2>5. \A i \in 1..(n + 1) : i \in 1..n \/ i = n + 1
    BY <1>2
  <2>6. \A i \in 1..(n + 1) : FrameIsTrue(st[i])
    BY <1>2, <2>2, <2>4, <2>5 DEF OutcomeInv, AnswersAreTrue
  <2>7. status' = "running"
    BY <1>1, <1>8 DEF AskSubPlan
  <2> QED
    BY <1>1, <2>1, <2>2, <2>6, <2>7, SameTruth DEF AnswersAreTrue
<1>9. CASE FinishCandidate
  <2>1. PICK plan : plan = MadePlan
    OBVIOUS
  <2>2. PICK g :
          /\ CutTo(n, g) /\ g.p = top.p /\ g.policy = top.policy /\ g.answers = << >>
          /\ \/ /\ g.pc = "search" /\ g.candidate = NoPlan /\ g.best = top.best
                /\ MakesNoPlan /\ g.strategy = top.strategy + 1
             \/ /\ InStrategy(top) /\ Len(top.answers) = Len(AsksOf(top))
                /\ ~GivesUp(Strategy, top.answers)
                /\ \/ g.pc = "exit" /\ g.candidate = NoPlan /\ g.best = plan
                   \/ g.pc = "measure" /\ g.candidate = plan /\ g.best = top.best
    BY <1>1, <1>2, <1>9, <2>1, CandidateMeans
  <2>3. top.best # NoPlan => IsPlannable(top.p, top.policy)
    BY <1>3 DEF FrameIsTrue
  <2>4. CASE g.pc = "search"
    <3>1. Fails(top.strategy, top.p, top.policy)
      BY <1>1, <1>2, <1>9, <2>2, <2>4, GaveUpFails DEF FinishCandidate
    <3>2. top.best = NoPlan => \A j \in 1..(top.strategy - 1) : Fails(j, top.p, top.policy)
      BY <1>2, <1>3, <1>9 DEF FinishCandidate, FrameIsTrue
    <3>3. \A j \in 1..(g.strategy - 1) : j \in 1..(top.strategy - 1) \/ j = top.strategy
      BY <1>4, <2>2, <2>4
    <3>4. g.best = NoPlan => \A j \in 1..(g.strategy - 1) : Fails(j, g.p, g.policy)
      BY <2>2, <2>4, <3>1, <3>2, <3>3
    <3>5. FrameIsTrue(g)
      BY <2>2, <2>3, <2>4, <3>4, TrueBetween
    <3> QED
      BY <1>5, <1>9, <2>2, <3>5 DEF FinishCandidate
  <2>5. CASE g.pc # "search"
    <3>1. plan # NoPlan /\ IsPlannable(top.p, top.policy)
      BY <1>1, <1>2, <2>1, <2>2, <2>5, MadePlanIsTrue
    <3>2. FrameIsTrue(g)
      BY <2>2, <2>5, <3>1, TrueBetween
    <3> QED
      BY <1>5, <1>9, <2>2, <3>2 DEF FinishCandidate
  <2> QED
    BY <2>4, <2>5
<1>10. CASE FinishRebuild
  <2>1. CASE MakesNoPlan
    <3>1. stack' = stack /\ status' = "abort"
      BY <1>10, <2>1 DEF FinishRebuild
    <3> QED
      BY <1>1, <3>1, SameTruth DEF OutcomeInv, AnswersAreTrue
  <2>2. CASE ~MakesNoPlan
    <3>1. PICK plan : plan = MadePlan
      OBVIOUS
    <3>2. Return(plan) /\ MissingAsks = << >> /\ Top.pc = "rebuild"
      BY <1>10, <2>2, <3>1 DEF FinishRebuild
    <3>3. /\ InStrategy(Top) /\ Len(Top.answers) = Len(AsksOf(Top))
          /\ ~GivesUp(Strategy, Top.answers)
      BY <1>1, <2>2, <3>2, Making
    <3>4. plan # NoPlan /\ IsPlannable(top.p, top.policy)
      BY <1>1, <1>2, <3>1, <3>3, MadePlanIsTrue
    <3>5. IsPlannable(Asked(n).p, Asked(n).policy)
      BY <1>2, <3>4 DEF Answers, IsPlannable, AllowsConvolution, Without
    <3> QED
      BY <1>1, <1>2, <3>2, <3>4, <3>5, ReturnIsTrue
  <2> QED
    BY <2>1, <2>2
<1>11. CASE MeasureTimesOut \/ \E prefers \in BOOLEAN : Measure(prefers)
  <2>1. PICK g : /\ top.pc = "measure" /\ CutTo(n, g) /\ g.p = top.p
                 /\ g.policy = top.policy /\ g.answers = << >>
                 /\ g.candidate = NoPlan /\ g.pc \in {"search", "exit"}
                 /\ g.best = top.candidate \/ (top.best # NoPlan /\ g.best = top.best)
    BY <1>1, <1>2, <1>11, MeasureMeans
  <2>2. status' = status
    BY <1>11 DEF MeasureTimesOut, Measure
  <2>3. g.best # NoPlan /\ IsPlannable(g.p, g.policy)
    BY <1>3, <2>1 DEF FrameIsTrue
  <2>4. FrameIsTrue(g)
    BY <2>1, <2>3, TrueBetween
  <2> QED
    BY <1>5, <2>1, <2>2, <2>4
<1>12. CASE Finish
  <2>1. PICK plan : plan = top.best
    OBVIOUS
  <2>2. Return(plan) /\ top.pc = "exit"
    BY <1>1, <1>2, <1>12, <2>1, FinishMeans
  <2>3. Asked(n).p = top.p /\ Asked(n).policy = top.policy
    BY <1>2, <2>2 DEF Answers
  <2>4. plan = NoPlan => ~IsPlannable(top.p, top.policy)
    BY <1>1, <1>3, <1>4, <2>1, <2>2, AllFail DEF FrameIsTrue
  <2>5. plan # NoPlan => IsPlannable(top.p, top.policy)
    BY <1>3, <2>1 DEF FrameIsTrue
  <2> QED
    BY <1>1, <1>2, <2>2, <2>3, <2>4, <2>5, ReturnIsTrue
<1> QED
  BY <1>6, <1>7, <1>8, <1>9, <1>10, <1>11, <1>12 DEF Step

LEMMA InitOutcome == Init => OutcomeInv
<1> SUFFICES ASSUME Init PROVE OutcomeInv
  OBVIOUS
<1>1. Shape
  BY InitShape
<1>2. PICK f, st : f = NewFrame(request.prob, Requested) /\ st = <<f>>
  OBVIOUS
<1>3. stack = st /\ status = "running"
  BY <1>2 DEF Init, Requested
<1>4. Len(st) = 1 /\ st[1] = f /\ \A i \in 1..1 : i = 1
  BY <1>2
<1>5. /\ f.answers = << >> /\ f.best = NoPlan /\ f.candidate = NoPlan
      /\ f.pc = "lookup" /\ f.strategy = 1
  BY <1>2 DEF NewFrame
<1>6. FrameIsTrue(f)
  <2>1. \A k \in 1..Len(f.answers) : FALSE
    BY <1>5
  <2> QED
    BY <1>5, <2>1 DEF FrameIsTrue
<1> QED
  BY <1>1, <1>3, <1>4, <1>6 DEF OutcomeInv, AnswersAreTrue

LEMMA OutcomeStep == OutcomeInv /\ [Next]_vars => OutcomeInv'
<1> SUFFICES ASSUME OutcomeInv, [Next]_vars PROVE OutcomeInv'
  OBVIOUS
<1>1. Shape'
  BY ShapeStep DEF OutcomeInv
<1>2. CASE Step
  BY <1>1, <1>2, TruthStep DEF OutcomeInv
<1>3. CASE Expire \/ Terminated \/ UNCHANGED vars
  <2>1. UNCHANGED <<request, stack, status, result>>
    BY <1>3 DEF Expire, Terminated, vars
  <2> QED
    BY <1>1, <2>1, SameTruth, SameWell DEF OutcomeInv, AnswersAreTrue
<1> QED
  BY <1>2, <1>3 DEF Next

LEMMA OutcomeIsInvariant == Spec => []OutcomeInv
BY InitOutcome, OutcomeStep, PTL DEF Spec

(* Whether a call, or any sub-problem of its search, gets a plan depends   *)
(* on the problem and on the policy it was asked with: not on the clock,   *)
(* the benchmarks or what the wisdom already held.                         *)
THEOREM OutcomesAreDetermined == Spec => []OutcomeIsDetermined
<1>1. OutcomeInv => OutcomeIsDetermined
  <2> SUFFICES ASSUME OutcomeInv PROVE OutcomeIsDetermined
    OBVIOUS
  <2>1. PICK S : stack \in Seq(FrameType(S, Requested))
    BY DEF OutcomeInv, Shape, StackShape
  <2>2. ASSUME NEW i \in DOMAIN stack, NEW k \in DOMAIN stack[i].answers
        PROVE  LET f   == stack[i]
                   ask == Asks(Strategies[f.strategy], f.p, f.policy)[k]
               IN  (f.answers[k] # NoPlan) = IsPlannable(ask.p, ask.policy)
    <3>1. i \in 1..Len(stack) /\ stack[i] \in FrameType(S, Requested)
      BY <2>1
    <3>2. PICK f : f = stack[i]
      OBVIOUS
    <3>3. FrameIsTrue(f) /\ f.answers \in Seq(S)
      BY <3>1, <3>2 DEF OutcomeInv, AnswersAreTrue, FrameType
    <3>4. k \in 1..Len(f.answers)
      BY <3>2, <3>3
    <3>5. PICK ask : ask = Asks(Strategies[f.strategy], f.p, f.policy)[k]
      OBVIOUS
    <3>6. f.answers[k] # NoPlan <=> IsPlannable(ask.p, ask.policy)
      BY <3>3, <3>4, <3>5 DEF FrameIsTrue, AsksOf
    <3>7. IsPlannable(ask.p, ask.policy) \in BOOLEAN
      BY DEF IsPlannable
    <3> QED
      BY <3>2, <3>5, <3>6, <3>7
  <2>3. status = "done" =>
          (result # NoPlan) = IsPlannable(request.prob,
                                PolicyFromOptions(request.wantSme, request.timed))
    BY DEF OutcomeInv, AnswersAreTrue, IsPlannable, Requested
  <2> QED
    BY <2>2, <2>3 DEF OutcomeIsDetermined
<1> QED
  BY <1>1, OutcomeIsInvariant, PTL

-----------------------------------------------------------------------------
(* The planner answers as Planning promises.                               *)

(* The plan is that of a strategy the policy of the ask allows, with       *)
(* sub-plans that M relates to what the strategy asks for.                 *)
MadeFor(plan, ask, fixedPoint, M) ==
  \E i \in 1..Len(Strategies) : \E policy \in {ask.policy, Without(ask.policy)} :
    /\ ~(fixedPoint /\ IsConvolution(Strategies[i]))
    /\ IsApplicable(Strategies[i], ask.p, policy)
    /\ plan = Plan(Strategies[i], ask.p, plan.subs)
    /\ Len(plan.subs) = Len(Asks(Strategies[i], ask.p, policy))
    /\ \A k \in 1..Len(plan.subs) :
         <<plan.subs[k], Asks(Strategies[i], ask.p, policy)[k]>> \in M

(* So is every plan it is made of.                                         *)
Solves(plan, ask, fixedPoint) ==
  \E M : /\ <<plan, ask>> \in M
         /\ \A m \in M : MadeFor(m[1], m[2], fixedPoint, M)

SolvesRequest(plan, req) ==
  Solves(plan, [p |-> req.prob, policy |-> PolicyFromOptions(req.wantSme, req.timed)],
         req.fixedPoint)

PlannableCall(req) ==
  \/ AllowsConvolution(PolicyFromOptions(req.wantSme, req.timed)) /\ ~req.fixedPoint
  \/ IsProductOfBase(req.prob.n)

Phase == IF status = "running" THEN "asked" ELSE "answered"

Promise == INSTANCE Planning WITH
  None      <- NoPlan,
  Plannable <- PlannableCall,
  Serves    <- SolvesRequest,
  phase     <- Phase,
  answer    <- result

(* What the wisdom has for an ask solves it.                               *)
LEMMA HeldIsMade ==
  ASSUME RecallInv, NEW ask \in KeyType, NEW plan, Held(ask, plan)
  PROVE  \E i \in 1..Len(Strategies), policy \in {ask.policy, Without(ask.policy)} :
           /\ Built(plan, i, ask.p, policy)
           /\ policy \in {Requested, Without(Requested)} /\ ask.p \in Problems
<1>1. request \in Requests /\ WisdomShape /\ AllowsConvolution(Requested)
  BY RequestedFacts DEF RecallInv, Shape
<1>2. PICK p, policy, hit : /\ p = ask.p /\ policy = ask.policy
                            /\ hit = WisdomLookup(p, policy)
  OBVIOUS
<1>3. hit # NoEntry /\ found[<<p, hit.policy>>] = plan
  BY <1>2 DEF Held
<1>4. EntryIsBuilt(p, hit) /\ hit \in EntriesUnder(Requested)
  BY <1>2, <1>3, HitIsAnEntry
<1>5. Built(plan, hit.strategy, p, hit.policy)
  BY <1>3, <1>4 DEF EntryIsBuilt
<1>6. hit.policy \in {policy, Without(policy)}
  <2>1. PICK P, es : P = Requested /\ es = WisdomEntries(p)
    OBVIOUS
  <2>2. AreEntries(es, P)
    <3>1. AreEntries(<< >>, P)
      BY DEF AreEntries
    <3> QED
      BY <1>1, <2>1, <3>1 DEF WisdomEntries, WisdomShape
  <2>3. policy \in {P, Without(P)} /\ AllowsConvolution(P)
    BY <1>1, <1>2, <2>1 DEF KeyType
  <2>4. hit = BestEntry(es, policy)
    BY <1>2, <2>1 DEF WisdomLookup
  <2>5. hit.policy = policy \/ (policy = P /\ hit.policy = Without(P))
    BY ONLY <1>3, <2>2, <2>3, <2>4, EntryOfPolicy
  <2> QED
    BY <2>5
<1> QED
  BY <1>2, <1>4, <1>5, <1>6 DEF EntriesUnder, KeyType

LEMMA HeldSolves ==
  ASSUME RecallInv, NEW ask \in KeyType, NEW plan, Held(ask, plan)
  PROVE  Solves(plan, ask, request.fixedPoint)
<1>1. PICK F, M, fixed : /\ F = {found[x] : x \in DOMAIN found}
                         /\ M = {m \in F \X KeyType : Held(m[2], m[1])}
                         /\ fixed = request.fixedPoint
  OBVIOUS
<1>2. ASSUME NEW a \in KeyType, NEW q, Held(a, q) PROVE <<q, a>> \in M
  BY <1>1, <1>2 DEF Held
<1>3. ASSUME NEW m \in M PROVE MadeFor(m[1], m[2], fixed, M)
  <2>1. PICK q, a : m = <<q, a>> /\ a \in KeyType /\ Held(a, q)
    BY <1>1
  <2>2. PICK i \in 1..Len(Strategies), policy \in {a.policy, Without(a.policy)} :
          /\ Built(q, i, a.p, policy)
          /\ policy \in {Requested, Without(Requested)} /\ a.p \in Problems
    BY <2>1, HeldIsMade
  <2>3. PICK p, s, asks : p = a.p /\ s = Strategies[i] /\ asks = Asks(s, p, policy)
    OBVIOUS
  <2>4. ~IsNull(s) /\ IsApplicable(s, p, policy)
    BY <2>2, <2>3 DEF Built
  <2>5. PICK subs : /\ Len(subs) = Len(asks) /\ q = Plan(s, p, subs)
                    /\ \A k \in 1..Len(subs) : Held(asks[k], subs[k])
    BY <2>2, <2>3 DEF Built
  <2>6. q.subs = subs
    BY <2>5 DEF Plan
  <2>7. \A k \in 1..Len(asks) : asks[k] \in KeyType
    BY <2>2, <2>3, <2>4, AskOfFrame DEF RecallInv, Shape
  <2>8. \A k \in 1..Len(subs) : <<subs[k], asks[k]>> \in M
    BY <1>2, <2>5, <2>7
  <2> QED
    BY <1>1, <2>1, <2>2, <2>3, <2>4, <2>5, <2>6, <2>8 DEF MadeFor, IsNull
<1>4. <<plan, ask>> \in M
  BY <1>2
<1> QED
  BY <1>1, <1>3, <1>4 DEF Solves

PromiseInv == RecallInv /\ OutcomeInv /\ ResultIsHeld /\ (status = "running" => result = NoPlan)

LEMMA ResultStep == RecallInv /\ ResultIsHeld /\ [Next]_vars => ResultIsHeld'
<1> SUFFICES ASSUME RecallInv, ResultIsHeld, [Next]_vars PROVE ResultIsHeld'
  OBVIOUS
<1>1. CASE Finish \/ FinishRebuild
  <2>1. request' = request
    BY <1>1 DEF Finish, FinishRebuild
  <2> QED
    BY <1>1, <2>1, FinishStep, RebuildStep
<1>2. CASE UNCHANGED <<request, wisdom, status, result, found>> /\ status = "running"
  BY <1>2 DEF ResultIsHeld
<1>3. CASE UNCHANGED <<request, wisdom, stack, status, result, found>>
  <2>1. Flight' = Flight /\ Call' = Call
    BY <1>3, SameWell DEF Flight, Call
  <2>2. \A ask, plan : Held(ask, plan)' <=> Held(ask, plan)
    BY <1>3, <2>1 DEF Held, WisdomLookup, WisdomEntries
  <2> QED
    BY <1>3, <2>1, <2>2 DEF ResultIsHeld
<1> QED
  BY <1>1, <1>2, <1>3
     DEF Next, Step, Lookup, TryStrategy, AskSubPlan, FinishCandidate, MeasureTimesOut,
         Measure, Expire, Terminated, vars

LEMMA UnansweredStep ==
  ASSUME Shape, status = "running" => result = NoPlan, [Next]_vars
  PROVE  /\ status' = "running" => result' = NoPlan
         /\ request' = request
         /\ status # "running" => status' = status /\ result' = result
         /\ status = "running" /\ status' = status => result' = result
<1>1. CASE Finish
  <2>1. Return(Top.best) /\ status = "running" /\ stack # << >>
    BY <1>1, FinishMeans DEF Finish, Shape
  <2> QED
    BY <1>1, <2>1, ReturnMeans DEF Finish, Shape
<1>2. CASE FinishRebuild
  <2>1. status = "running" /\ stack # << >> /\ request' = request
    BY <1>2 DEF FinishRebuild, Shape
  <2>2. \/ status' = "abort" /\ result' = result
        \/ Return(MadePlan)
    BY <1>2 DEF FinishRebuild
  <2> QED
    BY <2>1, <2>2, ReturnMeans DEF Shape
<1>3. CASE UNCHANGED <<request, status, result>>
  BY <1>3
<1> QED
  BY <1>1, <1>2, <1>3
     DEF Next, Step, Lookup, TryStrategy, AskSubPlan, FinishCandidate, MeasureTimesOut,
         Measure, Expire, Terminated, vars

(* A returned plan solves what the call asked for.                         *)
ResultServes == status = "done" /\ result # NoPlan => SolvesRequest(result, request)

LEMMA HeldServes == RecallInv /\ ResultIsHeld => ResultServes
<1> SUFFICES ASSUME RecallInv, ResultIsHeld, status = "done", result # NoPlan
             PROVE  SolvesRequest(result, request)
  BY DEF ResultServes
<1>1. Call \in KeyType
  BY RequestedFacts DEF RecallInv, Shape, Call, KeyType
<1>2. Held(Call, result)
  BY DEF ResultIsHeld
<1> QED
  BY <1>1, <1>2, HeldSolves DEF SolvesRequest, Call, Requested

(* A call ends as Planning lets it: with a plan that solves the problem,   *)
(* down to its kernels, by strategies the policy of the call allows, if    *)
(* the problem can be planned, and with nullptr otherwise.                 *)
THEOREM PlannerKeepsItsPromise == Spec => Promise!Safety
<1>1. Init => PromiseInv /\ Promise!Init
  <2> SUFFICES ASSUME Init PROVE PromiseInv /\ Promise!Init
    OBVIOUS
  <2>1. RecallInv /\ OutcomeInv
    BY InitRecall, InitOutcome
  <2> QED
    BY <2>1 DEF Init, PromiseInv, ResultIsHeld, Promise!Init, Phase
<1>2. PromiseInv /\ [Next]_vars => PromiseInv'
  BY RecallStep, OutcomeStep, ResultStep, UnansweredStep DEF PromiseInv, OutcomeInv
<1>3. PromiseInv /\ PromiseInv' /\ [Next]_vars
        => [Promise!Next]_<<Phase, request, result>>
  <2> SUFFICES ASSUME PromiseInv, PromiseInv', [Next]_vars
               PROVE  [Promise!Next]_<<Phase, request, result>>
    OBVIOUS
  <2>1. /\ request' = request
        /\ status # "running" => status' = status /\ result' = result
        /\ status = "running" /\ status' = status => result' = result
    BY UnansweredStep DEF PromiseInv, OutcomeInv
  <2>2. CASE status = "running" /\ status' # "running"
    <3>1. Phase = "asked" /\ Phase' = "answered"
      BY <2>2 DEF Phase
    <3>2. status' = "done"
      BY <2>2 DEF PromiseInv, RecallInv, Shape
    <3>3. result' # NoPlan <=> PlannableCall(request')
      BY <3>2 DEF PromiseInv, OutcomeInv, AnswersAreTrue, IsPlannable, PlannableCall, Requested
    <3>4. result' # NoPlan => SolvesRequest(result', request')
      <4>1. ResultServes'
        BY HeldServes, PTL DEF PromiseInv
      <4> QED
        BY <3>2, <4>1 DEF ResultServes
    <3>5. Promise!Answer
      BY <2>1, <3>1, <3>3, <3>4 DEF Promise!Answer
    <3> QED
      BY <3>5 DEF Promise!Next
  <2>3. CASE ~(status = "running" /\ status' # "running")
    BY <2>1, <2>3 DEF Phase
  <2> QED
    BY <2>2, <2>3
<1> QED
  BY <1>1, <1>2, <1>3, PTL DEF Spec, Promise!Safety

==============================================================================
