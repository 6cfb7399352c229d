---------------------------- MODULE InductionLemmas ----------------------------
(***************************************************************************)
(* Facts about natural numbers.  Induction is stated to the first order: a *)
(* set of numbers that is not empty has a least element, so a statement    *)
(* that fails somewhere fails somewhere first; and what is built step by   *)
(* step from a first value exists up to every number.  The same for finite *)
(* sets, which lose an element at each step, and for recursion along a     *)
(* measure.                                                                *)
(***************************************************************************)
EXTENDS Integers, FiniteSetTheorems, WellFoundedInduction, TLAPS

(* Division with remainder.                                                *)
LEMMA DivisionFacts ==
  ASSUME NEW n \in Nat, NEW d \in Nat \ {0}
  PROVE  /\ n \div d \in Nat /\ n % d \in 0..(d - 1)
         /\ n = d * (n \div d) + (n % d)
  BY SMT

(* A multiple is divided exactly.                                          *)
LEMMA ExactDivision ==
  ASSUME NEW q \in Nat, NEW d \in Nat \ {0}
  PROVE  (d * q) \div d = q /\ (d * q) % d = 0
  BY SMT

LEMMA LeastNumber ==
  ASSUME NEW S \in SUBSET Nat, S # {}
  PROVE  \E least \in S : \A k \in S : least <= k
<1>1. \E m \in S : \A k \in S : <<k, m>> \notin OpToRel(<, Nat)
  BY NatLessThanWellFounded, WFMin
<1>2. PICK m \in S : \A k \in S : <<k, m>> \notin OpToRel(<, Nat)
  BY <1>1
<1>3. \A k \in S : ~(k < m)
  BY <1>2 DEF OpToRel
<1> QED
  BY <1>3

(* What holds at 0 and passes from each number to the next holds of all.   *)
LEMMA SetInduction ==
  ASSUME NEW S \in SUBSET Nat, 0 \in S, \A k \in S : k + 1 \in S
  PROVE  S = Nat
<1> DEFINE Bad == Nat \ S
<1>1. SUFFICES ASSUME Bad # {} PROVE FALSE
  OBVIOUS
<1>2. PICK m \in Bad : \A k \in Bad : m <= k
  BY <1>1, LeastNumber
<1>3. m \in Nat /\ m # 0 /\ m \notin S
  OBVIOUS
<1>4. m - 1 \in Nat /\ m - 1 \notin Bad
  BY <1>2, <1>3
<1> QED
  BY <1>3, <1>4

(* Primitive recursion up to n: one more step, and then any number of      *)
(* steps.                                                                  *)
Recurs(f, first, step, n) ==
  /\ f = [i \in 0..n |-> f[i]]
  /\ \A i \in 0..n : f[i] = IF i = 0 THEN first ELSE step[<<f[i - 1], i>>]

LEMMA RecursionExtends ==
  ASSUME NEW S, NEW first \in S, NEW step \in [S \X Nat -> S], NEW n \in Nat,
         NEW f \in [0..n -> S], Recurs(f, first, step, n)
  PROVE  \E g \in [0..(n + 1) -> S] : Recurs(g, first, step, n + 1)
<1> DEFINE last == step[<<f[n], n + 1>>]
           g == [i \in 0..(n + 1) |-> IF i = n + 1 THEN last ELSE f[i]]
<1>0. \A i \in 0..n : f[i] = IF i = 0 THEN first ELSE step[<<f[i - 1], i>>]
  BY DEF Recurs
<1>1. last \in S
  <2>1. f[n] \in S /\ n + 1 \in Nat
    OBVIOUS
  <2>2. <<f[n], n + 1>> \in S \X Nat
    BY <2>1
  <2> QED
    BY <2>2
<1> HIDE DEF last
<1>2. g \in [0..(n + 1) -> S] /\ g = [i \in 0..(n + 1) |-> g[i]]
  BY <1>1
<1>3. \A i \in 0..n : g[i] = f[i]
  OBVIOUS
<1>4. g[n + 1] = last
  OBVIOUS
<1> HIDE DEF g
<1>5. ASSUME NEW i \in 0..(n + 1)
      PROVE  g[i] = IF i = 0 THEN first ELSE step[<<g[i - 1], i>>]
  <2>1. CASE i = n + 1
    <3>1. i # 0 /\ i - 1 = n /\ g[n] = f[n]
      BY <1>3, <2>1
    <3> QED
      BY <1>4, <2>1, <3>1 DEF last
  <2>2. CASE i # n + 1
    <3>1. i \in 0..n /\ (i # 0 => i - 1 \in 0..n)
      BY <2>2
    <3> QED
      BY <1>0, <1>3, <3>1
  <2> QED
    BY <2>1, <2>2
<1> QED
  BY <1>2, <1>5 DEF Recurs

LEMMA RecursionExists ==
  ASSUME NEW S, NEW first \in S, NEW step \in [S \X Nat -> S]
  PROVE  \A n \in Nat : \E f \in [0..n -> S] : Recurs(f, first, step, n)
<1> DEFINE Good == {n \in Nat : \E f \in [0..n -> S] : Recurs(f, first, step, n)}
<1>1. \E f \in [0..0 -> S] : Recurs(f, first, step, 0)
  <2> DEFINE f == [i \in 0..0 |-> first]
  <2>1. f \in [0..0 -> S] /\ Recurs(f, first, step, 0)
    BY DEF Recurs
  <2> QED
    BY <2>1
<1>2. Good = Nat
  <2>1. Good \in SUBSET Nat /\ 0 \in Good
    BY <1>1
  <2>2. ASSUME NEW k \in Good PROVE k + 1 \in Good
    <3>1. PICK f \in [0..k -> S] : Recurs(f, first, step, k)
      OBVIOUS
    <3>2. k \in Nat /\ k + 1 \in Nat
      OBVIOUS
    <3>3. \E g \in [0..(k + 1) -> S] : Recurs(g, first, step, k + 1)
      <4> HIDE DEF Good
      <4> QED
        BY <3>1, <3>2, RecursionExtends, Zenon
    <3> QED
      BY <3>2, <3>3
  <2> HIDE DEF Good
  <2> QED
    BY <2>1, <2>2, SetInduction
<1> QED
  BY <1>2

-----------------------------------------------------------------------------
(* Recursion along a measure: the value at x uses values at elements of    *)
(* lesser measure only, as the definition of a recursive function does.    *)

LessThan(D, measure, x) == {y \in D : measure[y] < measure[x]}

(* What holds at x when it holds at all that is less holds of all.         *)
LEMMA MeasureInduction ==
  ASSUME NEW D, NEW measure \in [D -> Nat], NEW Good,
         \A x \in D : LessThan(D, measure, x) \subseteq Good => x \in Good
  PROVE  D \subseteq Good
<1> DEFINE Bad == {x \in D : x \notin Good}
           Sizes == {measure[x] : x \in Bad}
<1>1. SUFFICES ASSUME Bad # {} PROVE FALSE
  OBVIOUS
<1>2. Sizes \in SUBSET Nat /\ Sizes # {}
  BY <1>1
<1>3. PICK m \in Sizes : \A k \in Sizes : m <= k
  <2> HIDE DEF Sizes
  <2> QED
    BY <1>2, LeastNumber
<1>4. PICK x \in Bad : measure[x] = m
  BY <1>3
<1>5. LessThan(D, measure, x) \subseteq Good
  <2>1. ASSUME NEW y \in D, measure[y] < measure[x], y \in Bad PROVE FALSE
    <3>1. measure[y] \in Sizes /\ measure[y] \in Nat /\ m \in Nat
      BY <2>1, <1>2, <1>3
    <3>2. m <= measure[y]
      BY <3>1, <1>3
    <3> QED
      BY <3>1, <3>2, <2>1, <1>4
  <2> QED
    BY <2>1 DEF LessThan
<1> QED
  BY <1>4, <1>5

(* The values at the elements of measure below n are what the steps make   *)
(* them.                                                                   *)
SolvesBelow(f, D, measure, step, n) ==
  \A x \in D : measure[x] < n => f[x] = step[<<x, f>>]

AgreeBelow(f, g, D, measure, n) == \A x \in D : measure[x] < n => f[x] = g[x]

(* The step at x does not see values at elements that are not less.        *)
Descends(D, S, measure, step) ==
  \A x \in D : \A f, g \in [D -> S] :
    (\A y \in D : measure[y] < measure[x] => f[y] = g[y]) => step[<<x, f>>] = step[<<x, g>>]

LEMMA SolutionsAgree ==
  ASSUME NEW D, NEW S, NEW measure \in [D -> Nat], NEW step \in [D \X [D -> S] -> S],
         Descends(D, S, measure, step), NEW n \in Nat,
         NEW f \in [D -> S], NEW g \in [D -> S],
         SolvesBelow(f, D, measure, step, n), SolvesBelow(g, D, measure, step, n)
  PROVE  AgreeBelow(f, g, D, measure, n)
<1> DEFINE Good == {x \in D : measure[x] < n => f[x] = g[x]}
<1>1. ASSUME NEW x \in D, LessThan(D, measure, x) \subseteq Good PROVE x \in Good
  <2>1. SUFFICES ASSUME measure[x] < n PROVE f[x] = g[x]
    OBVIOUS
  <2>2. \A y \in D : measure[y] < measure[x] => f[y] = g[y]
    <3>1. ASSUME NEW y \in D, measure[y] < measure[x] PROVE f[y] = g[y]
      <4>1. measure[y] \in Nat /\ measure[x] \in Nat
        OBVIOUS
      <4>2. measure[y] < n
        BY <2>1, <3>1, <4>1
      <4>3. y \in Good
        BY <1>1, <3>1 DEF LessThan
      <4> QED
        BY <4>2, <4>3
    <3> QED
      BY <3>1
  <2>3. step[<<x, f>>] = step[<<x, g>>]
    BY <2>2 DEF Descends
  <2> QED
    BY <2>1, <2>3 DEF SolvesBelow
<1> HIDE DEF Good
<1>2. D \subseteq Good
  BY <1>1, MeasureInduction
<1> QED
  BY <1>2 DEF Good, AgreeBelow

IsSolvable(D, S, step) == \E f \in [D -> S] : \A x \in D : f[x] = step[<<x, f>>]

LEMMA RecursionByMeasure ==
  ASSUME NEW D, NEW S, NEW nothing \in S,
         NEW measure \in [D -> Nat], NEW step \in [D \X [D -> S] -> S],
         Descends(D, S, measure, step)
  PROVE  IsSolvable(D, S, step)
<1> DEFINE Built(n) == \E f \in [D -> S] : SolvesBelow(f, D, measure, step, n)
           Sizes == {n \in Nat : Built(n)}
<1>1. Built(0)
  <2> DEFINE f == [x \in D |-> nothing]
  <2>1. f \in [D -> S] /\ SolvesBelow(f, D, measure, step, 0)
    BY DEF SolvesBelow
  <2> QED
    BY <2>1
<1>2. ASSUME NEW n \in Nat, Built(n) PROVE Built(n + 1)
  <2>1. PICK f \in [D -> S] : SolvesBelow(f, D, measure, step, n)
    BY <1>2
  <2> DEFINE g == [x \in D |-> step[<<x, f>>]]
  <2>2. g \in [D -> S]
    OBVIOUS
  <2>3. ASSUME NEW x \in D, measure[x] < n + 1 PROVE g[x] = step[<<x, g>>]
    <3>1. ASSUME NEW y \in D, measure[y] < measure[x] PROVE f[y] = g[y]
      <4>1. measure[y] \in Nat /\ measure[x] \in Nat
        OBVIOUS
      <4>2. measure[y] < n
        BY <2>3, <3>1, <4>1
      <4> QED
        BY <2>1, <4>2 DEF SolvesBelow
    <3>2. step[<<x, f>>] = step[<<x, g>>]
      <4> HIDE DEF g
      <4> QED
        BY <2>1, <2>2, <3>1 DEF Descends
    <3> QED
      BY <3>2
  <2> HIDE DEF g
  <2> QED
    BY <2>2, <2>3 DEF SolvesBelow
<1>3. Sizes = Nat
  <2>1. Sizes \in SUBSET Nat /\ 0 \in Sizes
    BY <1>1
  <2>2. \A k \in Sizes : k + 1 \in Sizes
    BY <1>2
  <2> HIDE DEF Sizes
  <2> QED
    BY <2>1, <2>2, SetInduction
<1> DEFINE best == [n \in Nat |-> CHOOSE f \in [D -> S] : SolvesBelow(f, D, measure, step, n)]
<1>4. \A n \in Nat : best[n] \in [D -> S] /\ SolvesBelow(best[n], D, measure, step, n)
  BY <1>3
<1> DEFINE h == [x \in D |-> best[measure[x] + 1][x]]
<1> HIDE DEF best
<1>5. \A n \in Nat : \A f, g \in [D -> S] :
        SolvesBelow(f, D, measure, step, n) /\ SolvesBelow(g, D, measure, step, n)
          => AgreeBelow(f, g, D, measure, n)
  <2> SUFFICES ASSUME NEW n \in Nat, NEW f \in [D -> S], NEW g \in [D -> S],
                      SolvesBelow(f, D, measure, step, n), SolvesBelow(g, D, measure, step, n)
               PROVE  AgreeBelow(f, g, D, measure, n)
    OBVIOUS
  <2> HIDE DEF Built, Sizes
  <2> QED
    BY SolutionsAgree
<1>6. h \in [D -> S]
  BY <1>4
<1>7. ASSUME NEW x \in D PROVE h[x] = step[<<x, h>>]
  <2>1. PICK m \in Nat : m = measure[x]
    OBVIOUS
  <2>2. PICK f \in [D -> S] : f = best[m + 1] /\ SolvesBelow(f, D, measure, step, m + 1)
    BY <1>4, <2>1
  <2>3. ASSUME NEW y \in D, measure[y] < m PROVE h[y] = f[y]
    <3>1. PICK k \in Nat : k = measure[y]
      OBVIOUS
    <3>2. PICK e \in [D -> S] : e = best[k + 1] /\ SolvesBelow(e, D, measure, step, k + 1)
      BY <1>4, <3>1
    <3>3. SolvesBelow(f, D, measure, step, k + 1)
      <4>1. \A z \in D : measure[z] < k + 1 => measure[z] < m + 1
        BY <2>3, <3>1
      <4> QED
        BY <2>2, <4>1 DEF SolvesBelow
    <3>4. e[y] = f[y]
      <4>1. k + 1 \in Nat /\ measure[y] < k + 1
        BY <3>1
      <4>2. \A z \in D : measure[z] < k + 1 => e[z] = f[z]
        <5> PICK n \in Nat : n = k + 1
          BY <4>1
        <5> QED
          BY <1>5, <3>2, <3>3 DEF AgreeBelow
      <4> QED
        BY <4>1, <4>2
    <3> QED
      BY <3>1, <3>2, <3>4
  <2>4. f[x] = step[<<x, f>>] /\ h[x] = f[x]
    <3>1. measure[x] < m + 1
      BY <2>1
    <3> QED
      BY <2>1, <2>2, <3>1 DEF SolvesBelow
  <2>5. step[<<x, f>>] = step[<<x, h>>]
    <3> HIDE DEF h
    <3> QED
      BY <1>6, <2>1, <2>2, <2>3 DEF Descends
  <2> QED
    BY <2>4, <2>5
<1> HIDE DEF h
<1> QED
  BY <1>6, <1>7 DEF IsSolvable

-----------------------------------------------------------------------------
(* Folds.  The community modules define a fold by a recursive function on  *)
(* the subsets of a domain, which takes an element away at each step: what *)
(* picks that element is a function here, for the lemmas to speak of it.   *)

Picks(pick, S) == \A s \in SUBSET S : s # {} => pick[s] \in s

(* What the empty set has, and a set has when it has it without the        *)
(* element picked from it, every finite set has.                           *)
LEMMA SubsetInduction ==
  ASSUME NEW S, IsFiniteSet(S), NEW pick, Picks(pick, S),
         NEW Good, {} \in Good,
         \A s \in SUBSET S : s # {} /\ s \ {pick[s]} \in Good => s \in Good
  PROVE  \A s \in SUBSET S : s \in Good
<1> DEFINE Sized(m) == \A s \in SUBSET S : Cardinality(s) = m => s \in Good
           Sizes == {m \in Nat : Sized(m)}
<1>1. \A s \in SUBSET S : IsFiniteSet(s) /\ Cardinality(s) \in Nat
  BY FS_Subset, FS_CardinalityType
<1>2. Sized(0)
  <2>1. \A s \in SUBSET S : Cardinality(s) = 0 => s = {}
    BY <1>1, FS_EmptySet, Zenon
  <2> QED
    BY <2>1
<1>3. ASSUME NEW m \in Nat, Sized(m) PROVE Sized(m + 1)
  <2>1. SUFFICES ASSUME NEW s \in SUBSET S, Cardinality(s) = m + 1 PROVE s \in Good
    OBVIOUS
  <2>2. s # {} /\ pick[s] \in s /\ s \ {pick[s]} \in SUBSET S
    BY <1>1, <2>1, FS_EmptySet DEF Picks
  <2>3. Cardinality(s \ {pick[s]}) = m
    <3>1. IsFiniteSet(s) /\ Cardinality(s) \in Nat
      BY <1>1
    <3>2. Cardinality(s \ {pick[s]}) = Cardinality(s) - 1
      BY <2>2, <3>1, FS_RemoveElement
    <3> QED
      BY <2>1, <3>2
  <2> QED
    BY <1>3, <2>2, <2>3
<1>4. Sizes = Nat
  <2>1. Sizes \in SUBSET Nat /\ 0 \in Sizes
    BY <1>2
  <2>2. \A k \in Sizes : k + 1 \in Sizes
    BY <1>3
  <2> HIDE DEF Sizes
  <2> QED
    BY <2>1, <2>2, SetInduction
<1> QED
  BY <1>1, <1>4

(* A fold whose steps stay in a set has a value for every finite domain.   *)
Folds(f, pick, base, step, D) ==
  \A s \in D : f[s] = IF s = {} THEN base ELSE step[<<f[s \ {pick[s]}], pick[s]>>]

(* Such a fold exists over every finite set, whatever picks the elements:  *)
(* so the CHOOSE by which the community modules define one has a value.    *)
LEMMA FoldExists ==
  ASSUME NEW S, IsFiniteSet(S), NEW pick, Picks(pick, S),
         NEW W, NEW base \in W, NEW step \in [W \X S -> W]
  PROVE  \E f \in [SUBSET S -> W] : Folds(f, pick, base, step, SUBSET S)
<1> DEFINE Level(m) == {s \in SUBSET S : Cardinality(s) <= m}
           Built(m) == \E f \in [Level(m) -> W] : Folds(f, pick, base, step, Level(m))
           Sizes == {m \in Nat : Built(m)}
<1>1. \A s \in SUBSET S : IsFiniteSet(s) /\ Cardinality(s) \in Nat
  BY FS_Subset, FS_CardinalityType
<1>2. Built(0)
  <2> DEFINE f == [s \in Level(0) |-> base]
  <2>1. \A s \in SUBSET S : Cardinality(s) = 0 => s = {}
    BY <1>1, FS_EmptySet, Zenon
  <2>2. f \in [Level(0) -> W] /\ Folds(f, pick, base, step, Level(0))
    BY <1>1, <2>1 DEF Folds
  <2> QED
    BY <2>2
<1>3. ASSUME NEW m \in Nat, Built(m) PROVE Built(m + 1)
  <2>1. PICK f \in [Level(m) -> W] : Folds(f, pick, base, step, Level(m))
    BY <1>3
  <2> DEFINE g == [s \in Level(m + 1) |->
                     IF s = {} THEN base ELSE step[<<f[s \ {pick[s]}], pick[s]>>]]
  <2>2. ASSUME NEW s \in Level(m + 1), s # {}
        PROVE  pick[s] \in S /\ s \ {pick[s]} \in Level(m)
    <3>1. pick[s] \in s /\ s \in SUBSET S
      BY <2>2 DEF Picks
    <3>2. Cardinality(s \ {pick[s]}) = Cardinality(s) - 1 /\ s \ {pick[s]} \in SUBSET S
      BY <1>1, <3>1, FS_RemoveElement
    <3> QED
      BY <1>1, <3>1, <3>2
  <2>3. g \in [Level(m + 1) -> W]
    BY <2>2
  <2>4. ASSUME NEW s \in Level(m) PROVE s \in Level(m + 1) /\ g[s] = f[s]
    <3>1. s \in Level(m + 1)
      BY <1>1
    <3> QED
      BY <2>1, <3>1 DEF Folds
  <2>5. \A s \in Level(m + 1) : g[s] = IF s = {} THEN base ELSE step[<<g[s \ {pick[s]}], pick[s]>>]
    BY <2>2, <2>4
  <2> QED
    BY <2>3, <2>5 DEF Folds
<1> HIDE DEF Built
<1>4. Sizes = Nat
  <2>1. Sizes \in SUBSET Nat /\ 0 \in Sizes
    BY <1>2
  <2>2. \A k \in Sizes : k + 1 \in Sizes
    BY <1>3
  <2> HIDE DEF Sizes
  <2> QED
    BY <2>1, <2>2, SetInduction
<1>5. Cardinality(S) \in Nat /\ Level(Cardinality(S)) = SUBSET S
  BY <1>1, FS_Subset, FS_CardinalityType
<1>6. Built(Cardinality(S))
  BY <1>4, <1>5
<1> QED
  BY <1>5, <1>6 DEF Built

(* A finite set of numbers that is not empty has a largest and a least.    *)
LEMMA FiniteBounds ==
  ASSUME NEW S \in SUBSET Int, IsFiniteSet(S), S # {}
  PROVE  \E m, n \in S : \A k \in S : n <= k /\ k <= m
<1> DEFINE pick == [s \in SUBSET S |-> CHOOSE x \in s : TRUE]
           Good == {s \in SUBSET S : s = {} \/ \E m, n \in s : \A k \in s : n <= k /\ k <= m}
<1>1. Picks(pick, S)
  BY DEF Picks
<1>2. {} \in Good
  OBVIOUS
<1>3. ASSUME NEW s \in SUBSET S, s # {}, s \ {pick[s]} \in Good PROVE s \in Good
  <2> DEFINE x == pick[s]
  <2>1. x \in s /\ x \in Int
    BY <1>1, <1>3 DEF Picks
  <2> HIDE DEF pick
  <2>2. CASE s \ {x} = {}
    <3>1. \A k \in s : x <= k /\ k <= x
      BY <2>1, <2>2
    <3> QED
      BY <2>1, <3>1
  <2>3. CASE s \ {x} # {}
    <3>1. PICK m, n \in s \ {x} : \A k \in s \ {x} : n <= k /\ k <= m
      BY <1>3, <2>3
    <3> DEFINE high == IF m <= x THEN x ELSE m
               low == IF x <= n THEN x ELSE n
    <3>2. high \in s /\ low \in s /\ \A k \in s : low <= k /\ k <= high
      BY <2>1, <3>1
    <3> HIDE DEF high, low
    <3> QED
      BY <3>2
  <2> QED
    BY <2>2, <2>3
<1>4. S \in Good
  <2> HIDE DEF pick, Good
  <2> QED
    BY <1>1, <1>2, <1>3, SubsetInduction
<1> QED
  BY <1>4

=============================================================================
