---------------------------- MODULE RegAllocProofs ----------------------------
(***************************************************************************)
(* Proofs about the register allocator, for every function it may be       *)
(* given, every number of registers and every choice of victims: registers *)
(* that are live at once never share a physical register, the sweeps find  *)
(* the live sets, and no operand is left without a physical register.      *)
(***************************************************************************)
EXTENDS CompiledCode, InductionLemmas, FiniteSetTheorems

-----------------------------------------------------------------------------
(* Finite sets of numbers, and the sequence that lists one.                *)

(* A finite set of numbers that is not empty has a largest and a least.    *)
LEMMA FiniteExtremes ==
  ASSUME NEW S \in SUBSET Int, IsFiniteSet(S), S # {}
  PROVE  /\ Max(S) \in S /\ \A k \in S : k <= Max(S)
         /\ Min(S) \in S /\ \A k \in S : Min(S) <= k
  BY FiniteBounds DEF Max, Min

(* A sequence sorted by a strict total order lists the elements of a       *)
(* finite set, and nothing else; smaller elements come first.              *)
Orders(R, S) ==
  /\ \A x \in S : <<x, x>> \notin R
  /\ \A x, y \in S : x # y => <<x, y>> \in R \/ <<y, x>> \in R
  /\ \A x, y, z \in S : <<x, y>> \in R /\ <<y, z>> \in R => <<x, z>> \in R

Below(R, S, x) == {y \in S : <<y, x>> \in R}
SortedBy(R, S) == [k \in 1..Cardinality(S) |-> CHOOSE x \in S : Cardinality(Below(R, S, x)) = k - 1]

LEMMA SortedLists ==
  ASSUME NEW S, IsFiniteSet(S), NEW R, Orders(R, S)
  PROVE  /\ Cardinality(S) \in Nat
         /\ SortedBy(R, S) \in [1..Cardinality(S) -> S]
         /\ \A x \in S : \E k \in 1..Cardinality(S) : SortedBy(R, S)[k] = x
         /\ \A j, k \in 1..Cardinality(S) : j < k => <<SortedBy(R, S)[j], SortedBy(R, S)[k]>> \in R
<1> DEFINE n == Cardinality(S)
           below(x) == Below(R, S, x)
           rank == [x \in S |-> Cardinality(below(x)) + 1]
           sorted == SortedBy(R, S)
<1>1. n \in Nat /\ IsFiniteSet(1..n) /\ Cardinality(1..n) = n
  <2>1. n \in Nat
    BY FS_CardinalityType
  <2> HIDE DEF n
  <2> QED
    BY <2>1, FS_Interval
<1>2. ASSUME NEW x \in S
      PROVE  IsFiniteSet(below(x)) /\ Cardinality(below(x)) \in Nat /\ Cardinality(below(x)) < n
  <2>1. below(x) \in SUBSET S /\ below(x) # S
    BY DEF Orders, Below
  <2>2. IsFiniteSet(below(x)) /\ Cardinality(below(x)) <= n /\ Cardinality(below(x)) # n
    <3> HIDE DEF below
    <3> QED
      BY <2>1, FS_Subset
  <2>3. Cardinality(below(x)) \in Nat
    BY <2>2, FS_CardinalityType
  <2> QED
    BY <1>1, <2>2, <2>3
<1>3. ASSUME NEW x \in S, NEW y \in S, <<x, y>> \in R PROVE rank[x] < rank[y]
  <2>1. below(x) \in SUBSET below(y) /\ below(x) # below(y)
    <3>1. x \in below(y) /\ x \notin below(x)
      BY <1>3 DEF Orders, Below
    <3>2. \A z \in below(x) : z \in below(y)
      BY <1>3 DEF Orders, Below
    <3> HIDE DEF below
    <3> QED
      BY <3>1, <3>2
  <2>2. Cardinality(below(x)) <= Cardinality(below(y)) /\ Cardinality(below(x)) # Cardinality(below(y))
    <3>1. IsFiniteSet(below(y))
      BY <1>2
    <3> HIDE DEF below
    <3> QED
      BY <2>1, <3>1, FS_Subset
  <2> QED
    BY <1>2, <2>2
<1>4. rank \in [S -> 1..n]
  BY <1>1, <1>2
<1> HIDE DEF n, rank, below
<1>5. rank \in Injection(S, 1..n)
  <2>1. \A x, y \in S : rank[x] = rank[y] => x = y
    <3>1. ASSUME NEW x \in S, NEW y \in S, x # y PROVE rank[x] # rank[y]
      <4>1. <<x, y>> \in R \/ <<y, x>> \in R
        BY <3>1 DEF Orders
      <4>2. rank[x] < rank[y] \/ rank[y] < rank[x]
        BY <1>3, <4>1
      <4>3. rank[x] \in Int /\ rank[y] \in Int
        BY <1>4
      <4> QED
        BY <4>2, <4>3
    <3> QED
      BY <3>1
  <2> QED
    BY <1>4, <2>1 DEF Injection, IsInjective
<1>6. rank \in Surjection(S, 1..n)
  BY <1>1, <1>5, FS_Injection DEF n
<1>7. \A k \in 1..n : \E x \in S : rank[x] = k
  BY <1>6 DEF Surjection
<1>8. sorted = [k \in 1..n |-> CHOOSE x \in S : rank[x] = k]
  <2>1. ASSUME NEW k \in 1..n, NEW x \in S
        PROVE  Cardinality(below(x)) = k - 1 <=> rank[x] = k
    BY <1>1, <1>2 DEF rank
  <2>2. ASSUME NEW k \in 1..n
        PROVE  (CHOOSE x \in S : Cardinality(below(x)) = k - 1) = CHOOSE x \in S : rank[x] = k
    BY <2>1, Zenon
  <2>3. sorted = [k \in 1..n |-> CHOOSE x \in S : Cardinality(below(x)) = k - 1]
    BY DEF SortedBy, n, below
  <2> QED
    BY <2>2, <2>3
<1> HIDE DEF sorted
<1>9. sorted \in [1..n -> S] /\ \A k \in 1..n : rank[sorted[k]] = k
  BY <1>7, <1>8
<1>10. \A x \in S : rank[x] \in 1..n /\ sorted[rank[x]] = x
  BY <1>4, <1>5, <1>9 DEF Injection, IsInjective
<1>11. ASSUME NEW j \in 1..n, NEW k \in 1..n, j < k PROVE <<sorted[j], sorted[k]>> \in R
  <2>1. rank[sorted[j]] < rank[sorted[k]] /\ sorted[j] \in S /\ sorted[k] \in S
    BY <1>9, <1>11
  <2>2. ~(rank[sorted[k]] < rank[sorted[j]]) /\ sorted[j] # sorted[k]
    BY <1>4, <2>1
  <2>3. <<sorted[j], sorted[k]>> \in R \/ <<sorted[k], sorted[j]>> \in R
    BY <2>1, <2>2 DEF Orders
  <2> QED
    BY <1>3, <2>1, <2>2, <2>3
<1> QED
  BY <1>1, <1>9, <1>10, <1>11 DEF n, sorted

(* Ascending lists the elements of a finite set of numbers.                *)
LEMMA AscendingLists ==
  ASSUME NEW S \in SUBSET Int, IsFiniteSet(S)
  PROVE  /\ Cardinality(S) \in Nat
         /\ Ascending(S) \in [1..Cardinality(S) -> S]
         /\ Ascending(S) \in Seq(S) /\ Len(Ascending(S)) = Cardinality(S)
         /\ \A x \in S : \E k \in 1..Cardinality(S) : Ascending(S)[k] = x
         /\ \A j, k \in 1..Cardinality(S) : j < k => Ascending(S)[j] < Ascending(S)[k]
<1> DEFINE R == {p \in S \X S : p[1] < p[2]}
           n == Cardinality(S)
<1>1. \A x, y \in S : <<x, y>> \in R <=> x < y
  OBVIOUS
<1>2. Orders(R, S)
  <2> HIDE DEF R
  <2> QED
    BY <1>1 DEF Orders
<1>3. Ascending(S) = SortedBy(R, S)
  <2>1. ASSUME NEW x \in S PROVE Below(R, S, x) = {y \in S : y < x}
    BY <1>1 DEF Below
  <2>2. ASSUME NEW k \in 1..n
        PROVE  (CHOOSE x \in S : Cardinality({y \in S : y < x}) = k - 1) =
               (CHOOSE x \in S : Cardinality(Below(R, S, x)) = k - 1)
    <3> HIDE DEF R
    <3> QED
      BY <2>1, Zenon
  <2>3. Ascending(S) = [k \in 1..n |-> CHOOSE x \in S : Cardinality({y \in S : y < x}) = k - 1]
    BY DEF Ascending, Sorted
  <2> HIDE DEF R
  <2> QED
    BY <2>2, <2>3 DEF SortedBy
<1> HIDE DEF R
<1>4. /\ n \in Nat /\ Ascending(S) \in [1..n -> S]
      /\ \A x \in S : \E k \in 1..n : Ascending(S)[k] = x
      /\ \A j, k \in 1..n : j < k => <<Ascending(S)[j], Ascending(S)[k]>> \in R
  <2>1. /\ n \in Nat /\ SortedBy(R, S) \in [1..n -> S]
        /\ \A x \in S : \E k \in 1..n : SortedBy(R, S)[k] = x
        /\ \A j, k \in 1..n : j < k => <<SortedBy(R, S)[j], SortedBy(R, S)[k]>> \in R
    BY ONLY IsFiniteSet(S), <1>2, SortedLists
  <2> HIDE DEF n
  <2> QED
    BY <1>3, <2>1
<1>5. \A j, k \in 1..n : j < k => Ascending(S)[j] < Ascending(S)[k]
  BY <1>1, <1>4
<1> HIDE DEF n
<1>6. Ascending(S) \in Seq(S) /\ Len(Ascending(S)) = n
  BY <1>4
<1> QED
  BY <1>4, <1>5, <1>6 DEF n

-----------------------------------------------------------------------------
(* The registers a function starts with.                                   *)

Known(p) == SourceRegs(p) \cup PhysRegs \cup ToSet(PcsRegs(p))

(* A sequence has finitely many elements and indices.                      *)
LEMMA SequenceSetIsFinite ==
  ASSUME NEW X, NEW s \in Seq(X)
  PROVE  IsFiniteSet(ToSet(s)) /\ ToSet(s) \in SUBSET X /\ IsFiniteSet(DOMAIN s)
<1>1. IsFiniteSet(1..Len(s)) /\ DOMAIN s = 1..Len(s) /\ Len(s) \in Nat
  BY FS_Interval
<1>2. s \in Surjection(1..Len(s), ToSet(s))
  BY <1>1 DEF ToSet, Surjection
<1>3. ToSet(s) \in SUBSET X
  BY <1>1 DEF ToSet
<1> QED
  BY <1>1, <1>2, <1>3, FS_Surjection

(* The registers that finalize() makes for the preserved ones              *)
(* (pcs_vreg_map) are new: beyond those of the source and beyond the       *)
(* physical ones; so are the parameters, and both are virtual.             *)
LEMMA StartingRegisters ==
  ASSUME NEW p \in Programs
  PROVE  /\ FirstPcs(p) \in Nat /\ \A r \in SourceRegs(p) \cup PhysRegs : r \in Nat /\ r < FirstPcs(p)
         /\ FirstPcs(p) > NumRegs
         /\ Len(PreservedSeq) \in Nat
         /\ \A r \in Known(p) : r \in Nat /\ r < FirstPcs(p) + Len(PreservedSeq)
         /\ \A r \in ToSet(Inputs(p)) : r \in Known(p) /\ IsVirtual(r)
         /\ ToSet(PcsRegs(p)) \in SUBSET Known(p) /\ ToSet(PcsRegs(p)) \in SUBSET ToSet(Inputs(p))
         /\ \A r \in ToSet(PcsRegs(p)) : r \notin SourceRegs(p)
         /\ \A r \in ToSet(Inputs(p)) : r \in ToSet(PcsRegs(p)) \/ r \in ToSet(p.params)
         /\ ToSet(p.params) \in SUBSET ToSet(Inputs(p))
<1> DEFINE S == SourceRegs(p) \cup PhysRegs
           n == Cardinality(Preserved)
<1>0. /\ p.params \in Seq(Nat) /\ p.locals \in SUBSET Nat /\ IsFiniteSet(p.locals)
      /\ \A r \in SourceRegs(p) : IsVirtual(r)
      /\ NumRegs \in Nat \ {0} /\ Preserved \in SUBSET (1..NumRegs)
  BY ProgramsAssumption, RegisterAssumption
<1>1. S \in SUBSET Nat /\ S # {} /\ IsFiniteSet(S)
  <2>1. IsFiniteSet(ToSet(p.params)) /\ ToSet(p.params) \in SUBSET Nat
    BY <1>0, SequenceSetIsFinite
  <2>2. IsFiniteSet(SourceRegs(p)) /\ SourceRegs(p) \in SUBSET Nat
    BY <1>0, <2>1, FS_Union DEF SourceRegs
  <2>3. IsFiniteSet(PhysRegs) /\ PhysRegs \in SUBSET Nat /\ NumRegs \in PhysRegs
    BY <1>0, FS_Interval DEF PhysRegs
  <2> QED
    BY <2>2, <2>3, FS_Union
<1>2. Max(S) \in S /\ \A r \in S : r <= Max(S)
  BY <1>1, FiniteExtremes
<1>3. FirstPcs(p) \in Nat /\ \A r \in S : r \in Nat /\ r < FirstPcs(p)
  BY <1>1, <1>2 DEF FirstPcs
<1>4. FirstPcs(p) > NumRegs
  BY <1>0, <1>3 DEF PhysRegs
<1>5. n \in Nat /\ Len(PreservedSeq) = n /\ DOMAIN PreservedSeq = 1..n
  <2>1. Preserved \in SUBSET Int /\ IsFiniteSet(Preserved)
    <3>1. IsFiniteSet(1..NumRegs)
      BY <1>0, FS_Interval
    <3>2. IsFiniteSet(Preserved)
      BY <1>0, <3>1, FS_Subset, Zenon
    <3> QED
      BY <1>0, <3>2
  <2> QED
    BY <2>1, AscendingLists DEF PreservedSeq
<1>6. PcsRegs(p) \in Seq(Nat) /\ \A r \in ToSet(PcsRegs(p)) : r \in Nat /\ FirstPcs(p) <= r /\ r < FirstPcs(p) + n
  <2> HIDE DEF n
  <2>1. PcsRegs(p) \in [1..n -> Nat]
    BY <1>3, <1>5 DEF PcsRegs
  <2> QED
    BY <1>3, <1>5, <2>1 DEF PcsRegs, ToSet
<1>7. \A r \in Known(p) : r \in Nat /\ r < FirstPcs(p) + Len(PreservedSeq)
  BY <1>3, <1>5, <1>6 DEF Known
<1>8. ToSet(Inputs(p)) \in SUBSET (ToSet(PcsRegs(p)) \cup ToSet(p.params))
  <2>1. ASSUME NEW k \in DOMAIN Inputs(p)
        PROVE  Inputs(p)[k] \in ToSet(PcsRegs(p)) \cup ToSet(p.params)
    <3> DEFINE a == PcsRegs(p)
               c == p.params
    <3>1. a \in Seq(Nat) /\ c \in Seq(Nat) /\ k \in 1..(Len(a) + Len(c))
      BY <1>0, <1>6, <2>1 DEF Inputs
    <3>2. Inputs(p)[k] = IF k <= Len(a) THEN a[k] ELSE c[k - Len(a)]
      BY <3>1 DEF Inputs
    <3> HIDE DEF a, c
    <3>3. CASE k <= Len(a)
      <4>1. k \in DOMAIN a
        BY <3>1, <3>3
      <4> QED
        BY <3>2, <3>3, <4>1 DEF ToSet, a
    <3>4. CASE ~(k <= Len(a))
      <4>1. k - Len(a) \in DOMAIN c
        BY <3>1, <3>4
      <4> QED
        BY <3>2, <3>4, <4>1 DEF ToSet, c
    <3> QED
      BY <3>3, <3>4
  <2> QED
    BY <2>1 DEF ToSet
<1>9. ASSUME NEW r \in ToSet(Inputs(p)) PROVE r \in Known(p) /\ IsVirtual(r)
  <2>1. CASE r \in ToSet(PcsRegs(p))
    BY <1>0, <1>3, <1>4, <1>6, <2>1 DEF Known, IsVirtual
  <2>2. CASE r \in ToSet(p.params)
    BY <1>0, <2>2 DEF Known, SourceRegs
  <2> QED
    BY <1>8, <2>1, <2>2
<1>10. ToSet(PcsRegs(p)) \in SUBSET ToSet(Inputs(p))
  <2>1. ASSUME NEW k \in DOMAIN PcsRegs(p) PROVE k \in DOMAIN Inputs(p) /\ Inputs(p)[k] = PcsRegs(p)[k]
    BY <1>0, <1>6 DEF Inputs
  <2> QED
    BY <2>1 DEF ToSet
<1>11. ToSet(p.params) \in SUBSET ToSet(Inputs(p))
  <2> DEFINE a == PcsRegs(p)
             c == p.params
  <2>1. a \in Seq(Nat) /\ c \in Seq(Nat) /\ Inputs(p) = a \o c
    BY <1>0, <1>6 DEF Inputs
  <2> HIDE DEF a, c
  <2>2. ASSUME NEW k \in DOMAIN c PROVE \E j \in DOMAIN Inputs(p) : Inputs(p)[j] = c[k]
    <3>1. Len(a) + k \in DOMAIN Inputs(p) /\ Inputs(p)[Len(a) + k] = c[k]
      BY <2>1, <2>2
    <3> QED
      BY <3>1
  <2>3. ASSUME NEW r \in ToSet(c) PROVE r \in ToSet(Inputs(p))
    BY <2>2, <2>3 DEF ToSet
  <2> QED
    BY <2>3 DEF c
<1>12. ASSUME NEW r \in ToSet(PcsRegs(p)) PROVE r \notin SourceRegs(p)
  <2>1. r \in Nat /\ FirstPcs(p) <= r
    BY <1>6
  <2>2. r \in SourceRegs(p) => r < FirstPcs(p)
    BY <1>3
  <2> QED
    BY <1>3, <2>1, <2>2
<1> QED
  BY <1>3, <1>4, <1>5, <1>7, <1>8, <1>9, <1>10, <1>11, <1>12 DEF Known

-----------------------------------------------------------------------------
(* Sweeps find no register live that nothing mentions.                     *)

(* The least element of a set of numbers is one of its elements.           *)
LEMMA LeastIsPicked ==
  ASSUME NEW S \in SUBSET Int, IsFiniteSet(S)
  PROVE  Picks([s \in SUBSET S |-> Min(s)], S)
<1>1. ASSUME NEW s \in SUBSET S, s # {} PROVE Min(s) \in s
  BY <1>1, FS_Subset, FiniteExtremes
<1> QED
  BY <1>1 DEF Picks

(* LiveAtStart applies LiveBefore from the last instruction back to the    *)
(* first: iter[s] is what is live before those in s.                       *)
LiveSteps(block, live, iter) ==
  /\ LiveAtStart(block, live) = iter[DOMAIN block]
  /\ \A s \in SUBSET DOMAIN block :
       iter[s] = IF s = {} THEN live ELSE LiveBefore(block[Min(s)], iter[s \ {Min(s)}])

LEMMA LiveAtStartFolds ==
  ASSUME NEW R, NEW X, NEW block \in Seq(X), \A k \in DOMAIN block : Ins(block[k]) \in SUBSET R,
         NEW live \in SUBSET R
  PROVE  \E iter : LiveSteps(block, live, iter)
<1> DEFINE S == DOMAIN block
           W == SUBSET R
           pick == [s \in SUBSET S |-> Min(s)]
           step == [p \in W \X S |-> LiveBefore(block[p[2]], p[1])]
           iter == CHOOSE f : f = [s \in SUBSET S |->
                     IF s = {} THEN live ELSE LiveBefore(block[Min(s)], f[s \ {Min(s)}])]
<1>1. LiveAtStart(block, live) = iter[S]
  BY DEF LiveAtStart, FoldRight, MapThenFoldSet
<1>2. IsFiniteSet(S) /\ S \in SUBSET Int
  BY SequenceSetIsFinite
<1>3. Picks(pick, S)
  BY <1>2, LeastIsPicked
<1>4. step \in [W \X S -> W]
  BY DEF LiveBefore
<1> HIDE DEF W
<1>5. \E f : f = [s \in SUBSET S |->
                IF s = {} THEN live ELSE LiveBefore(block[Min(s)], f[s \ {Min(s)}])]
  <2>1. PICK f \in [SUBSET S -> W] : Folds(f, pick, live, step, SUBSET S)
    <3> HIDE DEF step, pick, S
    <3>1. live \in W
      BY DEF W
    <3> QED
      BY <1>2, <1>3, <1>4, <3>1, FoldExists
  <2>2. ASSUME NEW s \in SUBSET S
        PROVE  f[s] = IF s = {} THEN live ELSE LiveBefore(block[Min(s)], f[s \ {Min(s)}])
    BY <1>3, <2>1 DEF Folds, Picks
  <2> QED
    BY <2>1, <2>2
<1>6. \A s \in SUBSET S :
        iter[s] = IF s = {} THEN live ELSE LiveBefore(block[Min(s)], iter[s \ {Min(s)}])
  BY <1>5
<1> QED
  BY <1>1, <1>6 DEF LiveSteps

(* What is live at the start of a block is live at its end or an input in  *)
(* it.                                                                     *)
LEMMA LiveAtStartIsKnown ==
  ASSUME NEW R, NEW X, NEW block \in Seq(X), \A k \in DOMAIN block : Ins(block[k]) \in SUBSET R,
         NEW live \in SUBSET R
  PROVE  LiveAtStart(block, live) \in SUBSET R
<1> DEFINE S == DOMAIN block
           pick == [s \in SUBSET S |-> Min(s)]
<1>0. PICK iter : LiveSteps(block, live, iter)
  BY LiveAtStartFolds
<1>1. /\ LiveAtStart(block, live) = iter[S]
      /\ \A s \in SUBSET S :
           iter[s] = IF s = {} THEN live ELSE LiveBefore(block[Min(s)], iter[s \ {Min(s)}])
  BY <1>0 DEF LiveSteps
<1> DEFINE Good == {s \in SUBSET S : iter[s] \in SUBSET R}
<1>2. IsFiniteSet(S) /\ S \in SUBSET Int
  BY SequenceSetIsFinite
<1>3. Picks(pick, S)
  BY <1>2, LeastIsPicked
<1>4. {} \in Good
  BY <1>1
<1>5. ASSUME NEW s \in SUBSET S, s # {}, s \ {pick[s]} \in Good PROVE s \in Good
  <2>1. pick[s] = Min(s) /\ Min(s) \in S
    BY <1>3, <1>5 DEF Picks
  <2>2. LiveBefore(block[Min(s)], iter[s \ {Min(s)}]) \in SUBSET R
    BY <1>5, <2>1 DEF LiveBefore
  <2> QED
    BY <1>1, <1>5, <2>2
<1> HIDE DEF Good, pick
<1>6. S \in Good
  BY <1>2, <1>3, <1>4, <1>5, SubsetInduction
<1> QED
  BY <1>1, <1>6 DEF Good

(* A register that no call clobbers is live at the start of a block when   *)
(* the block reads it before it writes it, or lets it pass to where it is  *)
(* live.                                                                   *)
LEMMA LiveAtStartMeans ==
  ASSUME NEW R, NEW X, NEW block \in Seq(X), \A k \in DOMAIN block : Ins(block[k]) \in SUBSET R,
         NEW live \in SUBSET R, NEW r, \A k \in DOMAIN block : r \notin ClobberedBy(block[k])
  PROVE  r \in LiveAtStart(block, live) <=>
           r \in UsedFirst(block) \/ (r \in live /\ PassesThrough(block, r))
<1> DEFINE S == DOMAIN block
           pick == [s \in SUBSET S |-> Min(s)]
           Read(s) == \E k \in s :
             r \in Ins(block[k]) /\ \A j \in s : j < k => r \notin Outs(block[j])
           Kept(s) == r \in live /\ \A k \in s : r \notin Outs(block[k])
<1>0. PICK iter : LiveSteps(block, live, iter)
  BY LiveAtStartFolds
<1>1. /\ LiveAtStart(block, live) = iter[S]
      /\ \A s \in SUBSET S :
           iter[s] = IF s = {} THEN live ELSE LiveBefore(block[Min(s)], iter[s \ {Min(s)}])
  BY <1>0 DEF LiveSteps
<1> DEFINE Good == {s \in SUBSET S : r \in iter[s] <=> Read(s) \/ Kept(s)}
<1>2. IsFiniteSet(S) /\ S \in SUBSET Int
  BY SequenceSetIsFinite
<1>3. Picks(pick, S)
  BY <1>2, LeastIsPicked
<1>4. {} \in Good
  BY <1>1
<1>5. ASSUME NEW s \in SUBSET S, s # {}, s \ {pick[s]} \in Good PROVE s \in Good
  <2>1. PICK m \in s : m = pick[s] /\ m = Min(s) /\ \A k \in s : m <= k
    <3>1. IsFiniteSet(s) /\ s \in SUBSET Int
      BY <1>2, FS_Subset
    <3>2. Min(s) \in s /\ \A k \in s : Min(s) <= k
      BY <1>5, <3>1, FiniteExtremes
    <3> QED
      BY <3>2
  <2> DEFINE rest == s \ {m}
  <2>2. r \in iter[rest] <=> Read(rest) \/ Kept(rest)
    BY <1>5, <2>1
  <2>3. r \in iter[s] <=> (r \in iter[rest] /\ r \notin Outs(block[m])) \/ r \in Ins(block[m])
    <3>1. iter[s] = LiveBefore(block[m], iter[rest])
      BY <1>1, <1>5, <2>1
    <3>2. r \notin ClobberedBy(block[m])
      BY <2>1
    <3> QED
      BY <3>1, <3>2 DEF LiveBefore
  <2>4. \A k \in s : k \in Int
    BY <1>2
  <2> HIDE DEF pick
  <2>5. Kept(s) <=> Kept(rest) /\ r \notin Outs(block[m])
    BY <2>1
  <2>6. Read(s) <=> (Read(rest) /\ r \notin Outs(block[m])) \/ r \in Ins(block[m])
    <3>1. ASSUME r \in Ins(block[m]) PROVE Read(s)
      <4>1. \A j \in s : ~(j < m)
        BY <2>1, <2>4
      <4> QED
        BY <2>1, <3>1, <4>1
    <3>2. ASSUME Read(rest), r \notin Outs(block[m]) PROVE Read(s)
      BY <3>2
    <3>3. ASSUME Read(s), r \notin Ins(block[m]) PROVE Read(rest) /\ r \notin Outs(block[m])
      <4>1. PICK k \in s : r \in Ins(block[k]) /\ \A j \in s : j < k => r \notin Outs(block[j])
        BY <3>3
      <4>2. k # m /\ m < k
        BY <2>1, <2>4, <3>3, <4>1
      <4> QED
        BY <2>1, <4>1, <4>2
    <3> QED
      BY <3>1, <3>2, <3>3
  <2> QED
    BY <2>2, <2>3, <2>5, <2>6
<1>6. S \in Good
  <2> HIDE DEF Good, pick
  <2> QED
    BY <1>2, <1>3, <1>4, <1>5, SubsetInduction
<1>7. r \in iter[S] <=> Read(S) \/ Kept(S)
  BY <1>6
<1>8. Kept(S) <=> r \in live /\ PassesThrough(block, r)
  BY DEF PassesThrough
<1>9. Read(S) <=> r \in UsedFirst(block)
  <2>1. \A k \in S : \A j : j \in 1..(k - 1) <=> j \in S /\ j < k
    <3>1. S = 1..Len(block) /\ Len(block) \in Nat
      OBVIOUS
    <3> HIDE DEF S
    <3> QED
      BY <3>1
  <2> QED
    BY <2>1 DEF UsedFirst
<1> QED
  BY <1>1, <1>7, <1>8, <1>9

(* A sweep visits the blocks from the last one of the layout to the first. *)
Flows(B, R) == [in : [B -> SUBSET R], out : [B -> SUBSET R], changed : BOOLEAN]

SweepSteps(blocks, layout0, first, in0, out0, iter) ==
  /\ Sweep(blocks, layout0, first, in0, out0) = iter[DOMAIN layout0]
  /\ \A s \in SUBSET DOMAIN layout0 :
       iter[s] = IF s = {} THEN [in |-> in0, out |-> out0, changed |-> FALSE]
                 ELSE SweepBlock(blocks, layout0, first, iter[s \ {Min(s)}], layout0[Min(s)])

KeepsFlows(iter, S, B, R) == \A s \in SUBSET S : iter[s] \in Flows(B, R)

LEMMA SweepFolds ==
  ASSUME NEW R, NEW X, NEW blocks \in Seq(Seq(X)), NEW first \in BOOLEAN,
         NEW layout0 \in Seq(DOMAIN blocks),
         \A b \in DOMAIN blocks : \A k \in DOMAIN blocks[b] : Ins(blocks[b][k]) \in SUBSET R,
         \A b \in DOMAIN blocks : Successors(blocks, layout0, b) \in SUBSET DOMAIN blocks,
         NEW in0 \in [DOMAIN blocks -> SUBSET R], NEW out0 \in [DOMAIN blocks -> SUBSET R]
  PROVE  \E iter : /\ SweepSteps(blocks, layout0, first, in0, out0, iter)
                   /\ KeepsFlows(iter, DOMAIN layout0, DOMAIN blocks, R)
<1> DEFINE B == DOMAIN blocks
           S == DOMAIN layout0
           W == Flows(B, R)
           base == [in |-> in0, out |-> out0, changed |-> FALSE]
           pick == [s \in SUBSET S |-> Min(s)]
           step == [p \in W \X S |-> SweepBlock(blocks, layout0, first, p[1], layout0[p[2]])]
           iter == CHOOSE f : f = [s \in SUBSET S |->
                     IF s = {} THEN base
                     ELSE SweepBlock(blocks, layout0, first, f[s \ {Min(s)}], layout0[Min(s)])]
<1>1. Sweep(blocks, layout0, first, in0, out0) = iter[S]
  BY DEF Sweep, FoldRight, MapThenFoldSet
<1>2. IsFiniteSet(S) /\ S \in SUBSET Int
  BY SequenceSetIsFinite
<1>3. Picks(pick, S)
  BY <1>2, LeastIsPicked
<1>4. ASSUME NEW w \in W, NEW b \in B
      PROVE  SweepBlock(blocks, layout0, first, w, b) \in W
  <2> DEFINE out == w.out[b] \cup UNION {w.in[s] : s \in Successors(blocks, layout0, b)}
             in == w.in[b] \cup LiveAtStart(blocks[b], out)
  <2>1. w.in \in [B -> SUBSET R] /\ w.out \in [B -> SUBSET R] /\ w.changed \in BOOLEAN
    BY DEF Flows
  <2>2. out \in SUBSET R
    BY <2>1
  <2>3. LiveAtStart(blocks[b], out) \in SUBSET R
    <3> DEFINE c == blocks[b]
    <3>1. c \in Seq(X) /\ \A k \in DOMAIN c : Ins(c[k]) \in SUBSET R
      OBVIOUS
    <3> HIDE DEF out, c
    <3>2. LiveAtStart(c, out) \in SUBSET R
      BY <2>2, <3>1, LiveAtStartIsKnown
    <3> QED
      BY <3>2 DEF c
  <2>4. in \in SUBSET R
    BY <2>1, <2>3
  <2>5. SweepBlock(blocks, layout0, first, w, b) =
          IF first \/ out # w.out[b]
          THEN [in |-> [w.in EXCEPT ![b] = in], out |-> [w.out EXCEPT ![b] = out],
                changed |-> w.changed \/ in # w.in[b]]
          ELSE w
    BY DEF SweepBlock
  <2> HIDE DEF in, out
  <2>6. [in |-> [w.in EXCEPT ![b] = in], out |-> [w.out EXCEPT ![b] = out],
         changed |-> w.changed \/ in # w.in[b]] \in W
    BY <2>1, <2>2, <2>4 DEF Flows
  <2> QED
    BY <2>5, <2>6
<1>5. base \in W
  BY DEF Flows
<1> HIDE DEF W, base
<1>6. step \in [W \X S -> W]
  <2>1. \A k \in S : layout0[k] \in B
    OBVIOUS
  <2> QED
    BY <1>4, <2>1
<1>7. \E f : f = [s \in SUBSET S |->
                IF s = {} THEN base
                ELSE SweepBlock(blocks, layout0, first, f[s \ {Min(s)}], layout0[Min(s)])]
  <2>1. PICK f \in [SUBSET S -> W] : Folds(f, pick, base, step, SUBSET S)
    <3> HIDE DEF step, pick, S
    <3> QED
      BY <1>2, <1>3, <1>5, <1>6, FoldExists
  <2>2. ASSUME NEW s \in SUBSET S
        PROVE  f[s] = IF s = {} THEN base
                      ELSE SweepBlock(blocks, layout0, first, f[s \ {Min(s)}], layout0[Min(s)])
    BY <1>3, <2>1 DEF Folds, Picks
  <2> QED
    BY <2>1, <2>2
<1>8. \A s \in SUBSET S :
        iter[s] = IF s = {} THEN base
                  ELSE SweepBlock(blocks, layout0, first, iter[s \ {Min(s)}], layout0[Min(s)])
  BY <1>7
<1> HIDE DEF iter
<1>9. \A s \in SUBSET S : iter[s] \in W
  <2> DEFINE Good == {s \in SUBSET S : iter[s] \in W}
  <2>1. {} \in Good
    BY <1>5, <1>8
  <2>2. ASSUME NEW s \in SUBSET S, s # {}, s \ {pick[s]} \in Good PROVE s \in Good
    <3>1. pick[s] = Min(s) /\ Min(s) \in S
      BY <1>3, <2>2 DEF Picks
    <3>2. layout0[Min(s)] \in B
      BY <3>1
    <3> QED
      BY <1>4, <1>8, <2>2, <3>1, <3>2
  <2> HIDE DEF Good, pick, S
  <2>3. \A s \in SUBSET S : s # {} /\ s \ {pick[s]} \in Good => s \in Good
    BY <2>2
  <2>4. \A s \in SUBSET S : s \in Good
    <3>1. IsFiniteSet(S)
      BY <1>2
    <3> QED
      BY ONLY <3>1, <1>3, <2>1, <2>3, SubsetInduction
  <2> QED
    BY <2>4 DEF Good
<1> QED
  BY <1>1, <1>8, <1>9 DEF W, base, SweepSteps, KeepsFlows

(* A sweep over all the blocks finds only registers live that their        *)
(* inputs, or the sets it began with, hold.                                *)
LEMMA SweepIsKnown ==
  ASSUME NEW R, NEW X, NEW blocks \in Seq(Seq(X)), NEW first \in BOOLEAN,
         NEW layout0 \in Seq(DOMAIN blocks),
         \A b \in DOMAIN blocks : \A k \in DOMAIN blocks[b] : Ins(blocks[b][k]) \in SUBSET R,
         \A b \in DOMAIN blocks : Successors(blocks, layout0, b) \in SUBSET DOMAIN blocks,
         NEW in0 \in [DOMAIN blocks -> SUBSET R], NEW out0 \in [DOMAIN blocks -> SUBSET R]
  PROVE  Sweep(blocks, layout0, first, in0, out0) \in Flows(DOMAIN blocks, R)
<1>1. PICK iter : /\ SweepSteps(blocks, layout0, first, in0, out0, iter)
                  /\ KeepsFlows(iter, DOMAIN layout0, DOMAIN blocks, R)
  BY SweepFolds
<1> QED
  BY <1>1 DEF SweepSteps, KeepsFlows

-----------------------------------------------------------------------------
(* Blocks of instructions.                                                 *)

Instructions ==
  [id : Nat \X Nat, kind : Kinds, outs : Seq(Nat), ins : Seq(Nat),
   target : Nat, slot : Nat, pos : Nat]

(* The instructions that allocation adds; a block keeps others always.     *)
Inserted == {<<0, n>> : n \in Nat \ {0}}

Has(block, id) == \E k \in DOMAIN block : block[k].id = id
Real(block) == \E k \in DOMAIN block : block[k].id \notin Inserted

(* A block that holds what another holds, and maybe more.                  *)
Holds(block, held) == \A k \in DOMAIN held : Has(block, held[k].id)

(* A part of a sequence has the elements it was asked for, and no others.  *)
LEMMA PartOfSequence ==
  ASSUME NEW X, NEW s \in Seq(X), NEW K \in SUBSET DOMAIN s
  PROVE  /\ Part(s, K) \in Seq(X)
         /\ \A n \in DOMAIN Part(s, K) : \E k \in K : Part(s, K)[n] = s[k]
         /\ \A k \in K : \E n \in DOMAIN Part(s, K) : Part(s, K)[n] = s[k]
<1> DEFINE ks == Ascending(K)
           m == Cardinality(K)
<1>1. K \in SUBSET Int /\ IsFiniteSet(K)
  BY SequenceSetIsFinite, FS_Subset
<1>2. m \in Nat /\ ks \in [1..m -> K] /\ \A x \in K : \E k \in 1..m : ks[k] = x
  BY <1>1, AscendingLists
<1> HIDE DEF ks, m
<1>3. DOMAIN ks = 1..m /\ Part(s, K) = [n \in 1..m |-> s[ks[n]]]
  BY <1>2 DEF Part, ks
<1>4. \A n \in 1..m : ks[n] \in K /\ s[ks[n]] \in X
  BY <1>2
<1>5. Part(s, K) \in Seq(X) /\ DOMAIN Part(s, K) = 1..m
  BY <1>2, <1>3, <1>4
<1>6. ASSUME NEW k \in K PROVE \E n \in DOMAIN Part(s, K) : Part(s, K)[n] = s[k]
  <2>1. PICK n \in 1..m : ks[n] = k
    BY <1>2
  <2> QED
    BY <1>3, <1>5, <2>1
<1> QED
  BY <1>3, <1>4, <1>5, <1>6

(* A sequence that holds what s holds, and e.                              *)
HoldsWith(t, s, e) ==
  /\ \A n \in DOMAIN s : \E j \in DOMAIN t : t[j] = s[n]
  /\ \E j \in DOMAIN t : t[j] = e

(* InsertAt loses nothing of a sequence.                                   *)
LEMMA InsertAtKeeps ==
  ASSUME NEW X, NEW s \in Seq(X), NEW k \in 1..(Len(s) + 1), NEW e \in X
  PROVE  InsertAt(s, k, e) \in Seq(X) /\ HoldsWith(InsertAt(s, k, e), s, e)
<1> DEFINE a == SubSeq(s, 1, k - 1)
           c == SubSeq(s, k, Len(s))
           t == InsertAt(s, k, e)
<1>1. /\ a \in Seq(X) /\ Len(a) = k - 1 /\ \A n \in 1..(k - 1) : a[n] = s[n]
      /\ c \in Seq(X) /\ Len(c) = Len(s) - k + 1 /\ \A n \in 1..Len(c) : c[n] = s[k + n - 1]
  BY SMT
<1>2. t = a \o <<e>> \o c
  BY DEF InsertAt
<1> HIDE DEF a, c, t
<1>3. /\ t \in Seq(X) /\ Len(t) = Len(s) + 1 /\ t[k] = e
      /\ \A n \in 1..(k - 1) : t[n] = a[n]
      /\ \A n \in 1..Len(c) : t[k + n] = c[n]
  <2> DEFINE d == a \o <<e>>
  <2>1. d \in Seq(X) /\ Len(d) = k /\ d[k] = e /\ \A n \in 1..(k - 1) : d[n] = a[n]
    BY <1>1
  <2>2. t = d \o c
    BY <1>2
  <2> HIDE DEF d
  <2>3. t \in Seq(X) /\ Len(t) = Len(s) + 1
    <3>1. t \in Seq(X) /\ Len(t) = Len(d) + Len(c)
      <4>1. c \in Seq(X) /\ d \in Seq(X)
        BY <1>1, <2>1
      <4> QED
        BY ONLY <2>2, <4>1
    <3>2. Len(s) \in Nat /\ k \in Int
      OBVIOUS
    <3> QED
      BY <1>1, <2>1, <3>1, <3>2
  <2>4. \A n \in 1..k : t[n] = d[n]
    BY <1>1, <2>1, <2>2
  <2>5. \A n \in 1..Len(c) : t[k + n] = c[n]
    BY <1>1, <2>1, <2>2
  <2> QED
    BY <2>1, <2>3, <2>4, <2>5
<1>4. ASSUME NEW n \in DOMAIN s PROVE \E j \in DOMAIN t : t[j] = s[n]
  <2>1. n \in 1..Len(s) /\ Len(s) \in Nat
    OBVIOUS
  <2>2. CASE n <= k - 1
    <3>1. n \in DOMAIN t /\ t[n] = s[n]
      BY <1>1, <1>3, <2>1, <2>2
    <3> QED
      BY <3>1
  <2>3. CASE ~(n <= k - 1)
    <3> DEFINE d == n - k + 1
    <3>1. d \in 1..Len(c) /\ k + d = n + 1 /\ k + d - 1 = n
      <4>1. Len(c) = Len(s) - k + 1 /\ k \in Int
        BY <1>1
      <4> QED
        BY <2>1, <2>3, <4>1
    <3>3. c[d] = s[n]
      BY <1>1, <3>1
    <3>2. n + 1 \in DOMAIN t /\ t[n + 1] = s[n]
      BY <1>3, <2>1, <3>1, <3>3
    <3> QED
      BY <3>2
  <2> QED
    BY <2>2, <2>3
<1>5. k \in DOMAIN t
  BY <1>3
<1> QED
  BY <1>3, <1>4, <1>5 DEF t, HoldsWith

(* An instruction that a block has is found by its id.                     *)
LEMMA IndexOfFinds ==
  ASSUME NEW block \in Seq(Instructions), NEW id, Has(block, id)
  PROVE  /\ IndexOf(block, id) \in DOMAIN block /\ block[IndexOf(block, id)].id = id
         /\ PosOf(block, id) \in Nat
<1>1. IndexOf(block, id) \in DOMAIN block /\ block[IndexOf(block, id)].id = id
  BY DEF Has, IndexOf
<1>2. block[IndexOf(block, id)] \in Instructions
  BY <1>1
<1> QED
  BY <1>1, <1>2 DEF PosOf, InstrOf, Instructions

(* block::adopt gives an inserted instruction a position, also beyond the  *)
(* last.                                                                   *)
LEMMA PosBeforeIsNatural ==
  ASSUME NEW block \in Seq(Instructions), NEW k \in 1..(Len(block) + 1)
  PROVE  PosBefore(block, k) \in Nat
<1> DEFINE a == IF k = 1 THEN 0 ELSE block[k - 1].pos
           c == block[k].pos
<1>1. k <= Len(block) => c \in Nat
  <2>1. k <= Len(block) => block[k] \in Instructions
    OBVIOUS
  <2> QED
    BY <2>1 DEF Instructions
<1>2. a \in Nat
  <2>1. k # 1 => block[k - 1] \in Instructions
    OBVIOUS
  <2> QED
    BY <2>1 DEF Instructions
<1>3. PosBefore(block, k) = IF k > Len(block) THEN a + Gap ELSE 2 * ((a + c) \div 4)
  BY DEF PosBefore, Midpoint
<1> HIDE DEF a, c
<1>4. k <= Len(block) => (a + c) \div 4 \in Nat
  <2>1. k <= Len(block) => a + c \in Nat
    BY <1>1, <1>2
  <2>2. 4 \in Nat \ {0}
    OBVIOUS
  <2> QED
    BY <2>1, <2>2, DivisionFacts
<1> QED
  BY <1>2, <1>3, <1>4, RegisterAssumption

(* What an inserted instruction leaves of a block: all of it.              *)
Extends(block, before, id) ==
  block \in Seq(Instructions) /\ Holds(block, before) /\ Has(block, id)

(* Inserting an instruction before or after another leaves the block all   *)
(* it had.                                                                 *)
LEMMA InsertKeeps ==
  ASSUME NEW block \in Seq(Instructions), NEW id, NEW i \in Instructions, Has(block, id)
  PROVE  /\ Extends(InsertBefore(block, id, i), block, i.id)
         /\ Extends(InsertAfter(block, id, i), block, i.id)
<1>1. ASSUME NEW k \in 1..(Len(block) + 1), NEW pos \in Nat
      PROVE  Extends(InsertAt(block, k, [i EXCEPT !.pos = pos]), block, i.id)
  <2> DEFINE e == [i EXCEPT !.pos = pos]
             t == InsertAt(block, k, e)
  <2>1. e \in Instructions /\ e.id = i.id
    BY DEF Instructions
  <2> HIDE DEF e
  <2>2. t \in Seq(Instructions) /\ HoldsWith(t, block, e)
    <3>1. block \in Seq(Instructions) /\ k \in 1..(Len(block) + 1) /\ e \in Instructions
      BY <2>1
    <3> HIDE DEF t
    <3>2. t = InsertAt(block, k, e)
      BY DEF t
    <3> QED
      BY ONLY <3>1, <3>2, InsertAtKeeps
  <2> HIDE DEF t
  <2>3. Has(t, i.id) /\ Holds(t, block)
    BY <2>1, <2>2 DEF Has, Holds, HoldsWith
  <2> QED
    BY <2>2, <2>3 DEF Extends, t, e
<1> DEFINE k == IndexOf(block, id)
<1>2. k \in DOMAIN block
  BY IndexOfFinds
<1>3. k \in 1..(Len(block) + 1) /\ k + 1 \in 1..(Len(block) + 1)
  BY <1>2
<1>4. Extends(InsertBefore(block, id, i), block, i.id)
  BY <1>1, <1>3, PosBeforeIsNatural DEF InsertBefore
<1>5. Extends(InsertAfter(block, id, i), block, i.id)
  BY <1>1, <1>3, PosBeforeIsNatural DEF InsertAfter
<1> QED
  BY <1>4, <1>5

-----------------------------------------------------------------------------
(* The walk of a spill over the places of the register v, in a function    *)
(* with the blocks D.                                                      *)

Intervals == [block : Nat, reg : Nat, begin : Int, end : Int]
RealBlocks == {s \in Seq(Instructions) : Real(s)}
PlacesIn(D) == D \X Nat \X (Nat \X Nat)
ErasuresIn(D) == D \X Inserted
Restrictions == UNION {[A -> SUBSET PhysRegs] : A \in SUBSET Nat}

WalkFields(D) ==
  [code : Seq(Instructions), blocks : [D -> RealBlocks], piece : Nat, pieces : SUBSET Nat,
   last : Int, store : BOOLEAN, own : SUBSET Inserted, erased : SUBSET ErasuresIn(D),
   live : SUBSET Intervals, at : SUBSET PlacesIn(D), allowed : Restrictions,
   next : [reg : Nat, id : Nat \ {0}], done : BOOLEAN]

(* What comes to live is new, or v itself where it arrives or returns.     *)
LivesAnew(w, v) ==
  /\ w.next.reg >= fresh.reg
  /\ \A r \in w.pieces : fresh.reg <= r /\ r < w.next.reg
  /\ \A i \in w.live : i.reg \in w.pieces \/ (i.reg = v /\ v \in ToSet(Inputs(source)))

Walks(D, v) ==
  {w \in WalkFields(D) : LivesAnew(w, v) /\ (w.last # 0 => w.piece \in w.pieces)}

(* In the block held, and there with a piece to put in v's place.          *)
WalksIn(D, v, held) == {w \in Walks(D, v) : Holds(w.code, held)}
WalksWithPiece(D, v, held) == {w \in WalksIn(D, v, held) : w.piece \in w.pieces}

(* A new piece takes a register nobody has.                                *)
LEMMA NewPieceWalks ==
  ASSUME NEW D \in SUBSET Nat, NEW v, NEW held, NEW w \in WalksIn(D, v, held), fresh.reg \in Nat
  PROVE  NewPiece(w) \in WalksWithPiece(D, v, held)
<1> DEFINE u == [w EXCEPT !.piece = w.next.reg, !.pieces = @ \cup {w.next.reg}, !.next.reg = @ + 1]
<1>1. w \in WalkFields(D) /\ LivesAnew(w, v) /\ (w.last # 0 => w.piece \in w.pieces)
  BY DEF WalksIn, Walks
<1>2. u \in WalkFields(D)
  <2> DEFINE n == [w.next EXCEPT !.reg = @ + 1]
  <2>1. /\ w.next.reg \in Nat /\ n \in [reg : Nat, id : Nat \ {0}]
        /\ w.pieces \cup {w.next.reg} \in SUBSET Nat
    BY <1>1 DEF WalkFields
  <2>2. u = [w EXCEPT !.piece = w.next.reg, !.pieces = @ \cup {w.next.reg}, !.next = n]
    BY <1>1 DEF WalkFields
  <2> HIDE DEF n, u
  <2> QED
    BY <1>1, <2>1, <2>2 DEF WalkFields
<1>3. /\ u.piece = w.next.reg /\ u.pieces = w.pieces \cup {w.next.reg} /\ u.next.reg = w.next.reg + 1
      /\ u.live = w.live /\ u.code = w.code /\ w.next.reg \in Nat
  BY <1>1 DEF WalkFields
<1> HIDE DEF u
<1>4. LivesAnew(u, v)
  <2>1. w.next.reg >= fresh.reg /\ u.next.reg >= fresh.reg
    BY <1>1, <1>3 DEF LivesAnew
  <2>2. ASSUME NEW r \in u.pieces PROVE fresh.reg <= r /\ r < u.next.reg
    <3>1. CASE r = w.next.reg
      BY <1>3, <2>1, <3>1
    <3>2. CASE r \in w.pieces
      <4>1. r \in Nat /\ fresh.reg <= r /\ r < w.next.reg
        BY <1>1, <3>2 DEF LivesAnew, WalkFields
      <4> QED
        BY <1>3, <4>1
    <3> QED
      BY <1>3, <3>1, <3>2
  <2>3. \A i \in u.live : i.reg \in u.pieces \/ (i.reg = v /\ v \in ToSet(Inputs(source)))
    BY <1>1, <1>3 DEF LivesAnew
  <2> QED
    BY <2>1, <2>2, <2>3 DEF LivesAnew
<1>5. u \in WalksWithPiece(D, v, held)
  BY <1>2, <1>3, <1>4 DEF WalksWithPiece, WalksIn, Walks
<1> QED
  BY <1>1, <1>5 DEF NewPiece, WalksWithPiece, u

(* An interval of the piece may join the walk's.                           *)
LEMMA LivesFromWalks ==
  ASSUME NEW D \in SUBSET Nat, NEW v, NEW held, NEW w \in WalksWithPiece(D, v, held),
         NEW b \in D, NEW from \in Int, NEW to \in Int
  PROVE  LivesFrom(w, b, from, to) \in WalksWithPiece(D, v, held)
<1> DEFINE new == Interval(b, w.piece, from, to)
           u == [w EXCEPT !.live = @ \cup {new}]
<1>1. /\ w \in WalkFields(D) /\ LivesAnew(w, v) /\ w.piece \in w.pieces /\ Holds(w.code, held)
  BY DEF WalksIn, Walks, WalksWithPiece
<1>2. new \in Intervals /\ new.reg = w.piece
  BY <1>1 DEF Interval, Intervals, WalkFields
<1> HIDE DEF new
<1>3. u \in WalkFields(D)
  BY <1>1, <1>2 DEF WalkFields
<1>4. /\ u.piece = w.piece /\ u.pieces = w.pieces /\ u.next = w.next
      /\ u.live = w.live \cup {new} /\ u.code = w.code
  BY <1>1 DEF WalkFields
<1> HIDE DEF u
<1>5. LivesAnew(u, v)
  BY <1>1, <1>2, <1>4 DEF LivesAnew
<1>6. u \in WalksWithPiece(D, v, held)
  BY <1>1, <1>3, <1>4, <1>5 DEF WalksWithPiece, WalksIn, Walks
<1> QED
  BY <1>6 DEF LivesFrom, u, new

(* A store or a reload is an instruction with an id of its own.            *)
LEMMA StackInstrFacts ==
  ASSUME NEW kind \in {"str", "ldr"}, NEW r \in Nat, NEW n \in Nat \ {0}
  PROVE  StackInstr(kind, r, n) \in Instructions /\ StackInstr(kind, r, n).id = <<0, n>>
<1>1. <<r>> \in Seq(Nat) /\ <<>> \in Seq(Nat)
  OBVIOUS
<1> QED
  BY <1>1 DEF StackInstr, Instructions, Kinds

(* A store or a reload of the piece joins the block.                       *)
LEMMA WalkInserts ==
  ASSUME NEW D \in SUBSET Nat, NEW v, NEW held, NEW w \in WalksWithPiece(D, v, held),
         NEW b \in D, NEW block, NEW id \in Inserted, Extends(block, w.code, id)
  PROVE  [w EXCEPT !.code = block, !.own = @ \cup {id}, !.next.id = @ + 1,
                   !.at = @ \cup {<<b, w.piece, id>>}, !.last = 0] \in WalksWithPiece(D, v, held)
<1> DEFINE n == [w.next EXCEPT !.id = @ + 1]
           place == <<b, w.piece, id>>
           u == [w EXCEPT !.code = block, !.own = @ \cup {id}, !.next = n,
                          !.at = @ \cup {place}, !.last = 0]
<1>1. /\ w \in WalkFields(D) /\ LivesAnew(w, v) /\ w.piece \in w.pieces /\ Holds(w.code, held)
  BY DEF WalksIn, Walks, WalksWithPiece
<1>2. n \in [reg : Nat, id : Nat \ {0}] /\ n.reg = w.next.reg
  BY <1>1 DEF WalkFields
<1>3. place \in PlacesIn(D)
  BY <1>1 DEF WalkFields, Inserted, PlacesIn
<1>4. block \in Seq(Instructions) /\ Holds(block, held)
  BY <1>1 DEF Extends, Holds, Has
<1> HIDE DEF n, place
<1>5. u \in WalkFields(D)
  <2> DEFINE own == w.own \cup {id}
             places0 == w.at \cup {place}
             none == 0
  <2>1. own \in SUBSET Inserted /\ places0 \in SUBSET PlacesIn(D)
    BY <1>1, <1>3 DEF WalkFields
  <2>2. block \in Seq(Instructions) /\ none \in Int
    BY <1>4
  <2> HIDE DEF own, places0, none
  <2>3. [w EXCEPT !.code = block, !.own = own, !.next = n, !.at = places0, !.last = none] \in WalkFields(D)
    BY <1>1, <1>2, <2>1, <2>2 DEF WalkFields
  <2> QED
    BY <2>3 DEF own, places0, none
<1>6. /\ u.piece = w.piece /\ u.pieces = w.pieces /\ u.next = n
      /\ u.live = w.live /\ u.code = block
  BY <1>1 DEF WalkFields
<1>7. u = [w EXCEPT !.code = block, !.own = @ \cup {id}, !.next.id = @ + 1,
                   !.at = @ \cup {<<b, w.piece, id>>}, !.last = 0]
  BY <1>1 DEF WalkFields, n, place
<1> HIDE DEF u
<1>8. LivesAnew(u, v)
  BY <1>1, <1>2, <1>6 DEF LivesAnew
<1>9. u \in WalksWithPiece(D, v, held)
  BY <1>1, <1>4, <1>5, <1>6, <1>8 DEF WalksWithPiece, WalksIn, Walks
<1> QED
  BY <1>7, <1>9

(* What does not concern pieces may change.                                *)
LEMMA WalkMarks ==
  ASSUME NEW D \in SUBSET Nat, NEW v, NEW held, NEW w \in WalksWithPiece(D, v, held),
         NEW own \in SUBSET Inserted, NEW erased \in SUBSET ErasuresIn(D),
         NEW store \in BOOLEAN, NEW last \in Int, NEW done \in BOOLEAN
  PROVE  [w EXCEPT !.own = own, !.erased = erased, !.store = store, !.last = last, !.done = done]
           \in WalksWithPiece(D, v, held)
<1> DEFINE u == [w EXCEPT !.own = own, !.erased = erased, !.store = store, !.last = last, !.done = done]
<1>1. /\ w \in WalkFields(D) /\ LivesAnew(w, v) /\ w.piece \in w.pieces /\ Holds(w.code, held)
  BY DEF WalksIn, Walks, WalksWithPiece
<1>2. u \in WalkFields(D)
  BY <1>1 DEF WalkFields
<1>3. /\ u.piece = w.piece /\ u.pieces = w.pieces /\ u.next = w.next
      /\ u.live = w.live /\ u.code = w.code
  BY <1>1 DEF WalkFields
<1> HIDE DEF u
<1>4. LivesAnew(u, v)
  BY <1>1, <1>3 DEF LivesAnew
<1>5. u \in WalksWithPiece(D, v, held)
  BY <1>1, <1>2, <1>3, <1>4 DEF WalksWithPiece, WalksIn, Walks
<1> QED
  BY <1>5 DEF u

(* The handling of an instruction that writes v: a live interval, a store, *)
(* or the removal of the store that the write no longer needs.             *)
LEMMA AtOutputWalks ==
  ASSUME NEW D \in SUBSET Nat, NEW v, NEW held, NEW w \in WalksWithPiece(D, v, held),
         NEW b \in D, NEW i \in Instructions, Has(held, i.id)
  PROVE  AtOutput(w, b, i) \in WalksWithPiece(D, v, held)
<1> DEFINE id == <<0, w.next.id>>
           stored == InsertAfter(w.code, i.id, StackInstr("str", w.piece, w.next.id))
           simple == LivesFrom(w, b, i.pos, w.last)
           kept == LivesFrom(w, b, i.pos, LastUseOr(w, PosOf(stored, id)))
           added == [kept EXCEPT !.code = stored, !.own = @ \cup {id}, !.next.id = @ + 1,
                                 !.at = @ \cup {<<b, w.piece, id>>}]
           written == CASE ~w.store -> simple
                        [] w.store /\ i.id \in w.own -> simple
                        [] OTHER -> added
           dropped == [w EXCEPT !.own = @ \ {i.id}, !.erased = @ \cup {<<b, i.id>>},
                                !.store = FALSE, !.done = TRUE]
<1>1. /\ w \in WalkFields(D) /\ Has(w.code, i.id)
  BY DEF WalksIn, Walks, WalksWithPiece, Holds, Has
<1>2. /\ w.code \in Seq(Instructions) /\ w.piece \in Nat /\ w.last \in Int /\ w.store \in BOOLEAN
      /\ w.own \in SUBSET Inserted /\ w.erased \in SUBSET ErasuresIn(D)
      /\ w.next.id \in Nat \ {0} /\ w.done \in BOOLEAN /\ i.pos \in Int
  BY <1>1 DEF WalkFields, Instructions
<1>3. AtOutput(w, b, i) = IF w.store /\ i.id \in w.own /\ w.last = 0
                          THEN dropped ELSE [written EXCEPT !.last = 0, !.store = FALSE]
  BY DEF AtOutput
<1>4. i.id \in w.own => dropped \in WalksWithPiece(D, v, held)
  <2>1. SUFFICES ASSUME i.id \in w.own PROVE dropped \in WalksWithPiece(D, v, held)
    OBVIOUS
  <2> DEFINE own == w.own \ {i.id}
             erased == w.erased \cup {<<b, i.id>>}
  <2>2. own \in SUBSET Inserted /\ erased \in SUBSET ErasuresIn(D)
    BY <1>2, <2>1 DEF ErasuresIn
  <2> HIDE DEF own, erased
  <2>3. [w EXCEPT !.own = own, !.erased = erased, !.store = FALSE, !.last = w.last, !.done = TRUE]
          \in WalksWithPiece(D, v, held)
    BY <1>2, <2>2, WalkMarks
  <2>4. dropped = [w EXCEPT !.own = own, !.erased = erased, !.store = FALSE, !.last = w.last, !.done = TRUE]
    BY <1>1 DEF WalkFields, own, erased
  <2> QED
    BY <2>3, <2>4
<1>5. simple \in WalksWithPiece(D, v, held)
  BY <1>2, LivesFromWalks
<1>6. Extends(stored, w.code, id) /\ id \in Inserted
  <2> DEFINE s == StackInstr("str", w.piece, w.next.id)
  <2>1. s \in Instructions /\ s.id = id
    BY <1>2, StackInstrFacts
  <2> HIDE DEF s
  <2>2. Extends(InsertAfter(w.code, i.id, s), w.code, s.id)
    BY <1>1, <1>2, <2>1, InsertKeeps
  <2> QED
    BY <1>2, <2>1, <2>2 DEF Inserted, s
<1>7. kept \in WalksWithPiece(D, v, held)
  <2>1. PosOf(stored, id) \in Int
    BY <1>6, IndexOfFinds DEF Extends
  <2>2. LastUseOr(w, PosOf(stored, id)) \in Int
    BY <1>2, <2>1 DEF LastUseOr
  <2> HIDE DEF stored, id
  <2> QED
    BY <1>2, <2>2, LivesFromWalks
<1>8. /\ kept.code = w.code /\ kept.piece = w.piece /\ kept.store = w.store
      /\ kept.next = w.next /\ kept.own = w.own /\ kept.at = w.at
  BY <1>1 DEF LivesFrom, WalkFields
<1> HIDE DEF stored, id, simple, kept
<1>9. [added EXCEPT !.last = 0] \in WalksWithPiece(D, v, held)
  <2>1. [kept EXCEPT !.code = stored, !.own = @ \cup {id}, !.next.id = @ + 1,
                     !.at = @ \cup {<<b, kept.piece, id>>}, !.last = 0] \in WalksWithPiece(D, v, held)
    BY <1>6, <1>7, <1>8, WalkInserts
  <2>2. kept \in WalkFields(D)
    BY <1>7 DEF WalksIn, Walks, WalksWithPiece
  <2>3. [added EXCEPT !.last = 0] =
          [kept EXCEPT !.code = stored, !.own = @ \cup {id}, !.next.id = @ + 1,
                       !.at = @ \cup {<<b, kept.piece, id>>}, !.last = 0]
    BY <1>8, <2>2 DEF WalkFields
  <2> QED
    BY <2>1, <2>3
<1>10. ASSUME NEW x \in WalksWithPiece(D, v, held)
       PROVE  [x EXCEPT !.last = 0, !.store = FALSE] \in WalksWithPiece(D, v, held)
  <2> DEFINE none == 0
  <2>1. /\ x \in WalkFields(D) /\ none \in Int
        /\ x.own \in SUBSET Inserted /\ x.erased \in SUBSET ErasuresIn(D) /\ x.done \in BOOLEAN
    BY DEF WalksIn, Walks, WalksWithPiece, WalkFields
  <2> HIDE DEF none
  <2>2. [x EXCEPT !.own = x.own, !.erased = x.erased, !.store = FALSE, !.last = none, !.done = x.done]
          \in WalksWithPiece(D, v, held)
    BY <2>1, WalkMarks
  <2>3. [x EXCEPT !.last = none, !.store = FALSE] =
          [x EXCEPT !.own = x.own, !.erased = x.erased, !.store = FALSE, !.last = none, !.done = x.done]
    BY <2>1 DEF WalkFields
  <2> QED
    BY <2>2, <2>3 DEF none
<1>11. [written EXCEPT !.last = 0, !.store = FALSE] \in WalksWithPiece(D, v, held)
  <2>1. CASE written = simple
    BY <1>5, <1>10, <2>1
  <2>2. CASE written = added
    <3> DEFINE x == [added EXCEPT !.last = 0]
    <3>1. [x EXCEPT !.last = 0, !.store = FALSE] \in WalksWithPiece(D, v, held)
      BY <1>9, <1>10
    <3>2. kept \in WalkFields(D)
      BY <1>7 DEF WalksIn, Walks, WalksWithPiece
    <3>3. [x EXCEPT !.last = 0, !.store = FALSE] = [added EXCEPT !.last = 0, !.store = FALSE]
      BY <3>2 DEF WalkFields
    <3> QED
      BY <2>2, <3>1, <3>3
  <2>3. written = simple \/ written = added
    OBVIOUS
  <2> QED
    BY <2>1, <2>2, <2>3
<1> QED
  BY <1>3, <1>4, <1>11

(* The handling of an instruction that reads v: a use, a reload, or the    *)
(* removal of the reload.                                                  *)
LEMMA AtInputWalks ==
  ASSUME NEW D \in SUBSET Nat, NEW v, NEW held, NEW w \in WalksWithPiece(D, v, held),
         NEW b \in D, NEW i \in Instructions, Has(held, i.id), NEW cause
  PROVE  AtInput(w, b, v, cause, i) \in WalksWithPiece(D, v, held)
<1> DEFINE reload == ReloadWanted(code[b], b, v, cause, i.pos)
           mine == i.id \in w.own
           own == IF reload THEN w.own \ {i.id} ELSE w.own
           erased == IF reload /\ mine THEN w.erased \cup {<<b, i.id>>} ELSE w.erased
           store == w.store \/ reload
           u == [w EXCEPT !.store = store, !.own = own, !.erased = erased]
           id == <<0, w.next.id>>
           loaded == InsertBefore(w.code, i.id, StackInstr("ldr", w.piece, w.next.id))
           kept == LivesFrom(u, b, PosOf(loaded, id), LastUseOr(w, i.pos))
           used == [u EXCEPT !.last = IF @ = 0 THEN i.pos ELSE @]
           added == [kept EXCEPT !.code = loaded, !.own = @ \cup {id}, !.next.id = @ + 1,
                                 !.at = @ \cup {<<b, w.piece, id>>}, !.last = 0]
<1>1. /\ w \in WalkFields(D) /\ Has(w.code, i.id)
  BY DEF WalksIn, Walks, WalksWithPiece, Holds, Has
<1>2. /\ w.code \in Seq(Instructions) /\ w.piece \in Nat /\ w.last \in Int /\ w.store \in BOOLEAN
      /\ w.own \in SUBSET Inserted /\ w.erased \in SUBSET ErasuresIn(D)
      /\ w.next.id \in Nat \ {0} /\ w.done \in BOOLEAN /\ i.pos \in Int
  BY <1>1 DEF WalkFields, Instructions
<1>3. AtInput(w, b, v, cause, i) =
        CASE ~reload -> used
          [] reload /\ mine /\ w.last = 0 -> [u EXCEPT !.done = TRUE]
          [] OTHER -> added
  BY DEF AtInput
<1>4. reload \in BOOLEAN
  BY DEF ReloadWanted
<1> HIDE DEF reload
<1>5. own \in SUBSET Inserted /\ erased \in SUBSET ErasuresIn(D) /\ store \in BOOLEAN
  BY <1>2, <1>4 DEF ErasuresIn
<1> HIDE DEF own, erased, store
<1>6. ASSUME NEW last \in Int, NEW done \in BOOLEAN
      PROVE  [u EXCEPT !.last = last, !.done = done] \in WalksWithPiece(D, v, held)
  <2>1. [w EXCEPT !.own = own, !.erased = erased, !.store = store, !.last = last, !.done = done]
          \in WalksWithPiece(D, v, held)
    BY <1>5, WalkMarks
  <2>2. [u EXCEPT !.last = last, !.done = done] =
          [w EXCEPT !.own = own, !.erased = erased, !.store = store, !.last = last, !.done = done]
    BY <1>1 DEF WalkFields
  <2> QED
    BY <2>1, <2>2
<1>7. /\ u.code = w.code /\ u.piece = w.piece /\ u.last = w.last /\ u.done = w.done
      /\ u.next = w.next /\ u.at = w.at /\ DOMAIN u = DOMAIN w
  BY <1>1 DEF WalkFields
<1>8. u \in WalksWithPiece(D, v, held)
  <2>1. [u EXCEPT !.last = w.last, !.done = w.done] \in WalksWithPiece(D, v, held)
    BY <1>2, <1>6
  <2>2. [u EXCEPT !.last = w.last, !.done = w.done] = u
    BY <1>1 DEF WalkFields
  <2> QED
    BY <2>1, <2>2
<1>9. used \in WalksWithPiece(D, v, held)
  <2> DEFINE last == IF w.last = 0 THEN i.pos ELSE w.last
  <2>1. last \in Int
    BY <1>2
  <2>2. used = [u EXCEPT !.last = last, !.done = w.done]
    BY <1>1 DEF WalkFields
  <2> HIDE DEF last, used
  <2> QED
    BY <1>2, <1>6, <2>1, <2>2
<1>10. [u EXCEPT !.done = TRUE] \in WalksWithPiece(D, v, held)
  <2>1. [u EXCEPT !.done = TRUE] = [u EXCEPT !.last = w.last, !.done = TRUE]
    BY <1>1 DEF WalkFields
  <2> QED
    BY <1>2, <1>6, <2>1
<1> HIDE DEF u
<1>11. Extends(loaded, w.code, id) /\ id \in Inserted
  <2> DEFINE s == StackInstr("ldr", w.piece, w.next.id)
  <2>1. s \in Instructions /\ s.id = id
    BY <1>2, StackInstrFacts
  <2> HIDE DEF s
  <2>2. Extends(InsertBefore(w.code, i.id, s), w.code, s.id)
    BY <1>1, <1>2, <2>1, InsertKeeps
  <2> QED
    BY <1>2, <2>1, <2>2 DEF Inserted, s
<1>12. kept \in WalksWithPiece(D, v, held)
  <2>1. PosOf(loaded, id) \in Int
    BY <1>11, IndexOfFinds DEF Extends
  <2>2. LastUseOr(w, i.pos) \in Int
    BY <1>2 DEF LastUseOr
  <2> HIDE DEF loaded, id
  <2> QED
    BY <1>8, <2>1, <2>2, LivesFromWalks
<1>13. kept.code = w.code /\ kept.piece = w.piece /\ kept.next = w.next
  <2>1. u \in WalkFields(D)
    BY <1>8 DEF WalksIn, Walks, WalksWithPiece
  <2> QED
    BY <1>7, <2>1 DEF LivesFrom, WalkFields
<1> HIDE DEF loaded, id, kept
<1>14. added \in WalksWithPiece(D, v, held)
  BY <1>11, <1>12, <1>13, WalkInserts
<1> HIDE DEF added, used
<1> QED
  BY <1>3, <1>9, <1>10, <1>14

(* insert_or_intersect leaves sets of physical registers.                  *)
LEMMA RestrictedIsRestriction ==
  ASSUME NEW allowed \in Restrictions, NEW r \in Nat, NEW S \in SUBSET PhysRegs
  PROVE  Restricted(allowed, r, S) \in Restrictions
<1>1. PICK A \in SUBSET Nat : allowed \in [A -> SUBSET PhysRegs]
  BY DEF Restrictions
<1>2. Restricted(allowed, r, S) \in [A \cup {r} -> SUBSET PhysRegs]
  BY <1>1 DEF Restricted
<1> QED
  BY <1>2 DEF Restrictions

(* Renaming v in an instruction of the block keeps the block and the walk. *)
LEMMA RenameAtWalks ==
  ASSUME NEW D \in SUBSET Nat, NEW v, NEW held, NEW w \in WalksWithPiece(D, v, held),
         NEW b \in D, NEW i \in Instructions, Has(held, i.id)
  PROVE  RenameAt(w, b, v, i) \in WalksWithPiece(D, v, held)
<1> DEFINE k == IndexOf(w.code, i.id)
           renamed == RenamedIn(w.code[k], v, w.piece)
           block == [w.code EXCEPT ![k] = renamed]
           allowed == IF HasChoices(i) /\ v \in Ins(i)
                      THEN Restricted(w.allowed, w.piece, ChoicesOf(i, v)) ELSE w.allowed
           places0 == w.at \cup {<<b, w.piece, i.id>>}
           u == [w EXCEPT !.code = block, !.at = places0, !.allowed = allowed]
<1>1. /\ w \in WalkFields(D) /\ LivesAnew(w, v) /\ w.piece \in w.pieces
      /\ Holds(w.code, held) /\ Has(w.code, i.id)
  BY DEF WalksIn, Walks, WalksWithPiece, Holds, Has
<1>2. /\ w.code \in Seq(Instructions) /\ w.piece \in Nat /\ w.allowed \in Restrictions
      /\ w.at \in SUBSET PlacesIn(D) /\ i.id \in Nat \X Nat
  BY <1>1 DEF WalkFields, Instructions
<1>3. k \in DOMAIN w.code /\ w.code[k] \in Instructions
  BY <1>1, <1>2, IndexOfFinds
<1>4. renamed \in Instructions /\ renamed.id = w.code[k].id
  <2> DEFINE outs == ReplaceAll(w.code[k].outs, v, w.piece)
             ins == ReplaceAll(w.code[k].ins, v, w.piece)
  <2>1. ASSUME NEW s \in Seq(Nat) PROVE ReplaceAll(s, v, w.piece) \in Seq(Nat)
    BY <1>2 DEF ReplaceAll
  <2>2. outs \in Seq(Nat) /\ ins \in Seq(Nat)
    BY <1>3, <2>1 DEF Instructions
  <2>3. renamed = [w.code[k] EXCEPT !.outs = outs, !.ins = ins]
    BY DEF RenamedIn
  <2> HIDE DEF outs, ins, k, renamed
  <2> QED
    BY <1>3, <2>2, <2>3 DEF Instructions
<1> HIDE DEF k, renamed
<1>5. block \in Seq(Instructions) /\ Holds(block, held)
  <2>1. /\ block \in Seq(Instructions) /\ DOMAIN block = DOMAIN w.code
        /\ \A n \in DOMAIN w.code : block[n].id = w.code[n].id
    BY <1>2, <1>3, <1>4
  <2> HIDE DEF block
  <2> QED
    BY <1>1, <2>1 DEF Holds, Has
<1>6. allowed \in Restrictions
  <2>1. ChoicesOf(i, v) \in SUBSET PhysRegs
    BY DEF ChoicesOf
  <2> QED
    BY <1>2, <2>1, RestrictedIsRestriction
<1>7. places0 \in SUBSET PlacesIn(D)
  BY <1>2 DEF PlacesIn
<1>8. RenameAt(w, b, v, i) = u
  BY <1>1 DEF RenameAt, WalkFields, renamed, k
<1> HIDE DEF block, allowed, places0
<1>9. u \in WalkFields(D)
  BY <1>1, <1>5, <1>6, <1>7 DEF WalkFields
<1>10. /\ u.piece = w.piece /\ u.pieces = w.pieces /\ u.next = w.next
       /\ u.live = w.live /\ u.code = block
  BY <1>1 DEF WalkFields
<1> HIDE DEF u
<1>11. LivesAnew(u, v)
  BY <1>1, <1>10 DEF LivesAnew
<1> QED
  BY <1>1, <1>5, <1>8, <1>9, <1>10, <1>11 DEF WalksWithPiece, WalksIn, Walks

(* One place of v.                                                         *)
LEMMA SpillAtWalks ==
  ASSUME NEW D \in SUBSET Nat, NEW v, NEW held, NEW w \in WalksIn(D, v, held),
         NEW b \in D, NEW i \in Instructions, Has(held, i.id), NEW cause, fresh.reg \in Nat
  PROVE  SpillAt(w, b, v, cause, i) \in WalksIn(D, v, held)
<1> DEFINE start == [w EXCEPT !.done = FALSE]
           piece == NewPiece(start)
           wrote == IfWritten(piece, b, v, i)
           read == IfRead(wrote, b, v, cause, i)
<1>1. start \in WalksIn(D, v, held)
  <2>1. w \in WalkFields(D) /\ LivesAnew(w, v) /\ (w.last # 0 => w.piece \in w.pieces) /\ Holds(w.code, held)
    BY DEF WalksIn, Walks
  <2>2. start \in WalkFields(D)
    BY <2>1 DEF WalkFields
  <2>3. /\ start.piece = w.piece /\ start.pieces = w.pieces /\ start.next = w.next
        /\ start.live = w.live /\ start.code = w.code /\ start.last = w.last
    BY <2>1 DEF WalkFields
  <2> HIDE DEF start
  <2>4. LivesAnew(start, v)
    BY <2>1, <2>3 DEF LivesAnew
  <2> QED
    BY <2>1, <2>2, <2>3, <2>4 DEF WalksIn, Walks
<1>2. piece \in WalksWithPiece(D, v, held)
  BY <1>1, NewPieceWalks
<1> HIDE DEF start, piece
<1>3. wrote \in WalksWithPiece(D, v, held)
  BY <1>2, AtOutputWalks DEF IfWritten
<1> HIDE DEF wrote
<1>4. read \in WalksWithPiece(D, v, held)
  BY <1>3, AtInputWalks DEF IfRead
<1> HIDE DEF read
<1>5. IfKept(read, b, v, i) \in WalksWithPiece(D, v, held)
  BY <1>4, RenameAtWalks DEF IfKept
<1>6. SpillAt(w, b, v, cause, i) = IfKept(read, b, v, i)
  BY DEF SpillAt, read, wrote, piece, start
<1> QED
  BY <1>5, <1>6 DEF WalksWithPiece

(* The places of v in a block, and the walk over them, backwards.          *)
Here(b, v) == Part(code[b], {k \in DOMAIN code[b] : <<b, v, code[b][k].id>> \in places})
StartIn(w, b, v) == [w EXCEPT !.code = code[b], !.store = v \in flow.out[b], !.last = 0]

BackwardWalk(iter, w, b, v, cause) ==
  /\ SpillInBlock(w, b, v, cause) = WithBlock(iter[DOMAIN Here(b, v)], b)
  /\ \A s \in SUBSET DOMAIN Here(b, v) :
       iter[s] = IF s = {} THEN StartIn(w, b, v)
                 ELSE SpillAt(iter[s \ {Min(s)}], b, v, cause, Here(b, v)[Min(s)])

(* It is made place by place, and keeps a walk of the block.               *)
LEMMA SpillInBlockFolds ==
  ASSUME NEW D \in SUBSET Nat, NEW v, NEW w \in Walks(D, v), NEW b \in D,
         code[b] \in RealBlocks, NEW cause, fresh.reg \in Nat
  PROVE  \E iter :
           /\ BackwardWalk(iter, w, b, v, cause)
           /\ \A s \in SUBSET DOMAIN Here(b, v) : iter[s] \in WalksIn(D, v, code[b])
<1> DEFINE held == code[b]
           here == Here(b, v)
           start == StartIn(w, b, v)
           S == DOMAIN here
           W == WalksIn(D, v, held)
           pick == [s \in SUBSET S |-> Min(s)]
           step == [p \in W \X S |-> SpillAt(p[1], b, v, cause, here[p[2]])]
           iter == CHOOSE f : f = [s \in SUBSET S |->
                     IF s = {} THEN start ELSE SpillAt(f[s \ {Min(s)}], b, v, cause, here[Min(s)])]
<1>1. SpillInBlock(w, b, v, cause) = WithBlock(iter[S], b)
  BY DEF SpillInBlock, FoldRight, MapThenFoldSet, Here, StartIn
<1>2. held \in Seq(Instructions) /\ Real(held)
  BY DEF RealBlocks
<1>3. here \in Seq(Instructions) /\ \A n \in S : here[n] \in Instructions /\ Has(held, here[n].id)
  <2> DEFINE K == {k \in DOMAIN held : <<b, v, held[k].id>> \in places}
  <2>1. K \in SUBSET DOMAIN held
    OBVIOUS
  <2> HIDE DEF K, held
  <2>2. /\ Part(held, K) \in Seq(Instructions)
        /\ \A n \in DOMAIN Part(held, K) : \E k \in K : Part(held, K)[n] = held[k]
    BY <1>2, <2>1, PartOfSequence
  <2>3. here = Part(held, K)
    BY DEF K, held, Here
  <2> HIDE DEF here
  <2>4. \A n \in S : here[n] \in Instructions /\ Has(held, here[n].id)
    BY <2>1, <2>2, <2>3 DEF Has
  <2> QED
    BY <2>2, <2>3, <2>4
<1>4. start \in W
  <2> DEFINE none == 0
             store == v \in flow.out[b]
             u == [w EXCEPT !.code = held, !.store = store, !.last = none]
  <2>1. w \in WalkFields(D) /\ LivesAnew(w, v)
    BY DEF Walks
  <2>2. none \in Int /\ store \in BOOLEAN /\ Holds(held, held)
    BY DEF Holds, Has
  <2> HIDE DEF none, store, held
  <2>3. u \in WalkFields(D)
    BY <1>2, <2>1, <2>2 DEF WalkFields
  <2>4. /\ u.piece = w.piece /\ u.pieces = w.pieces /\ u.next = w.next
        /\ u.live = w.live /\ u.code = held /\ u.last = none
    BY <2>1 DEF WalkFields
  <2>5. u = start
    BY DEF none, store, held, StartIn
  <2> HIDE DEF u, start
  <2>6. LivesAnew(u, v)
    BY <2>1, <2>4 DEF LivesAnew
  <2>7. u \in W
    BY <2>2, <2>3, <2>4, <2>6 DEF WalksIn, Walks, none
  <2> QED
    BY <2>5, <2>7
<1> HIDE DEF here, held, start
<1>5. IsFiniteSet(S) /\ S \in SUBSET Int
  BY <1>3, SequenceSetIsFinite
<1>6. Picks(pick, S)
  <2>1. ASSUME NEW s \in SUBSET S, s # {} PROVE Min(s) \in s
    BY <1>5, <2>1, FS_Subset, FiniteExtremes
  <2> QED
    BY <2>1 DEF Picks
<1>7. \A x \in W : \A n \in S : SpillAt(x, b, v, cause, here[n]) \in W
  BY <1>3, SpillAtWalks
<1> HIDE DEF W, S
<1>8. step \in [W \X S -> W]
  BY <1>7
<1>9. \E f : f = [s \in SUBSET S |->
                IF s = {} THEN start ELSE SpillAt(f[s \ {Min(s)}], b, v, cause, here[Min(s)])]
  <2>1. PICK f \in [SUBSET S -> W] : Folds(f, pick, start, step, SUBSET S)
    <3> HIDE DEF step, pick, S
    <3> QED
      BY <1>4, <1>5, <1>6, <1>8, FoldExists
  <2>2. ASSUME NEW s \in SUBSET S
        PROVE  f[s] = IF s = {} THEN start ELSE SpillAt(f[s \ {Min(s)}], b, v, cause, here[Min(s)])
    BY <1>6, <2>1 DEF Folds, Picks
  <2> QED
    BY <2>1, <2>2
<1>10. \A s \in SUBSET S :
         iter[s] = IF s = {} THEN start ELSE SpillAt(iter[s \ {Min(s)}], b, v, cause, here[Min(s)])
  BY <1>9
<1> HIDE DEF iter
<1>11. \A s \in SUBSET S : iter[s] \in W
  <2> DEFINE Good == {s \in SUBSET S : iter[s] \in W}
  <2>1. {} \in Good
    BY <1>4, <1>10
  <2>2. ASSUME NEW s \in SUBSET S, s # {}, s \ {pick[s]} \in Good PROVE s \in Good
    <3>1. pick[s] = Min(s) /\ Min(s) \in S
      BY <1>6, <2>2 DEF Picks
    <3> QED
      BY <1>7, <1>10, <2>2, <3>1
  <2> HIDE DEF Good, pick
  <2>3. \A s \in SUBSET S : s # {} /\ s \ {pick[s]} \in Good => s \in Good
    BY <2>2
  <2>4. \A s \in SUBSET S : s \in Good
    <3>1. IsFiniteSet(S)
      BY <1>5
    <3> QED
      BY ONLY <3>1, <1>6, <2>1, <2>3, SubsetInduction
  <2> QED
    BY <2>4 DEF Good
<1>12. BackwardWalk(iter, w, b, v, cause)
  <2>1. \A s \in SUBSET DOMAIN Here(b, v) :
          iter[s] = IF s = {} THEN StartIn(w, b, v)
                    ELSE SpillAt(iter[s \ {Min(s)}], b, v, cause, Here(b, v)[Min(s)])
    BY <1>10 DEF S, here, start
  <2> QED
    BY <1>1, <2>1 DEF BackwardWalk, S, here
<1> QED
  BY <1>11, <1>12 DEF W, S, here, held

(* Every place of v in a block, backwards.                                 *)
LEMMA SpillInBlockWalks ==
  ASSUME NEW D \in SUBSET Nat, NEW v, NEW w \in Walks(D, v), NEW b \in D,
         code[b] \in RealBlocks, NEW cause, fresh.reg \in Nat
  PROVE  SpillInBlock(w, b, v, cause) \in Walks(D, v)
<1>1. PICK iter :
        /\ BackwardWalk(iter, w, b, v, cause)
        /\ \A s \in SUBSET DOMAIN Here(b, v) : iter[s] \in WalksIn(D, v, code[b])
  BY SpillInBlockFolds
<1> DEFINE end == iter[DOMAIN Here(b, v)]
<1>2. end \in WalksIn(D, v, code[b]) /\ SpillInBlock(w, b, v, cause) = WithBlock(end, b)
  BY <1>1 DEF BackwardWalk
<1> HIDE DEF end
<1>3. WithBlock(end, b) \in Walks(D, v)
  <2> DEFINE blocks == [end.blocks EXCEPT ![b] = end.code]
             u == [end EXCEPT !.blocks = blocks]
  <2>1. /\ end \in WalkFields(D) /\ LivesAnew(end, v) /\ (end.last # 0 => end.piece \in end.pieces)
        /\ Holds(end.code, code[b])
    BY <1>2 DEF WalksIn, Walks
  <2>2. end.code \in RealBlocks
    BY <2>1 DEF WalkFields, RealBlocks, Real, Holds, Has
  <2>3. blocks \in [D -> RealBlocks]
    BY <2>1, <2>2 DEF WalkFields
  <2>4. WithBlock(end, b) = u
    BY <2>1 DEF WithBlock, WalkFields
  <2> HIDE DEF blocks
  <2>5. u \in WalkFields(D)
    BY <2>1, <2>3 DEF WalkFields
  <2>6. /\ u.piece = end.piece /\ u.pieces = end.pieces /\ u.next = end.next
        /\ u.live = end.live /\ u.last = end.last
    BY <2>1 DEF WalkFields
  <2> HIDE DEF u
  <2>7. LivesAnew(u, v)
    BY <2>1, <2>6 DEF LivesAnew
  <2> QED
    BY <2>1, <2>4, <2>5, <2>6, <2>7 DEF Walks
<1> QED
  BY <1>2, <1>3

(* Every block with a place of v.                                          *)
WalkOver(start, v, cause, seq) == FoldLeft(LAMBDA w, b : SpillInBlock(w, b, v, cause), start, seq)

ForwardWalk(iter, start, v, cause, seq) ==
  /\ WalkOver(start, v, cause, seq) = iter[DOMAIN seq]
  /\ \A s \in SUBSET DOMAIN seq :
       iter[s] = IF s = {} THEN start ELSE SpillInBlock(iter[s \ {Max(s)}], seq[Max(s)], v, cause)

(* The walk over a list of blocks.                                         *)
LEMMA BlocksFold ==
  ASSUME NEW D \in SUBSET Nat, NEW v, NEW start \in Walks(D, v), NEW seq \in Seq(D),
         \A b \in D : code[b] \in RealBlocks, NEW cause, fresh.reg \in Nat
  PROVE  \E iter : /\ ForwardWalk(iter, start, v, cause, seq)
                   /\ \A s \in SUBSET DOMAIN seq : iter[s] \in Walks(D, v)
<1> DEFINE S == DOMAIN seq
           W == Walks(D, v)
           pick == [s \in SUBSET S |-> Max(s)]
           step == [p \in W \X S |-> SpillInBlock(p[1], seq[p[2]], v, cause)]
           iter == CHOOSE f : f = [s \in SUBSET S |->
                     IF s = {} THEN start ELSE SpillInBlock(f[s \ {Max(s)}], seq[Max(s)], v, cause)]
<1>1. WalkOver(start, v, cause, seq) = iter[S]
  BY DEF WalkOver, FoldLeft, MapThenFoldSet
<1>2. IsFiniteSet(S) /\ S \in SUBSET Int
  BY SequenceSetIsFinite
<1>3. Picks(pick, S)
  <2>1. ASSUME NEW s \in SUBSET S, s # {} PROVE Max(s) \in s
    BY <1>2, <2>1, FS_Subset, FiniteExtremes
  <2> QED
    BY <2>1 DEF Picks
<1>4. \A x \in W : \A n \in S : SpillInBlock(x, seq[n], v, cause) \in W
  <2>1. \A n \in S : seq[n] \in D
    OBVIOUS
  <2> QED
    BY <2>1, SpillInBlockWalks
<1> HIDE DEF W
<1>5. start \in W
  BY DEF W
<1>6. step \in [W \X S -> W]
  BY <1>4
<1>7. \E f : f = [s \in SUBSET S |->
                IF s = {} THEN start ELSE SpillInBlock(f[s \ {Max(s)}], seq[Max(s)], v, cause)]
  <2>1. PICK f \in [SUBSET S -> W] : Folds(f, pick, start, step, SUBSET S)
    <3> HIDE DEF step, pick, S
    <3> QED
      BY <1>2, <1>3, <1>5, <1>6, FoldExists
  <2>2. ASSUME NEW s \in SUBSET S
        PROVE  f[s] = IF s = {} THEN start ELSE SpillInBlock(f[s \ {Max(s)}], seq[Max(s)], v, cause)
    BY <1>3, <2>1 DEF Folds, Picks
  <2> QED
    BY <2>1, <2>2
<1>8. \A s \in SUBSET S :
        iter[s] = IF s = {} THEN start ELSE SpillInBlock(iter[s \ {Max(s)}], seq[Max(s)], v, cause)
  BY <1>7
<1> HIDE DEF iter
<1>9. \A s \in SUBSET S : iter[s] \in W
  <2> DEFINE Good == {s \in SUBSET S : iter[s] \in W}
  <2>1. {} \in Good
    BY <1>5, <1>8
  <2>2. ASSUME NEW s \in SUBSET S, s # {}, s \ {pick[s]} \in Good PROVE s \in Good
    <3>1. pick[s] = Max(s) /\ Max(s) \in S
      BY <1>3, <2>2 DEF Picks
    <3> QED
      BY <1>4, <1>8, <2>2, <3>1
  <2> HIDE DEF Good, pick, S
  <2>3. \A s \in SUBSET S : s # {} /\ s \ {pick[s]} \in Good => s \in Good
    BY <2>2
  <2>4. \A s \in SUBSET S : s \in Good
    <3>1. IsFiniteSet(S)
      BY <1>2
    <3> QED
      BY ONLY <3>1, <1>3, <2>1, <2>3, SubsetInduction
  <2> QED
    BY <2>4 DEF Good
<1> QED
  BY <1>1, <1>8, <1>9 DEF W, ForwardWalk

LEMMA BlocksWalk ==
  ASSUME NEW D \in SUBSET Nat, NEW v, NEW start \in Walks(D, v), NEW seq \in Seq(D),
         \A b \in D : code[b] \in RealBlocks, NEW cause, fresh.reg \in Nat
  PROVE  WalkOver(start, v, cause, seq) \in Walks(D, v)
<1>1. PICK iter : /\ ForwardWalk(iter, start, v, cause, seq)
                  /\ \A s \in SUBSET DOMAIN seq : iter[s] \in Walks(D, v)
  BY BlocksFold
<1> QED
  BY <1>1 DEF ForwardWalk

-----------------------------------------------------------------------------
(* What a spill does at the entry and the returns of the function, to a    *)
(* register that arrives there.                                            *)

Walked(D, v) == {w \in WalkFields(D) : LivesAnew(w, v)}

(* A store or reload of an input of the function under its own name: its   *)
(* interval is v's, which is no piece and so needs the input's name to be  *)
(* known.                                                                  *)
LEMMA StackPlaceWalks ==
  ASSUME NEW D \in SUBSET Nat, NEW v \in ToSet(Inputs(source)), v \in Nat, NEW w \in Walked(D, v),
         NEW b \in D, NEW kind \in {"str", "ldr"}, NEW k \in DOMAIN w.blocks[b]
  PROVE  StackPlace(w, b, v, kind, w.blocks[b][k]) \in Walked(D, v)
<1> DEFINE before == w.blocks[b][k]
           id == <<0, w.next.id>>
           block == InsertBefore(w.blocks[b], before.id, StackInstr(kind, v, w.next.id))
           pos == PosOf(block, id)
           held == IF kind = "str" THEN Interval(b, v, 0, pos) ELSE Interval(b, v, pos, before.pos)
           blocks == [w.blocks EXCEPT ![b] = block]
           own == w.own \cup {id}
           n == [w.next EXCEPT !.id = @ + 1]
           places0 == w.at \cup {<<b, v, id>>}
           live == w.live \cup {held}
           u == [w EXCEPT !.blocks = blocks, !.own = own, !.next = n, !.at = places0, !.live = live]
<1>1. w \in WalkFields(D) /\ LivesAnew(w, v)
  BY DEF Walked
<1>2. /\ w.blocks \in [D -> RealBlocks] /\ w.next.id \in Nat \ {0} /\ w.next \in [reg : Nat, id : Nat \ {0}]
      /\ w.own \in SUBSET Inserted /\ w.at \in SUBSET PlacesIn(D) /\ w.live \in SUBSET Intervals
  BY <1>1 DEF WalkFields
<1>3. w.blocks[b] \in Seq(Instructions) /\ Real(w.blocks[b])
  BY <1>2 DEF RealBlocks
<1>4. before \in Instructions /\ before.pos \in Int /\ Has(w.blocks[b], before.id)
  <2>1. before \in Instructions
    BY <1>3
  <2> QED
    BY <2>1 DEF Instructions, Has
<1>5. Extends(block, w.blocks[b], id)
  <2> DEFINE old == w.blocks[b]
             added == StackInstr(kind, v, w.next.id)
  <2>1. added \in Instructions /\ added.id = id
    BY <1>2, StackInstrFacts
  <2>2. old \in Seq(Instructions) /\ Has(old, before.id)
    BY <1>3, <1>4
  <2>3. block = InsertBefore(old, before.id, added)
    OBVIOUS
  <2> HIDE DEF before, old, added, block
  <2>4. Extends(block, old, id)
    BY <2>1, <2>2, <2>3, InsertKeeps
  <2> QED
    BY <2>4 DEF old
<1>6. pos \in Int
  BY <1>5, IndexOfFinds DEF Extends
<1> HIDE DEF before
<1>7. block \in RealBlocks
  BY <1>3, <1>5 DEF Extends, Holds, Has, Real, RealBlocks
<1> HIDE DEF pos, block
<1>8. held \in Intervals /\ held.reg = v
  <2>1. ASSUME NEW from \in Int, NEW to \in Int
        PROVE  Interval(b, v, from, to) \in Intervals /\ Interval(b, v, from, to).reg = v
    BY DEF Interval, Intervals
  <2>2. 0 \in Int
    OBVIOUS
  <2> QED
    BY <1>4, <1>6, <2>1, <2>2
<1>9. blocks \in [D -> RealBlocks] /\ n \in [reg : Nat, id : Nat \ {0}] /\ n.reg = w.next.reg
  BY <1>2, <1>7
<1>10. id \in Inserted /\ own \in SUBSET Inserted
  BY <1>2 DEF Inserted
<1>11. places0 \in SUBSET PlacesIn(D)
  BY <1>2 DEF PlacesIn
<1> HIDE DEF held
<1>12. live \in SUBSET Intervals
  BY <1>2, <1>8
<1>13. StackPlace(w, b, v, kind, w.blocks[b][k]) = u
  BY <1>1 DEF StackPlace, WalkFields, held, pos, block, before
<1>14. /\ u.pieces = w.pieces /\ u.next.reg = w.next.reg /\ u.live = w.live \cup {held}
  BY <1>1, <1>9 DEF WalkFields
<1> HIDE DEF blocks, own, n, places0, live
<1>15. u \in WalkFields(D)
  BY <1>1, <1>9, <1>10, <1>11, <1>12 DEF WalkFields
<1> HIDE DEF u
<1>16. LivesAnew(u, v)
  BY <1>1, <1>8, <1>14 DEF LivesAnew
<1> QED
  BY <1>13, <1>15, <1>16 DEF Walked

(* A block that spilling leaves has a first and a last instruction.        *)
LEMMA RealBlockEnds ==
  ASSUME NEW block \in RealBlocks
  PROVE  /\ 1 \in DOMAIN block /\ Len(block) \in DOMAIN block
         /\ Head(block) = block[1] /\ Last(block) = block[Len(block)]
<1>1. block \in Seq(Instructions) /\ Real(block)
  BY DEF RealBlocks
<1>2. block # <<>>
  BY <1>1 DEF Real
<1> QED
  BY <1>1, <1>2 DEF Last

(* The store in the prologue, which may be a new block.                    *)
LEMMA SaveAtEntryWalks ==
  ASSUME NEW D \in SUBSET Nat, NEW v \in ToSet(Inputs(source)), v \in Nat, NEW w \in Walked(D, v)
  PROVE  SaveAtEntry(w, v) \in Walked(D \cup {0}, v)
<1> DEFINE E == D \cup {0}
           blocks == WithPrologue(w.blocks)
           u == [w EXCEPT !.blocks = blocks]
<1>1. w \in WalkFields(D) /\ LivesAnew(w, v) /\ E \in SUBSET Nat
  BY DEF Walked
<1>2. Prologue \in RealBlocks
  <2> DEFINE i == [id |-> <<0, 0>>, kind |-> "b", outs |-> <<>>, ins |-> <<>>,
                   target |-> 1, slot |-> 0, pos |-> Gap]
  <2>1. <<>> \in Seq(Nat) /\ Gap \in Nat
    BY RegisterAssumption
  <2>2. i \in Instructions /\ i.id \notin Inserted
    BY <2>1 DEF Instructions, Kinds, Inserted
  <2>3. Prologue = <<i>>
    BY DEF Prologue
  <2> HIDE DEF i
  <2> QED
    BY <2>2, <2>3 DEF RealBlocks, Real
<1>3. blocks \in [E -> RealBlocks]
  BY <1>1, <1>2 DEF WithPrologue, WalkFields
<1> HIDE DEF blocks
<1>4. u \in WalkFields(E)
  <2>1. w.erased \in SUBSET ErasuresIn(E) /\ w.at \in SUBSET PlacesIn(E)
    BY <1>1 DEF WalkFields, ErasuresIn, PlacesIn
  <2> HIDE DEF E
  <2> QED
    BY <1>1, <1>3, <2>1 DEF WalkFields
<1>5. /\ u.pieces = w.pieces /\ u.next = w.next /\ u.live = w.live /\ u.blocks = blocks
  BY <1>1 DEF WalkFields
<1>6. SaveAtEntry(w, v) = StackPlace(u, 0, v, "str", Head(u.blocks[0]))
  BY DEF SaveAtEntry, blocks
<1> HIDE DEF u
<1>7. u \in Walked(E, v)
  BY <1>1, <1>4, <1>5 DEF LivesAnew, Walked
<1>8. 1 \in DOMAIN u.blocks[0] /\ Head(u.blocks[0]) = u.blocks[0][1] /\ 0 \in E
  BY <1>3, <1>5, RealBlockEnds
<1> HIDE DEF E
<1>9. StackPlace(u, 0, v, "str", u.blocks[0][1]) \in Walked(E, v)
  BY <1>1, <1>7, <1>8, StackPlaceWalks
<1> QED
  BY <1>6, <1>8, <1>9 DEF E

(* The reload of a preserved register before a return.                     *)
LEMMA RestoreAtReturnWalks ==
  ASSUME NEW D \in SUBSET Nat, NEW v \in ToSet(Inputs(source)), v \in Nat, NEW w \in Walked(D, v),
         NEW b \in D
  PROVE  RestoreAtReturn(w, v, b) \in Walked(D, v)
<1> DEFINE k == Len(w.blocks[b])
<1>1. w.blocks[b] \in RealBlocks
  BY DEF Walked, WalkFields
<1>2. k \in DOMAIN w.blocks[b] /\ Last(w.blocks[b]) = w.blocks[b][k]
  BY <1>1, RealBlockEnds
<1> HIDE DEF k
<1>3. StackPlace(w, b, v, "ldr", w.blocks[b][k]) \in Walked(D, v)
  BY <1>2, StackPlaceWalks
<1> QED
  BY <1>2, <1>3 DEF RestoreAtReturn

(* The reloads before all the returns, in whatever order they are visited. *)
Restored(start, v, S) == FoldSet(LAMBDA b, x : RestoreAtReturn(x, v, b), start, S)

RestoringWalk(iter, start, v, S) ==
  /\ Restored(start, v, S) = iter[S]
  /\ \A s \in SUBSET S :
       iter[s] = IF s = {} THEN start
                 ELSE RestoreAtReturn(iter[s \ {CHOOSE x \in s : TRUE}], v, CHOOSE x \in s : TRUE)

LEMMA RestoresFold ==
  ASSUME NEW D \in SUBSET Nat, NEW v \in ToSet(Inputs(source)), v \in Nat, NEW start \in Walked(D, v),
         NEW S, S \in SUBSET D, IsFiniteSet(S)
  PROVE  \E iter : /\ RestoringWalk(iter, start, v, S)
                   /\ \A s \in SUBSET S : iter[s] \in Walked(D, v)
<1> DEFINE W == Walked(D, v)
           pick == [s \in SUBSET S |-> CHOOSE x \in s : TRUE]
           step == [p \in W \X S |-> RestoreAtReturn(p[1], v, p[2])]
           iter == CHOOSE f : f = [s \in SUBSET S |->
                     IF s = {} THEN start
                     ELSE RestoreAtReturn(f[s \ {CHOOSE x \in s : TRUE}], v, CHOOSE x \in s : TRUE)]
<1>1. Restored(start, v, S) = iter[S]
  BY DEF Restored, FoldSet, MapThenFoldSet
<1>2. Picks(pick, S)
  BY DEF Picks
<1>3. \A w \in W : \A b \in S : RestoreAtReturn(w, v, b) \in W
  BY RestoreAtReturnWalks
<1> HIDE DEF W
<1>4. start \in W
  BY DEF W
<1>5. step \in [W \X S -> W]
  BY <1>3
<1>6. \E f : f = [s \in SUBSET S |->
                IF s = {} THEN start
                ELSE RestoreAtReturn(f[s \ {CHOOSE x \in s : TRUE}], v, CHOOSE x \in s : TRUE)]
  <2>1. PICK f \in [SUBSET S -> W] : Folds(f, pick, start, step, SUBSET S)
    <3> HIDE DEF step, pick
    <3> QED
      BY <1>2, <1>4, <1>5, FoldExists
  <2>2. ASSUME NEW s \in SUBSET S
        PROVE  f[s] = IF s = {} THEN start
                      ELSE RestoreAtReturn(f[s \ {CHOOSE x \in s : TRUE}], v, CHOOSE x \in s : TRUE)
    BY <1>2, <2>1 DEF Folds, Picks
  <2> QED
    BY <2>1, <2>2
<1>7. \A s \in SUBSET S :
        iter[s] = IF s = {} THEN start
                  ELSE RestoreAtReturn(iter[s \ {CHOOSE x \in s : TRUE}], v, CHOOSE x \in s : TRUE)
  BY <1>6
<1> HIDE DEF iter
<1>8. \A s \in SUBSET S : iter[s] \in W
  <2> DEFINE Good == {s \in SUBSET S : iter[s] \in W}
  <2>1. {} \in Good
    BY <1>4, <1>7
  <2>2. ASSUME NEW s \in SUBSET S, s # {}, s \ {pick[s]} \in Good PROVE s \in Good
    <3>1. pick[s] = (CHOOSE x \in s : TRUE) /\ (CHOOSE x \in s : TRUE) \in S
      BY <1>2, <2>2 DEF Picks
    <3> QED
      BY <1>3, <1>7, <2>2, <3>1
  <2> HIDE DEF Good, pick
  <2>3. \A s \in SUBSET S : s # {} /\ s \ {pick[s]} \in Good => s \in Good
    BY <2>2
  <2>4. \A s \in SUBSET S : s \in Good
    <3>1. IsFiniteSet(S)
      OBVIOUS
    <3> QED
      BY ONLY <3>1, <1>2, <2>1, <2>3, SubsetInduction
  <2> QED
    BY <2>4 DEF Good
<1> QED
  BY <1>1, <1>7, <1>8 DEF W, RestoringWalk

LEMMA RestoresWalk ==
  ASSUME NEW D \in SUBSET Nat, NEW v \in ToSet(Inputs(source)), v \in Nat, NEW start \in Walked(D, v),
         NEW S, S \in SUBSET D, IsFiniteSet(S)
  PROVE  Restored(start, v, S) \in Walked(D, v)
<1>1. PICK iter : /\ RestoringWalk(iter, start, v, S)
                  /\ \A s \in SUBSET S : iter[s] \in Walked(D, v)
  BY RestoresFold
<1> QED
  BY <1>1 DEF RestoringWalk

(* What a spill does at the boundary of the function keeps the walk.       *)
LEMMA BoundaryWalks ==
  ASSUME source \in Programs, NEW D \in SUBSET Nat, IsFiniteSet(DOMAIN code), DOMAIN code \in SUBSET D,
         NEW v, NEW w \in Walked(D, v)
  PROVE  SpillAtBoundary(w, v) \in Walked(D, v) \/ SpillAtBoundary(w, v) \in Walked(D \cup {0}, v)
<1> DEFINE again == v \in DOMAIN slotRanges
           saved == IF v \in ToSet(Inputs(source)) /\ ~again THEN SaveAtEntry(w, v) ELSE w
           restored == Restored(saved, v, Returns)
<1>1. SpillAtBoundary(w, v) = IF v \in ToSet(PcsRegs(source)) /\ ~again THEN restored ELSE saved
  BY DEF SpillAtBoundary, Restored
<1>2. CASE v \in ToSet(Inputs(source)) /\ ~again
  <2>1. v \in Nat
    BY <1>2, StartingRegisters
  <2>2. saved \in Walked(D \cup {0}, v)
    BY <1>2, <2>1, SaveAtEntryWalks
  <2>3. Returns \in SUBSET (D \cup {0}) /\ D \cup {0} \in SUBSET Nat
    BY DEF Returns, Blocks
  <2>4. IsFiniteSet(Returns)
    <3>1. Returns \in SUBSET DOMAIN code
      BY DEF Returns, Blocks
    <3> QED
      BY <3>1, FS_Subset
  <2> HIDE DEF saved
  <2>5. restored \in Walked(D \cup {0}, v)
    BY <1>2, <2>1, <2>2, <2>3, <2>4, RestoresWalk
  <2> QED
    BY <1>1, <2>2, <2>5
<1>3. CASE ~(v \in ToSet(Inputs(source)) /\ ~again)
  <2>1. ~(v \in ToSet(PcsRegs(source)) /\ ~again)
    BY <1>3, StartingRegisters
  <2> QED
    BY <1>1, <1>3, <2>1
<1> QED
  BY <1>2, <1>3

-----------------------------------------------------------------------------
(* What allocation keeps of the code, for a spill to walk over it: blocks  *)
(* with an instruction that is not a store or a reload of its own, places  *)
(* in them, and numbers beyond those that are taken.                       *)

SpillableCode ==
  /\ DOMAIN code \in SUBSET Nat /\ IsFiniteSet(DOMAIN code)
  /\ code \in [DOMAIN code -> RealBlocks]
  /\ \A p \in places : p[1] \in DOMAIN code
  /\ \A r \in DOMAIN spills : spills[r] \in SUBSET Inserted
  /\ choices \in Restrictions
  /\ fresh \in [reg : Nat, id : Nat \ {0}]
  /\ fresh.reg >= FirstPcs(source) + Len(PreservedSeq)

(* A spill ends with blocks over a finite set of names that holds the old  *)
(* ones, and with intervals of new registers, or of v itself if v is an    *)
(* input.                                                                  *)
LEMMA SpilledIsWalked ==
  ASSUME source \in Programs, SpillableCode, NEW v, NEW cause
  PROVE  \E D \in SUBSET Nat :
           IsFiniteSet(D) /\ DOMAIN code \in SUBSET D /\ Spilled(v, cause) \in Walked(D, v)
<1> DEFINE B == DOMAIN code
           own == IF Root(v) \in DOMAIN spills THEN spills[Root(v)] ELSE {}
           start == [code |-> <<>>, blocks |-> code, piece |-> 0, pieces |-> {}, last |-> 0,
                     store |-> FALSE, own |-> own, erased |-> {}, live |-> {}, at |-> {},
                     allowed |-> choices, next |-> fresh, done |-> FALSE]
           here == {p[1] : p \in {p \in places : p[2] = v}}
           walked == WalkOver(start, v, cause, Ascending(here))
<1>1. /\ B \in SUBSET Nat /\ IsFiniteSet(B) /\ \A b \in B : code[b] \in RealBlocks
      /\ \A p \in places : p[1] \in B
      /\ choices \in Restrictions /\ fresh \in [reg : Nat, id : Nat \ {0}] /\ fresh.reg \in Nat
      /\ own \in SUBSET Inserted
  BY DEF SpillableCode
<1> HIDE DEF own
<1>2. start \in Walks(B, v)
  <2>1. code \in [B -> RealBlocks]
    BY DEF SpillableCode
  <2>2. start \in WalkFields(B)
    BY <1>1, <2>1 DEF WalkFields
  <2>3. start.next = fresh /\ start.pieces = {} /\ start.live = {} /\ start.last = 0
    OBVIOUS
  <2> HIDE DEF start
  <2> QED
    BY <1>1, <2>2, <2>3 DEF Walks, LivesAnew
<1> HIDE DEF start
<1>3. here \in SUBSET B /\ here \in SUBSET Int /\ IsFiniteSet(here)
  <2>1. here \in SUBSET B
    BY <1>1
  <2> HIDE DEF here
  <2> QED
    BY <1>1, <2>1, FS_Subset
<1> HIDE DEF here
<1>4. Ascending(here) \in Seq(B)
  <2>1. Ascending(here) \in Seq(here)
    BY <1>3, AscendingLists
  <2> QED
    BY <1>3, <2>1
<1>5. walked \in Walks(B, v)
  BY <1>1, <1>2, <1>4, BlocksWalk
<1>6. Spilled(v, cause) = SpillAtBoundary(walked, v)
  BY DEF Spilled, WalkOver, start, here, own
<1> HIDE DEF walked
<1>7. walked \in Walked(B, v)
  BY <1>5 DEF Walks, Walked
<1>8. Spilled(v, cause) \in Walked(B, v) \/ Spilled(v, cause) \in Walked(B \cup {0}, v)
  BY <1>1, <1>6, <1>7, BoundaryWalks
<1>9. IsFiniteSet(B \cup {0}) /\ B \cup {0} \in SUBSET Nat /\ B \in SUBSET (B \cup {0})
  BY <1>1, FS_AddElement
<1> QED
  BY <1>1, <1>8, <1>9

-----------------------------------------------------------------------------
(* The inductive invariant.                                                *)

Sweeps == {"first sweep", "sweep", "ranges"}

(* Until ranges are taken the code is the source's, and the registers that *)
(* are live are registers of the source or physical ones.                  *)
SourceCode ==
  /\ code = source.blocks /\ layout = [b \in DOMAIN source.blocks |-> b]
  /\ flow.in \in [Blocks -> SUBSET Known(source)]
  /\ flow.out \in [Blocks -> SUBSET Known(source)]
  /\ fresh = [reg |-> FirstPcs(source) + Len(PreservedSeq), id |-> 1]
  /\ subs = Empty /\ spills = Empty

(* Registers live together are known to conflict, a register that conflicts *)
(* or is allocated is not fresh.                                            *)
Interfering ==
  /\ \A r \in DOMAIN conflicts : r \in Nat /\ r < fresh.reg
  /\ \A i \in ranges : i.reg \in DOMAIN conflicts
  /\ \A i, j \in ranges : Overlap(i, j) /\ i.reg # j.reg => j.reg \in conflicts[i.reg]
  /\ DOMAIN subs \subseteq DOMAIN conflicts

(* No two of the intervals meet in a physical register.                    *)
Apart(intervals, regs) ==
  \A i, j \in intervals :
    (/\ Overlap(i, j) /\ i.reg # j.reg
     /\ i.reg \in DOMAIN regs /\ (j.reg \in DOMAIN regs \/ ~IsVirtual(j.reg)))
      => regs[i.reg] # (IF IsVirtual(j.reg) THEN regs[j.reg] ELSE j.reg)

AllocationInv ==
  /\ source \in Programs
  /\ phase \in Sweeps => SourceCode
  /\ phase = "allocate" => SpillableCode /\ Interfering
  /\ phase \in {"allocate", "substitute", "peephole", "done"} => Apart(ranges, subs)

(* What ProgramsAssumption says of the code of a function, in the terms    *)
(* the walk uses; a branch leads to a block of the function.               *)
LEMMA SourceCodeFacts ==
  ASSUME NEW p \in Programs
  PROVE  /\ p.blocks \in Seq(Seq(Instructions))
         /\ DOMAIN p.blocks \in SUBSET Nat /\ IsFiniteSet(DOMAIN p.blocks)
         /\ [b \in DOMAIN p.blocks |-> b] \in Seq(DOMAIN p.blocks)
         /\ \A b \in DOMAIN p.blocks :
              /\ p.blocks[b] # <<>> /\ p.blocks[b] \in Seq(SourceInstr)
              /\ \A k \in DOMAIN p.blocks[b] :
                   /\ Ins(p.blocks[b][k]) \in SUBSET SourceRegs(p)
                   /\ Outs(p.blocks[b][k]) \in SUBSET SourceRegs(p)
                   /\ p.blocks[b][k].id \notin Inserted
              /\ Successors(p.blocks, [c \in DOMAIN p.blocks |-> c], b) \in SUBSET DOMAIN p.blocks
<1> DEFINE B == DOMAIN p.blocks
           layout0 == [c \in B |-> c]
<1>1. p.blocks \in Seq(Seq(SourceInstr) \ {<<>>})
  BY ProgramsAssumption
<1>2. SourceInstr \in SUBSET Instructions
  BY DEF SourceInstr, Instructions
<1>3. p.blocks \in Seq(Seq(Instructions))
  <2>1. \A s \in Seq(SourceInstr) : s \in Seq(Instructions)
    BY <1>2
  <2> QED
    BY <1>1, <2>1
<1>4. B = 1..Len(p.blocks) /\ Len(p.blocks) \in Nat
  BY <1>1
<1>5. layout0 \in Seq(B) /\ Len(layout0) = Len(p.blocks)
  <2>1. layout0 \in [1..Len(p.blocks) -> B]
    BY <1>4
  <2> QED
    BY <1>4, <2>1
<1>6. ASSUME NEW b \in B
      PROVE  /\ p.blocks[b] # <<>> /\ p.blocks[b] \in Seq(SourceInstr)
             /\ \A k \in DOMAIN p.blocks[b] :
                  /\ Ins(p.blocks[b][k]) \in SUBSET SourceRegs(p)
                  /\ Outs(p.blocks[b][k]) \in SUBSET SourceRegs(p)
                  /\ p.blocks[b][k].id \notin Inserted
  <2>1. p.blocks[b] # <<>> /\ p.blocks[b] \in Seq(SourceInstr)
    BY <1>1
  <2>2. ASSUME NEW k \in DOMAIN p.blocks[b]
        PROVE  /\ p.blocks[b][k].id = <<b, k>>
               /\ Outs(p.blocks[b][k]) \cup Ins(p.blocks[b][k]) \in SUBSET SourceRegs(p)
    BY ProgramsAssumption
  <2>3. b # 0
    BY <1>4
  <2>4. \A k : <<b, k>> \notin Inserted
    BY <2>3 DEF Inserted
  <2> QED
    BY <2>1, <2>2, <2>4
<1>7. ASSUME NEW b \in B PROVE Successors(p.blocks, layout0, b) \in SUBSET B
  <2> DEFINE i == Last(p.blocks[b])
  <2>1. /\ i.kind \in {"b", "cb", "ret"} /\ (i.kind # "ret" => i.target \in B)
        /\ (i.kind = "cb" => b < Len(p.blocks))
    BY ProgramsAssumption
  <2>2. Successors(p.blocks, layout0, b) = CASE i.kind = "b"   -> {i.target}
                                             [] i.kind = "cb"  -> {i.target} \cup After(layout0, b)
                                             [] i.kind = "ret" -> {}
    BY DEF Successors
  <2> HIDE DEF i
  <2>3. i.kind = "cb" => After(layout0, b) \in SUBSET B
    <3>1. (CHOOSE k \in DOMAIN layout0 : layout0[k] = b) = b
      OBVIOUS
    <3>2. b < Len(p.blocks) => b + 1 \in B /\ layout0[b + 1] \in B
      BY <1>4
    <3> QED
      BY <1>5, <2>1, <3>1, <3>2 DEF After
  <2> QED
    BY <2>1, <2>2, <2>3
<1>8. IsFiniteSet(B) /\ B \in SUBSET Nat
  <2>1. IsFiniteSet(1..Len(p.blocks))
    BY <1>4, FS_Interval
  <2> QED
    BY <1>4, <2>1
<1> QED
  BY <1>3, <1>5, <1>6, <1>7, <1>8

(* finalize() begins with the source.                                      *)
LEMMA InitAllocation == Init => AllocationInv
<1> SUFFICES ASSUME Init PROVE AllocationInv
  OBVIOUS
<1>1. /\ source \in Programs /\ phase = "first sweep" /\ code = source.blocks
      /\ layout = [b \in DOMAIN source.blocks |-> b]
      /\ flow = [in |-> [b \in Blocks |-> IF b = 1 THEN ToSet(Inputs(source)) ELSE {}],
                 out |-> [b \in Blocks |-> IF b \in Returns THEN ToSet(PcsRegs(source)) ELSE {}]]
      /\ subs = Empty /\ spills = Empty
      /\ fresh = [reg |-> FirstPcs(source) + Len(PreservedSeq), id |-> 1]
  BY DEF Init, AllocInit
<1>2. ToSet(Inputs(source)) \in SUBSET Known(source) /\ ToSet(PcsRegs(source)) \in SUBSET Known(source)
  BY <1>1, StartingRegisters
<1>3. flow.in \in [Blocks -> SUBSET Known(source)] /\ flow.out \in [Blocks -> SUBSET Known(source)]
  BY <1>1, <1>2
<1>4. SourceCode
  BY <1>1, <1>3 DEF SourceCode
<1> QED
  BY <1>1, <1>4 DEF AllocationInv

(* A sweep changes live sets only, and keeps them to known registers.      *)
LEMMA SweepAllocation ==
  ASSUME AllocationInv, SweepAll
  PROVE  AllocationInv'
<1> DEFINE after == Sweep(code, layout, phase = "first sweep", flow.in, flow.out)
           B == DOMAIN source.blocks
           R == Known(source)
<1>1. /\ source \in Programs /\ phase \in Sweeps /\ SourceCode
  BY DEF AllocationInv, SweepAll, Sweeps
<1>2. /\ flow' = [in |-> after.in, out |-> after.out]
      /\ phase' \in {"sweep", "ranges"}
      /\ UNCHANGED <<source, code, layout, subs, spills, fresh>>
  BY DEF SweepAll
<1>3. /\ code = source.blocks /\ layout = [b \in B |-> b]
      /\ flow.in \in [B -> SUBSET R] /\ flow.out \in [B -> SUBSET R]
  BY <1>1 DEF SourceCode, Blocks
<1>4. /\ code \in Seq(Seq(Instructions)) /\ layout \in Seq(B) /\ B = DOMAIN code
      /\ \A b \in B : \A k \in DOMAIN code[b] : Ins(code[b][k]) \in SUBSET R
      /\ \A b \in B : Successors(code, layout, b) \in SUBSET B
  BY <1>1, <1>3, SourceCodeFacts DEF Known
<1>5. (phase = "first sweep") \in BOOLEAN
  OBVIOUS
<1>6. after \in Flows(B, R)
  <2> HIDE DEF B, R, after
  <2>1. flow.in \in [DOMAIN code -> SUBSET R] /\ flow.out \in [DOMAIN code -> SUBSET R]
    BY <1>3, <1>4
  <2>2. Sweep(code, layout, phase = "first sweep", flow.in, flow.out) \in Flows(DOMAIN code, R)
    BY <1>4, <1>5, <2>1, SweepIsKnown
  <2> QED
    BY <1>4, <2>2 DEF after
<1> HIDE DEF after
<1>7. flow'.in \in [B -> SUBSET R] /\ flow'.out \in [B -> SUBSET R]
  BY <1>2, <1>6 DEF Flows
<1>8. SourceCode'
  BY <1>1, <1>2, <1>3, <1>7 DEF SourceCode, Blocks
<1> QED
  BY <1>1, <1>2, <1>8 DEF AllocationInv

(* Taking live ranges: whatever registers overlap conflict, and nothing is *)
(* allocated yet.                                                          *)
LEMMA PrepareAllocation ==
  ASSUME AllocationInv, Prepare
  PROVE  AllocationInv'
<1> DEFINE B == DOMAIN source.blocks
<1>1. /\ source \in Programs /\ phase = "ranges" /\ SourceCode
  BY DEF AllocationInv, Prepare, Sweeps
<1>2. /\ code' = [b \in B |-> Renumbered(code[b])]
      /\ places' = UNION {PlacesOf(code'[b], b) : b \in B}
      /\ ranges' = UNION {BlockIntervals(code'[b], b, flow.out[b]) : b \in B}
      /\ conflicts' = Interference(ranges')
      /\ choices' = InitialChoices(code)
      /\ phase' = "allocate"
      /\ UNCHANGED <<source, subs, spills, fresh>>
  BY <1>1 DEF Prepare, Blocks, SourceCode
<1>3. /\ code = source.blocks /\ flow.out \in [B -> SUBSET Known(source)]
      /\ fresh = [reg |-> FirstPcs(source) + Len(PreservedSeq), id |-> 1]
      /\ DOMAIN subs = {} /\ DOMAIN spills = {}
  BY <1>1 DEF SourceCode, Blocks, Empty
<1>4. ASSUME NEW b \in B
      PROVE  /\ code'[b] \in RealBlocks
             /\ \A k \in DOMAIN code'[b] : Mentions(code'[b][k]) \in SUBSET Known(source)
  <2> DEFINE s == source.blocks[b]
  <2>1. /\ s # <<>> /\ s \in Seq(Instructions)
        /\ \A k \in DOMAIN s :
             /\ Ins(s[k]) \in SUBSET SourceRegs(source) /\ Outs(s[k]) \in SUBSET SourceRegs(source)
             /\ s[k].id \notin Inserted
    <3>1. source.blocks \in Seq(Seq(Instructions))
      BY <1>1, SourceCodeFacts
    <3>2. s \in Seq(Instructions)
      BY <3>1
    <3> QED
      BY <1>1, <3>2, SourceCodeFacts
  <2>2. code'[b] = [k \in DOMAIN s |-> [s[k] EXCEPT !.pos = k * Gap]]
    BY <1>2, <1>3 DEF Renumbered
  <2> HIDE DEF s
  <2>3. ASSUME NEW k \in DOMAIN s
        PROVE  /\ code'[b][k] \in Instructions /\ code'[b][k].id = s[k].id
               /\ code'[b][k].outs = s[k].outs /\ code'[b][k].ins = s[k].ins
               /\ code'[b][k].kind = s[k].kind
    <3>1. s[k] \in Instructions /\ k * Gap \in Nat
      BY <2>1, RegisterAssumption
    <3>2. code'[b][k] = [s[k] EXCEPT !.pos = k * Gap]
      BY <2>2
    <3> QED
      BY <3>1, <3>2 DEF Instructions
  <2>4. code'[b] \in Seq(Instructions) /\ DOMAIN code'[b] = DOMAIN s /\ 1 \in DOMAIN s
    BY <2>1, <2>2, <2>3
  <2>5. code'[b] \in RealBlocks
    BY <2>1, <2>3, <2>4 DEF RealBlocks, Real
  <2>6. ASSUME NEW k \in DOMAIN s PROVE Mentions(code'[b][k]) \in SUBSET Known(source)
    BY <2>1, <2>3 DEF Mentions, Outs, Ins, ClobberedBy, Known
  <2> QED
    BY <2>4, <2>5, <2>6
<1>5. ASSUME NEW p \in places' PROVE p[1] \in B
  BY <1>2 DEF PlacesOf
<1>6. ASSUME NEW i \in ranges' PROVE i.reg \in Known(source)
  <2>1. PICK b \in B : i \in BlockIntervals(code'[b], b, flow.out[b])
    BY <1>2
  <2>2. PICK r \in flow.out[b] \cup UNION {Mentions(code'[b][k]) : k \in DOMAIN code'[b]} :
          i \in IntervalsOf(code'[b], b, r, flow.out[b])
    BY <2>1 DEF BlockIntervals
  <2>3. r \in Known(source)
    BY <1>3, <1>4, <2>2
  <2>4. i.reg = r
    BY <2>2 DEF IntervalsOf, Interval
  <2> QED
    BY <2>3, <2>4
<1>7. choices' \in Restrictions
  <2> DEFINE calls == {i \in UNION {ToSet(code[b]) : b \in DOMAIN code} : HasChoices(i)}
             A == DOMAIN PcsChoices(source) \cup UNION {Ins(i) : i \in calls}
  <2>1. choices' = [r \in A |->
         {p \in PhysRegs : /\ r \in DOMAIN PcsChoices(source) => p \in PcsChoices(source)[r]
                           /\ \A i \in calls : r \in Ins(i) => p \in ChoicesOf(i, r)}]
    BY <1>2 DEF InitialChoices
  <2>2. DOMAIN PcsChoices(source) \in SUBSET Nat
    BY <1>1, StartingRegisters DEF PcsChoices
  <2>3. ASSUME NEW i \in calls PROVE Ins(i) \in SUBSET Nat
    <3>1. PICK b \in B : i \in ToSet(code[b])
      BY <1>3
    <3>2. PICK k \in DOMAIN code[b] : i = code[b][k]
      BY <3>1 DEF ToSet
    <3>3. Ins(i) \in SUBSET SourceRegs(source)
      BY <1>1, <1>3, <3>2, SourceCodeFacts
    <3> QED
      BY <1>1, <3>3, StartingRegisters
  <2>4. A \in SUBSET Nat
    BY <2>2, <2>3
  <2> HIDE DEF A, calls
  <2>5. choices' \in [A -> SUBSET PhysRegs]
    BY <2>1
  <2> QED
    BY <2>4, <2>5 DEF Restrictions
<1>8. SpillableCode'
  <2>1. B \in SUBSET Nat /\ IsFiniteSet(B)
    BY <1>1, SourceCodeFacts
  <2>2. fresh \in [reg : Nat, id : Nat \ {0}]
    BY <1>1, <1>3, StartingRegisters
  <2>3. fresh.reg >= FirstPcs(source) + Len(PreservedSeq)
    BY <1>1, <1>3, StartingRegisters
  <2>4. code' \in [B -> RealBlocks] /\ DOMAIN code' = B
    BY <1>2, <1>4
  <2> QED
    BY <1>2, <1>3, <1>5, <1>7, <2>1, <2>2, <2>3, <2>4 DEF SpillableCode
<1>9. Interfering'
  <2>1. DOMAIN conflicts' = {i.reg : i \in ranges'}
    BY <1>2 DEF Interference, Regs
  <2>2. ASSUME NEW i \in ranges', NEW j \in ranges', Overlap(i, j), i.reg # j.reg
        PROVE  j.reg \in conflicts'[i.reg]
    BY <1>2, <2>2 DEF Interference, Regs, Of, Overlap
  <2>3. \A r \in DOMAIN conflicts' : r \in Nat /\ r < fresh.reg
    BY <1>1, <1>3, <1>6, <2>1, StartingRegisters
  <2> QED
    BY <1>2, <1>3, <2>1, <2>2, <2>3 DEF Interfering, Overlap
<1>10. Apart(ranges, subs)'
  BY <1>2, <1>3 DEF Apart
<1> QED
  BY <1>1, <1>2, <1>8, <1>9, <1>10 DEF AllocationInv, Sweeps

(* A register is given what none of those it conflicts with has; by the    *)
(* invariant that includes all it is live with.                            *)
LEMMA AssignAllocation ==
  ASSUME AllocationInv, Assign
  PROVE  AllocationInv'
<1> DEFINE r == Head(queue)
           p == Min(FreeFor(r))
<1>1. /\ source \in Programs /\ phase = "allocate" /\ SpillableCode /\ Interfering /\ Apart(ranges, subs)
      /\ r \notin DOMAIN subs /\ r \in DOMAIN conflicts /\ FreeFor(r) # {}
      /\ subs' = [x \in DOMAIN subs \cup {r} |-> IF x = r THEN p ELSE subs[x]]
      /\ UNCHANGED <<source, phase, code, places, ranges, conflicts, choices, spills, fresh>>
  BY DEF AllocationInv, Assign, Wanted
<1>2. p \in FreeFor(r)
  <2>1. ChoicesFor(r) \in SUBSET PhysRegs
    <3>1. choices \in Restrictions
      BY <1>1 DEF SpillableCode
    <3>2. PICK A \in SUBSET Nat : choices \in [A -> SUBSET PhysRegs]
      BY <3>1 DEF Restrictions
    <3> QED
      BY <3>2 DEF ChoicesFor
  <2>2. FreeFor(r) \in SUBSET PhysRegs
    BY <2>1 DEF FreeFor
  <2>3. IsFiniteSet(PhysRegs) /\ PhysRegs \in SUBSET Int
    BY RegisterAssumption, FS_Interval DEF PhysRegs
  <2>4. FreeFor(r) \in SUBSET Int /\ IsFiniteSet(FreeFor(r))
    BY <2>2, <2>3, FS_Subset
  <2> QED
    BY <1>1, <2>4, FiniteExtremes
<1>3. p \notin TakenFor(r)
  BY <1>2 DEF FreeFor
<1> HIDE DEF r, p
<1>4. DOMAIN subs' = DOMAIN subs \cup {r} /\ subs'[r] = p /\ \A x \in DOMAIN subs : subs'[x] = subs[x]
  BY <1>1
<1>5. Interfering'
  BY <1>1, <1>4 DEF Interfering, Overlap
<1>6. SpillableCode'
  BY <1>1 DEF SpillableCode
<1>7. ASSUME NEW i \in ranges, NEW j \in ranges, Overlap(i, j), i.reg # j.reg,
             i.reg \in DOMAIN subs', j.reg \in DOMAIN subs' \/ ~IsVirtual(j.reg)
      PROVE  subs'[i.reg] # (IF IsVirtual(j.reg) THEN subs'[j.reg] ELSE j.reg)
  <2>1. j.reg \in conflicts[i.reg] /\ i.reg \in conflicts[j.reg]
    <3>1. Overlap(j, i) /\ j.reg # i.reg
      BY <1>7 DEF Overlap
    <3> QED
      BY <1>1, <1>7, <3>1 DEF Interfering
  <2>2. CASE i.reg = r
    <3>1. ~IsVirtual(j.reg) => j.reg \in TakenFor(r)
      BY <2>1, <2>2 DEF TakenFor
    <3>2. j.reg \in DOMAIN subs => subs[j.reg] \in TakenFor(r)
      BY <2>1, <2>2 DEF TakenFor
    <3>3. j.reg \in DOMAIN subs' => j.reg \in DOMAIN subs
      BY <1>4, <1>7, <2>2
    <3> QED
      BY <1>3, <1>4, <1>7, <2>2, <3>1, <3>2, <3>3
  <2>3. CASE i.reg # r /\ j.reg = r
    <3>1. i.reg \in DOMAIN subs
      BY <1>4, <1>7, <2>3
    <3>2. subs[i.reg] \in TakenFor(r)
      BY <2>1, <2>3, <3>1 DEF TakenFor
    <3>3. CASE IsVirtual(j.reg)
      BY <1>3, <1>4, <2>3, <3>1, <3>2, <3>3
    <3>4. CASE ~IsVirtual(j.reg)
      BY <1>1, <1>4, <1>7, <3>1, <3>4 DEF Apart
    <3> QED
      BY <3>3, <3>4
  <2>4. CASE i.reg # r /\ j.reg # r
    <3>1. i.reg \in DOMAIN subs /\ (j.reg \in DOMAIN subs \/ ~IsVirtual(j.reg))
      BY <1>4, <1>7, <2>4
    <3>2. subs[i.reg] # (IF IsVirtual(j.reg) THEN subs[j.reg] ELSE j.reg)
      BY <1>1, <1>7, <3>1 DEF Apart
    <3> QED
      BY <1>4, <3>1, <3>2
  <2> QED
    BY <2>2, <2>3, <2>4
<1>8. Apart(ranges, subs)'
  BY <1>1, <1>7 DEF Apart, Overlap, IsVirtual
<1> QED
  BY <1>1, <1>5, <1>6, <1>8 DEF AllocationInv, Sweeps

(* A spill: the pieces are registers nobody has, and whatever is live with *)
(* them is found to be.                                                    *)
LEMMA SpillAllocation ==
  ASSUME AllocationInv, Spill
  PROVE  AllocationInv'
<1>1. PICK v \in Victims(Head(queue)) : SpillFor(v, Head(queue), Spilled(v, Head(queue)))
  BY DEF Spill
<1> DEFINE w == Spilled(v, Head(queue))
           new == w.live
           kept(b) == Part(w.blocks[b], {k \in DOMAIN w.blocks[b] :
                                           <<b, w.blocks[b][k].id>> \notin w.erased})
           root == Root(v)
<1>2. /\ source \in Programs /\ phase = "allocate" /\ SpillableCode /\ Interfering /\ Apart(ranges, subs)
  BY DEF AllocationInv, Spill
<1>3. PICK D \in SUBSET Nat : IsFiniteSet(D) /\ DOMAIN code \in SUBSET D /\ w \in Walked(D, v)
  BY <1>2, SpilledIsWalked
<1>4. /\ code' = [b \in DOMAIN w.blocks |-> kept(b)]
      /\ places' = {p \in places \cup w.at : <<p[1], p[3]>> \notin w.erased}
      /\ ranges' = {i \in ranges : i.reg # v} \cup new
      /\ conflicts' = WithInterference(v, new)
      /\ choices' = w.allowed
      /\ subs' = RestrictDomain(subs, LAMBDA r : r # v)
      /\ spills' = [r \in DOMAIN spills \cup {root} |-> IF r = root THEN w.own ELSE spills[r]]
      /\ fresh' = w.next
      /\ phase' \in {"allocate", "positions exhausted"}
      /\ source' = source
  BY <1>1 DEF SpillFor
<1> HIDE DEF w, root
<1>5. w \in WalkFields(D) /\ LivesAnew(w, v)
  BY <1>3 DEF Walked
<1>6. /\ w.blocks \in [D -> RealBlocks] /\ w.own \in SUBSET Inserted /\ w.erased \in SUBSET ErasuresIn(D)
      /\ w.at \in SUBSET PlacesIn(D) /\ w.allowed \in Restrictions
      /\ w.next \in [reg : Nat, id : Nat \ {0}] /\ w.pieces \in SUBSET Nat
      /\ fresh.reg \in Nat /\ w.next.reg \in Nat /\ w.next.reg >= fresh.reg
  BY <1>2, <1>5 DEF WalkFields, SpillableCode, LivesAnew
<1>7. ASSUME NEW b \in D PROVE kept(b) \in RealBlocks
  <2> DEFINE s == w.blocks[b]
             K == {k \in DOMAIN s : <<b, s[k].id>> \notin w.erased}
  <2>1. s \in Seq(Instructions) /\ Real(s) /\ K \in SUBSET DOMAIN s
    BY <1>6 DEF RealBlocks
  <2>2. PICK k \in DOMAIN s : s[k].id \notin Inserted
    BY <2>1 DEF Real
  <2>3. k \in K
    BY <1>6, <2>2 DEF ErasuresIn
  <2>4. kept(b) = Part(s, K)
    OBVIOUS
  <2> HIDE DEF s, K
  <2>5. Part(s, K) \in Seq(Instructions) /\ \E n \in DOMAIN Part(s, K) : Part(s, K)[n] = s[k]
    BY <2>1, <2>3, PartOfSequence
  <2> QED
    BY <2>2, <2>4, <2>5 DEF RealBlocks, Real
<1> HIDE DEF kept
<1>8. SpillableCode'
  <2>1. code' \in [D -> RealBlocks] /\ DOMAIN code' = D
    BY <1>4, <1>6, <1>7
  <2>2. \A p \in places' : p[1] \in D
    <3>1. \A p \in places : p[1] \in D
      BY <1>2, <1>3 DEF SpillableCode
    <3>2. \A p \in w.at : p[1] \in D
      BY <1>6 DEF PlacesIn
    <3> QED
      BY <1>4, <3>1, <3>2
  <2>3. \A r \in DOMAIN spills' : spills'[r] \in SUBSET Inserted
    BY <1>2, <1>4, <1>6 DEF SpillableCode
  <2>4. fresh'.reg >= FirstPcs(source) + Len(PreservedSeq)
    <3>1. fresh.reg >= FirstPcs(source) + Len(PreservedSeq)
      BY <1>2 DEF SpillableCode
    <3>2. FirstPcs(source) \in Nat /\ Len(PreservedSeq) \in Nat
      BY <1>2, StartingRegisters
    <3>3. fresh'.reg = w.next.reg
      BY <1>4
    <3> DEFINE least == FirstPcs(source) + Len(PreservedSeq)
               before == fresh.reg
               after == w.next.reg
    <3>4. least \in Nat /\ before \in Nat /\ after \in Nat /\ before >= least /\ after >= before
      BY <1>6, <3>1, <3>2
    <3> HIDE DEF least, before, after
    <3>5. after >= least
      BY <3>4
    <3> QED
      BY <3>3, <3>5 DEF least, after
  <2> QED
    BY <1>3, <1>4, <1>6, <2>1, <2>2, <2>3, <2>4 DEF SpillableCode
<1>9. ASSUME NEW i \in new
      PROVE  i.reg \in Nat /\ i.reg < w.next.reg /\ i.reg \notin DOMAIN subs \ {v} /\ IsVirtual(i.reg)
  <2>1. FirstPcs(source) \in Nat /\ FirstPcs(source) > NumRegs /\ NumRegs \in Nat /\ Len(PreservedSeq) \in Nat
    BY <1>2, StartingRegisters, RegisterAssumption
  <2>2. fresh.reg >= FirstPcs(source) + Len(PreservedSeq)
    BY <1>2 DEF SpillableCode
  <2>3. CASE i.reg \in w.pieces
    <3>1. i.reg \in Nat /\ fresh.reg <= i.reg /\ i.reg < w.next.reg
      BY <1>5, <1>6, <2>3 DEF LivesAnew
    <3>2. i.reg \notin DOMAIN subs
      BY <1>2, <1>6, <3>1 DEF Interfering
    <3>3. i.reg > NumRegs
      BY <1>6, <2>1, <2>2, <3>1
    <3> QED
      BY <3>1, <3>2, <3>3 DEF IsVirtual
  <2>4. CASE i.reg = v /\ v \in ToSet(Inputs(source))
    <3>1. v \in Nat /\ v < FirstPcs(source) + Len(PreservedSeq) /\ IsVirtual(v)
      BY <1>2, <2>4, StartingRegisters
    <3>2. v < w.next.reg
      BY <1>6, <2>1, <2>2, <3>1
    <3> QED
      BY <2>4, <3>1, <3>2
  <2> QED
    BY <1>5, <2>3, <2>4 DEF LivesAnew
<1> HIDE DEF new
<1>10. /\ DOMAIN conflicts' = (DOMAIN conflicts \ {v}) \cup {i.reg : i \in new}
       /\ \A r \in DOMAIN conflicts \ {v} : conflicts[r] \ {v} \in SUBSET conflicts'[r]
  BY <1>4 DEF WithInterference, Regs
<1>11. DOMAIN subs' = DOMAIN subs \ {v} /\ \A r \in DOMAIN subs \ {v} : subs'[r] = subs[r]
  BY <1>4 DEF RestrictDomain, Restrict
<1>12. ASSUME NEW i \in ranges', NEW j \in ranges', Overlap(i, j), i.reg # j.reg
       PROVE  j.reg \in conflicts'[i.reg] /\ i.reg \in DOMAIN conflicts'
  <2> DEFINE meets == {<<p[1].reg, p[2].reg>> : p \in {q \in new \X ranges' : Overlap(q[1], q[2])}}
             pairs == {p \in meets \cup {<<q[2], q[1]>> : q \in meets} : p[1] # p[2]}
  <2>1. conflicts' = [r \in (DOMAIN conflicts \ {v}) \cup Regs(new) |->
         (IF r \in DOMAIN conflicts /\ r # v THEN conflicts[r] \ {v} ELSE {})
           \cup {p[2] : p \in {p \in pairs : p[1] = r}}]
    BY <1>4 DEF WithInterference
  <2>2. \A q \in new : q.reg \in DOMAIN conflicts'
    BY <1>10
  <2>3. \A q \in ranges' \ new : q \in ranges /\ q.reg # v /\ q.reg \in DOMAIN conflicts \ {v}
    BY <1>2, <1>4 DEF Interfering
  <2>4. i.reg \in DOMAIN conflicts'
    BY <1>10, <2>2, <2>3
  <2>5. CASE <<i.reg, j.reg>> \in pairs
    <3>1. j.reg \in {p[2] : p \in {p \in pairs : p[1] = i.reg}}
      BY <2>5
    <3> HIDE DEF pairs
    <3> QED
      BY <2>1, <2>4, <3>1
  <2>6. CASE i \in new
    <3>1. <<i, j>> \in {q \in new \X ranges' : Overlap(q[1], q[2])}
      BY <1>12, <2>6
    <3>2. <<i.reg, j.reg>> \in meets
      <4> DEFINE p == <<i, j>>
      <4>1. <<p[1].reg, p[2].reg>> \in meets
        BY <3>1
      <4> QED
        BY <4>1
    <3> QED
      BY <1>12, <2>5, <3>2
  <2>7. CASE j \in new
    <3>1. Overlap(j, i)
      BY <1>12 DEF Overlap
    <3>2. <<j, i>> \in {q \in new \X ranges' : Overlap(q[1], q[2])}
      BY <2>7, <3>1
    <3>3. <<j.reg, i.reg>> \in meets
      <4> DEFINE p == <<j, i>>
      <4>1. <<p[1].reg, p[2].reg>> \in meets
        BY <3>2
      <4> QED
        BY <4>1
    <3> DEFINE m == <<j.reg, i.reg>>
    <3>4. <<m[2], m[1]>> \in {<<q[2], q[1]>> : q \in meets}
      <4> HIDE DEF meets
      <4> QED
        BY <3>3
    <3>5. <<i.reg, j.reg>> \in {<<q[2], q[1]>> : q \in meets}
      BY <3>4
    <3> QED
      BY <1>12, <2>5, <3>5
  <2>8. CASE i \notin new /\ j \notin new
    <3>1. j.reg \in conflicts[i.reg] /\ j.reg # v /\ i.reg \in DOMAIN conflicts \ {v}
      BY <1>2, <1>12, <2>3, <2>8 DEF Interfering
    <3> QED
      BY <1>10, <2>4, <3>1
  <2> QED
    BY <2>6, <2>7, <2>8
<1>13. Interfering'
  <2>1. ASSUME NEW r \in DOMAIN conflicts' PROVE r \in Nat /\ r < fresh'.reg
    <3>1. CASE r \in DOMAIN conflicts \ {v}
      <4>1. r \in Nat /\ r < fresh.reg
        BY <1>2, <3>1 DEF Interfering
      <4> DEFINE before == fresh.reg
                 after == w.next.reg
      <4>2. before \in Nat /\ after \in Nat /\ after >= before /\ r < before
        BY <1>6, <4>1
      <4>3. fresh'.reg = after
        BY <1>4
      <4> HIDE DEF before, after
      <4> QED
        BY <4>1, <4>2, <4>3
    <3>2. CASE r \in {i.reg : i \in new}
      BY <1>4, <1>9, <3>2
    <3> QED
      BY <1>10, <3>1, <3>2
  <2>2. ASSUME NEW i \in ranges' PROVE i.reg \in DOMAIN conflicts'
    BY <1>2, <1>4, <1>10 DEF Interfering
  <2>3. DOMAIN subs' \subseteq DOMAIN conflicts'
    BY <1>2, <1>10, <1>11 DEF Interfering
  <2> QED
    BY <1>12, <2>1, <2>2, <2>3 DEF Interfering, Overlap
<1>14. Apart(ranges, subs)'
  <2>1. ASSUME NEW i \in ranges', NEW j \in ranges', Overlap(i, j), i.reg # j.reg,
               i.reg \in DOMAIN subs', j.reg \in DOMAIN subs' \/ ~IsVirtual(j.reg)
        PROVE  /\ i \in ranges /\ j \in ranges /\ i.reg \in DOMAIN subs
               /\ (j.reg \in DOMAIN subs \/ ~IsVirtual(j.reg))
               /\ subs'[i.reg] = subs[i.reg] /\ (j.reg \in DOMAIN subs' => subs'[j.reg] = subs[j.reg])
    BY <1>4, <1>9, <1>11, <2>1
  <2>2. ASSUME NEW i \in ranges', NEW j \in ranges', Overlap(i, j), i.reg # j.reg,
               i.reg \in DOMAIN subs', j.reg \in DOMAIN subs' \/ ~IsVirtual(j.reg)
        PROVE  subs'[i.reg] # (IF IsVirtual(j.reg) THEN subs'[j.reg] ELSE j.reg)
    <3>1. subs[i.reg] # (IF IsVirtual(j.reg) THEN subs[j.reg] ELSE j.reg)
      BY <1>2, <2>1, <2>2 DEF Apart
    <3> QED
      BY <2>1, <2>2, <3>1
  <2> QED
    BY <2>2 DEF Apart, Overlap, IsVirtual
<1> QED
  BY <1>2, <1>4, <1>8, <1>13, <1>14 DEF AllocationInv, Sweeps

(* The other steps leave the live ranges and the assignment as they are;   *)
(* those that change the code or the convention's record leave allocation. *)
LEMMA OtherAllocation ==
  ASSUME AllocationInv,
         \/ Skip \/ ColourSlots \/ Substitute \/ PostRegalloc
         \/ Call \/ Execute \/ Return \/ UNCHANGED vars
  PROVE  AllocationInv'
<1>1. CASE Skip
  <2>1. /\ phase = "allocate" /\ phase' = "allocate"
        /\ UNCHANGED <<source, code, places, ranges, conflicts, choices, subs, spills, fresh>>
    BY <1>1 DEF Skip
  <2>2. SpillableCode'
    BY <2>1 DEF AllocationInv, SpillableCode
  <2>3. Interfering'
    BY <2>1 DEF AllocationInv, Interfering, Overlap
  <2>4. Apart(ranges, subs)'
    BY <2>1 DEF AllocationInv, Apart, Overlap, IsVirtual
  <2> QED
    BY <2>1, <2>2, <2>3, <2>4 DEF AllocationInv, Sweeps
<1>2. CASE ColourSlots \/ Substitute \/ PostRegalloc
  <2>1. /\ phase \in {"allocate", "substitute", "peephole"}
        /\ phase' \in {"substitute", "peephole", "done"}
        /\ UNCHANGED <<source, ranges, subs>>
    BY <1>2 DEF ColourSlots, Substitute, PostRegalloc
  <2>2. Apart(ranges, subs)'
    BY <2>1 DEF AllocationInv, Apart, Overlap, IsVirtual
  <2> QED
    BY <2>1, <2>2 DEF AllocationInv, Sweeps
<1>3. CASE Call \/ Return
  <2>1. phase' \in {"running", "returned"} /\ source' = source
    BY <1>3 DEF Call, Return
  <2> QED
    BY <2>1 DEF AllocationInv, Sweeps
<1>4. CASE Execute \/ UNCHANGED vars
  <2>1. UNCHANGED allocVars
    BY <1>4 DEF Execute, vars
  <2>2. UNCHANGED <<source, phase, code, layout, flow, places, ranges, conflicts, choices,
                    subs, spills, fresh>>
    BY <2>1 DEF allocVars
  <2>3. SourceCode => SourceCode'
    BY <2>2 DEF SourceCode, Blocks
  <2>4. SpillableCode => SpillableCode'
    BY <2>2 DEF SpillableCode
  <2>5. Interfering => Interfering'
    BY <2>2 DEF Interfering, Overlap
  <2>6. Apart(ranges, subs) => Apart(ranges, subs)'
    BY <2>2 DEF Apart, Overlap, IsVirtual
  <2> QED
    BY <2>2, <2>3, <2>4, <2>5, <2>6 DEF AllocationInv
<1> QED
  BY <1>1, <1>2, <1>3, <1>4

(* The invariant of allocation holds in every state of every compilation,  *)
(* and of every run of the code it makes.                                  *)
THEOREM AllocationIsInvariant == Spec => []AllocationInv
<1>1. Init => AllocationInv
  BY InitAllocation
<1>2. AllocationInv /\ [Next]_vars => AllocationInv'
  <2> SUFFICES ASSUME AllocationInv, [Next]_vars PROVE AllocationInv'
    OBVIOUS
  <2>1. CASE Compile
    <3>1. AllocNext
      BY <2>1 DEF Compile
    <3>2. CASE SweepAll
      BY <3>2, SweepAllocation
    <3>3. CASE Prepare
      BY <3>3, PrepareAllocation
    <3>4. CASE Assign
      BY <3>4, AssignAllocation
    <3>5. CASE Spill
      BY <3>5, SpillAllocation
    <3>6. CASE Skip \/ ColourSlots \/ Substitute \/ PostRegalloc
      BY <3>6, OtherAllocation
    <3> QED
      BY <3>1, <3>2, <3>3, <3>4, <3>5, <3>6 DEF AllocNext
  <2>2. CASE Call \/ Execute \/ Return \/ Finished \/ UNCHANGED vars
    BY <2>2, OtherAllocation DEF Finished
  <2> QED
    BY <2>1, <2>2 DEF Next
<1> QED
  BY <1>1, <1>2, PTL DEF Spec

(* No two registers live at once share a physical register, whatever       *)
(* function is compiled, however many registers there are and whichever    *)
(* victims are spilled.                                                    *)
THEOREM LiveRegistersStayApart == Spec => []LiveTogetherApart
<1>1. AllocationInv => LiveTogetherApart
  BY DEF AllocationInv, Apart, LiveTogetherApart
<1> QED
  BY <1>1, AllocationIsInvariant, PTL

-----------------------------------------------------------------------------
(* The live sets.                                                          *)

(* What is live into a block is there because of Ok, and what is live out  *)
(* of it because of Ok in a block that follows; only registers in V count. *)
Beyond(blocks, order, Ok, b) == UNION {Ok[s] : s \in Successors(blocks, order, b)}

Sound(blocks, order, V, Ok, in, out) ==
  \A b \in DOMAIN blocks :
    /\ in[b] \cap V \subseteq Ok[b]
    /\ out[b] \cap V \subseteq Beyond(blocks, order, Ok, b)

(* A block keeps to Ok at its start when it does at its end.               *)
Explains(blocks, order, R, V, Ok) ==
  \A b \in DOMAIN blocks : \A live \in SUBSET R :
    live \cap V \subseteq Beyond(blocks, order, Ok, b)
      => LiveAtStart(blocks[b], live) \cap V \subseteq Ok[b]

(* Nothing is missing within blocks, and between them.                     *)
Settled(blocks, in, out) ==
  \A b \in DOMAIN blocks : LiveAtStart(blocks[b], out[b]) \subseteq in[b]

Connected(blocks, order, in, out) ==
  \A b \in DOMAIN blocks : \A s \in Successors(blocks, order, b) : in[s] \subseteq out[b]

Grown(B, in, in0) == \A b \in B : in0[b] \subseteq in[b]

(* A sweep takes nothing away and adds nothing without a reason; it        *)
(* settles every block, and one that changed no start of a block finds     *)
(* the blocks connected.                                                   *)
LEMMA SweepApproaches ==
  ASSUME NEW R, NEW V, NEW X, NEW blocks \in Seq(Seq(X)), NEW first \in BOOLEAN,
         NEW order \in Seq(DOMAIN blocks), order = [b \in DOMAIN blocks |-> b],
         \A b \in DOMAIN blocks : \A k \in DOMAIN blocks[b] : Ins(blocks[b][k]) \in SUBSET R,
         \A b \in DOMAIN blocks : Successors(blocks, order, b) \in SUBSET DOMAIN blocks,
         NEW in0 \in [DOMAIN blocks -> SUBSET R], NEW out0 \in [DOMAIN blocks -> SUBSET R],
         NEW Ok, Explains(blocks, order, R, V, Ok), Sound(blocks, order, V, Ok, in0, out0),
         first \/ Settled(blocks, in0, out0),
         NEW after, after = Sweep(blocks, order, first, in0, out0)
  PROVE  /\ Grown(DOMAIN blocks, after.in, in0)
         /\ Sound(blocks, order, V, Ok, after.in, after.out)
         /\ Settled(blocks, after.in, after.out)
         /\ ~after.changed => Connected(blocks, order, after.in, after.out)
<1> DEFINE B == DOMAIN blocks
           pick == [s \in SUBSET B |-> Min(s)]
           Quiet(w, s) ==
             w.in = in0 /\ \A b \in s : \A t \in Successors(blocks, order, b) : w.in[t] \subseteq w.out[b]
           Visited(w, s) ==
             \A b \in B : ~first \/ b \in s => LiveAtStart(blocks[b], w.out[b]) \subseteq w.in[b]
           Fine(w, s) ==
             /\ Grown(B, w.in, in0) /\ Sound(blocks, order, V, Ok, w.in, w.out)
             /\ Visited(w, s) /\ (~w.changed => Quiet(w, s))
<1>1. PICK iter : SweepSteps(blocks, order, first, in0, out0, iter) /\ KeepsFlows(iter, B, B, R)
  <2>1. DOMAIN order = B
    OBVIOUS
  <2>2. PICK iter : /\ SweepSteps(blocks, order, first, in0, out0, iter)
                    /\ KeepsFlows(iter, DOMAIN order, DOMAIN blocks, R)
    BY SweepFolds
  <2> QED
    BY <2>1, <2>2
<1>2. IsFiniteSet(B) /\ B \in SUBSET Int
  BY SequenceSetIsFinite
<1>3. Picks(pick, B)
  BY <1>2, LeastIsPicked
<1>4. ASSUME NEW w \in Flows(B, R), NEW s \in SUBSET B, NEW b \in s, Fine(w, s \ {b})
      PROVE  Fine(SweepBlock(blocks, order, first, w, b), s)
  <2> DEFINE out == w.out[b] \cup UNION {w.in[t] : t \in Successors(blocks, order, b)}
             in == w.in[b] \cup LiveAtStart(blocks[b], out)
             moved == [in |-> [w.in EXCEPT ![b] = in], out |-> [w.out EXCEPT ![b] = out],
                       changed |-> w.changed \/ in # w.in[b]]
  <2>1. w.in \in [B -> SUBSET R] /\ w.out \in [B -> SUBSET R] /\ w.changed \in BOOLEAN
    BY DEF Flows
  <2>2. SweepBlock(blocks, order, first, w, b) = IF first \/ out # w.out[b] THEN moved ELSE w
    BY DEF SweepBlock
  <2>3. CASE ~(first \/ out # w.out[b])
    <3>1. SweepBlock(blocks, order, first, w, b) = w
      BY <2>2, <2>3
    <3>2. Visited(w, s)
      BY <1>4, <2>3
    <3>3. Quiet(w, s \ {b}) => Quiet(w, s)
      BY <2>3
    <3> QED
      BY <1>4, <3>1, <3>2, <3>3
  <2>4. CASE first \/ out # w.out[b]
    <3>1. out \in SUBSET R /\ out \cap V \subseteq Beyond(blocks, order, Ok, b)
      <4>1. out \in SUBSET R
        <5>1. \A t \in Successors(blocks, order, b) : w.in[t] \in SUBSET R
          BY <2>1
        <5>2. w.out[b] \in SUBSET R
          BY <2>1
        <5> QED
          BY <5>1, <5>2, Zenon
      <4>2. w.out[b] \cap V \subseteq Beyond(blocks, order, Ok, b)
        BY <1>4 DEF Sound
      <4>3. \A t \in Successors(blocks, order, b) : w.in[t] \cap V \subseteq Ok[t]
        BY <1>4 DEF Sound
      <4>4. ASSUME NEW r \in out, r \in V PROVE r \in Beyond(blocks, order, Ok, b)
        <5>1. CASE r \in w.out[b]
          BY <4>2, <4>4, <5>1
        <5>2. ASSUME NEW t \in Successors(blocks, order, b), r \in w.in[t]
              PROVE  r \in Beyond(blocks, order, Ok, b)
          BY <4>3, <4>4, <5>2, Zenon DEF Beyond
        <5> QED
          BY <4>4, <5>1, <5>2
      <4> HIDE DEF out
      <4> QED
        BY <4>1, <4>4
    <3>2. LiveAtStart(blocks[b], out) \cap V \subseteq Ok[b]
      BY <3>1 DEF Explains
    <3> PICK before : before = LiveAtStart(blocks[b], out)
      OBVIOUS
    <3> PICK high : high = out
      OBVIOUS
    <3>3. /\ high = out /\ w.out[b] \subseteq high
          /\ \A t \in Successors(blocks, order, b) : w.in[t] \subseteq high
      <4>1. w.out[b] \subseteq out
        OBVIOUS
      <4>2. \A t \in Successors(blocks, order, b) : w.in[t] \subseteq out
        BY Zenon
      <4> HIDE DEF out
      <4> QED
        BY <4>1, <4>2
    <3>4. PICK low : low = in /\ low = w.in[b] \cup before
      OBVIOUS
    <3> PICK v : v = moved
      OBVIOUS
    <3>5. /\ SweepBlock(blocks, order, first, w, b) = v
          /\ v.in = [w.in EXCEPT ![b] = low] /\ v.out = [w.out EXCEPT ![b] = high]
          /\ v.changed = (w.changed \/ low # w.in[b])
      BY <2>2, <2>4, <3>3, <3>4
    <3>6. /\ v.in[b] = low /\ v.out[b] = high
          /\ \A c \in B \ {b} : v.in[c] = w.in[c] /\ v.out[c] = w.out[c]
      BY <2>1, <3>5
    <3> HIDE DEF out, in, moved
    <3>7. Grown(B, v.in, in0)
      <4>1. \A c \in B : in0[c] \subseteq w.in[c]
        BY <1>4 DEF Grown
      <4> QED
        BY <3>4, <3>6, <4>1 DEF Grown
    <3>8. Sound(blocks, order, V, Ok, v.in, v.out)
      <4>1. \A c \in B : w.in[c] \cap V \subseteq Ok[c] /\ w.out[c] \cap V \subseteq Beyond(blocks, order, Ok, c)
        BY <1>4 DEF Sound
      <4>2. low \cap V \subseteq Ok[b] /\ high \cap V \subseteq Beyond(blocks, order, Ok, b)
        BY <3>1, <3>2, <3>3, <3>4, <4>1
      <4>3. \A c \in B : v.in[c] \cap V \subseteq Ok[c] /\ v.out[c] \cap V \subseteq Beyond(blocks, order, Ok, c)
        BY <3>6, <4>1, <4>2
      <4> QED
        BY <4>3 DEF Sound
    <3>9. Visited(v, s)
      <4>1. LiveAtStart(blocks[b], v.out[b]) \subseteq v.in[b]
        BY <3>3, <3>4, <3>6
      <4>2. \A c \in B \ {b} : ~first \/ c \in s => LiveAtStart(blocks[c], w.out[c]) \subseteq w.in[c]
        BY <1>4
      <4> QED
        BY <3>6, <4>1, <4>2
    <3>10. ASSUME ~v.changed PROVE Quiet(v, s)
      <4>1. low = w.in[b] /\ Quiet(w, s \ {b})
        BY <1>4, <2>1, <3>5, <3>10
      <4>2. v.in = w.in
        BY <2>1, <3>5, <4>1
      <4>3. \A t \in Successors(blocks, order, b) : v.in[t] \subseteq v.out[b]
        BY <3>3, <3>6, <4>2
      <4>4. \A c \in s \ {b} : \A t \in Successors(blocks, order, c) : v.in[t] \subseteq v.out[c]
        BY <3>6, <4>1, <4>2
      <4> QED
        BY <4>1, <4>2, <4>3, <4>4
    <3> QED
      BY <3>5, <3>7, <3>8, <3>9, <3>10
  <2> QED
    BY <2>3, <2>4
<1> DEFINE Good == {s \in SUBSET B : Fine(iter[s], s)}
<1>5. {} \in Good
  <2>1. iter[{}] = [in |-> in0, out |-> out0, changed |-> FALSE]
    BY <1>1 DEF SweepSteps
  <2>2. Grown(B, in0, in0)
    BY DEF Grown
  <2>3. first \/ \A b \in B : LiveAtStart(blocks[b], out0[b]) \subseteq in0[b]
    BY DEF Settled
  <2> QED
    BY <2>1, <2>2, <2>3
<1>6. ASSUME NEW s \in SUBSET B, s # {}, s \ {pick[s]} \in Good PROVE s \in Good
  <2>1. PICK b \in s : b = pick[s] /\ b = Min(s) /\ order[b] = b
    BY <1>3, <1>6 DEF Picks
  <2>2. iter[s] = SweepBlock(blocks, order, first, iter[s \ {b}], b)
    BY <1>1, <1>6, <2>1 DEF SweepSteps
  <2>3. iter[s \ {b}] \in Flows(B, R)
    BY <1>1 DEF KeepsFlows
  <2>4. Fine(iter[s \ {b}], s \ {b})
    BY <1>6, <2>1
  <2> HIDE DEF Fine
  <2> QED
    BY <1>4, <2>2, <2>3, <2>4
<1>7. Fine(after, B)
  <2>1. B \in Good
    <3> HIDE DEF Good, pick, B
    <3>1. \A s \in SUBSET B : s # {} /\ s \ {pick[s]} \in Good => s \in Good
      BY <1>6
    <3>2. IsFiniteSet(B)
      BY <1>2
    <3>3. \A s \in SUBSET B : s \in Good
      BY ONLY <1>3, <1>5, <3>1, <3>2, SubsetInduction
    <3> QED
      BY <3>3
  <2>2. after = iter[B]
    BY <1>1 DEF SweepSteps
  <2> HIDE DEF Fine
  <2> QED
    BY <2>1, <2>2
<1> QED
  BY <1>7 DEF Settled, Connected

(* A walk from b to one of ends along blocks that let r pass.              *)
Walk(blocks, b, r, ends, n, path) ==
  /\ path[1] = b /\ path[n] \in ends
  /\ \A k \in 1..(n - 1) :
       PassesThrough(blocks[path[k]], r) /\ <<path[k], path[k + 1]>> \in EdgesOf(blocks)

(* One that takes no block twice.                                          *)
Leads(blocks, b, r, ends) ==
  \E n \in Nat \ {0} : \E path \in [1..n -> DOMAIN blocks] :
    Walk(blocks, b, r, ends, n, path) /\ IsInjective(path)

LEMMA WalkBegins ==
  ASSUME NEW blocks, NEW r, NEW ends, NEW b \in DOMAIN blocks, b \in ends
  PROVE  Leads(blocks, b, r, ends)
<1> DEFINE path == [k \in 1..1 |-> b]
<1>1. path \in [1..1 -> DOMAIN blocks] /\ path[1] = b /\ 1..(1 - 1) = {}
  OBVIOUS
<1>2. IsInjective(path)
  BY DEF IsInjective
<1>3. Walk(blocks, b, r, ends, 1, path)
  BY <1>1 DEF Walk
<1> HIDE DEF path
<1> PICK n \in Nat \ {0} : n = 1
  OBVIOUS
<1>4. path \in [1..n -> DOMAIN blocks] /\ Walk(blocks, b, r, ends, n, path)
  BY <1>1, <1>3
<1> QED
  BY <1>2, <1>4 DEF Leads

(* A walk from a block before begins there, or where the walk comes back   *)
(* to it.                                                                  *)
LEMMA WalkExtends ==
  ASSUME NEW blocks, NEW r, NEW ends, NEW b \in DOMAIN blocks, NEW t \in DOMAIN blocks,
         <<b, t>> \in EdgesOf(blocks), PassesThrough(blocks[b], r), Leads(blocks, t, r, ends)
  PROVE  Leads(blocks, b, r, ends)
<1> PICK n \in Nat \ {0} : \E path \in [1..n -> DOMAIN blocks] :
      Walk(blocks, t, r, ends, n, path) /\ IsInjective(path)
  BY DEF Leads
<1>1. PICK path \in [1..n -> DOMAIN blocks] :
        Walk(blocks, t, r, ends, n, path) /\ IsInjective(path)
  OBVIOUS
<1>2. /\ path[1] = t /\ path[n] \in ends
      /\ \A k \in 1..(n - 1) :
           PassesThrough(blocks[path[k]], r) /\ <<path[k], path[k + 1]>> \in EdgesOf(blocks)
  BY <1>1 DEF Walk
<1>3. \A j, k \in 1..n : path[j] = path[k] => j = k
  BY <1>1 DEF IsInjective
<1>4. ASSUME NEW i \in 1..n, path[i] = b PROVE Leads(blocks, b, r, ends)
  <2>1. PICK m \in Nat \ {0} : m = n - i + 1
    OBVIOUS
  <2> DEFINE rest == [k \in 1..m |-> path[i + k - 1]]
  <2>2. \A k \in 1..m : i + k - 1 \in 1..n
    BY <2>1
  <2>3. rest \in [1..m -> DOMAIN blocks] /\ \A k \in 1..m : rest[k] = path[i + k - 1]
    BY <2>2
  <2> HIDE DEF rest
  <2>4. IsInjective(rest)
    <3>1. ASSUME NEW j \in 1..m, NEW k \in 1..m, rest[j] = rest[k] PROVE j = k
      <4>1. i + j - 1 = i + k - 1
        BY <1>3, <2>2, <2>3, <3>1
      <4> QED
        BY <4>1
    <3> QED
      BY <2>3, <3>1 DEF IsInjective
  <2>5. rest[1] = b /\ rest[m] \in ends
    <3>1. 1 \in 1..m /\ i + 1 - 1 = i /\ m \in 1..m /\ i + m - 1 = n
      BY <2>1
    <3>2. rest[1] = path[i + 1 - 1] /\ rest[m] = path[i + m - 1]
      BY <2>3, <3>1
    <3> QED
      BY <1>2, <1>4, <3>1, <3>2
  <2>6. ASSUME NEW k \in 1..(m - 1)
        PROVE  PassesThrough(blocks[rest[k]], r) /\ <<rest[k], rest[k + 1]>> \in EdgesOf(blocks)
    <3>1. PICK j \in 1..(n - 1) : j = i + k - 1
      BY <2>1
    <3>2. k \in 1..m /\ k + 1 \in 1..m /\ i + (k + 1) - 1 = j + 1
      BY <2>1, <3>1
    <3>3. rest[k] = path[j] /\ rest[k + 1] = path[j + 1]
      BY <2>3, <3>1, <3>2
    <3> QED
      BY <1>2, <3>3
  <2>7. Walk(blocks, b, r, ends, m, rest)
    BY <2>5, <2>6 DEF Walk
  <2> QED
    BY <2>3, <2>4, <2>7 DEF Leads
<1>5. ASSUME \A i \in 1..n : path[i] # b PROVE Leads(blocks, b, r, ends)
  <2>1. PICK m \in Nat \ {0} : m = n + 1
    OBVIOUS
  <2> DEFINE longer == [k \in 1..m |-> IF k = 1 THEN b ELSE path[k - 1]]
  <2>2. \A k \in 1..m : k # 1 => k - 1 \in 1..n
    BY <2>1
  <2>3. /\ longer \in [1..m -> DOMAIN blocks] /\ longer[1] = b
        /\ \A k \in 1..m : k # 1 => longer[k] = path[k - 1]
    BY <2>1, <2>2
  <2> HIDE DEF longer
  <2>4. IsInjective(longer)
    <3>1. ASSUME NEW j \in 1..m, NEW k \in 1..m, longer[j] = longer[k] PROVE j = k
      <4>1. CASE j = 1 \/ k = 1
        BY <1>5, <2>2, <2>3, <3>1, <4>1
      <4>2. CASE j # 1 /\ k # 1
        <5>1. j - 1 = k - 1
          BY <1>3, <2>2, <2>3, <3>1, <4>2
        <5> QED
          BY <5>1
      <4> QED
        BY <4>1, <4>2
    <3> QED
      BY <2>3, <3>1 DEF IsInjective
  <2>5. longer[m] \in ends
    <3>1. m \in 1..m /\ m # 1 /\ m - 1 = n
      BY <2>1
    <3> QED
      BY <1>2, <2>3, <3>1
  <2>6. ASSUME NEW k \in 1..(m - 1)
        PROVE  PassesThrough(blocks[longer[k]], r) /\ <<longer[k], longer[k + 1]>> \in EdgesOf(blocks)
    <3>1. k \in 1..m /\ k + 1 \in 1..m /\ k + 1 # 1 /\ k + 1 - 1 = k
      BY <2>1
    <3>2. longer[k + 1] = path[k]
      BY <2>3, <3>1
    <3>3. CASE k = 1
      BY <1>2, <2>3, <3>2, <3>3
    <3>4. CASE k # 1
      <4>1. PICK j \in 1..(n - 1) : j = k - 1 /\ j + 1 = k
        BY <2>1, <3>4
      <4>2. longer[k] = path[j] /\ longer[k + 1] = path[j + 1]
        BY <2>3, <3>1, <3>2, <3>4, <4>1
      <4> QED
        BY <1>2, <4>2
    <3> QED
      BY <3>3, <3>4
  <2>7. Walk(blocks, b, r, ends, m, longer)
    BY <2>3, <2>5, <2>6 DEF Walk
  <2> QED
    BY <2>3, <2>4, <2>7 DEF Leads
<1> QED
  BY <1>4, <1>5

(* A walk that takes no block twice is no longer than there are blocks.    *)
LEMMA WalkReaches ==
  ASSUME NEW X, NEW blocks \in Seq(X), NEW b, NEW r, NEW ends, Leads(blocks, b, r, ends)
  PROVE  Reaches(blocks, b, r, ends)
<1> PICK n \in Nat \ {0} : \E path \in [1..n -> DOMAIN blocks] :
      Walk(blocks, b, r, ends, n, path) /\ IsInjective(path)
  BY DEF Leads
<1>1. PICK path \in [1..n -> DOMAIN blocks] :
        Walk(blocks, b, r, ends, n, path) /\ IsInjective(path)
  OBVIOUS
<1>2. PICK m \in Nat : m = Len(blocks) /\ DOMAIN blocks = 1..m
  OBVIOUS
<1>3. n <= m
  <2>1. SUFFICES ASSUME m < n PROVE FALSE
    BY <1>2
  <2>2. IsFiniteSet(1..m) /\ Cardinality(1..m) = m /\ IsFiniteSet(1..n) /\ Cardinality(1..n) = n
    BY FS_Interval
  <2>3. path \in [1..n -> 1..m]
    BY <1>2
  <2>4. \E j, k \in 1..n : j # k /\ path[j] = path[k]
    <3> PICK S : S = 1..n
      OBVIOUS
    <3> PICK T : T = 1..m
      OBVIOUS
    <3>1. IsFiniteSet(S) /\ IsFiniteSet(T) /\ path \in [S -> T] /\ Cardinality(T) < Cardinality(S)
      BY <2>1, <2>2, <2>3
    <3>2. \E j, k \in S : j # k /\ path[j] = path[k]
      BY ONLY <3>1, FS_PigeonHole
    <3> QED
      BY <3>2
  <2> QED
    BY <1>1, <2>4 DEF IsInjective
<1>4. n \in 1..Len(blocks)
  BY <1>2, <1>3
<1> QED
  BY <1>1, <1>4 DEF Walk, Reaches

(* What is handed back along the edges of a walk arrives where it began.   *)
LEMMA ReachedIsLive ==
  ASSUME NEW X, NEW blocks \in Seq(X), NEW b, NEW r, NEW ends, Reaches(blocks, b, r, ends),
         NEW live,
         \A c \in DOMAIN blocks : c \in ends => c \in live,
         \A c, t \in DOMAIN blocks :
           <<c, t>> \in EdgesOf(blocks) /\ PassesThrough(blocks[c], r) /\ t \in live => c \in live
  PROVE  b \in live
<1>0. PICK n \in 1..Len(blocks) : \E path \in [1..n -> DOMAIN blocks] :
        /\ path[1] = b /\ path[n] \in ends
        /\ \A k \in 1..(n - 1) :
             PassesThrough(blocks[path[k]], r) /\ <<path[k], path[k + 1]>> \in EdgesOf(blocks)
  BY DEF Reaches
<1>1. PICK path \in [1..n -> DOMAIN blocks] :
        /\ path[1] = b /\ path[n] \in ends
        /\ \A k \in 1..(n - 1) :
             PassesThrough(blocks[path[k]], r) /\ <<path[k], path[k + 1]>> \in EdgesOf(blocks)
  BY <1>0
<1> DEFINE Good == {j \in Nat : j < n => path[n - j] \in live}
<1>2. n \in Nat \ {0}
  BY <1>0
<1>3. Good \in SUBSET Nat /\ 0 \in Good
  <2>1. n \in 1..n /\ path[n] \in DOMAIN blocks /\ n - 0 = n
    BY <1>2
  <2> QED
    BY <1>1, <2>1
<1>4. ASSUME NEW j \in Good PROVE j + 1 \in Good
  <2>1. SUFFICES ASSUME j + 1 < n PROVE path[n - (j + 1)] \in live
    OBVIOUS
  <2>2. PICK k \in 1..(n - 1) : k = n - (j + 1) /\ k + 1 = n - j /\ k \in 1..n /\ k + 1 \in 1..n
    <3>1. n - (j + 1) \in 1..(n - 1)
      BY <1>2, <2>1
    <3> QED
      BY <1>2, <3>1
  <2>3. path[k + 1] \in live
    BY <1>2, <2>1, <2>2
  <2>4. path[k] \in DOMAIN blocks /\ path[k + 1] \in DOMAIN blocks
    BY <2>2
  <2>5. path[k] \in live
    BY <1>1, <2>3, <2>4
  <2> QED
    BY <2>2, <2>5
<1>5. n - 1 \in Good
  <2>1. Good = Nat
    <3> HIDE DEF Good
    <3> QED
      BY <1>3, <1>4, SetInduction
  <2>2. n - 1 \in Nat
    BY <1>2
  <2> HIDE DEF Good
  <2> QED
    BY <2>1, <2>2
<1>6. n - 1 < n /\ n - (n - 1) = 1
  BY <1>2
<1> QED
  BY <1>1, <1>5, <1>6

(* Where a register is live into: blocks from which a walk leads to one    *)
(* that reads it first, or a parameter to the entry.                       *)
Ends(p, r) == Users(p.blocks, r) \cup (IF r \in ToSet(p.params) THEN {1} ELSE {})

Reached(p) == [b \in DOMAIN p.blocks |-> {r \in SourceRegs(p) : Leads(p.blocks, b, r, Ends(p, r))}]

(* Calls clobber physical registers, and those of a source are virtual.    *)
LEMMA SourceIsNotClobbered ==
  ASSUME NEW p \in Programs, NEW r \in SourceRegs(p)
  PROVE  \A i : r \notin ClobberedBy(i)
<1>1. r \in Nat /\ IsVirtual(r) /\ NumRegs \in Nat
  BY ProgramsAssumption, RegisterAssumption DEF SourceRegs, ToSet
<1> QED
  BY <1>1 DEF ClobberedBy, PhysRegs, IsVirtual

(* The walks explain every live set of a block by those of the blocks that *)
(* follow it.                                                              *)
LEMMA WalksExplain ==
  ASSUME NEW p \in Programs, NEW order, order = [b \in DOMAIN p.blocks |-> b]
  PROVE  Explains(p.blocks, order, Known(p), SourceRegs(p), Reached(p))
<1> DEFINE B == DOMAIN p.blocks
           R == Known(p)
<1>1. SUFFICES ASSUME NEW b \in B, NEW live \in SUBSET R,
                      live \cap SourceRegs(p) \subseteq Beyond(p.blocks, order, Reached(p), b),
                      NEW r \in SourceRegs(p), r \in LiveAtStart(p.blocks[b], live)
               PROVE  Leads(p.blocks, b, r, Ends(p, r))
  BY DEF Explains, Reached
<1>2. /\ p.blocks[b] \in Seq(SourceInstr)
      /\ \A k \in DOMAIN p.blocks[b] : Ins(p.blocks[b][k]) \in SUBSET R
      /\ Successors(p.blocks, order, b) \in SUBSET B
  BY SourceCodeFacts DEF Known
<1>3. r \in UsedFirst(p.blocks[b]) \/ (r \in live /\ PassesThrough(p.blocks[b], r))
  <2> PICK block : block = p.blocks[b]
    OBVIOUS
  <2>1. block \in Seq(SourceInstr) /\ \A k \in DOMAIN block : Ins(block[k]) \in SUBSET R
    BY <1>2
  <2>2. \A k \in DOMAIN block : r \notin ClobberedBy(block[k])
    BY SourceIsNotClobbered
  <2> HIDE DEF R
  <2>3. r \in LiveAtStart(block, live) <=> r \in UsedFirst(block) \/ (r \in live /\ PassesThrough(block, r))
    BY <2>1, <2>2, LiveAtStartMeans
  <2> QED
    BY <1>1, <2>3
<1>4. CASE r \in UsedFirst(p.blocks[b])
  <2>1. b \in Ends(p, r)
    BY <1>4 DEF Ends, Users
  <2> QED
    BY <2>1, WalkBegins
<1>5. CASE r \in live /\ PassesThrough(p.blocks[b], r)
  <2>1. PICK t \in Successors(p.blocks, order, b) : r \in Reached(p)[t]
    BY <1>1, <1>5 DEF Beyond
  <2>2. t \in B /\ Leads(p.blocks, t, r, Ends(p, r))
    BY <1>2, <2>1 DEF Reached
  <2>3. <<b, t>> \in EdgesOf(p.blocks)
    BY <2>1, <2>2 DEF EdgesOf
  <2> QED
    BY <1>5, <2>2, <2>3, WalkExtends
<1> QED
  BY <1>3, <1>4, <1>5

(* The sweeps keep between what the walks explain and what they began      *)
(* with, and the last one finds nothing missing.                           *)
LiveInv ==
  phase \in Sweeps =>
    /\ Sound(code, layout, SourceRegs(source), Reached(source), flow.in, flow.out)
    /\ 1 \in DOMAIN source.blocks => ToSet(source.params) \subseteq flow.in[1]
    /\ phase # "first sweep" => Settled(code, flow.in, flow.out)
    /\ phase = "ranges" => Connected(code, layout, flow.in, flow.out)

LEMMA InitLive == Init => LiveInv
<1> SUFFICES ASSUME Init PROVE LiveInv
  OBVIOUS
<1> DEFINE B == DOMAIN source.blocks
           V == SourceRegs(source)
<1>1. /\ source \in Programs /\ phase = "first sweep" /\ code = source.blocks
      /\ layout = [b \in B |-> b]
      /\ flow.in = [b \in B |-> IF b = 1 THEN ToSet(Inputs(source)) ELSE {}]
      /\ flow.out = [b \in B |-> IF b \in Returns THEN ToSet(PcsRegs(source)) ELSE {}]
  BY DEF Init, AllocInit, Blocks
<1>2. /\ \A r \in ToSet(PcsRegs(source)) : r \notin V
      /\ \A r \in ToSet(Inputs(source)) : r \in ToSet(PcsRegs(source)) \/ r \in ToSet(source.params)
      /\ ToSet(source.params) \in SUBSET ToSet(Inputs(source))
  BY <1>1, StartingRegisters
<1>3. ASSUME NEW b \in B, NEW r \in V, r \in flow.in[b] PROVE r \in Reached(source)[b]
  <2>1. b = 1 /\ r \in ToSet(source.params)
    BY <1>1, <1>2, <1>3
  <2>2. Leads(source.blocks, b, r, Ends(source, r))
    BY <2>1, WalkBegins DEF Ends
  <2> QED
    BY <2>2 DEF Reached
<1>4. ASSUME NEW b \in B PROVE flow.out[b] \cap V = {}
  BY <1>1, <1>2
<1>5. Sound(code, layout, V, Reached(source), flow.in, flow.out)
  BY <1>1, <1>3, <1>4 DEF Sound
<1>6. ASSUME 1 \in B PROVE ToSet(source.params) \subseteq flow.in[1]
  <2>1. flow.in[1] = ToSet(Inputs(source))
    BY <1>1, <1>6
  <2> QED
    BY <1>2, <2>1
<1> QED
  BY <1>1, <1>5, <1>6 DEF LiveInv

LEMMA SweepLive ==
  ASSUME AllocationInv, LiveInv, SweepAll
  PROVE  LiveInv'
<1> DEFINE B == DOMAIN source.blocks
           R == Known(source)
           V == SourceRegs(source)
<1>1. /\ source \in Programs /\ phase \in {"first sweep", "sweep"} /\ SourceCode
      /\ Sound(code, layout, V, Reached(source), flow.in, flow.out)
      /\ 1 \in B => ToSet(source.params) \subseteq flow.in[1]
      /\ phase # "first sweep" => Settled(code, flow.in, flow.out)
  BY DEF AllocationInv, LiveInv, SweepAll, Sweeps
<1> PICK after : after = Sweep(code, layout, phase = "first sweep", flow.in, flow.out)
  OBVIOUS
<1>2. /\ flow' = [in |-> after.in, out |-> after.out]
      /\ phase' = IF phase = "first sweep" \/ after.changed THEN "sweep" ELSE "ranges"
      /\ UNCHANGED <<source, code, layout>>
  BY DEF SweepAll
<1>3. /\ code = source.blocks /\ layout = [b \in B |-> b]
      /\ flow.in \in [B -> SUBSET R] /\ flow.out \in [B -> SUBSET R]
  BY <1>1 DEF SourceCode, Blocks
<1>4. /\ code \in Seq(Seq(Instructions)) /\ layout \in Seq(DOMAIN code) /\ B = DOMAIN code
      /\ \A b \in DOMAIN code : \A k \in DOMAIN code[b] : Ins(code[b][k]) \in SUBSET R
      /\ \A b \in DOMAIN code : Successors(code, layout, b) \in SUBSET DOMAIN code
  BY <1>1, <1>3, SourceCodeFacts DEF Known
<1>5. Explains(code, layout, R, V, Reached(source))
  BY <1>1, <1>3, WalksExplain
<1>6. /\ Grown(B, after.in, flow.in)
      /\ Sound(code, layout, V, Reached(source), after.in, after.out)
      /\ Settled(code, after.in, after.out)
      /\ ~after.changed => Connected(code, layout, after.in, after.out)
  <2> PICK first \in BOOLEAN : first = (phase = "first sweep")
    OBVIOUS
  <2>1. /\ after = Sweep(code, layout, first, flow.in, flow.out)
        /\ first \/ Settled(code, flow.in, flow.out)
        /\ layout = [b \in DOMAIN code |-> b]
        /\ flow.in \in [DOMAIN code -> SUBSET R] /\ flow.out \in [DOMAIN code -> SUBSET R]
    BY <1>1, <1>3, <1>4
  <2> HIDE DEF R, V, B
  <2>2. /\ Grown(DOMAIN code, after.in, flow.in)
        /\ Sound(code, layout, V, Reached(source), after.in, after.out)
        /\ Settled(code, after.in, after.out)
        /\ ~after.changed => Connected(code, layout, after.in, after.out)
    BY ONLY <1>1, <1>4, <1>5, <2>1, SweepApproaches
  <2> QED
    BY <1>4, <2>2
<1>7. flow'.in = after.in /\ flow'.out = after.out
  BY <1>2
<1>8. 1 \in B => ToSet(source.params) \subseteq after.in[1]
  BY <1>1, <1>6 DEF Grown
<1> QED
  BY <1>2, <1>6, <1>7, <1>8 DEF LiveInv

LEMMA OtherLive ==
  ASSUME LiveInv, [Next]_vars, ~SweepAll
  PROVE  LiveInv'
<1>1. CASE phase' \notin Sweeps
  BY <1>1 DEF LiveInv
<1>2. CASE phase' \in Sweeps
  <2>1. UNCHANGED <<source, phase, code, layout, flow>>
    <3>1. CASE AllocNext
      BY <1>2, <3>1 DEF AllocNext, Sweeps, Prepare, Skip, Assign, Spill, SpillFor, ColourSlots,
                        Substitute, PostRegalloc
    <3>2. CASE Call \/ Return
      BY <1>2, <3>2 DEF Sweeps, Call, Return
    <3>3. CASE Execute \/ Finished \/ UNCHANGED vars
      BY <3>3 DEF Execute, Finished, vars, allocVars
    <3> QED
      BY <3>1, <3>2, <3>3 DEF Next, Compile
  <2> QED
    BY <2>1 DEF LiveInv
<1> QED
  BY <1>1, <1>2

(* When the sweeps end, a walk to a reader, or a parameter's to the entry, *)
(* hands the register back to where it starts.                             *)
LEMMA LiveSetsFollowWalks ==
  ASSUME AllocationInv, LiveInv, phase = "ranges",
         NEW b \in DOMAIN source.blocks, NEW r \in SourceRegs(source)
  PROVE  r \in flow.in[b] <=> Reaches(source.blocks, b, r, Ends(source, r))
<1> DEFINE B == DOMAIN source.blocks
           R == Known(source)
<1>1. /\ source \in Programs /\ SourceCode
      /\ Sound(code, layout, SourceRegs(source), Reached(source), flow.in, flow.out)
      /\ 1 \in B => ToSet(source.params) \subseteq flow.in[1]
      /\ Settled(code, flow.in, flow.out) /\ Connected(code, layout, flow.in, flow.out)
  BY DEF AllocationInv, LiveInv, Sweeps
<1>2. /\ code = source.blocks /\ layout = [c \in B |-> c]
      /\ flow.in \in [B -> SUBSET R] /\ flow.out \in [B -> SUBSET R]
  BY <1>1 DEF SourceCode, Blocks
<1>3. /\ source.blocks \in Seq(Seq(Instructions))
      /\ \A c \in B : /\ source.blocks[c] \in Seq(SourceInstr)
                      /\ \A k \in DOMAIN source.blocks[c] : Ins(source.blocks[c][k]) \in SUBSET R
  BY <1>1, SourceCodeFacts DEF Known
<1>4. ASSUME NEW c \in B
      PROVE  r \in UsedFirst(source.blocks[c]) \/ (r \in flow.out[c] /\ PassesThrough(source.blocks[c], r))
               => r \in flow.in[c]
  <2> PICK block : block = source.blocks[c]
    OBVIOUS
  <2> PICK live \in SUBSET R : live = flow.out[c]
    BY <1>2
  <2>1. block \in Seq(SourceInstr) /\ \A k \in DOMAIN block : Ins(block[k]) \in SUBSET R
    BY <1>3
  <2>2. \A k \in DOMAIN block : r \notin ClobberedBy(block[k])
    BY <1>1, SourceIsNotClobbered
  <2>3. r \in LiveAtStart(block, live) <=> r \in UsedFirst(block) \/ (r \in live /\ PassesThrough(block, r))
    <3> HIDE DEF R
    <3> QED
      BY <2>1, <2>2, LiveAtStartMeans
  <2>4. LiveAtStart(block, live) \subseteq flow.in[c]
    BY <1>1, <1>2 DEF Settled
  <2> QED
    BY <2>3, <2>4
<1> DEFINE live == {c \in B : r \in flow.in[c]}
<1>5. ASSUME NEW c \in B, c \in Ends(source, r) PROVE c \in live
  <2>1. CASE c \in Users(source.blocks, r)
    BY <1>4, <2>1 DEF Users
  <2>2. CASE r \in ToSet(source.params) /\ c = 1
    BY <1>1, <2>2
  <2> QED
    BY <1>5, <2>1, <2>2 DEF Ends
<1>6. ASSUME NEW c \in B, NEW t \in B, <<c, t>> \in EdgesOf(source.blocks),
             PassesThrough(source.blocks[c], r), t \in live
      PROVE  c \in live
  <2>1. t \in Successors(code, layout, c)
    BY <1>2, <1>6 DEF EdgesOf
  <2>2. r \in flow.out[c]
    BY <1>1, <1>2, <1>6, <2>1 DEF Connected
  <2> QED
    BY <1>4, <1>6, <2>2
<1>7. ASSUME Reaches(source.blocks, b, r, Ends(source, r)) PROVE r \in flow.in[b]
  <2>1. b \in live
    <3> HIDE DEF live
    <3> QED
      BY <1>3, <1>5, <1>6, <1>7, ReachedIsLive
  <2> QED
    BY <2>1
<1>8. ASSUME r \in flow.in[b] PROVE Reaches(source.blocks, b, r, Ends(source, r))
  <2>1. r \in Reached(source)[b]
    BY <1>1, <1>2, <1>8 DEF Sound
  <2>2. Leads(source.blocks, b, r, Ends(source, r))
    BY <2>1 DEF Reached
  <2> QED
    BY <1>3, <2>2, WalkReaches
<1> QED
  BY <1>7, <1>8

(* The sweeps stop at the live sets, not before and not beyond: a register *)
(* is live into a block exactly when some path from there reads it before  *)
(* it is written, whatever the function and its loops.                     *)
THEOREM SweepsFindTheLiveSets == Spec => []LiveSetsAreExact
<1>1. Init => LiveInv
  BY InitLive
<1>2. AllocationInv /\ LiveInv /\ [Next]_vars => LiveInv'
  BY SweepLive, OtherLive
<1>3. AllocationInv /\ LiveInv => LiveSetsAreExact
  <2> SUFFICES ASSUME AllocationInv, LiveInv, phase = "ranges",
                      NEW b \in DOMAIN source.blocks, NEW r \in SourceRegs(source)
               PROVE  r \in flow.in[b] <=>
                        Reaches(source.blocks, b, r,
                                Users(source.blocks, r) \cup (IF r \in ToSet(source.params) THEN {1} ELSE {}))
    BY DEF LiveSetsAreExact
  <2> QED
    BY LiveSetsFollowWalks DEF Ends
<1> QED
  BY <1>1, <1>2, <1>3, AllocationIsInvariant, PTL DEF Spec

-----------------------------------------------------------------------------
(* The names of instructions, and the operands that a spill renames.       *)

Operands(i) == Outs(i) \cup Ins(i)

(* No two instructions of a block have one id, and those that allocation   *)
(* inserted have numbers below n.                                          *)
Numbered(block, n) ==
  /\ \A j, k \in DOMAIN block : block[j].id = block[k].id => j = k
  /\ \A k \in DOMAIN block : block[k].id[1] # 0 \/ block[k].id[2] < n

(* Of t's elements, s has all but e.                                       *)
AddsOnly(t, s, e) ==
  \A k \in DOMAIN t :
    \/ \E m \in DOMAIN s : t[k] = s[m]
    \/ t[k].id = e.id /\ t[k].outs = e.outs /\ t[k].ins = e.ins

(* What InsertAt has where.                                                *)
LEMMA InsertAtPlaces ==
  ASSUME NEW X, NEW s \in Seq(X), NEW k \in 1..(Len(s) + 1), NEW e \in X
  PROVE  \A n \in DOMAIN InsertAt(s, k, e) :
           \/ n = k /\ InsertAt(s, k, e)[n] = e
           \/ n < k /\ n \in DOMAIN s /\ InsertAt(s, k, e)[n] = s[n]
           \/ n > k /\ n - 1 \in DOMAIN s /\ InsertAt(s, k, e)[n] = s[n - 1]
<1> DEFINE a == SubSeq(s, 1, k - 1)
           c == SubSeq(s, k, Len(s))
           t == InsertAt(s, k, e)
           d == a \o <<e>>
<1>1. /\ a \in Seq(X) /\ Len(a) = k - 1 /\ \A n \in 1..(k - 1) : a[n] = s[n]
      /\ c \in Seq(X) /\ Len(c) = Len(s) - k + 1 /\ \A n \in 1..Len(c) : c[n] = s[k + n - 1]
  BY SMT
<1>2. t = d \o c
  BY DEF InsertAt
<1> HIDE DEF a, c, t
<1>3. d \in Seq(X) /\ Len(d) = k /\ d[k] = e /\ \A n \in 1..(k - 1) : d[n] = a[n]
  BY <1>1
<1> HIDE DEF d
<1>4. Len(t) = Len(d) + Len(c) /\ t \in Seq(X)
  <2>1. c \in Seq(X) /\ d \in Seq(X)
    BY <1>1, <1>3
  <2> QED
    BY ONLY <1>2, <2>1
<1>5. \A n \in 1..k : t[n] = d[n]
  BY <1>1, <1>2, <1>3
<1>6. \A n \in 1..Len(c) : t[k + n] = c[n]
  BY <1>1, <1>2, <1>3
<1>7. ASSUME NEW n \in DOMAIN t
      PROVE  \/ n = k /\ t[n] = e
             \/ n < k /\ n \in DOMAIN s /\ t[n] = s[n]
             \/ n > k /\ n - 1 \in DOMAIN s /\ t[n] = s[n - 1]
  <2>1. n \in 1..(Len(s) + 1) /\ Len(s) \in Nat /\ k \in Int
    BY <1>1, <1>3, <1>4
  <2>2. CASE n = k
    BY <1>3, <1>5, <2>1, <2>2
  <2>3. CASE n < k
    <3>1. n \in 1..(k - 1) /\ n \in 1..k /\ n \in DOMAIN s
      BY <2>1, <2>3
    <3> QED
      BY <1>1, <1>3, <1>5, <2>3, <3>1
  <2>4. CASE n > k
    <3> DEFINE m == n - k
    <3>1. m \in 1..Len(c) /\ k + m = n /\ k + m - 1 = n - 1 /\ n - 1 \in DOMAIN s
      BY <1>1, <2>1, <2>4
    <3>2. t[k + m] = c[m] /\ c[m] = s[k + m - 1]
      BY <1>1, <1>6, <3>1
    <3> QED
      BY <2>4, <3>1, <3>2
  <2> QED
    BY <2>1, <2>2, <2>3, <2>4
<1> QED
  BY <1>7 DEF t

(* An inserted instruction has an id of its own.                           *)
LEMMA InsertNumbers ==
  ASSUME NEW block \in Seq(Instructions), NEW id, Has(block, id), NEW n \in Nat,
         Numbered(block, n), NEW i \in Instructions, i.id = <<0, n>>
  PROVE  /\ Numbered(InsertBefore(block, id, i), n + 1) /\ AddsOnly(InsertBefore(block, id, i), block, i)
         /\ Numbered(InsertAfter(block, id, i), n + 1) /\ AddsOnly(InsertAfter(block, id, i), block, i)
<1>1. ASSUME NEW k \in 1..(Len(block) + 1), NEW pos \in Nat
      PROVE  /\ Numbered(InsertAt(block, k, [i EXCEPT !.pos = pos]), n + 1)
             /\ AddsOnly(InsertAt(block, k, [i EXCEPT !.pos = pos]), block, i)
  <2> DEFINE e == [i EXCEPT !.pos = pos]
             t == InsertAt(block, k, e)
  <2>1. e \in Instructions /\ e.id = i.id /\ e.outs = i.outs /\ e.ins = i.ins
    BY DEF Instructions
  <2> HIDE DEF e
  <2>2. ASSUME NEW m \in DOMAIN t
        PROVE  \/ m = k /\ t[m] = e
               \/ m < k /\ m \in DOMAIN block /\ t[m] = block[m]
               \/ m > k /\ m - 1 \in DOMAIN block /\ t[m] = block[m - 1]
    BY <2>1, InsertAtPlaces
  <2>3. DOMAIN t \in SUBSET Int
    <3>1. t \in Seq(Instructions)
      BY <2>1, InsertAtKeeps
    <3> QED
      BY <3>1
  <2> HIDE DEF t
  <2>4. \A m \in DOMAIN block : block[m].id # <<0, n>>
    BY DEF Numbered
  <2>5. ASSUME NEW l \in DOMAIN t, NEW m \in DOMAIN t, t[l].id = t[m].id PROVE l = m
    <3>1. CASE l = k \/ m = k
      BY <2>1, <2>2, <2>4, <2>5, <3>1
    <3>2. CASE l # k /\ m # k
      <4> DEFINE place(x) == IF x < k THEN x ELSE x - 1
      <4>1. ASSUME NEW x \in DOMAIN t, x # k
            PROVE  place(x) \in DOMAIN block /\ t[x] = block[place(x)]
        BY <2>2, <2>3, <4>1
      <4>2. place(l) = place(m)
        BY <2>5, <3>2, <4>1 DEF Numbered
      <4> QED
        BY <2>3, <3>2, <4>2
    <3> QED
      BY <3>1, <3>2
  <2>6. ASSUME NEW m \in DOMAIN t PROVE t[m].id[1] # 0 \/ t[m].id[2] < n + 1
    <3>1. CASE t[m] = e
      BY <2>1, <3>1
    <3>2. ASSUME NEW j \in DOMAIN block, t[m] = block[j] PROVE t[m].id[1] # 0 \/ t[m].id[2] < n + 1
      <4>1. block[j].id \in Nat \X Nat /\ (block[j].id[1] # 0 \/ block[j].id[2] < n)
        <5>1. block[j] \in Instructions
          OBVIOUS
        <5> QED
          BY <5>1 DEF Instructions, Numbered
      <4> QED
        BY <3>2, <4>1
    <3> QED
      BY <2>2, <3>1, <3>2
  <2>7. AddsOnly(t, block, i)
    BY <2>1, <2>2 DEF AddsOnly
  <2> QED
    BY <2>5, <2>6, <2>7 DEF Numbered, t, e
<1> DEFINE k == IndexOf(block, id)
<1>2. k \in DOMAIN block
  BY IndexOfFinds
<1>3. k \in 1..(Len(block) + 1) /\ k + 1 \in 1..(Len(block) + 1)
  BY <1>2
<1> HIDE DEF k
<1>4. /\ PosBefore(block, k) \in Nat /\ PosBefore(block, k + 1) \in Nat
  BY <1>3, PosBeforeIsNatural
<1> QED
  BY <1>1, <1>3, <1>4 DEF InsertBefore, InsertAfter, k

(* A block numbered below n is numbered below all that is more.            *)
LEMMA NumberedBeyond ==
  ASSUME NEW block \in Seq(Instructions), NEW n \in Nat, NEW m \in Nat, n <= m, Numbered(block, n)
  PROVE  Numbered(block, m)
<1>1. ASSUME NEW k \in DOMAIN block PROVE block[k].id[1] # 0 \/ block[k].id[2] < m
  <2>1. block[k] \in Instructions
    OBVIOUS
  <2>2. block[k].id \in Nat \X Nat /\ (block[k].id[1] # 0 \/ block[k].id[2] < n)
    BY <2>1 DEF Instructions, Numbered
  <2> QED
    BY <2>2
<1> QED
  BY <1>1 DEF Numbered

(* A part of a sequence keeps the order.                                   *)
LEMMA PartInOrder ==
  ASSUME NEW X, NEW s \in Seq(X), NEW K \in SUBSET DOMAIN s
  PROVE  \E ks \in [DOMAIN Part(s, K) -> K] :
           /\ \A n \in DOMAIN Part(s, K) : Part(s, K)[n] = s[ks[n]]
           /\ \A k \in K : \E n \in DOMAIN Part(s, K) : ks[n] = k
           /\ \A m, n \in DOMAIN Part(s, K) : m < n => ks[m] < ks[n]
           /\ DOMAIN Part(s, K) \in SUBSET Nat
<1> DEFINE ks == Ascending(K)
           m == Cardinality(K)
<1>1. K \in SUBSET Int /\ IsFiniteSet(K)
  BY SequenceSetIsFinite, FS_Subset
<1>2. /\ m \in Nat /\ ks \in [1..m -> K] /\ \A x \in K : \E k \in 1..m : ks[k] = x
      /\ \A j, k \in 1..m : j < k => ks[j] < ks[k]
  BY <1>1, AscendingLists
<1> HIDE DEF ks, m
<1>3. DOMAIN ks = 1..m /\ Part(s, K) = [n \in 1..m |-> s[ks[n]]]
  BY <1>2 DEF Part, ks
<1>4. DOMAIN Part(s, K) = 1..m /\ \A n \in 1..m : Part(s, K)[n] = s[ks[n]]
  BY <1>3
<1>5. /\ ks \in [DOMAIN Part(s, K) -> K]
      /\ \A n \in DOMAIN Part(s, K) : Part(s, K)[n] = s[ks[n]]
      /\ \A k \in K : \E n \in DOMAIN Part(s, K) : ks[n] = k
      /\ \A i, n \in DOMAIN Part(s, K) : i < n => ks[i] < ks[n]
      /\ DOMAIN Part(s, K) \in SUBSET Nat
  BY <1>2, <1>4
<1> QED
  BY <1>5

(* A block whose positions increase.                                       *)
Ordered(block) == \A j, k \in DOMAIN block : j < k => block[j].pos < block[k].pos

(* Between neighbours and so everywhere.                                   *)
LEMMA IncreasingIsOrdered ==
  ASSUME NEW block \in Seq(Instructions), Increasing(block)
  PROVE  Ordered(block)
<1> DEFINE Far(d) == \A j \in DOMAIN block : j + d + 1 \in DOMAIN block => block[j].pos < block[j + d + 1].pos
           S == {d \in Nat : Far(d)}
<1>1. Len(block) \in Nat /\ DOMAIN block = 1..Len(block) /\ \A k \in DOMAIN block : block[k].pos \in Nat
  <2>1. \A k \in DOMAIN block : block[k] \in Instructions
    OBVIOUS
  <2> QED
    BY <2>1 DEF Instructions
<1>2. \A k \in DOMAIN block : k + 1 \in DOMAIN block => block[k].pos < block[k + 1].pos
  BY <1>1 DEF Increasing
<1>3. 0 \in S
  BY <1>1, <1>2
<1>4. ASSUME NEW d \in S PROVE d + 1 \in S
  <2>1. d \in Nat /\ Far(d)
    OBVIOUS
  <2>2. ASSUME NEW j \in DOMAIN block, j + (d + 1) + 1 \in DOMAIN block
        PROVE  block[j].pos < block[j + (d + 1) + 1].pos
    <3> DEFINE k == j + d + 1
    <3>1. k \in DOMAIN block /\ k + 1 \in DOMAIN block /\ j + (d + 1) + 1 = k + 1
      BY <1>1, <2>1, <2>2
    <3>2. block[j].pos < block[k].pos /\ block[k].pos < block[k + 1].pos
      BY <1>2, <2>1, <3>1
    <3>3. block[j].pos \in Nat /\ block[k].pos \in Nat /\ block[k + 1].pos \in Nat
      BY <1>1, <3>1
    <3> HIDE DEF k
    <3> QED
      BY <3>1, <3>2, <3>3
  <2> QED
    BY <2>1, <2>2
<1>5. S = Nat
  <2> HIDE DEF S
  <2>1. S \in SUBSET Nat
    BY DEF S
  <2> QED
    BY <1>3, <1>4, <2>1, SetInduction
<1>6. ASSUME NEW j \in DOMAIN block, NEW k \in DOMAIN block, j < k PROVE block[j].pos < block[k].pos
  <2> DEFINE d == k - j - 1
  <2>1. d \in Nat /\ j + d + 1 = k
    BY <1>1, <1>6
  <2>2. Far(d)
    BY <1>5, <2>1
  <2> QED
    BY <2>1, <2>2
<1> QED
  BY <1>6 DEF Ordered

(* Erasing instructions leaves the rest as it was.                         *)
LEMMA PartIsTidy ==
  ASSUME NEW block \in Seq(Instructions), NEW K \in SUBSET DOMAIN block
  PROVE  /\ \A n : Numbered(block, n) => Numbered(Part(block, K), n)
         /\ Ordered(block) => Ordered(Part(block, K))
<1> DEFINE t == Part(block, K)
<1>1. PICK ks \in [DOMAIN t -> K] :
        /\ \A n \in DOMAIN t : t[n] = block[ks[n]]
        /\ \A m, n \in DOMAIN t : m < n => ks[m] < ks[n]
        /\ DOMAIN t \in SUBSET Nat
  BY PartInOrder
<1> HIDE DEF t
<1>2. \A k \in DOMAIN block : k \in Nat
  OBVIOUS
<1>3. \A n \in DOMAIN t : ks[n] \in DOMAIN block /\ ks[n] \in Nat
  BY <1>2
<1>4. ASSUME NEW n, Numbered(block, n) PROVE Numbered(t, n)
  <2>1. ASSUME NEW j \in DOMAIN t, NEW k \in DOMAIN t, t[j].id = t[k].id PROVE j = k
    <3>1. ks[j] = ks[k]
      BY <1>1, <1>3, <1>4, <2>1 DEF Numbered
    <3> QED
      BY <1>1, <1>3, <3>1
  <2>2. \A k \in DOMAIN t : t[k].id[1] # 0 \/ t[k].id[2] < n
    BY <1>1, <1>3, <1>4 DEF Numbered
  <2> QED
    BY <2>1, <2>2 DEF Numbered
<1>5. Ordered(block) => Ordered(t)
  BY <1>1, <1>3 DEF Ordered
<1> QED
  BY <1>4, <1>5 DEF t

-----------------------------------------------------------------------------
(* The walk of a spill loses no operand.                                   *)

(* Registers that are allocated or will be.                                *)
Awaited == {r \in DOMAIN conflicts : r \in DOMAIN subs \/ r \in ToSet(queue)}

(* An operand of the instruction id of b that stays to be allocated, and   *)
(* has its place there.                                                    *)
Accounted(w, b, v, r, id) ==
  \/ r \in Awaited \ {v} /\ <<b, r, id>> \in places
  \/ <<b, r, id>> \in w.at /\ r \in Regs(w.live)

(* A use of a piece whose live interval the walk has yet to begin.         *)
Pending(w, b, r, id) == w.last # 0 /\ r = w.piece /\ <<b, r, id>> \in w.at

Listed(w) == IsFiniteSet(w.live) /\ IsFiniteSet(w.at) /\ \A p \in w.at : IsVirtual(p[2])

(* In the middle of a block, v is left in the instructions still to come   *)
(* only, and in those to be erased.                                        *)
InHand(w, b, v, left) ==
  /\ Numbered(w.code, w.next.id) /\ Listed(w)
  /\ \A k \in DOMAIN w.code : <<b, w.code[k].id>> \notin w.erased =>
       \A r \in Operands(w.code[k]) :
         \/ r = v /\ w.code[k] \in left
         \/ r # v /\ (Accounted(w, b, v, r, w.code[k].id) \/ Pending(w, b, r, w.code[k].id))

Due(w, v, left) == w.last # 0 => \E i \in left : v \in Operands(i)

Grows(w, u) ==
  /\ w.at \in SUBSET u.at /\ w.live \in SUBSET u.live /\ w.erased \in SUBSET u.erased
  /\ u.blocks = w.blocks /\ w.next.id <= u.next.id

(* A walk that goes on has what it had, if the piece lives on.             *)
LEMMA HandKeeps ==
  ASSUME NEW w, NEW u, NEW b, NEW v, NEW left, InHand(w, b, v, left), Grows(w, u),
         u.code = w.code, u.next.id = w.next.id, Listed(u),
         w.last = 0 \/ (u.last # 0 /\ u.piece = w.piece) \/ w.piece \in Regs(u.live)
  PROVE  InHand(u, b, v, left)
<1>1. ASSUME NEW k \in DOMAIN u.code, <<b, u.code[k].id>> \notin u.erased, NEW r \in Operands(u.code[k])
      PROVE  \/ r = v /\ u.code[k] \in left
             \/ r # v /\ (Accounted(u, b, v, r, u.code[k].id) \/ Pending(u, b, r, u.code[k].id))
  <2>1. \/ r = v /\ w.code[k] \in left
        \/ r # v /\ (Accounted(w, b, v, r, w.code[k].id) \/ Pending(w, b, r, w.code[k].id))
    BY <1>1 DEF InHand, Grows
  <2>2. ASSUME Accounted(w, b, v, r, w.code[k].id) PROVE Accounted(u, b, v, r, u.code[k].id)
    BY <2>2 DEF Accounted, Grows, Regs
  <2>3. ASSUME Pending(w, b, r, w.code[k].id)
        PROVE  Accounted(u, b, v, r, u.code[k].id) \/ Pending(u, b, r, u.code[k].id)
    BY <2>3 DEF Accounted, Pending, Grows
  <2> QED
    BY <2>1, <2>2, <2>3
<1> QED
  BY <1>1 DEF InHand

(* A store or a reload of the piece may join, when the piece is live.      *)
LEMMA HandTakes ==
  ASSUME NEW w, NEW u, NEW b, NEW v, NEW left, InHand(w, b, v, left), Grows(w, u),
         Numbered(u.code, u.next.id), Listed(u), NEW e, AddsOnly(u.code, w.code, e),
         Operands(e) = {w.piece}, w.piece # v, <<b, w.piece, e.id>> \in u.at,
         w.piece \in Regs(u.live)
  PROVE  InHand(u, b, v, left)
<1>1. ASSUME NEW k \in DOMAIN u.code, <<b, u.code[k].id>> \notin u.erased, NEW r \in Operands(u.code[k])
      PROVE  \/ r = v /\ u.code[k] \in left
             \/ r # v /\ (Accounted(u, b, v, r, u.code[k].id) \/ Pending(u, b, r, u.code[k].id))
  <2>1. ASSUME NEW m \in DOMAIN w.code, u.code[k] = w.code[m]
        PROVE  \/ r = v /\ u.code[k] \in left
               \/ r # v /\ Accounted(u, b, v, r, u.code[k].id)
    <3> DEFINE id == u.code[k].id
    <3>1. \/ r = v /\ u.code[k] \in left
          \/ r # v /\ (Accounted(w, b, v, r, id) \/ Pending(w, b, r, id))
      BY <1>1, <2>1 DEF InHand, Grows
    <3> HIDE DEF id
    <3>2. ASSUME Accounted(w, b, v, r, id) PROVE Accounted(u, b, v, r, id)
      BY <3>2 DEF Accounted, Grows, Regs
    <3>3. ASSUME Pending(w, b, r, id) PROVE Accounted(u, b, v, r, id)
      BY <3>3 DEF Accounted, Pending, Grows
    <3> QED
      BY <3>1, <3>2, <3>3 DEF id
  <2>2. CASE u.code[k].id = e.id /\ u.code[k].outs = e.outs /\ u.code[k].ins = e.ins
    <3>1. r = w.piece
      BY <1>1, <2>2 DEF Operands, Outs, Ins
    <3> QED
      BY <2>2, <3>1 DEF Accounted
  <2> QED
    BY <2>1, <2>2 DEF AddsOnly
<1> QED
  BY <1>1 DEF InHand

(* A walk that goes on and on grows.                                       *)
LEMMA GrowsOn ==
  ASSUME NEW w, NEW u, NEW x, Grows(w, u), Grows(u, x),
         w.next.id \in Nat, u.next.id \in Nat, x.next.id \in Nat
  PROVE  Grows(w, x)
  BY DEF Grows

(* A list of places and intervals with one more.                           *)
LEMMA ListedWithMore ==
  ASSUME NEW w, NEW u, Listed(w), NEW i, NEW p, IsVirtual(p[2]),
         u.live = w.live \/ u.live = w.live \cup {i}, u.at = w.at \/ u.at = w.at \cup {p}
  PROVE  Listed(u)
<1>1. IsFiniteSet(w.live \cup {i}) /\ IsFiniteSet(w.at \cup {p})
  BY FS_AddElement DEF Listed
<1> QED
  BY <1>1 DEF Listed

(* A register that may be spilled: a virtual one made before.              *)
Spillable(v) ==
  /\ fresh.reg \in Nat /\ fresh.reg > NumRegs
  /\ v \in Nat /\ v < fresh.reg /\ IsVirtual(v)

(* Pieces are new registers.                                               *)
LEMMA PieceIsNew ==
  ASSUME NEW D \in SUBSET Nat, NEW v, Spillable(v), NEW held, NEW w \in WalksWithPiece(D, v, held)
  PROVE  w.piece \in Nat /\ w.piece # v /\ IsVirtual(w.piece)
<1>1. w \in WalkFields(D) /\ LivesAnew(w, v) /\ w.piece \in w.pieces
  BY DEF WalksIn, Walks, WalksWithPiece
<1>2. w.piece \in Nat /\ fresh.reg <= w.piece
  BY <1>1 DEF WalkFields, LivesAnew
<1>3. NumRegs \in Nat
  BY RegisterAssumption
<1> QED
  BY <1>2, <1>3 DEF Spillable, IsVirtual

(* A new piece is not in use yet.                                          *)
LEMMA NewPieceInHand ==
  ASSUME NEW D \in SUBSET Nat, NEW v, NEW held, NEW w \in WalksIn(D, v, held),
         NEW b, NEW left, InHand(w, b, v, left)
  PROVE  /\ InHand(NewPiece(w), b, v, left) /\ Grows(w, NewPiece(w))
         /\ NewPiece(w).last = w.last /\ NewPiece(w).done = w.done
<1> DEFINE u == [w EXCEPT !.piece = w.next.reg, !.pieces = @ \cup {w.next.reg}, !.next.reg = @ + 1]
<1>1. w \in WalkFields(D)
  BY DEF WalksIn, Walks
<1>2. w.next.id \in Nat
  BY <1>1 DEF WalkFields
<1>3. /\ u.code = w.code /\ u.next.id = w.next.id /\ u.live = w.live /\ u.at = w.at
      /\ u.erased = w.erased /\ u.blocks = w.blocks /\ u.last = w.last /\ u.done = w.done
  BY <1>1 DEF WalkFields
<1> HIDE DEF u
<1>4. Grows(w, u) /\ Grows(w, w)
  BY <1>2, <1>3 DEF Grows
<1>5. Listed(u)
  BY <1>3 DEF InHand, Listed
<1>6. w.last = 0 => InHand(u, b, v, left)
  BY <1>3, <1>4, <1>5, HandKeeps
<1>7. NewPiece(w) = IF w.last # 0 THEN w ELSE u
  BY DEF NewPiece, u
<1> QED
  BY <1>3, <1>4, <1>6, <1>7

(* Where v is written, its piece begins to live, or the store of it goes.  *)
LEMMA AtOutputInHand ==
  ASSUME NEW D \in SUBSET Nat, NEW v, Spillable(v), NEW held, NEW w \in WalksWithPiece(D, v, held),
         NEW b \in D, NEW i \in Instructions, Has(held, i.id),
         NEW left, InHand(w, b, v, left), w.done = FALSE
  PROVE  /\ InHand(AtOutput(w, b, i), b, v, left) /\ Grows(w, AtOutput(w, b, i))
         /\ AtOutput(w, b, i).last = 0 /\ AtOutput(w, b, i).piece = w.piece
         /\ IF AtOutput(w, b, i).done THEN <<b, i.id>> \in AtOutput(w, b, i).erased
            ELSE w.piece \in Regs(AtOutput(w, b, i).live)
<1> DEFINE id == <<0, w.next.id>>
           e == StackInstr("str", w.piece, w.next.id)
           stored == InsertAfter(w.code, i.id, e)
           simple == LivesFrom(w, b, i.pos, w.last)
           kept == LivesFrom(w, b, i.pos, LastUseOr(w, PosOf(stored, id)))
           added == [kept EXCEPT !.code = stored, !.own = @ \cup {id}, !.next.id = @ + 1,
                                 !.at = @ \cup {<<b, w.piece, id>>}]
           written == CASE ~w.store -> simple
                        [] w.store /\ i.id \in w.own -> simple
                        [] OTHER -> added
           dropped == [w EXCEPT !.own = @ \ {i.id}, !.erased = @ \cup {<<b, i.id>>},
                                !.store = FALSE, !.done = TRUE]
           x == AtOutput(w, b, i)
<1>1. /\ w \in WalkFields(D) /\ Has(w.code, i.id)
  BY DEF WalksIn, Walks, WalksWithPiece, Holds, Has
<1>2. /\ w.code \in Seq(Instructions) /\ w.next.id \in Nat \ {0} /\ w.piece \in Nat /\ w.piece # v
      /\ IsVirtual(w.piece) /\ w.store \in BOOLEAN
  BY <1>1, PieceIsNew DEF WalkFields
<1>3. x = IF w.store /\ i.id \in w.own /\ w.last = 0
          THEN dropped ELSE [written EXCEPT !.last = 0, !.store = FALSE]
  BY DEF AtOutput
<1>4. CASE w.store /\ i.id \in w.own /\ w.last = 0
  <2>1. x = dropped
    BY <1>3, <1>4
  <2>2. /\ x.code = w.code /\ x.next = w.next /\ x.at = w.at /\ x.live = w.live
        /\ x.erased = w.erased \cup {<<b, i.id>>} /\ x.blocks = w.blocks
        /\ x.last = w.last /\ x.piece = w.piece /\ x.done = TRUE
    BY <1>1, <2>1 DEF WalkFields
  <2> HIDE DEF x
  <2>3. Grows(w, x) /\ Listed(x)
    BY <1>2, <2>2 DEF Grows, InHand, Listed
  <2>4. InHand(x, b, v, left)
    BY <1>4, <2>2, <2>3, HandKeeps
  <2> QED
    BY <1>4, <2>2, <2>3, <2>4 DEF x
<1>5. CASE ~(w.store /\ i.id \in w.own /\ w.last = 0) /\ (~w.store \/ i.id \in w.own)
  <2> DEFINE new == Interval(b, w.piece, i.pos, w.last)
  <2>1. x = [simple EXCEPT !.last = 0, !.store = FALSE] /\ simple = [w EXCEPT !.live = @ \cup {new}]
    BY <1>2, <1>3, <1>5 DEF LivesFrom
  <2>2. /\ x.code = w.code /\ x.next = w.next /\ x.at = w.at /\ x.live = w.live \cup {new}
        /\ x.erased = w.erased /\ x.blocks = w.blocks
        /\ x.last = 0 /\ x.piece = w.piece /\ x.done = w.done
    BY <1>1, <2>1 DEF WalkFields
  <2>3. new.reg = w.piece
    BY DEF Interval
  <2> HIDE DEF x, new
  <2>4. Grows(w, x) /\ w.piece \in Regs(x.live)
    BY <1>2, <2>2, <2>3 DEF Grows, Regs
  <2>5. Listed(x)
    <3> DEFINE p == <<b, w.piece, id>>
    <3>1. IsVirtual(p[2]) /\ Listed(w)
      BY <1>2 DEF InHand
    <3> HIDE DEF p
    <3> QED
      BY <2>2, <3>1, ListedWithMore
  <2>6. InHand(x, b, v, left)
    BY <2>2, <2>4, <2>5, HandKeeps
  <2> QED
    BY <2>2, <2>4, <2>6 DEF x
<1>6. CASE w.store /\ i.id \notin w.own
  <2> DEFINE new == Interval(b, w.piece, i.pos, LastUseOr(w, PosOf(stored, id)))
             place == <<b, w.piece, id>>
  <2>1. /\ x = [added EXCEPT !.last = 0, !.store = FALSE] /\ kept = [w EXCEPT !.live = @ \cup {new}]
        /\ added = [kept EXCEPT !.code = stored, !.own = @ \cup {id}, !.next.id = @ + 1,
                                !.at = @ \cup {place}]
    BY <1>2, <1>3, <1>6 DEF LivesFrom
  <2>2. /\ x.code = stored /\ x.next.id = w.next.id + 1 /\ x.at = w.at \cup {place}
        /\ x.live = w.live \cup {new} /\ x.erased = w.erased /\ x.blocks = w.blocks
        /\ x.last = 0 /\ x.piece = w.piece /\ x.done = w.done
    <3> HIDE DEF x, added, kept, new, place, stored, id
    <3>1. DOMAIN kept = DOMAIN w
      BY <1>1, <2>1 DEF WalkFields
    <3>2. /\ kept.code = w.code /\ kept.next = w.next /\ kept.at = w.at /\ kept.live = w.live \cup {new}
          /\ kept.erased = w.erased /\ kept.blocks = w.blocks /\ kept.piece = w.piece /\ kept.done = w.done
      BY <1>1, <2>1 DEF WalkFields
    <3> QED
      BY <1>1, <2>1, <3>1, <3>2 DEF WalkFields
  <2>3. new.reg = w.piece /\ place[2] = w.piece
    BY DEF Interval
  <2>4. e \in Instructions /\ e.id = id /\ Operands(e) = {w.piece}
    <3>1. e \in Instructions /\ e.id = id
      BY <1>2, StackInstrFacts
    <3>2. e.outs = <<>> /\ e.ins = <<w.piece>>
      BY DEF StackInstr
    <3> HIDE DEF e
    <3> QED
      BY <3>1, <3>2 DEF Operands, Outs, Ins, ToSet
  <2>5. Numbered(stored, w.next.id + 1) /\ AddsOnly(stored, w.code, e)
    <3>1. Numbered(w.code, w.next.id)
      BY DEF InHand
    <3>2. w.next.id \in Nat /\ i.id \in Nat \X Nat
      BY <1>2 DEF Instructions
    <3> HIDE DEF e
    <3> QED
      BY <1>1, <1>2, <2>4, <3>1, <3>2, InsertNumbers
  <2>6. place \in x.at /\ place = <<b, w.piece, e.id>>
    BY <2>2, <2>4
  <2> HIDE DEF x, new, place, stored, e, id
  <2>7. Grows(w, x) /\ w.piece \in Regs(x.live)
    BY <1>2, <2>2, <2>3 DEF Grows, Regs
  <2>8. Listed(x)
    BY <1>2, <2>2, <2>3, ListedWithMore DEF InHand
  <2>9. InHand(x, b, v, left)
    BY <1>2, <2>2, <2>4, <2>5, <2>6, <2>7, <2>8, HandTakes
  <2> QED
    BY <2>2, <2>7, <2>9 DEF x
<1> QED
  BY <1>2, <1>4, <1>5, <1>6

(* Where v is read, its piece begins to live, or goes on to an earlier     *)
(* place of v, or the reload of it goes.                                   *)
LEMMA AtInputInHand ==
  ASSUME NEW D \in SUBSET Nat, NEW v, Spillable(v), NEW held, NEW w \in WalksWithPiece(D, v, held),
         NEW b \in D, NEW i \in Instructions, Has(held, i.id), NEW cause,
         NEW left, InHand(w, b, v, left), w.done = FALSE,
         ReloadWanted(code[b], b, v, cause, i.pos) \/ i.pos # 0
  PROVE  /\ InHand(AtInput(w, b, v, cause, i), b, v, left) /\ Grows(w, AtInput(w, b, v, cause, i))
         /\ AtInput(w, b, v, cause, i).piece = w.piece
         /\ AtInput(w, b, v, cause, i).last # 0 => ~ReloadWanted(code[b], b, v, cause, i.pos)
         /\ IF AtInput(w, b, v, cause, i).done THEN <<b, i.id>> \in AtInput(w, b, v, cause, i).erased
            ELSE \/ AtInput(w, b, v, cause, i).last # 0
                 \/ w.piece \in Regs(AtInput(w, b, v, cause, i).live)
<1> DEFINE reload == ReloadWanted(code[b], b, v, cause, i.pos)
           mine == i.id \in w.own
           own == IF reload THEN w.own \ {i.id} ELSE w.own
           erased == IF reload /\ mine THEN w.erased \cup {<<b, i.id>>} ELSE w.erased
           store == w.store \/ reload
           u == [w EXCEPT !.store = store, !.own = own, !.erased = erased]
           id == <<0, w.next.id>>
           e == StackInstr("ldr", w.piece, w.next.id)
           loaded == InsertBefore(w.code, i.id, e)
           kept == LivesFrom(u, b, PosOf(loaded, id), LastUseOr(w, i.pos))
           used == [u EXCEPT !.last = IF @ = 0 THEN i.pos ELSE @]
           place == <<b, w.piece, id>>
           added == [kept EXCEPT !.code = loaded, !.own = @ \cup {id}, !.next.id = @ + 1,
                                 !.at = @ \cup {place}, !.last = 0]
           x == AtInput(w, b, v, cause, i)
<1>1. /\ w \in WalkFields(D) /\ Has(w.code, i.id)
  BY DEF WalksIn, Walks, WalksWithPiece, Holds, Has
<1>2. /\ w.code \in Seq(Instructions) /\ w.next.id \in Nat \ {0} /\ w.piece \in Nat /\ w.piece # v
      /\ IsVirtual(w.piece) /\ i.id \in Nat \X Nat
  BY <1>1, PieceIsNew DEF WalkFields, Instructions
<1>3. x = CASE ~reload -> used
            [] reload /\ mine /\ w.last = 0 -> [u EXCEPT !.done = TRUE]
            [] OTHER -> added
  BY DEF AtInput
<1>4. reload \in BOOLEAN
  BY DEF ReloadWanted
<1> HIDE DEF reload
<1>5. w.erased \in SUBSET erased /\ (reload /\ mine => <<b, i.id>> \in erased)
  OBVIOUS
<1> HIDE DEF own, erased, store, mine
<1>6. /\ u.code = w.code /\ u.piece = w.piece /\ u.last = w.last /\ u.done = w.done /\ u.live = w.live
      /\ u.next = w.next /\ u.at = w.at /\ u.erased = erased /\ u.blocks = w.blocks /\ DOMAIN u = DOMAIN w
  BY <1>1 DEF WalkFields
<1>7. CASE ~reload
  <2> DEFINE last == IF w.last = 0 THEN i.pos ELSE w.last
  <2>1. x = [u EXCEPT !.last = last]
    BY <1>3, <1>6, <1>7
  <2>2. last # 0
    BY <1>7 DEF reload
  <2> HIDE DEF x, u, last
  <2>3. /\ x.code = w.code /\ x.next = w.next /\ x.at = w.at /\ x.live = w.live
        /\ x.erased = erased /\ x.blocks = w.blocks
        /\ x.last = last /\ x.piece = w.piece /\ x.done = w.done
    BY <1>1, <1>6, <2>1 DEF WalkFields
  <2>4. Grows(w, x) /\ Listed(x)
    BY <1>2, <1>5, <2>3 DEF Grows, InHand, Listed
  <2>5. InHand(x, b, v, left)
    BY <2>2, <2>3, <2>4, HandKeeps
  <2> QED
    BY <1>7, <2>2, <2>3, <2>4, <2>5 DEF x, reload
<1>8. CASE reload /\ mine /\ w.last = 0
  <2>1. x = [u EXCEPT !.done = TRUE]
    BY <1>3, <1>8
  <2> HIDE DEF x, u
  <2>2. /\ x.code = w.code /\ x.next = w.next /\ x.at = w.at /\ x.live = w.live
        /\ x.erased = erased /\ x.blocks = w.blocks
        /\ x.last = w.last /\ x.piece = w.piece /\ x.done = TRUE
    BY <1>1, <1>6, <2>1 DEF WalkFields
  <2>3. Grows(w, x) /\ Listed(x)
    BY <1>2, <1>5, <2>2 DEF Grows, InHand, Listed
  <2>4. InHand(x, b, v, left)
    BY <1>8, <2>2, <2>3, HandKeeps
  <2> QED
    BY <1>5, <1>8, <2>2, <2>3, <2>4 DEF x
<1>9. CASE reload /\ ~(mine /\ w.last = 0)
  <2> DEFINE new == Interval(b, w.piece, PosOf(loaded, id), LastUseOr(w, i.pos))
  <2>1. x = added /\ kept = [u EXCEPT !.live = @ \cup {new}]
    BY <1>3, <1>6, <1>9 DEF LivesFrom
  <2>2. new.reg = w.piece /\ place[2] = w.piece
    BY DEF Interval
  <2>3. e \in Instructions /\ e.id = id /\ Operands(e) = {w.piece}
    <3>1. e \in Instructions /\ e.id = id
      BY <1>2, StackInstrFacts
    <3>2. e.outs = <<w.piece>> /\ e.ins = <<>>
      BY DEF StackInstr
    <3> HIDE DEF e
    <3> QED
      BY <3>1, <3>2 DEF Operands, Outs, Ins, ToSet
  <2>4. Numbered(loaded, w.next.id + 1) /\ AddsOnly(loaded, w.code, e)
    <3>1. Numbered(w.code, w.next.id)
      BY DEF InHand
    <3>2. w.next.id \in Nat
      BY <1>2
    <3> HIDE DEF e
    <3> QED
      BY <1>1, <1>2, <2>3, <3>1, <3>2, InsertNumbers
  <2> HIDE DEF u, new, loaded, e
  <2>5. /\ kept.code = w.code /\ kept.next = w.next /\ kept.at = w.at /\ kept.live = w.live \cup {new}
        /\ kept.erased = erased /\ kept.blocks = w.blocks /\ kept.piece = w.piece /\ kept.done = w.done
        /\ DOMAIN kept = DOMAIN w
    <3> HIDE DEF kept, x, place
    <3> QED
      BY <1>1, <1>6, <2>1 DEF WalkFields
  <2>6. /\ x.code = loaded /\ x.next.id = w.next.id + 1 /\ x.at = w.at \cup {place}
        /\ x.live = w.live \cup {new} /\ x.erased = erased /\ x.blocks = w.blocks
        /\ x.last = 0 /\ x.piece = w.piece /\ x.done = w.done
    <3>1. x = [kept EXCEPT !.code = loaded, !.own = @ \cup {id}, !.next.id = @ + 1,
                           !.at = @ \cup {place}, !.last = 0]
      BY <2>1
    <3> HIDE DEF x, kept, place, id
    <3> QED
      BY <1>1, <2>5, <3>1 DEF WalkFields
  <2>7. place \in x.at /\ place = <<b, w.piece, e.id>>
    BY <2>3, <2>6
  <2> HIDE DEF x, kept, place, id, added
  <2>8. Grows(w, x) /\ w.piece \in Regs(x.live)
    BY <1>2, <1>5, <2>2, <2>6 DEF Grows, Regs
  <2>9. Listed(x)
    BY <1>2, <2>2, <2>6, ListedWithMore DEF InHand
  <2>10. InHand(x, b, v, left)
    BY <1>2, <2>3, <2>4, <2>6, <2>7, <2>8, <2>9, HandTakes
  <2> QED
    BY <2>6, <2>8, <2>10 DEF x
<1> QED
  BY <1>4, <1>7, <1>8, <1>9

(* The names of an instruction after a renaming.                           *)
LEMMA RenamedOperands ==
  ASSUME NEW i \in Instructions, NEW r \in Nat, NEW s \in Nat, r # s
  PROVE  /\ RenamedIn(i, r, s).id = i.id
         /\ \A x \in Operands(RenamedIn(i, r, s)) : x # r /\ (x \in Operands(i) \/ (x = s /\ r \in Operands(i)))
<1> DEFINE outs == ReplaceAll(i.outs, r, s)
           ins == ReplaceAll(i.ins, r, s)
           u == RenamedIn(i, r, s)
<1>1. i.outs \in Seq(Nat) /\ i.ins \in Seq(Nat)
  BY DEF Instructions
<1>2. ASSUME NEW t \in Seq(Nat), NEW x \in ToSet(ReplaceAll(t, r, s))
      PROVE  x # r /\ (x \in ToSet(t) \/ (x = s /\ r \in ToSet(t)))
  <2>1. ReplaceAll(t, r, s) = [k \in 1..Len(t) |-> IF t[k] = r THEN s ELSE t[k]]
    BY DEF ReplaceAll
  <2>2. PICK k \in 1..Len(t) : x = IF t[k] = r THEN s ELSE t[k]
    BY <2>1 DEF ToSet
  <2>3. k \in DOMAIN t
    OBVIOUS
  <2> QED
    BY <2>2, <2>3 DEF ToSet
<1>3. u = [i EXCEPT !.outs = outs, !.ins = ins]
  BY DEF RenamedIn
<1>4. u.id = i.id /\ u.outs = outs /\ u.ins = ins
  <2> HIDE DEF outs, ins, u
  <2> QED
    BY <1>3 DEF Instructions
<1>5. ASSUME NEW x \in Operands(u)
      PROVE  x # r /\ (x \in Operands(i) \/ (x = s /\ r \in Operands(i)))
  <2>1. x \in ToSet(outs) \/ x \in ToSet(ins)
    BY <1>4 DEF Operands, Outs, Ins
  <2>2. \/ x # r /\ (x \in ToSet(i.outs) \/ (x = s /\ r \in ToSet(i.outs)))
        \/ x # r /\ (x \in ToSet(i.ins) \/ (x = s /\ r \in ToSet(i.ins)))
    BY <1>1, <1>2, <2>1
  <2> QED
    BY <2>2 DEF Operands, Outs, Ins
<1> QED
  BY <1>4, <1>5 DEF u

(* The piece takes v's place in the instruction.                           *)
LEMMA RenameAtInHand ==
  ASSUME NEW D \in SUBSET Nat, NEW v, Spillable(v), NEW held, NEW w \in WalksWithPiece(D, v, held),
         NEW b \in D, NEW i \in Instructions, Has(held, i.id),
         NEW left, InHand(w, b, v, left), \A j \in left : j.id = i.id => j = i,
         v \in Operands(i) => w.last # 0 \/ w.piece \in Regs(w.live)
  PROVE  /\ InHand(RenameAt(w, b, v, i), b, v, left \ {i}) /\ Grows(w, RenameAt(w, b, v, i))
         /\ RenameAt(w, b, v, i).last = w.last
<1> DEFINE k == IndexOf(w.code, i.id)
           renamed == RenamedIn(w.code[k], v, w.piece)
           block == [w.code EXCEPT ![k] = renamed]
           place == <<b, w.piece, i.id>>
           u == RenameAt(w, b, v, i)
<1>1. /\ w \in WalkFields(D) /\ Has(w.code, i.id)
  BY DEF WalksIn, Walks, WalksWithPiece, Holds, Has
<1>2. /\ w.code \in Seq(Instructions) /\ w.next.id \in Nat \ {0} /\ w.piece \in Nat /\ w.piece # v
      /\ IsVirtual(w.piece) /\ v \in Nat
  BY <1>1, PieceIsNew DEF WalkFields, Spillable
<1>3. k \in DOMAIN w.code /\ w.code[k].id = i.id /\ w.code[k] \in Instructions
  BY <1>1, <1>2, IndexOfFinds
<1>4. /\ u.code = block /\ u.next = w.next /\ u.at = w.at \cup {place} /\ u.live = w.live
      /\ u.erased = w.erased /\ u.blocks = w.blocks /\ u.last = w.last /\ u.piece = w.piece
  BY <1>1 DEF RenameAt, WalkFields
<1> HIDE DEF k, u
<1>5. /\ renamed.id = i.id
      /\ \A x \in Operands(renamed) :
           x # v /\ (x \in Operands(w.code[k]) \/ (x = w.piece /\ v \in Operands(w.code[k])))
  BY <1>2, <1>3, RenamedOperands
<1> HIDE DEF renamed
<1>6. /\ DOMAIN block = DOMAIN w.code /\ block[k] = renamed
      /\ \A m \in DOMAIN w.code : m # k => block[m] = w.code[m]
      /\ \A m \in DOMAIN w.code : block[m].id = w.code[m].id
  BY <1>2, <1>3, <1>5
<1> HIDE DEF block
<1>7. Numbered(u.code, u.next.id)
  BY <1>4, <1>6 DEF InHand, Numbered
<1>8. Grows(w, u)
  BY <1>2, <1>4 DEF Grows
<1>9. Listed(u)
  <2>1. IsVirtual(place[2]) /\ Listed(w)
    BY <1>2 DEF InHand
  <2> HIDE DEF place
  <2> QED
    BY <1>4, <2>1, ListedWithMore
<1>10. ASSUME NEW m \in DOMAIN w.code, <<b, w.code[m].id>> \notin w.erased,
              NEW r \in Operands(w.code[m]), r # v
       PROVE  Accounted(u, b, v, r, w.code[m].id) \/ Pending(u, b, r, w.code[m].id)
  <2>1. Accounted(w, b, v, r, w.code[m].id) \/ Pending(w, b, r, w.code[m].id)
    BY <1>10 DEF InHand
  <2> QED
    BY <1>4, <2>1 DEF Accounted, Pending
<1>11. ASSUME NEW m \in DOMAIN u.code, <<b, u.code[m].id>> \notin u.erased, NEW r \in Operands(u.code[m])
       PROVE  \/ r = v /\ u.code[m] \in left \ {i}
              \/ r # v /\ (Accounted(u, b, v, r, u.code[m].id) \/ Pending(u, b, r, u.code[m].id))
  <2>1. m \in DOMAIN w.code /\ u.code[m].id = w.code[m].id /\ <<b, w.code[m].id>> \notin w.erased
    BY <1>4, <1>6, <1>11
  <2>2. CASE m # k
    <3>1. u.code[m] = w.code[m] /\ w.code[m] # i
      BY <1>3, <1>4, <1>6, <2>1, <2>2 DEF InHand, Numbered
    <3>2. r = v => w.code[m] \in left
      BY <1>11, <2>1, <3>1 DEF InHand
    <3> QED
      BY <1>10, <1>11, <2>1, <3>1, <3>2
  <2>3. CASE m = k
    <3>1. r # v /\ (r \in Operands(w.code[k]) \/ (r = w.piece /\ v \in Operands(w.code[k])))
      BY <1>4, <1>5, <1>6, <1>11, <2>3
    <3>2. CASE r \in Operands(w.code[k])
      BY <1>10, <2>1, <2>3, <3>1, <3>2
    <3>3. CASE r = w.piece /\ v \in Operands(w.code[k])
      <4>1. w.code[k] \in left
        BY <2>1, <2>3, <3>3 DEF InHand
      <4>2. w.last # 0 \/ w.piece \in Regs(w.live)
        BY <1>3, <3>3, <4>1
      <4>3. <<b, r, u.code[m].id>> \in u.at
        BY <1>3, <1>4, <2>1, <2>3, <3>3
      <4> QED
        BY <1>4, <3>1, <3>3, <4>2, <4>3 DEF Accounted, Pending
    <3> QED
      BY <3>1, <3>2, <3>3
  <2> QED
    BY <2>2, <2>3
<1> QED
  BY <1>4, <1>7, <1>8, <1>9, <1>11 DEF InHand, u

(* One place of v.                                                         *)
LEMMA SpillAtInHand ==
  ASSUME NEW D \in SUBSET Nat, NEW v, Spillable(v), NEW held, NEW w \in WalksIn(D, v, held),
         NEW b \in D, NEW i \in Instructions, Has(held, i.id), NEW cause,
         NEW left, i \in left, InHand(w, b, v, left), Due(w, v, left),
         \A j \in left : j.id = i.id => j = i,
         \/ ReloadWanted(code[b], b, v, cause, i.pos)
         \/ i.pos # 0 /\ \E j \in left \ {i} : v \in Operands(j)
  PROVE  /\ InHand(SpillAt(w, b, v, cause, i), b, v, left \ {i})
         /\ Due(SpillAt(w, b, v, cause, i), v, left \ {i})
         /\ Grows(w, SpillAt(w, b, v, cause, i))
<1> DEFINE start == [w EXCEPT !.done = FALSE]
           piece == NewPiece(start)
           wrote == IfWritten(piece, b, v, i)
           read == IfRead(wrote, b, v, cause, i)
           kept == IfKept(read, b, v, i)
<1>0. fresh.reg \in Nat
  BY DEF Spillable
<1>1. /\ start \in WalksIn(D, v, held) /\ InHand(start, b, v, left) /\ Grows(w, start)
      /\ start.last = w.last /\ start.done = FALSE
  <2>1. w \in WalkFields(D) /\ LivesAnew(w, v) /\ (w.last # 0 => w.piece \in w.pieces) /\ Holds(w.code, held)
    BY DEF WalksIn, Walks
  <2>2. start \in WalkFields(D)
    BY <2>1 DEF WalkFields
  <2>3. /\ start.piece = w.piece /\ start.pieces = w.pieces /\ start.next = w.next
        /\ start.live = w.live /\ start.code = w.code /\ start.last = w.last
        /\ start.at = w.at /\ start.erased = w.erased /\ start.blocks = w.blocks /\ start.done = FALSE
    BY <2>1 DEF WalkFields
  <2> HIDE DEF start
  <2>4. LivesAnew(start, v)
    BY <2>1, <2>3 DEF LivesAnew
  <2>5. start \in WalksIn(D, v, held)
    BY <2>1, <2>2, <2>3, <2>4 DEF WalksIn, Walks
  <2>6. w.next.id \in Nat
    BY <2>1 DEF WalkFields
  <2>7. Grows(w, start) /\ Listed(start)
    BY <2>3, <2>6 DEF Grows, InHand, Listed
  <2>8. InHand(start, b, v, left)
    BY <2>3, <2>7, HandKeeps
  <2> QED
    BY <2>3, <2>5, <2>7, <2>8
<1> HIDE DEF start
<1>2. /\ piece \in WalksWithPiece(D, v, held) /\ InHand(piece, b, v, left) /\ Grows(start, piece)
      /\ piece.last = w.last /\ piece.done = FALSE
  BY <1>0, <1>1, NewPieceWalks, NewPieceInHand
<1> HIDE DEF piece
<1>3. /\ wrote \in WalksWithPiece(D, v, held) /\ InHand(wrote, b, v, left) /\ Grows(piece, wrote)
      /\ wrote.done => (<<b, i.id>> \in wrote.erased /\ wrote.last = 0)
      /\ v \in Outs(i) => wrote.last = 0
      /\ v \in Outs(i) /\ ~wrote.done => wrote.piece \in Regs(wrote.live)
      /\ v \notin Outs(i) => wrote.last = w.last
  <2>1. CASE v \in Outs(i)
    <3>1. wrote = AtOutput(piece, b, i)
      BY <2>1 DEF IfWritten
    <3> HIDE DEF wrote
    <3>2. wrote \in WalksWithPiece(D, v, held)
      BY <1>2, <3>1, AtOutputWalks
    <3>3. /\ InHand(AtOutput(piece, b, i), b, v, left) /\ Grows(piece, AtOutput(piece, b, i))
          /\ AtOutput(piece, b, i).last = 0 /\ AtOutput(piece, b, i).piece = piece.piece
          /\ IF AtOutput(piece, b, i).done THEN <<b, i.id>> \in AtOutput(piece, b, i).erased
             ELSE piece.piece \in Regs(AtOutput(piece, b, i).live)
      <4> piece \in WalksWithPiece(D, v, held) /\ InHand(piece, b, v, left) /\ piece.done = FALSE
        BY <1>2
      <4> QED
        BY AtOutputInHand
    <3>4. /\ InHand(wrote, b, v, left) /\ Grows(piece, wrote) /\ wrote.last = 0
          /\ IF wrote.done THEN <<b, i.id>> \in wrote.erased ELSE wrote.piece \in Regs(wrote.live)
      BY <3>1, <3>3
    <3> QED
      BY <2>1, <3>2, <3>4
  <2>2. CASE v \notin Outs(i)
    <3>1. wrote = piece
      BY <2>2 DEF IfWritten
    <3>2. piece.next.id \in Nat
      BY <1>2 DEF WalksWithPiece, WalksIn, Walks, WalkFields
    <3>3. Grows(piece, piece)
      BY <3>2 DEF Grows
    <3> QED
      BY <1>2, <2>2, <3>1, <3>3
  <2> QED
    BY <2>1, <2>2
<1> HIDE DEF wrote
<1>4. /\ read \in WalksWithPiece(D, v, held) /\ InHand(read, b, v, left) /\ Grows(wrote, read)
      /\ read.done => <<b, i.id>> \in read.erased
      /\ v \in Operands(i) /\ ~read.done => read.last # 0 \/ read.piece \in Regs(read.live)
      /\ Due(read, v, left \ {i})
  <2>1. CASE v \in Ins(i) /\ ~wrote.done
    <3>1. read = AtInput(wrote, b, v, cause, i)
      BY <2>1 DEF IfRead
    <3> HIDE DEF read
    <3>2. read \in WalksWithPiece(D, v, held)
      BY <1>3, <3>1, AtInputWalks
    <3>3. wrote.done = FALSE
      BY <1>3, <2>1 DEF WalksWithPiece, WalksIn, Walks, WalkFields
    <3>4. /\ InHand(read, b, v, left) /\ Grows(wrote, read) /\ read.piece = wrote.piece
          /\ read.last # 0 => ~ReloadWanted(code[b], b, v, cause, i.pos)
          /\ IF read.done THEN <<b, i.id>> \in read.erased
             ELSE read.last # 0 \/ wrote.piece \in Regs(read.live)
      <4>1. /\ InHand(AtInput(wrote, b, v, cause, i), b, v, left) /\ Grows(wrote, AtInput(wrote, b, v, cause, i))
            /\ AtInput(wrote, b, v, cause, i).piece = wrote.piece
            /\ AtInput(wrote, b, v, cause, i).last # 0 => ~ReloadWanted(code[b], b, v, cause, i.pos)
            /\ IF AtInput(wrote, b, v, cause, i).done THEN <<b, i.id>> \in AtInput(wrote, b, v, cause, i).erased
               ELSE \/ AtInput(wrote, b, v, cause, i).last # 0
                    \/ wrote.piece \in Regs(AtInput(wrote, b, v, cause, i).live)
        <5> wrote \in WalksWithPiece(D, v, held) /\ InHand(wrote, b, v, left)
          BY <1>3
        <5> wrote.done = FALSE /\ (ReloadWanted(code[b], b, v, cause, i.pos) \/ i.pos # 0)
          BY <3>3
        <5> QED
          BY AtInputInHand
      <4> QED
        BY <3>1, <4>1
    <3>5. Due(read, v, left \ {i})
      BY <3>4 DEF Due
    <3> QED
      BY <3>2, <3>4, <3>5
  <2>2. CASE ~(v \in Ins(i) /\ ~wrote.done)
    <3>1. read = wrote
      BY <2>2 DEF IfRead
    <3>2. wrote.next.id \in Nat
      BY <1>3 DEF WalksWithPiece, WalksIn, Walks, WalkFields
    <3>3. Grows(wrote, wrote)
      BY <3>2 DEF Grows
    <3>4. Due(wrote, v, left \ {i})
      <4>1. CASE v \in Outs(i) \/ wrote.done
        BY <1>3, <4>1 DEF Due
      <4>2. CASE v \notin Outs(i) /\ ~wrote.done
        <5>1. v \notin Operands(i) /\ wrote.last = w.last
          BY <1>3, <2>2, <4>2 DEF Operands
        <5> QED
          BY <5>1 DEF Due
      <4> QED
        BY <4>1, <4>2
    <3>5. v \in Operands(i) /\ ~wrote.done => v \in Outs(i)
      BY <2>2 DEF Operands
    <3> QED
      BY <1>3, <3>1, <3>3, <3>4, <3>5
  <2> QED
    BY <2>1, <2>2
<1> HIDE DEF read
<1>5. /\ InHand(kept, b, v, left \ {i}) /\ Grows(read, kept) /\ kept.last = read.last
      /\ kept.next.id \in Nat
  <2>1. CASE read.done
    <3>1. kept = read
      BY <2>1 DEF IfKept
    <3>2. read.next.id \in Nat /\ read.code \in Seq(Instructions)
      BY <1>4 DEF WalksWithPiece, WalksIn, Walks, WalkFields
    <3>3. Grows(read, read)
      BY <3>2 DEF Grows
    <3>4. ASSUME NEW k \in DOMAIN read.code, <<b, read.code[k].id>> \notin read.erased
          PROVE  read.code[k] # i
      BY <1>4, <2>1, <3>4
    <3>5. InHand(read, b, v, left \ {i})
      BY <1>4, <3>4 DEF InHand
    <3> QED
      BY <3>1, <3>2, <3>3, <3>5
  <2>2. CASE ~read.done
    <3>1. kept = RenameAt(read, b, v, i)
      BY <2>2 DEF IfKept
    <3> HIDE DEF kept
    <3>2. InHand(kept, b, v, left \ {i}) /\ Grows(read, kept) /\ kept.last = read.last
      BY <1>4, <2>2, <3>1, RenameAtInHand
    <3>3. kept \in WalksWithPiece(D, v, held)
      BY <1>4, <3>1, RenameAtWalks
    <3> QED
      BY <3>2, <3>3 DEF WalksWithPiece, WalksIn, Walks, WalkFields
  <2> QED
    BY <2>1, <2>2
<1> HIDE DEF kept
<1>6. Due(kept, v, left \ {i})
  BY <1>4, <1>5 DEF Due
<1>7. Grows(w, kept)
  <2>1. w.next.id \in Nat /\ start.next.id \in Nat /\ piece.next.id \in Nat /\ wrote.next.id \in Nat
        /\ read.next.id \in Nat /\ kept.next.id \in Nat
    BY <1>1, <1>2, <1>3, <1>4, <1>5 DEF WalksWithPiece, WalksIn, Walks, WalkFields
  <2>2. Grows(w, piece)
    BY <1>1, <1>2, <2>1, GrowsOn
  <2>3. Grows(w, wrote)
    BY <1>3, <2>1, <2>2, GrowsOn
  <2>4. Grows(w, read)
    BY <1>4, <2>1, <2>3, GrowsOn
  <2> QED
    BY <1>5, <2>1, <2>4, GrowsOn
<1>8. SpillAt(w, b, v, cause, i) = kept
  BY DEF SpillAt, kept, read, wrote, piece, start
<1> QED
  BY <1>5, <1>6, <1>7, <1>8

(* Every operand of a block has its place and is or will be allocated.     *)
TidyBlock(b) ==
  /\ Ordered(code[b])
  /\ \A k \in DOMAIN code[b] : \A r \in Operands(code[b][k]) :
       r \in Awaited /\ <<b, r, code[b][k].id>> \in places

(* The same of a block in a walk, without v.                               *)
Covered(w, b, v) ==
  \A k \in DOMAIN w.blocks[b] : <<b, w.blocks[b][k].id>> \notin w.erased =>
    \A r \in Operands(w.blocks[b][k]) : Accounted(w, b, v, r, w.blocks[b][k].id)

(* A walk that went over the block b.                                      *)
GrowsIn(w, u, b) ==
  /\ w.at \in SUBSET u.at /\ w.live \in SUBSET u.live /\ w.erased \in SUBSET u.erased
  /\ w.next.id <= u.next.id
  /\ \A c \in DOMAIN w.blocks \ {b} : u.blocks[c] = w.blocks[c]

(* Where the cause is live, or else there is an earlier place of v.        *)
LEMMA EarlierPlace ==
  ASSUME NEW b, code[b] \in Seq(Instructions), TidyBlock(b), NEW v, IsVirtual(v),
         NEW k \in DOMAIN code[b], NEW cause, ~ReloadWanted(code[b], b, v, cause, code[b][k].pos)
  PROVE  /\ code[b][k].pos # 0
         /\ \E j \in DOMAIN code[b] :
              j < k /\ v \in Operands(code[b][j]) /\ <<b, v, code[b][j].id>> \in places
<1> DEFINE block == code[b]
           pos == block[k].pos
           earlier == {j \in DOMAIN block : v \in Mentions(block[j]) /\ block[j].pos < pos}
<1>1. earlier # {}
  BY DEF ReloadWanted, PlaceBefore
<1>2. PICK j \in earlier : TRUE
  BY <1>1
<1>3. j \in DOMAIN block /\ v \in Mentions(block[j]) /\ block[j].pos < pos
  BY <1>2
<1>4. block[j] \in Instructions /\ block[k] \in Instructions /\ j \in Nat /\ k \in Nat
  BY <1>3
<1>5. block[j].pos \in Nat /\ pos \in Nat
  BY <1>4 DEF Instructions
<1>6. v \in Operands(block[j])
  BY <1>3, RegisterAssumption DEF Mentions, Operands, ClobberedBy, PhysRegs, IsVirtual
<1>7. j < k
  BY <1>3, <1>4, <1>5 DEF TidyBlock, Ordered
<1> QED
  BY <1>3, <1>5, <1>6, <1>7 DEF TidyBlock

(* The walk covers the block it goes over.                                 *)
LEMMA SpillInBlockCovers ==
  ASSUME NEW D \in SUBSET Nat, NEW v, Spillable(v), NEW w \in Walks(D, v), NEW b \in D,
         code[b] \in RealBlocks, NEW cause, TidyBlock(b), Numbered(code[b], w.next.id), Listed(w)
  PROVE  /\ Covered(SpillInBlock(w, b, v, cause), b, v)
         /\ Numbered(SpillInBlock(w, b, v, cause).blocks[b], SpillInBlock(w, b, v, cause).next.id)
         /\ Listed(SpillInBlock(w, b, v, cause)) /\ GrowsIn(w, SpillInBlock(w, b, v, cause), b)
<1> DEFINE held == code[b]
           here == Here(b, v)
           S == DOMAIN here
           K == {k \in DOMAIN held : <<b, v, held[k].id>> \in places}
           start == StartIn(w, b, v)
           left(s) == {here[m] : m \in S \ s}
<1>1. /\ held \in Seq(Instructions) /\ fresh.reg \in Nat /\ IsVirtual(v) /\ K \in SUBSET DOMAIN held
      /\ here = Part(held, K)
  BY DEF RealBlocks, Spillable, Here
<1>2. PICK iter :
        /\ BackwardWalk(iter, w, b, v, cause)
        /\ \A s \in SUBSET S : iter[s] \in WalksIn(D, v, held)
  <2>1. fresh.reg \in Nat
    BY <1>1
  <2> QED
    BY <2>1, SpillInBlockFolds
<1>3. /\ SpillInBlock(w, b, v, cause) = WithBlock(iter[S], b)
      /\ \A s \in SUBSET S :
           iter[s] = IF s = {} THEN start ELSE SpillAt(iter[s \ {Min(s)}], b, v, cause, here[Min(s)])
  BY <1>2 DEF BackwardWalk
<1>4. PICK ks \in [S -> K] :
        /\ \A n \in S : here[n] = held[ks[n]]
        /\ \A k \in K : \E n \in S : ks[n] = k
        /\ \A m, n \in S : m < n => ks[m] < ks[n]
        /\ S \in SUBSET Nat
  <2> HIDE DEF K, held, here
  <2>1. \E ks \in [DOMAIN Part(held, K) -> K] :
           /\ \A n \in DOMAIN Part(held, K) : Part(held, K)[n] = held[ks[n]]
           /\ \A k \in K : \E n \in DOMAIN Part(held, K) : ks[n] = k
           /\ \A m, n \in DOMAIN Part(held, K) : m < n => ks[m] < ks[n]
           /\ DOMAIN Part(held, K) \in SUBSET Nat
    BY ONLY <1>1, PartInOrder
  <2> QED
    BY <1>1, <2>1
<1>5. \A n \in S : ks[n] \in DOMAIN held /\ ks[n] \in Nat /\ here[n] \in Instructions /\ Has(held, here[n].id)
  <2>1. ASSUME NEW n \in S PROVE ks[n] \in DOMAIN held /\ ks[n] \in Nat /\ held[ks[n]] \in Instructions
    <3>1. ks[n] \in DOMAIN held
      BY <1>4
    <3> HIDE DEF held, S
    <3> QED
      BY <1>1, <3>1
  <2> QED
    BY <1>4, <2>1 DEF Has
<1>6. \A m, n \in S : here[m].id = here[n].id => m = n
  <2>1. ASSUME NEW m \in S, NEW n \in S, here[m].id = here[n].id PROVE m = n
    <3>1. ks[m] = ks[n]
      BY <1>4, <1>5, <2>1 DEF Numbered
    <3> QED
      BY <1>4, <1>5, <3>1
  <2> QED
    BY <2>1
<1>7. IsFiniteSet(S)
  <2>1. here \in Seq(Instructions)
    <3> HIDE DEF K, held, here
    <3> QED
      BY <1>1, PartOfSequence
  <2> QED
    BY <2>1, SequenceSetIsFinite
<1> DEFINE Good == {s \in SUBSET S : /\ InHand(iter[s], b, v, left(s)) /\ Due(iter[s], v, left(s))
                                     /\ Grows(start, iter[s])}
<1>8. /\ start.code = held /\ start.blocks = w.blocks /\ start.at = w.at /\ start.live = w.live
      /\ start.erased = w.erased /\ start.next = w.next /\ start.last = 0 /\ w \in WalkFields(D)
  BY DEF StartIn, Walks, WalkFields
<1> HIDE DEF start
<1>9. {} \in Good
  <2>1. iter[{}] = start
    BY <1>3
  <2>2. ASSUME NEW k \in DOMAIN held, v \in Operands(held[k]) PROVE held[k] \in left({})
    <3>1. k \in K
      BY <2>2 DEF TidyBlock
    <3> QED
      BY <1>4, <3>1
  <2>3. \A k \in DOMAIN held : \A r \in Operands(held[k]) : r # v => Accounted(start, b, v, r, held[k].id)
    BY DEF TidyBlock, Accounted
  <2>4. Listed(start)
    BY <1>8 DEF Listed
  <2> HIDE DEF left
  <2>5. InHand(start, b, v, left({}))
    BY <1>8, <2>2, <2>3, <2>4 DEF InHand
  <2>6. w.next.id \in Nat
    BY <1>8 DEF WalkFields
  <2>7. Grows(start, start) /\ Due(start, v, left({}))
    BY <1>8, <2>6 DEF Grows, Due
  <2> QED
    BY <2>1, <2>5, <2>7
<1>10. ASSUME NEW s \in SUBSET S, s # {}, s \ {Min(s)} \in Good PROVE s \in Good
  <2> DEFINE n == Min(s)
             t == s \ {n}
             i == here[n]
  <2>1. n \in s /\ \A m \in s : n <= m
    <3>1. s \in SUBSET Int /\ IsFiniteSet(s)
      BY <1>4, <1>7, FS_Subset
    <3> QED
      BY <1>10, <3>1, FiniteExtremes
  <2>2. /\ t \in SUBSET S /\ InHand(iter[t], b, v, left(t)) /\ Due(iter[t], v, left(t)) /\ Grows(start, iter[t])
        /\ iter[t] \in WalksIn(D, v, held)
        /\ iter[s] = SpillAt(iter[t], b, v, cause, i)
    BY <1>2, <1>3, <1>10
  <2>3. i \in left(t) /\ i \in Instructions /\ Has(held, i.id)
    BY <1>5, <2>1
  <2>4. \A j \in left(t) : j.id = i.id => j = i
    BY <1>6, <2>1
  <2>5. left(t) \ {i} = left(s)
    <3>1. ASSUME NEW j \in left(s) PROVE j \in left(t) /\ j # i
      <4>1. PICK m \in S \ s : j = here[m]
        BY <3>1
      <4> QED
        BY <1>6, <2>1, <4>1
    <3>2. ASSUME NEW j \in left(t), j # i PROVE j \in left(s)
      <4>1. PICK m \in S \ t : j = here[m]
        BY <3>2
      <4>2. m \in S \ s
        BY <3>2, <4>1
      <4> QED
        BY <4>1, <4>2
    <3> QED
      BY <3>1, <3>2
  <2>6. ASSUME ~ReloadWanted(held, b, v, cause, i.pos)
        PROVE  i.pos # 0 /\ \E j \in left(t) \ {i} : v \in Operands(j)
    <3> DEFINE k == ks[n]
    <3>1. k \in DOMAIN held /\ i = held[k]
      BY <1>4, <1>5, <2>1
    <3>2. /\ i.pos # 0
          /\ \E j \in DOMAIN held : j < k /\ v \in Operands(held[j]) /\ <<b, v, held[j].id>> \in places
      BY <1>1, <2>6, <3>1, EarlierPlace
    <3>3. PICK j \in DOMAIN held : j < k /\ v \in Operands(held[j]) /\ <<b, v, held[j].id>> \in places
      BY <3>2
    <3>4. j \in K
      BY <3>3
    <3>5. PICK m \in S : ks[m] = j
      BY <1>4, <3>4
    <3>6. m < n
      BY <1>4, <1>5, <2>1, <3>3, <3>5
    <3>7. m \in S \ s /\ here[m] = held[j]
      BY <1>4, <2>1, <3>5, <3>6
    <3>8. here[m] \in left(s)
      BY <3>7
    <3> QED
      BY <2>5, <3>2, <3>3, <3>7, <3>8
  <2> HIDE DEF left, i, t, here, Good
  <2>7. /\ InHand(SpillAt(iter[t], b, v, cause, i), b, v, left(t) \ {i})
        /\ Due(SpillAt(iter[t], b, v, cause, i), v, left(t) \ {i})
        /\ Grows(iter[t], SpillAt(iter[t], b, v, cause, i))
    <3> DEFINE x == iter[t]
               rest == left(t)
    <3>1. /\ InHand(x, b, v, rest) /\ Due(x, v, rest) /\ x \in WalksIn(D, v, held)
          /\ i \in rest /\ i \in Instructions /\ Has(held, i.id)
          /\ \A j \in rest : j.id = i.id => j = i
          /\ \/ ReloadWanted(code[b], b, v, cause, i.pos)
             \/ i.pos # 0 /\ \E j \in rest \ {i} : v \in Operands(j)
      BY <2>2, <2>3, <2>4, <2>6
    <3> HIDE DEF x, rest, held
    <3>2. /\ InHand(SpillAt(x, b, v, cause, i), b, v, rest \ {i})
          /\ Due(SpillAt(x, b, v, cause, i), v, rest \ {i})
          /\ Grows(x, SpillAt(x, b, v, cause, i))
      BY <3>1, SpillAtInHand
    <3> QED
      BY <3>2 DEF x, rest
  <2>8. Grows(start, iter[s])
    <3>1. /\ start.next.id \in Nat /\ iter[t].next.id \in Nat /\ iter[s].next.id \in Nat
      BY <1>2, <1>8, <2>2 DEF WalksIn, Walks, WalkFields
    <3> QED
      BY <2>2, <2>7, <3>1, GrowsOn
  <2> QED
    BY <2>2, <2>5, <2>7, <2>8 DEF Good
<1> DEFINE end == iter[S]
<1>11. InHand(end, b, v, left(S)) /\ Due(end, v, left(S)) /\ Grows(start, end)
  <2> DEFINE pick == [s \in SUBSET S |-> Min(s)]
  <2>1. Picks(pick, S)
    <3>1. ASSUME NEW s \in SUBSET S, s # {} PROVE Min(s) \in s
      BY <1>4, <1>7, <3>1, FS_Subset, FiniteExtremes
    <3> QED
      BY <3>1 DEF Picks
  <2>2. \A s \in SUBSET S : s # {} /\ s \ {pick[s]} \in Good => s \in Good
    BY <1>10
  <2> HIDE DEF Good, pick, S
  <2>3. \A s \in SUBSET S : s \in Good
    BY ONLY <1>7, <1>9, <2>1, <2>2, SubsetInduction
  <2>4. S \in Good
    BY <2>3
  <2> QED
    BY <2>4 DEF Good
<1>12. left(S) = {}
  OBVIOUS
<1>13. end \in WalksIn(D, v, held)
  BY <1>2
<1> HIDE DEF end, left, Good
<1>14. /\ SpillInBlock(w, b, v, cause) = [end EXCEPT !.blocks = [@ EXCEPT ![b] = end.code]]
       /\ end \in WalkFields(D) /\ DOMAIN w.blocks = D
  BY <1>3, <1>8, <1>13 DEF WithBlock, WalksIn, Walks, end, WalkFields
<1> DEFINE u == SpillInBlock(w, b, v, cause)
<1>15. /\ u.blocks = [w.blocks EXCEPT ![b] = end.code] /\ u.at = end.at /\ u.live = end.live
       /\ u.erased = end.erased /\ u.next = end.next
  BY <1>8, <1>11, <1>14 DEF WalkFields, Grows
<1> HIDE DEF u
<1>16. u.blocks[b] = end.code /\ \A c \in DOMAIN w.blocks \ {b} : u.blocks[c] = w.blocks[c]
  BY <1>14, <1>15
<1>17. end.last = 0
  BY <1>11, <1>12 DEF Due
<1>18. Covered(u, b, v)
  BY <1>11, <1>12, <1>15, <1>16, <1>17 DEF Covered, InHand, Pending, Accounted
<1>19. Numbered(u.blocks[b], u.next.id) /\ Listed(u)
  BY <1>11, <1>15, <1>16 DEF InHand, Listed
<1>20. GrowsIn(w, u, b)
  BY <1>8, <1>11, <1>15, <1>16 DEF GrowsIn, Grows
<1> QED
  BY <1>18, <1>19, <1>20 DEF u

-----------------------------------------------------------------------------
(* All blocks of a function, the entry and the returns included.           *)

TidyCode == \A b \in DOMAIN code : TidyBlock(b) /\ Numbered(code[b], fresh.id)

(* A walk that has the blocks todo before it.                              *)
Covering(w, v, todo) ==
  /\ Listed(w)
  /\ \A c \in DOMAIN w.blocks : Numbered(w.blocks[c], w.next.id)
  /\ \A c \in DOMAIN w.blocks \ todo : Covered(w, c, v)

(* A block that a walk left alone stays covered.                           *)
LEMMA CoveredGrows ==
  ASSUME NEW w, NEW u, NEW b, NEW c \in DOMAIN w.blocks \ {b}, NEW v, GrowsIn(w, u, b), Covered(w, c, v)
  PROVE  Covered(u, c, v)
<1>1. u.blocks[c] = w.blocks[c]
  BY DEF GrowsIn
<1>2. ASSUME NEW r, NEW id, Accounted(w, c, v, r, id) PROVE Accounted(u, c, v, r, id)
  BY <1>2 DEF Accounted, GrowsIn, Regs
<1>3. \A p : p \notin u.erased => p \notin w.erased
  BY DEF GrowsIn
<1> QED
  BY <1>1, <1>2, <1>3 DEF Covered

(* The walk over a list of blocks covers them all.                         *)
LEMMA BlocksCovered ==
  ASSUME NEW v, Spillable(v), NEW start \in Walks(DOMAIN code, v), DOMAIN code \in SUBSET Nat,
         NEW seq \in Seq(DOMAIN code), \A b \in DOMAIN code : code[b] \in RealBlocks, NEW cause,
         TidyCode, fresh.id \in Nat, fresh.id <= start.next.id, Covering(start, v, ToSet(seq))
  PROVE  Covering(WalkOver(start, v, cause, seq), v, {})
<1> DEFINE D == DOMAIN code
           S == DOMAIN seq
           todo(s) == {seq[m] : m \in S \ s}
           pick == [s \in SUBSET S |-> Max(s)]
<1>0. D \in SUBSET Nat /\ fresh.reg \in Nat /\ start \in Walks(D, v) /\ seq \in Seq(D)
      /\ \A b \in D : code[b] \in RealBlocks
  BY DEF Spillable
<1>1. PICK iter : /\ ForwardWalk(iter, start, v, cause, seq)
                  /\ \A s \in SUBSET S : iter[s] \in Walks(D, v)
  BY BlocksFold DEF Spillable
<1> DEFINE Good == {s \in SUBSET S : Covering(iter[s], v, todo(s)) /\ fresh.id <= iter[s].next.id}
<1>2. /\ WalkOver(start, v, cause, seq) = iter[S]
      /\ \A s \in SUBSET S :
           iter[s] = IF s = {} THEN start ELSE SpillInBlock(iter[s \ {Max(s)}], seq[Max(s)], v, cause)
  BY <1>1 DEF ForwardWalk
<1>3. IsFiniteSet(S) /\ S \in SUBSET Int
  BY SequenceSetIsFinite
<1>4. Picks(pick, S)
  <2>1. ASSUME NEW s \in SUBSET S, s # {} PROVE Max(s) \in s
    BY <1>3, <2>1, FS_Subset, FiniteExtremes
  <2> QED
    BY <2>1 DEF Picks
<1>5. {} \in Good
  <2>1. iter[{}] = start
    BY <1>2
  <2>2. ToSet(seq) = todo({})
    BY DEF ToSet
  <2> QED
    BY <2>1, <2>2
<1>6. ASSUME NEW s \in SUBSET S, s # {}, s \ {Max(s)} \in Good PROVE s \in Good
  <2> DEFINE n == Max(s)
             t == s \ {n}
             b == seq[n]
             w == iter[t]
             u == iter[s]
  <2>1. n \in S /\ n \in s
    BY <1>4, <1>6 DEF Picks
  <2>2. b \in D /\ w \in Walks(D, v) /\ Covering(w, v, todo(t)) /\ fresh.id <= w.next.id
        /\ u = SpillInBlock(w, b, v, cause) /\ u \in Walks(D, v)
    BY <1>1, <1>2, <1>6, <2>1
  <2>3. todo(t) \in SUBSET (todo(s) \cup {b})
    BY <2>1
  <2> HIDE DEF w, b, n, t, u
  <2>4. w.next.id \in Nat /\ u.next.id \in Nat /\ DOMAIN w.blocks = D /\ DOMAIN u.blocks = D
        /\ w.blocks \in [D -> RealBlocks]
    BY <2>2 DEF Walks, WalkFields
  <2>5. TidyBlock(b) /\ Numbered(code[b], w.next.id) /\ Listed(w) /\ code[b] \in RealBlocks
    <3>1. TidyBlock(b) /\ Numbered(code[b], fresh.id) /\ code[b] \in RealBlocks
      BY <1>0, <2>2 DEF TidyCode
    <3>2. code[b] \in Seq(Instructions)
      BY <3>1 DEF RealBlocks
    <3> QED
      BY <2>2, <2>4, <3>1, <3>2, NumberedBeyond DEF Covering
  <2>6. /\ Covered(u, b, v) /\ Numbered(u.blocks[b], u.next.id) /\ Listed(u) /\ GrowsIn(w, u, b)
    <3>1. /\ Covered(SpillInBlock(w, b, v, cause), b, v)
          /\ Numbered(SpillInBlock(w, b, v, cause).blocks[b], SpillInBlock(w, b, v, cause).next.id)
          /\ Listed(SpillInBlock(w, b, v, cause)) /\ GrowsIn(w, SpillInBlock(w, b, v, cause), b)
      <4> HIDE DEF D
      <4> QED
        BY ONLY <1>0, <2>2, <2>5, SpillInBlockCovers, Spillable(v)
    <3> QED
      BY <2>2, <3>1
  <2>7. ASSUME NEW c \in D PROVE Numbered(u.blocks[c], u.next.id)
    <3>1. CASE c = b
      BY <2>6, <3>1
    <3>2. CASE c # b
      <4>1. u.blocks[c] = w.blocks[c] /\ w.next.id <= u.next.id /\ Numbered(w.blocks[c], w.next.id)
        BY <2>2, <2>4, <2>6, <3>2 DEF GrowsIn, Covering
      <4>2. w.blocks[c] \in Seq(Instructions)
        BY <2>4 DEF RealBlocks
      <4> QED
        BY <2>4, <4>1, <4>2, NumberedBeyond
    <3> QED
      BY <3>1, <3>2
  <2>8. ASSUME NEW c \in D \ todo(s) PROVE Covered(u, c, v)
    <3>1. CASE c = b
      BY <2>6, <3>1
    <3>2. CASE c # b
      <4>1. Covered(w, c, v)
        BY <2>2, <2>3, <2>4, <3>2 DEF Covering
      <4> QED
        BY <2>4, <2>6, <3>2, <4>1, CoveredGrows
    <3> QED
      BY <3>1, <3>2
  <2>9. Covering(u, v, todo(s))
    BY <2>4, <2>6, <2>7, <2>8 DEF Covering
  <2>10. fresh.id <= u.next.id
    <3>1. w.next.id <= u.next.id
      BY <2>6 DEF GrowsIn
    <3> QED
      BY <2>2, <2>4, <3>1
  <2> QED
    BY <2>9, <2>10 DEF u
<1>7. S \in Good
  <2>1. \A s \in SUBSET S : s # {} /\ s \ {pick[s]} \in Good => s \in Good
    BY <1>6
  <2> HIDE DEF Good, pick, S
  <2>2. \A s \in SUBSET S : s \in Good
    <3>1. IsFiniteSet(S)
      BY <1>3
    <3> QED
      BY ONLY <3>1, <1>4, <1>5, <2>1, SubsetInduction
  <2> QED
    BY <2>2
<1>8. todo(S) = {}
  OBVIOUS
<1> QED
  BY <1>2, <1>7, <1>8

(* A store or a reload at the boundary has its place and its interval.     *)
LEMMA StackPlaceCovers ==
  ASSUME NEW D \in SUBSET Nat, NEW v \in Nat, IsVirtual(v), NEW w \in Walked(D, v),
         NEW b \in D, NEW kind \in {"str", "ldr"}, NEW k \in DOMAIN w.blocks[b], Covering(w, v, {})
  PROVE  Covering(StackPlace(w, b, v, kind, w.blocks[b][k]), v, {})
<1> DEFINE before == w.blocks[b][k]
           e == StackInstr(kind, v, w.next.id)
           id == <<0, w.next.id>>
           old == w.blocks[b]
           block == InsertBefore(old, before.id, e)
           pos == PosOf(block, id)
           held == IF kind = "str" THEN Interval(b, v, 0, pos) ELSE Interval(b, v, pos, before.pos)
           place == <<b, v, id>>
           u == StackPlace(w, b, v, kind, before)
<1>1. /\ w \in WalkFields(D) /\ w.next.id \in Nat \ {0} /\ old \in Seq(Instructions) /\ DOMAIN w.blocks = D
      /\ \A c \in D : w.blocks[c] \in Seq(Instructions)
  BY DEF Walked, WalkFields, RealBlocks
<1>2. u = [w EXCEPT !.blocks = [@ EXCEPT ![b] = block], !.own = @ \cup {id}, !.next.id = @ + 1,
                    !.at = @ \cup {place}, !.live = @ \cup {held}]
  BY DEF StackPlace
<1>3. held.reg = v /\ place[2] = v
  BY DEF Interval
<1>4. e \in Instructions /\ e.id = id /\ Operands(e) = {v}
  <2>1. e \in Instructions /\ e.id = id
    BY <1>1, StackInstrFacts
  <2>2. /\ e.outs = IF kind = "ldr" THEN <<v>> ELSE <<>>
        /\ e.ins = IF kind = "str" THEN <<v>> ELSE <<>>
    BY DEF StackInstr
  <2> HIDE DEF e
  <2>3. CASE kind = "str"
    <3>1. e.outs = <<>> /\ e.ins = <<v>>
      BY <2>2, <2>3
    <3> QED
      BY <2>1, <3>1 DEF Operands, Outs, Ins, ToSet
  <2>4. CASE kind = "ldr"
    <3>1. e.outs = <<v>> /\ e.ins = <<>>
      BY <2>2, <2>4
    <3> QED
      BY <2>1, <3>1 DEF Operands, Outs, Ins, ToSet
  <2> QED
    BY <2>3, <2>4
<1>5. Numbered(block, w.next.id + 1) /\ AddsOnly(block, old, e)
  <2>1. Numbered(old, w.next.id) /\ Has(old, before.id)
    BY <1>1 DEF Covering, Has
  <2>2. w.next.id \in Nat
    BY <1>1
  <2> HIDE DEF e, before, old
  <2> QED
    BY <1>1, <1>4, <2>1, <2>2, InsertNumbers
<1>6. <<b, v, e.id>> = place
  BY <1>4
<1> HIDE DEF before, e, block, held, place, id, u
<1>7. /\ u.blocks = [w.blocks EXCEPT ![b] = block] /\ u.next.id = w.next.id + 1
      /\ u.at = w.at \cup {place} /\ u.live = w.live \cup {held} /\ u.erased = w.erased
  BY <1>1, <1>2 DEF WalkFields
<1>8. Listed(u)
  BY <1>3, <1>7, ListedWithMore DEF Covering
<1>9. GrowsIn(w, u, b)
  <2>1. w.next.id <= u.next.id
    BY <1>1, <1>7
  <2> QED
    BY <1>1, <1>7, <2>1 DEF GrowsIn
<1>10. ASSUME NEW c \in D PROVE Numbered(u.blocks[c], u.next.id)
  <2>1. CASE c = b
    BY <1>1, <1>5, <1>7, <2>1
  <2>2. CASE c # b
    <3>1. u.blocks[c] = w.blocks[c] /\ Numbered(w.blocks[c], w.next.id) /\ w.next.id <= u.next.id
      BY <1>1, <1>7, <1>9, <2>2 DEF Covering, GrowsIn
    <3>2. w.blocks[c] \in Seq(Instructions) /\ w.next.id \in Nat /\ u.next.id \in Nat
      BY <1>1, <1>7
    <3> QED
      BY <3>1, <3>2, NumberedBeyond
  <2> QED
    BY <2>1, <2>2
<1>11. ASSUME NEW c \in D PROVE Covered(u, c, v)
  <2>1. Covered(w, c, v)
    BY <1>1 DEF Covering
  <2>2. CASE c # b
    BY <1>1, <1>9, <2>1, <2>2, CoveredGrows
  <2>3. CASE c = b
    <3>1. u.blocks[c] = block
      BY <1>1, <1>7, <2>3
    <3>2. ASSUME NEW m \in DOMAIN block, <<b, block[m].id>> \notin u.erased, NEW r \in Operands(block[m])
          PROVE  Accounted(u, b, v, r, block[m].id)
      <4>1. ASSUME NEW j \in DOMAIN old, block[m] = old[j] PROVE Accounted(u, b, v, r, block[m].id)
        <5>1. Accounted(w, b, v, r, block[m].id)
          BY <1>7, <2>1, <2>3, <3>2, <4>1 DEF Covered
        <5> QED
          BY <1>7, <5>1 DEF Accounted, Regs
      <4>2. CASE block[m].id = e.id /\ block[m].outs = e.outs /\ block[m].ins = e.ins
        <5>1. r = v
          BY <1>4, <3>2, <4>2 DEF Operands, Outs, Ins
        <5>2. place \in u.at /\ held \in u.live
          BY <1>7
        <5>3. v \in Regs(u.live)
          BY <1>3, <5>2 DEF Regs
        <5> QED
          BY <1>6, <4>2, <5>1, <5>2, <5>3 DEF Accounted
      <4> QED
        BY <1>5, <4>1, <4>2 DEF AddsOnly
    <3> QED
      BY <2>3, <3>1, <3>2 DEF Covered
  <2> QED
    BY <2>2, <2>3
<1>12. DOMAIN u.blocks = D
  BY <1>1, <1>7
<1>13. Covering(u, v, {})
  BY <1>8, <1>10, <1>11, <1>12 DEF Covering
<1> QED
  BY <1>13 DEF u, before

(* The prologue has no operands.                                           *)
LEMMA SaveAtEntryCovers ==
  ASSUME NEW D \in SUBSET Nat, NEW v \in ToSet(Inputs(source)), v \in Nat, IsVirtual(v),
         NEW w \in Walked(D, v), Covering(w, v, {})
  PROVE  Covering(SaveAtEntry(w, v), v, {})
<1> DEFINE E == D \cup {0}
           blocks == WithPrologue(w.blocks)
           u == [w EXCEPT !.blocks = blocks]
           first == [id |-> <<0, 0>>, kind |-> "b", outs |-> <<>>, ins |-> <<>>,
                     target |-> 1, slot |-> 0, pos |-> Gap]
<1>1. w \in WalkFields(D) /\ LivesAnew(w, v) /\ E \in SUBSET Nat /\ w.next.id \in Nat \ {0}
  BY DEF Walked, WalkFields
<1>2. Prologue \in RealBlocks /\ Numbered(Prologue, w.next.id)
      /\ \A k \in DOMAIN Prologue : Operands(Prologue[k]) = {}
  <2>1. <<>> \in Seq(Nat) /\ Gap \in Nat
    BY RegisterAssumption
  <2>2. first \in Instructions /\ first.id \notin Inserted
    BY <2>1 DEF Instructions, Kinds, Inserted
  <2>3. first.id = <<0, 0>> /\ first.outs = <<>> /\ first.ins = <<>>
    OBVIOUS
  <2>4. Prologue = <<first>>
    BY DEF Prologue
  <2> HIDE DEF first
  <2>5. DOMAIN Prologue = {1} /\ Prologue[1] = first
    BY <2>4
  <2>6. Numbered(Prologue, w.next.id)
    BY <1>1, <2>3, <2>5 DEF Numbered
  <2>7. Operands(first) = {}
    BY <2>3 DEF Operands, Outs, Ins, ToSet
  <2>8. Prologue \in RealBlocks
    BY <2>2, <2>4 DEF RealBlocks, Real
  <2> QED
    BY <2>5, <2>6, <2>7, <2>8
<1>3. /\ blocks \in [E -> RealBlocks]
      /\ \A b \in E : (b \in D /\ blocks[b] = w.blocks[b]) \/ blocks[b] = Prologue
  BY <1>1, <1>2 DEF WithPrologue, WalkFields
<1> HIDE DEF blocks
<1>4. u \in WalkFields(E)
  <2>1. w.erased \in SUBSET ErasuresIn(E) /\ w.at \in SUBSET PlacesIn(E)
    BY <1>1 DEF WalkFields, ErasuresIn, PlacesIn
  <2> HIDE DEF E
  <2> QED
    BY <1>1, <1>3, <2>1 DEF WalkFields
<1>5. /\ u.pieces = w.pieces /\ u.next = w.next /\ u.live = w.live /\ u.blocks = blocks
      /\ u.at = w.at /\ u.erased = w.erased
  BY <1>1 DEF WalkFields
<1>6. SaveAtEntry(w, v) = StackPlace(u, 0, v, "str", Head(u.blocks[0]))
  BY DEF SaveAtEntry, blocks
<1> HIDE DEF u
<1>7. u \in Walked(E, v)
  BY <1>1, <1>4, <1>5 DEF LivesAnew, Walked
<1>8. 1 \in DOMAIN u.blocks[0] /\ Head(u.blocks[0]) = u.blocks[0][1] /\ 0 \in E
  BY <1>3, <1>5, RealBlockEnds
<1>9. Covering(u, v, {})
  <2>1. DOMAIN w.blocks = D /\ DOMAIN u.blocks = E
    BY <1>1, <1>3, <1>5 DEF WalkFields
  <2>2. Listed(u)
    BY <1>5 DEF Covering, Listed
  <2>3. \A c \in E : Numbered(u.blocks[c], u.next.id)
    BY <1>2, <1>3, <1>5, <2>1 DEF Covering
  <2>4. ASSUME NEW c \in E PROVE Covered(u, c, v)
    <3>1. CASE c \in D /\ blocks[c] = w.blocks[c]
      <4>1. Covered(w, c, v)
        BY <2>1, <3>1 DEF Covering
      <4> QED
        BY <1>5, <3>1, <4>1 DEF Covered, Accounted
    <3>2. CASE blocks[c] = Prologue
      BY <1>2, <1>5, <3>2 DEF Covered
    <3> QED
      BY <1>3, <3>1, <3>2
  <2> HIDE DEF E
  <2> QED
    BY <2>1, <2>2, <2>3, <2>4 DEF Covering
<1> HIDE DEF E
<1>10. Covering(StackPlace(u, 0, v, "str", u.blocks[0][1]), v, {})
  BY <1>1, <1>7, <1>8, <1>9, StackPlaceCovers
<1> QED
  BY <1>6, <1>8, <1>10

(* The reloads of all returns.                                             *)
LEMMA RestoresCovered ==
  ASSUME NEW D \in SUBSET Nat, NEW v \in ToSet(Inputs(source)), v \in Nat, IsVirtual(v),
         NEW start \in Walked(D, v), NEW S, S \in SUBSET D, IsFiniteSet(S), Covering(start, v, {})
  PROVE  Covering(Restored(start, v, S), v, {})
<1> DEFINE pick == [s \in SUBSET S |-> CHOOSE x \in s : TRUE]
<1>1. PICK iter : /\ RestoringWalk(iter, start, v, S)
                  /\ \A s \in SUBSET S : iter[s] \in Walked(D, v)
  BY RestoresFold
<1> DEFINE Good == {s \in SUBSET S : Covering(iter[s], v, {})}
<1>2. Picks(pick, S)
  BY DEF Picks
<1>3. {} \in Good
  BY <1>1 DEF RestoringWalk
<1>4. ASSUME NEW s \in SUBSET S, s # {}, s \ {pick[s]} \in Good PROVE s \in Good
  <2> DEFINE b == pick[s]
             w == iter[s \ {b}]
             k == Len(w.blocks[b])
  <2>1. b \in D /\ iter[s] = RestoreAtReturn(w, v, b)
    BY <1>1, <1>2, <1>4 DEF RestoringWalk, Picks
  <2>2. w \in Walked(D, v) /\ Covering(w, v, {})
    BY <1>1, <1>4
  <2> HIDE DEF b, w
  <2>3. w.blocks[b] \in RealBlocks
    BY <2>1, <2>2 DEF Walked, WalkFields
  <2>4. k \in DOMAIN w.blocks[b] /\ Last(w.blocks[b]) = w.blocks[b][k]
    BY <2>3, RealBlockEnds
  <2> HIDE DEF k
  <2>5. Covering(StackPlace(w, b, v, "ldr", w.blocks[b][k]), v, {})
    BY <2>1, <2>2, <2>4, StackPlaceCovers
  <2> QED
    BY <2>1, <2>4, <2>5 DEF RestoreAtReturn
<1>5. S \in Good
  <2>1. \A s \in SUBSET S : s # {} /\ s \ {pick[s]} \in Good => s \in Good
    BY <1>4
  <2> HIDE DEF Good, pick
  <2>2. \A s \in SUBSET S : s \in Good
    <3>1. IsFiniteSet(S)
      OBVIOUS
    <3> QED
      BY ONLY <3>1, <1>2, <1>3, <2>1, SubsetInduction
  <2> QED
    BY <2>2
<1> QED
  BY <1>1, <1>5 DEF RestoringWalk

(* A spill leaves no operand without its place and a register to come.     *)
LEMMA SpilledCovers ==
  ASSUME source \in Programs, SpillableCode, TidyCode, NEW v, Spillable(v), NEW cause
  PROVE  Covering(Spilled(v, cause), v, {})
<1> DEFINE B == DOMAIN code
           own == IF Root(v) \in DOMAIN spills THEN spills[Root(v)] ELSE {}
           start == [code |-> <<>>, blocks |-> code, piece |-> 0, pieces |-> {}, last |-> 0,
                     store |-> FALSE, own |-> own, erased |-> {}, live |-> {}, at |-> {},
                     allowed |-> choices, next |-> fresh, done |-> FALSE]
           here == {p[1] : p \in {p \in places : p[2] = v}}
           walked == WalkOver(start, v, cause, Ascending(here))
           again == v \in DOMAIN slotRanges
           saved == IF v \in ToSet(Inputs(source)) /\ ~again THEN SaveAtEntry(walked, v) ELSE walked
<1>1. /\ B \in SUBSET Nat /\ IsFiniteSet(B) /\ \A b \in B : code[b] \in RealBlocks
      /\ \A p \in places : p[1] \in B
      /\ choices \in Restrictions /\ fresh \in [reg : Nat, id : Nat \ {0}] /\ fresh.reg \in Nat
      /\ own \in SUBSET Inserted /\ code \in [B -> RealBlocks] /\ v \in Nat /\ IsVirtual(v)
  BY DEF SpillableCode, Spillable
<1> HIDE DEF own
<1>2. /\ start.blocks = code /\ start.next = fresh /\ start.at = {} /\ start.live = {}
      /\ start.pieces = {} /\ start.last = 0
  OBVIOUS
<1>3. start \in Walks(B, v)
  <2>1. start \in WalkFields(B)
    BY <1>1 DEF WalkFields
  <2> HIDE DEF start
  <2> QED
    BY <1>1, <1>2, <2>1 DEF Walks, LivesAnew
<1> HIDE DEF start
<1>4. here \in SUBSET B /\ here \in SUBSET Int /\ IsFiniteSet(here)
  <2>1. here \in SUBSET B
    BY <1>1
  <2> HIDE DEF here
  <2> QED
    BY <1>1, <2>1, FS_Subset
<1>5. Ascending(here) \in Seq(B) /\ ToSet(Ascending(here)) = here
  <2> HIDE DEF here
  <2>1. /\ Ascending(here) \in Seq(here)
        /\ \A x \in here : \E k \in 1..Cardinality(here) : Ascending(here)[k] = x
        /\ Ascending(here) \in [1..Cardinality(here) -> here]
    BY <1>4, AscendingLists
  <2> QED
    BY <1>4, <2>1 DEF ToSet
<1>6. Covering(start, v, here)
  <2>1. Listed(start)
    BY <1>2, FS_EmptySet DEF Listed
  <2>2. ASSUME NEW c \in B \ here PROVE Covered(start, c, v)
    <3>1. ASSUME NEW k \in DOMAIN code[c], NEW r \in Operands(code[c][k])
          PROVE  Accounted(start, c, v, r, code[c][k].id)
      <4>1. r \in Awaited /\ <<c, r, code[c][k].id>> \in places
        BY <3>1 DEF TidyCode, TidyBlock
      <4>2. r # v
        <5> SUFFICES ASSUME r = v PROVE FALSE
          OBVIOUS
        <5> DEFINE p == <<c, v, code[c][k].id>>
        <5>1. p \in places /\ p[1] = c /\ p[2] = v
          BY <4>1
        <5> HIDE DEF p
        <5> QED
          BY <2>2, <5>1
      <4> QED
        BY <4>1, <4>2 DEF Accounted
    <3> QED
      BY <1>2, <3>1 DEF Covered
  <2>3. \A c \in B : Numbered(start.blocks[c], start.next.id)
    BY <1>2 DEF TidyCode
  <2> HIDE DEF here
  <2> QED
    BY <1>2, <2>1, <2>2, <2>3 DEF Covering
<1> HIDE DEF here
<1>7. Covering(walked, v, {}) /\ walked \in Walked(B, v)
  <2> DEFINE seq == Ascending(here)
  <2>1. fresh.id \in Nat /\ fresh.id <= start.next.id
    BY <1>1, <1>2
  <2>2. seq \in Seq(B) /\ Covering(start, v, ToSet(seq))
    BY <1>5, <1>6
  <2> HIDE DEF seq
  <2>3. Covering(WalkOver(start, v, cause, seq), v, {})
    BY <1>1, <1>3, <2>1, <2>2, BlocksCovered
  <2>4. WalkOver(start, v, cause, seq) \in Walks(B, v)
    BY <1>1, <1>3, <2>2, BlocksWalk
  <2> QED
    BY <2>3, <2>4 DEF seq, Walks, Walked
<1>8. Spilled(v, cause) = SpillAtBoundary(walked, v)
  BY DEF Spilled, WalkOver, start, here, own
<1> HIDE DEF walked
<1>9. SpillAtBoundary(walked, v) = IF v \in ToSet(PcsRegs(source)) /\ ~again
                                   THEN Restored(saved, v, Returns) ELSE saved
  BY DEF SpillAtBoundary, Restored
<1>10. CASE v \in ToSet(Inputs(source)) /\ ~again
  <2>1. saved = SaveAtEntry(walked, v)
    BY <1>10
  <2> HIDE DEF saved
  <2>2. saved \in Walked(B \cup {0}, v) /\ Covering(saved, v, {})
    BY <1>1, <1>7, <1>10, <2>1, SaveAtEntryWalks, SaveAtEntryCovers
  <2>3. Returns \in SUBSET (B \cup {0}) /\ B \cup {0} \in SUBSET Nat /\ IsFiniteSet(Returns)
    <3>1. Returns \in SUBSET B
      BY DEF Returns, Blocks
    <3> QED
      BY <1>1, <3>1, FS_Subset
  <2>4. Covering(Restored(saved, v, Returns), v, {})
    BY <1>1, <1>10, <2>2, <2>3, RestoresCovered
  <2> QED
    BY <1>8, <1>9, <2>2, <2>4
<1>11. CASE ~(v \in ToSet(Inputs(source)) /\ ~again)
  <2>1. ~(v \in ToSet(PcsRegs(source)) /\ ~again)
    BY <1>11, StartingRegisters
  <2> QED
    BY <1>7, <1>8, <1>9, <1>11, <2>1
<1> QED
  BY <1>10, <1>11

-----------------------------------------------------------------------------
(* The order of allocation lists every virtual register.                   *)

(* The image of a finite set is finite.                                    *)
LEMMA FiniteImage ==
  ASSUME NEW S, IsFiniteSet(S), NEW f
  PROVE  IsFiniteSet({f[x] : x \in S})
<1> DEFINE g == [x \in S |-> f[x]]
<1>1. g \in Surjection(S, {f[x] : x \in S})
  BY DEF Surjection
<1> QED
  BY <1>1, FS_Surjection

(* A finite set of intervals is of finitely many registers.                *)
LEMMA RegsAreFinite ==
  ASSUME NEW I, IsFiniteSet(I)
  PROVE  IsFiniteSet(Regs(I))
<1> DEFINE f == [i \in I |-> i.reg]
<1>1. Regs(I) = {f[i] : i \in I}
  BY DEF Regs
<1> HIDE DEF f
<1> QED
  BY <1>1, FiniteImage

(* The length of finitely many intervals is a number.                      *)
LEMMA LengthIsInteger ==
  ASSUME NEW I, IsFiniteSet(I), I \in SUBSET Intervals
  PROVE  Length(I) \in Int
<1> DEFINE pick == [s \in SUBSET I |-> CHOOSE x \in s : TRUE]
           step == [p \in Int \X I |-> p[1] + p[2].end - p[2].begin]
           iter == CHOOSE f : f = [s \in SUBSET I |->
                     IF s = {} THEN 0
                     ELSE f[s \ {CHOOSE x \in s : TRUE}]
                            + (CHOOSE x \in s : TRUE).end - (CHOOSE x \in s : TRUE).begin]
<1>1. Length(I) = iter[I]
  BY DEF Length, FoldSet, MapThenFoldSet
<1>2. Picks(pick, I)
  BY DEF Picks
<1>3. \A i \in I : i.end \in Int /\ i.begin \in Int
  BY DEF Intervals
<1>4. step \in [Int \X I -> Int]
  BY <1>3
<1>5. PICK f \in [SUBSET I -> Int] : Folds(f, pick, 0, step, SUBSET I)
  <2> DEFINE base == 0
             W == Int
  <2>1. base \in W /\ step \in [W \X I -> W]
    BY <1>4
  <2> HIDE DEF step, pick, base, W
  <2>2. \E f \in [SUBSET I -> W] : Folds(f, pick, base, step, SUBSET I)
    BY <1>2, <2>1, FoldExists
  <2> QED
    BY <2>2 DEF base, W
<1>6. ASSUME NEW s \in SUBSET I
      PROVE  f[s] = IF s = {} THEN 0
                    ELSE f[s \ {CHOOSE x \in s : TRUE}]
                           + (CHOOSE x \in s : TRUE).end - (CHOOSE x \in s : TRUE).begin
  BY <1>2, <1>5 DEF Folds, Picks
<1>7. f = [s \in SUBSET I |->
             IF s = {} THEN 0
             ELSE f[s \ {CHOOSE x \in s : TRUE}]
                    + (CHOOSE x \in s : TRUE).end - (CHOOSE x \in s : TRUE).begin]
  BY <1>5, <1>6
<1>8. \A s \in SUBSET I :
        iter[s] = IF s = {} THEN 0
                  ELSE iter[s \ {CHOOSE x \in s : TRUE}]
                         + (CHOOSE x \in s : TRUE).end - (CHOOSE x \in s : TRUE).begin
  BY <1>7
<1> HIDE DEF iter
<1> DEFINE Good == {s \in SUBSET I : iter[s] \in Int}
<1>9. {} \in Good
  <2>1. iter[{}] = 0
    BY <1>8
  <2> QED
    BY <2>1
<1>10. ASSUME NEW s \in SUBSET I, s # {}, s \ {pick[s]} \in Good PROVE s \in Good
  <2> DEFINE x == CHOOSE x \in s : TRUE
  <2>1. pick[s] = x /\ x \in I
    BY <1>2, <1>10 DEF Picks
  <2>2. iter[s] = iter[s \ {x}] + x.end - x.begin
    BY <1>8, <1>10
  <2>3. iter[s \ {x}] \in Int /\ x.end \in Int /\ x.begin \in Int
    BY <1>3, <1>10, <2>1
  <2> HIDE DEF x
  <2> QED
    BY <2>2, <2>3
<1>11. I \in Good
  <2>1. \A s \in SUBSET I : s # {} /\ s \ {pick[s]} \in Good => s \in Good
    BY <1>10
  <2> HIDE DEF Good, pick
  <2>2. \A s \in SUBSET I : s \in Good
    <3>1. IsFiniteSet(I)
      OBVIOUS
    <3> QED
      BY ONLY <3>1, <1>2, <1>9, <2>1, SubsetInduction
  <2> QED
    BY <2>2
<1> QED
  BY <1>1, <1>11

(* The queue holds every virtual register that is live somewhere.          *)
LEMMA AllocationOrderLists ==
  ASSUME NEW I, IsFiniteSet(I), I \in SUBSET Intervals
  PROVE  /\ AllocationOrder(I) \in Seq({r \in Nat : IsVirtual(r)})
         /\ ToSet(AllocationOrder(I)) = {r \in Regs(I) : IsVirtual(r)}
<1> DEFINE length == [r \in Regs(I) |-> Length(Of(I, r))]
           S == {r \in Regs(I) : IsVirtual(r)}
           R == {p \in S \X S : \/ length[p[1]] > length[p[2]]
                                \/ length[p[1]] = length[p[2]] /\ p[1] < p[2]}
           n == Cardinality(S)
<1>1. Regs(I) \in SUBSET Nat
  BY DEF Regs, Intervals
<1>2. IsFiniteSet(S)
  <2>1. S \in SUBSET Regs(I) /\ IsFiniteSet(Regs(I))
    BY RegsAreFinite
  <2> QED
    BY <2>1, FS_Subset
<1>3. ASSUME NEW r \in Regs(I) PROVE length[r] \in Int
  <2> DEFINE J == Of(I, r)
  <2>1. J \in SUBSET I
    BY DEF Of
  <2>2. IsFiniteSet(J) /\ J \in SUBSET Intervals
    BY <2>1, FS_Subset
  <2> HIDE DEF J
  <2>3. Length(J) \in Int
    BY <2>2, LengthIsInteger
  <2> QED
    BY <2>3 DEF J
<1>4. \A r, s \in S : <<r, s>> \in R <=> length[r] > length[s] \/ (length[r] = length[s] /\ r < s)
  OBVIOUS
<1>5. \A r \in S : r \in Nat /\ length[r] \in Int
  BY <1>1, <1>3
<1>6. AllocationOrder(I) = [k \in 1..n |->
        CHOOSE x \in S :
          Cardinality({y \in S : length[y] > length[x] \/ (length[y] = length[x] /\ y < x)}) = k - 1]
  BY DEF AllocationOrder, Sorted
<1> HIDE DEF length, S
<1>7. Orders(R, S)
  <2>1. \A x \in S : <<x, x>> \notin R
    BY <1>4, <1>5
  <2>2. \A x, y \in S : x # y => <<x, y>> \in R \/ <<y, x>> \in R
    BY <1>4, <1>5
  <2>3. \A x, y, z \in S : <<x, y>> \in R /\ <<y, z>> \in R => <<x, z>> \in R
    BY <1>4, <1>5
  <2> QED
    BY <2>1, <2>2, <2>3 DEF Orders
<1>8. ASSUME NEW x \in S
      PROVE  {y \in S : length[y] > length[x] \/ (length[y] = length[x] /\ y < x)} = Below(R, S, x)
  BY <1>4 DEF Below
<1> HIDE DEF R
<1>9. AllocationOrder(I) = SortedBy(R, S)
  <2>1. ASSUME NEW k
        PROVE  (CHOOSE x \in S :
                  Cardinality({y \in S : length[y] > length[x] \/ (length[y] = length[x] /\ y < x)}) = k - 1)
               = CHOOSE x \in S : Cardinality(Below(R, S, x)) = k - 1
    BY <1>8
  <2> QED
    BY <1>6, <2>1 DEF SortedBy
<1>10. /\ n \in Nat /\ SortedBy(R, S) \in [1..n -> S]
       /\ \A x \in S : \E k \in 1..n : SortedBy(R, S)[k] = x
  BY <1>2, <1>7, SortedLists
<1> DEFINE t == SortedBy(R, S)
<1> HIDE DEF t, n
<1>11. t \in Seq(S) /\ ToSet(t) = S
  BY <1>10 DEF t, ToSet
<1>12. S \in SUBSET {r \in Nat : IsVirtual(r)}
  BY <1>1 DEF S
<1>13. t \in Seq({r \in Nat : IsVirtual(r)})
  <2> DEFINE V == {r \in Nat : IsVirtual(r)}
  <2> HIDE DEF V
  <2>1. t \in [1..n -> V] /\ n \in Nat
    BY <1>10, <1>12 DEF t, V
  <2> QED
    BY <2>1 DEF V
<1> QED
  BY <1>9, <1>11, <1>13 DEF t, S

(* The intervals of a block: finitely many, one at least of each operand.  *)
LEMMA BlockIntervalsFacts ==
  ASSUME NEW block \in Seq(Instructions), block # <<>>, NEW b \in Nat, NEW R \in SUBSET Nat, IsFiniteSet(R),
         NEW live \in SUBSET R,
         \A k \in DOMAIN block : block[k].pos > 0 /\ Mentions(block[k]) \in SUBSET R
  PROVE  /\ IsFiniteSet(BlockIntervals(block, b, live)) /\ BlockIntervals(block, b, live) \in SUBSET Intervals
         /\ Regs(BlockIntervals(block, b, live)) \in SUBSET R
         /\ \A k \in DOMAIN block : Operands(block[k]) \in SUBSET Regs(BlockIntervals(block, b, live))
<1> DEFINE S == DOMAIN block
           Pos == {block[k].pos : k \in S} \cup {Last(block).pos + Gap}
           Next1 == {p + 1 : p \in Pos}
           E == Pos \cup Next1 \cup {0}
           All == {Interval(b, q[1], q[2][1], q[2][2]) : q \in R \X (E \X E)}
           I == BlockIntervals(block, b, live)
<1>1. /\ \A k \in S : block[k] \in Instructions /\ block[k].pos \in Nat
      /\ Len(block) \in S /\ Last(block) = block[Len(block)] /\ Gap \in Nat /\ IsFiniteSet(S)
  <2>1. \A k \in S : block[k] \in Instructions
    OBVIOUS
  <2>2. Len(block) \in S /\ Last(block) = block[Len(block)]
    BY DEF Last
  <2> QED
    BY <2>1, <2>2, SequenceSetIsFinite, RegisterAssumption DEF Instructions
<1>2. Pos \in SUBSET Nat /\ IsFiniteSet(Pos)
  <2> DEFINE f == [k \in S |-> block[k].pos]
             A == {f[k] : k \in S}
  <2>1. {block[k].pos : k \in S} = A
    OBVIOUS
  <2> HIDE DEF f
  <2>2. IsFiniteSet(A)
    BY <1>1, FiniteImage
  <2>3. IsFiniteSet(A \cup {Last(block).pos + Gap})
    <3> HIDE DEF A
    <3> QED
      BY <2>2, FS_AddElement
  <2>4. Pos \in SUBSET Nat
    BY <1>1
  <2> QED
    BY <2>1, <2>3, <2>4
<1>3. \A k \in S : block[k].pos \in Pos
  OBVIOUS
<1>4. Last(block).pos + Gap \in Pos
  OBVIOUS
<1> HIDE DEF Pos
<1>5. E \in SUBSET Nat /\ IsFiniteSet(E) /\ Pos \in SUBSET E /\ 0 \in E /\ \A p \in Pos : p + 1 \in E
  <2> DEFINE f == [p \in Pos |-> p + 1]
  <2>1. Next1 = {f[p] : p \in Pos}
    OBVIOUS
  <2> HIDE DEF f
  <2>2. IsFiniteSet(Next1)
    BY <1>2, <2>1, FiniteImage
  <2>3. Next1 \in SUBSET Nat
    BY <1>2
  <2>4. \A p \in Pos : p + 1 \in Next1
    OBVIOUS
  <2> HIDE DEF Next1
  <2>5. IsFiniteSet(Pos \cup Next1)
    BY <1>2, <2>2, FS_Union
  <2>6. IsFiniteSet(E)
    BY <2>5, FS_AddElement
  <2> QED
    BY <1>2, <2>3, <2>4, <2>6
<1> HIDE DEF E
<1>6. IsFiniteSet(All)
  <2> DEFINE Q == R \X (E \X E)
             f == [q \in Q |-> Interval(b, q[1], q[2][1], q[2][2])]
  <2>1. IsFiniteSet(E \X E)
    BY <1>5, FS_Product
  <2>2. IsFiniteSet(Q)
    BY <2>1, FS_Product
  <2>3. All = {f[q] : q \in Q}
    OBVIOUS
  <2> HIDE DEF f, Q
  <2>4. IsFiniteSet({f[q] : q \in Q})
    BY <2>2, FiniteImage
  <2> QED
    BY <2>3, <2>4
<1>7. \A r \in R : \A x, y \in E : Interval(b, r, x, y) \in All
  <2> TAKE r \in R
  <2> TAKE x, y \in E
  <2> DEFINE q == <<r, <<x, y>>>>
  <2>1. q \in R \X (E \X E) /\ q[1] = r /\ q[2][1] = x /\ q[2][2] = y
    OBVIOUS
  <2> HIDE DEF q
  <2> QED
    BY <2>1
<1>8. ASSUME NEW i \in I PROVE i \in All
  <2>1. PICK r \in live \cup UNION {Mentions(block[k]) : k \in DOMAIN block} :
          i \in IntervalsOf(block, b, r, live)
    BY DEF BlockIntervals
  <2>2. r \in R
    BY <2>1
  <2> DEFINE covered(p) == CoveredBy(block, r, live, p)
  <2>3. ASSUME NEW p, covered(p) # {} PROVE Max(covered(p)) \in E
    <3>1. covered(p) \in SUBSET Pos
      BY <1>3, <1>4 DEF CoveredBy, Demands, InPositions
    <3> HIDE DEF covered
    <3>2. covered(p) \in SUBSET Int
      <4>1. Pos \in SUBSET Int
        BY <1>2
      <4> QED
        BY <3>1, <4>1, Zenon
    <3>4. IsFiniteSet(covered(p))
      BY <1>2, <3>1, FS_Subset
    <3>3. Max(covered(p)) \in covered(p)
      BY <2>3, <3>2, <3>4, FiniteExtremes
    <3> QED
      BY <1>5, <3>1, <3>3
  <2>4. OutPositions(block, r) \in SUBSET Pos /\ ClobberPositions(block, r) \in SUBSET Pos
    BY <1>3 DEF OutPositions, ClobberPositions
  <2>5. \/ covered(0) # {} /\ i = Interval(b, r, 0, Max(covered(0)))
        \/ \E p \in OutPositions(block, r) :
             i = Interval(b, r, p, IF covered(p) # {} THEN Max(covered(p)) ELSE p + 1)
        \/ \E p \in ClobberPositions(block, r) : i = Interval(b, r, p, p + 1)
    BY <2>1 DEF IntervalsOf
  <2> HIDE DEF covered, All, I
  <2>6. CASE covered(0) # {} /\ i = Interval(b, r, 0, Max(covered(0)))
    BY <1>5, <1>7, <2>2, <2>3, <2>6
  <2>7. CASE \E p \in OutPositions(block, r) :
               i = Interval(b, r, p, IF covered(p) # {} THEN Max(covered(p)) ELSE p + 1)
    <3>1. PICK p \in OutPositions(block, r) :
                 i = Interval(b, r, p, IF covered(p) # {} THEN Max(covered(p)) ELSE p + 1)
      BY <2>7
    <3>2. p \in E /\ p + 1 \in E
      BY <1>5, <2>4
    <3>3. (IF covered(p) # {} THEN Max(covered(p)) ELSE p + 1) \in E
      BY <2>3, <3>2
    <3> QED
      BY <1>7, <2>2, <3>1, <3>2, <3>3
  <2>8. CASE \E p \in ClobberPositions(block, r) : i = Interval(b, r, p, p + 1)
    BY <1>5, <1>7, <2>2, <2>4, <2>8
  <2> QED
    BY <2>5, <2>6, <2>7, <2>8
<1>9. ASSUME NEW i \in All PROVE i \in Intervals /\ i.reg \in R
  <2>1. PICK q \in R \X (E \X E) : i = Interval(b, q[1], q[2][1], q[2][2])
    OBVIOUS
  <2>2. PICK r \in R, x \in E, y \in E : r = q[1] /\ x = q[2][1] /\ y = q[2][2]
    BY <2>1
  <2>3. r \in Nat /\ x \in Int /\ y \in Int
    <3>1. E \in SUBSET Int
      BY <1>5
    <3> QED
      BY <3>1
  <2>4. i = Interval(b, r, x, y)
    BY <2>1, <2>2
  <2> QED
    BY <2>3, <2>4 DEF Intervals, Interval
<1> HIDE DEF All
<1>10. IsFiniteSet(I)
  <2>1. I \in SUBSET All
    BY <1>8
  <2> QED
    BY <1>6, <2>1, FS_Subset
<1>11. ASSUME NEW k \in S, NEW r \in Operands(block[k]) PROVE r \in Regs(I)
  <2> DEFINE J == IntervalsOf(block, b, r, live)
  <2>1. J \in SUBSET I
    <3>1. r \in UNION {Mentions(block[j]) : j \in DOMAIN block}
      BY <1>11 DEF Mentions, Operands
    <3> HIDE DEF J
    <3> QED
      BY <3>1, Zenon DEF BlockIntervals, J
  <2>2. \A i \in J : i.reg = r
    BY DEF IntervalsOf, Interval
  <2>3. ASSUME NEW p \in OutPositions(block, r) PROVE J # {}
    <3> DEFINE i == Interval(b, r, p, IF CoveredBy(block, r, live, p) # {}
                                      THEN Max(CoveredBy(block, r, live, p)) ELSE p + 1)
    <3>1. i \in J
      BY DEF IntervalsOf
    <3> QED
      BY <3>1
  <2>4. ASSUME OutPositions(block, r) = {} PROVE J # {}
    <3>1. r \in Ins(block[k])
      BY <1>11, <2>4 DEF OutPositions, Operands
    <3>2. block[k].pos \in CoveredBy(block, r, live, 0)
      BY <2>4, <3>1 DEF CoveredBy, Demands, InPositions
    <3>3. Interval(b, r, 0, Max(CoveredBy(block, r, live, 0))) \in J
      BY <3>2 DEF IntervalsOf
    <3> QED
      BY <3>3
  <2>5. PICK i \in J : TRUE
    BY <2>3, <2>4
  <2> HIDE DEF J, I
  <2> QED
    BY <2>1, <2>2, <2>5 DEF Regs
<1> QED
  BY <1>8, <1>9, <1>10, <1>11 DEF Regs

-----------------------------------------------------------------------------
(* The registers that the code mentions, from the source's to the physical *)
(* ones that are left when all are substituted.                            *)

Compiled == {"peephole", "done", "running", "returned"}
Phases == Sweeps \cup {"allocate", "positions exhausted", "substitute"} \cup Compiled

Made == 1..(fresh.reg - 1)

(* ColourSlots gives stores and reloads their slot, of which the type does *)
(* not matter here.                                                        *)
InstructionsOver(X) ==
  [id : Nat \X Nat, kind : Kinds, outs : Seq(Nat), ins : Seq(Nat),
   target : Nat, slot : X, pos : Nat]

CodeOver(X) == code \in [Blocks -> Seq(InstructionsOver(X))]

Bounded ==
  /\ fresh.reg \in Nat /\ fresh.reg > NumRegs
  /\ DOMAIN subs \subseteq DOMAIN conflicts /\ \A r \in DOMAIN subs : subs[r] \in PhysRegs
  /\ DOMAIN conflicts \subseteq Made /\ \A r \in DOMAIN conflicts : conflicts[r] \subseteq Made
  /\ \A i \in ranges : i.reg \in Made

Operable(R) == \A b \in Blocks : \A k \in DOMAIN code[b] : Operands(code[b][k]) \subseteq R

Physical == \A b \in Blocks : \A k \in DOMAIN code[b] : Mentions(code[b][k]) \subseteq PhysRegs

(* Every operand is a register made before.  While there is a queue it is  *)
(* allocated or in it, and has its place; so when the queue is empty it is *)
(* allocated, and substituting leaves physical registers only.             *)
RegistersInv ==
  /\ phase \in Phases /\ Bounded /\ \E X : CodeOver(X)
  /\ phase \in Sweeps => conflicts = Empty /\ ranges = {}
  /\ phase = "allocate" => TidyCode /\ queue \in Seq({r \in Nat : IsVirtual(r)})
  /\ phase = "positions exhausted" => Operable(DOMAIN conflicts)
  /\ phase = "substitute" => Operable(DOMAIN subs)
  /\ phase \in Compiled => Physical

(* The instructions of the source, and of a walk.                          *)
LEMMA InstructionsAreOver ==
  /\ InstructionsOver(Nat) = Instructions
  /\ \A s \in RealBlocks : s \in Seq(InstructionsOver(Nat))
  BY DEF InstructionsOver, Instructions, RealBlocks

(* A function as it was written.                                           *)
LEMMA SourceIsOver ==
  ASSUME source \in Programs, code = source.blocks
  PROVE  CodeOver(Nat)
<1>1. code \in Seq(Seq(InstructionsOver(Nat)))
  BY SourceCodeFacts, InstructionsAreOver
<1> DEFINE X == Seq(InstructionsOver(Nat))
<1> HIDE DEF X
<1>2. code \in Seq(X)
  BY <1>1 DEF X
<1>3. code \in [DOMAIN code -> X]
  BY <1>2
<1> QED
  BY <1>3 DEF X, CodeOver, Blocks

(* The registers of the source are made, and nothing is allocated.         *)
LEMMA InitRegisters == Init => RegistersInv
<1> SUFFICES ASSUME Init PROVE RegistersInv
  OBVIOUS
<1>1. /\ source \in Programs /\ phase = "first sweep" /\ code = source.blocks
      /\ subs = Empty /\ conflicts = Empty /\ ranges = {}
      /\ fresh = [reg |-> FirstPcs(source) + Len(PreservedSeq), id |-> 1]
  BY DEF Init, AllocInit
<1>2. fresh.reg \in Nat /\ fresh.reg > NumRegs
  <2>1. FirstPcs(source) \in Nat /\ FirstPcs(source) > NumRegs /\ NumRegs \in Nat /\ Len(PreservedSeq) \in Nat
    BY <1>1, StartingRegisters, RegisterAssumption
  <2> DEFINE first == FirstPcs(source)
             n == Len(PreservedSeq)
  <2>2. fresh.reg = first + n
    BY <1>1
  <2> HIDE DEF first, n
  <2>3. first \in Nat /\ first > NumRegs /\ n \in Nat /\ NumRegs \in Nat
    BY <2>1 DEF first, n
  <2> QED
    BY <2>2, <2>3
<1>3. Bounded
  BY <1>1, <1>2 DEF Bounded, Empty
<1>4. CodeOver(Nat)
  BY <1>1, SourceIsOver
<1> QED
  BY <1>1, <1>3, <1>4 DEF RegistersInv, Phases, Sweeps, Compiled

(* A sweep changes the live sets only.                                     *)
LEMMA SweepRegisters ==
  ASSUME RegistersInv, SweepAll
  PROVE  RegistersInv'
<1>1. /\ phase \in Sweeps /\ phase' \in Sweeps
      /\ UNCHANGED <<code, ranges, conflicts, subs, fresh>>
  BY DEF SweepAll, Sweeps
<1>2. Bounded' /\ \E X : CodeOver(X)'
  BY <1>1 DEF RegistersInv, Bounded, Made, CodeOver, Blocks
<1>3. conflicts' = Empty /\ ranges' = {}
  BY <1>1 DEF RegistersInv
<1> QED
  BY <1>1, <1>2, <1>3 DEF RegistersInv, Phases, Sweeps, Compiled

(* Every operand gets its place, and a live range that takes it into the   *)
(* queue.                                                                  *)
LEMMA PrepareRegisters ==
  ASSUME AllocationInv, AllocationInv', RegistersInv, Prepare
  PROVE  RegistersInv'
<1> DEFINE B == DOMAIN source.blocks
           R == Known(source)
           intervals(b) == BlockIntervals(code'[b], b, flow.out[b])
<1>1. /\ source \in Programs /\ phase = "ranges" /\ SourceCode
  BY DEF AllocationInv, Prepare, Sweeps
<1>2. /\ code' = [b \in B |-> Renumbered(code[b])]
      /\ places' = UNION {PlacesOf(code'[b], b) : b \in B}
      /\ ranges' = UNION {intervals(b) : b \in B}
      /\ conflicts' = Interference(ranges')
      /\ queue' = AllocationOrder(ranges')
      /\ phase' = "allocate"
      /\ UNCHANGED <<source, subs, fresh>>
  BY <1>1 DEF Prepare, Blocks, SourceCode
<1>3. /\ code = source.blocks /\ flow.out \in [B -> SUBSET R]
      /\ fresh = [reg |-> FirstPcs(source) + Len(PreservedSeq), id |-> 1]
      /\ DOMAIN subs = {} /\ B \in SUBSET Nat /\ IsFiniteSet(B)
  BY <1>1, SourceCodeFacts DEF SourceCode, Blocks, Empty
<1>4. R \in SUBSET Nat /\ IsFiniteSet(R) /\ R \in SUBSET Made
  <2>1. \A r \in R : r \in Nat /\ r < fresh.reg
    BY <1>1, <1>3, StartingRegisters
  <2>2. R \in SUBSET Nat
    BY <2>1
  <2>3. fresh.reg \in Nat
    BY DEF RegistersInv, Bounded
  <2>4. IsFiniteSet(R)
    <3> DEFINE n == fresh.reg
    <3>1. n \in Nat /\ \A r \in R : r <= n
      BY <2>1, <2>3
    <3> HIDE DEF n, R
    <3> QED
      BY <2>2, <3>1, FS_BoundedSetOfNaturals
  <2>5. \A r \in R : r > 0
    <3>1. NumRegs \in Nat
      BY RegisterAssumption
    <3>2. ASSUME NEW r \in R PROVE r > 0
      <4>1. CASE r \in PhysRegs
        BY <3>1, <4>1 DEF PhysRegs
      <4>2. CASE r \in SourceRegs(source)
        <5>1. IsVirtual(r)
          BY <1>1, <4>2, ProgramsAssumption
        <5> QED
          BY <2>1, <3>1, <5>1 DEF IsVirtual
      <4>3. CASE r \in ToSet(PcsRegs(source))
        <5>1. IsVirtual(r)
          BY <1>1, <4>3, StartingRegisters
        <5> QED
          BY <2>1, <3>1, <5>1 DEF IsVirtual
      <4> QED
        BY <3>2, <4>1, <4>2, <4>3 DEF Known
    <3> QED
      BY <3>2
  <2> HIDE DEF R
  <2> QED
    BY <2>1, <2>2, <2>3, <2>4, <2>5 DEF Made
<1>5. ASSUME NEW b \in B
      PROVE  /\ code'[b] \in Seq(Instructions) /\ code'[b] # <<>>
             /\ \A k \in DOMAIN code'[b] :
                  /\ code'[b][k].id = <<b, k>> /\ code'[b][k].pos = k * Gap /\ code'[b][k].pos > 0
                  /\ Mentions(code'[b][k]) \in SUBSET R
  <2> DEFINE s == source.blocks[b]
  <2>1. /\ s # <<>> /\ s \in Seq(Instructions)
        /\ \A k \in DOMAIN s :
             Ins(s[k]) \in SUBSET SourceRegs(source) /\ Outs(s[k]) \in SUBSET SourceRegs(source)
    <3>1. source.blocks \in Seq(Seq(Instructions))
      BY <1>1, SourceCodeFacts
    <3>2. s \in Seq(Instructions)
      BY <3>1
    <3> QED
      BY <1>1, <3>2, SourceCodeFacts
  <2>2. \A k \in DOMAIN s : s[k].id = <<b, k>>
    BY <1>1, ProgramsAssumption
  <2>3. code'[b] = [k \in DOMAIN s |-> [s[k] EXCEPT !.pos = k * Gap]]
    BY <1>2, <1>3 DEF Renumbered
  <2> HIDE DEF s
  <2>4. ASSUME NEW k \in DOMAIN s
        PROVE  /\ code'[b][k] \in Instructions /\ code'[b][k].id = s[k].id
               /\ code'[b][k].outs = s[k].outs /\ code'[b][k].ins = s[k].ins
               /\ code'[b][k].kind = s[k].kind /\ code'[b][k].pos = k * Gap /\ k * Gap > 0
    <3>1. s[k] \in Instructions /\ k \in Nat \ {0} /\ Gap \in Nat \ {0}
      BY <2>1, RegisterAssumption
    <3>2. k * Gap \in Nat /\ k * Gap > 0
      BY <3>1
    <3>3. code'[b][k] = [s[k] EXCEPT !.pos = k * Gap]
      BY <2>3
    <3> QED
      BY <3>1, <3>2, <3>3 DEF Instructions
  <2>5. code'[b] \in Seq(Instructions) /\ DOMAIN code'[b] = DOMAIN s /\ code'[b] # <<>>
    BY <2>1, <2>3, <2>4
  <2>6. ASSUME NEW k \in DOMAIN s PROVE Mentions(code'[b][k]) \in SUBSET R
    BY <2>1, <2>4 DEF Mentions, Outs, Ins, ClobberedBy, Known
  <2> QED
    BY <2>2, <2>4, <2>5, <2>6
<1> HIDE DEF R, intervals
<1>6. ASSUME NEW b \in B
      PROVE  /\ IsFiniteSet(intervals(b)) /\ intervals(b) \in SUBSET Intervals
             /\ Regs(intervals(b)) \in SUBSET R
             /\ \A k \in DOMAIN code'[b] : Operands(code'[b][k]) \in SUBSET Regs(intervals(b))
  <2> DEFINE block == code'[b]
             live == flow.out[b]
  <2>1. /\ block \in Seq(Instructions) /\ block # <<>> /\ live \in SUBSET R /\ b \in Nat
        /\ \A k \in DOMAIN block : block[k].pos > 0 /\ Mentions(block[k]) \in SUBSET R
    BY <1>3, <1>5
  <2> HIDE DEF block, live
  <2>2. /\ IsFiniteSet(BlockIntervals(block, b, live)) /\ BlockIntervals(block, b, live) \in SUBSET Intervals
        /\ Regs(BlockIntervals(block, b, live)) \in SUBSET R
        /\ \A k \in DOMAIN block : Operands(block[k]) \in SUBSET Regs(BlockIntervals(block, b, live))
    BY <1>4, <2>1, BlockIntervalsFacts
  <2> QED
    BY <2>2 DEF block, live, intervals
<1>7. IsFiniteSet(ranges') /\ ranges' \in SUBSET Intervals
  <2> DEFINE f == [b \in B |-> intervals(b)]
             all == {f[b] : b \in B}
  <2>1. IsFiniteSet(all)
    <3> HIDE DEF f
    <3> QED
      BY <1>3, FiniteImage
  <2>2. \A I \in all : IsFiniteSet(I)
    BY <1>6
  <2>3. ranges' = UNION all
    BY <1>2
  <2>4. \A i \in ranges' : i \in Intervals
    BY <1>2, <1>6
  <2> HIDE DEF all
  <2> QED
    BY <2>1, <2>2, <2>3, <2>4, FS_UNION
<1>8. \A i \in ranges' : i.reg \in R
  BY <1>2, <1>6 DEF Regs
<1>9. DOMAIN conflicts' = Regs(ranges') /\ Regs(ranges') \in SUBSET R
      /\ \A r \in Regs(ranges') : conflicts'[r] \in SUBSET R
  BY <1>2, <1>8 DEF Interference, Regs
<1>10. Bounded'
  <2>1. Made' = Made
    BY <1>2 DEF Made
  <2>2. fresh'.reg \in Nat /\ fresh'.reg > NumRegs
    BY <1>2 DEF RegistersInv, Bounded
  <2> QED
    BY <1>2, <1>3, <1>4, <1>8, <1>9, <2>1, <2>2 DEF Bounded
<1>11. /\ queue' \in Seq({r \in Nat : IsVirtual(r)})
       /\ ToSet(queue') = {r \in Regs(ranges') : IsVirtual(r)}
  BY <1>2, <1>7, AllocationOrderLists
<1>12. ASSUME NEW b \in B PROVE Numbered(code'[b], fresh'.id)
  <2>1. b # 0
    <3>1. source.blocks \in Seq(Seq(Instructions))
      BY <1>1, SourceCodeFacts
    <3> QED
      BY <3>1
  <2> QED
    BY <1>5, <2>1 DEF Numbered
<1>13. ASSUME NEW b \in B PROVE Ordered(code'[b])
  <2>1. ASSUME NEW j \in DOMAIN code'[b], NEW k \in DOMAIN code'[b], j < k
        PROVE  code'[b][j].pos < code'[b][k].pos
    <3>1. j \in Nat /\ k \in Nat /\ Gap \in Nat \ {0}
      BY <1>5, RegisterAssumption
    <3>2. j * Gap < k * Gap
      <4>1. k * Gap = j * Gap + (k - j) * Gap
        BY <3>1
      <4>2. (k - j) * Gap > 0
        BY <2>1, <3>1
      <4>3. j * Gap \in Nat /\ (k - j) * Gap \in Int
        BY <3>1
      <4> QED
        BY <4>1, <4>2, <4>3
    <3> QED
      BY <1>5, <3>2
  <2> QED
    BY <2>1 DEF Ordered
<1>14. ASSUME NEW b \in B, NEW k \in DOMAIN code'[b], NEW r \in Operands(code'[b][k])
       PROVE  r \in Awaited' /\ <<b, r, code'[b][k].id>> \in places'
  <2>1. r \in Regs(ranges')
    <3>1. r \in Regs(intervals(b))
      BY <1>6, <1>14
    <3> QED
      BY <1>2, <3>1 DEF Regs
  <2>2. IsVirtual(r)
    <3> DEFINE s == source.blocks[b]
    <3>1. k \in DOMAIN s /\ code'[b][k] = [s[k] EXCEPT !.pos = k * Gap]
      BY <1>2, <1>3 DEF Renumbered
    <3>2. s[k] \in Instructions /\ Ins(s[k]) \in SUBSET SourceRegs(source) /\ Outs(s[k]) \in SUBSET SourceRegs(source)
      <4>1. source.blocks \in Seq(Seq(Instructions))
        BY <1>1, SourceCodeFacts
      <4>2. s \in Seq(Instructions)
        BY <4>1
      <4>3. s[k] \in Instructions
        BY <3>1, <4>2
      <4> QED
        BY <1>1, <3>1, <4>3, SourceCodeFacts
    <3> DEFINE i == s[k]
    <3>3. code'[b][k].outs = i.outs /\ code'[b][k].ins = i.ins
      <4>1. i \in Instructions /\ code'[b][k] = [i EXCEPT !.pos = k * Gap]
        BY <3>1, <3>2
      <4> HIDE DEF i
      <4> QED
        BY <4>1 DEF Instructions
    <3>4. r \in SourceRegs(source)
      BY <1>14, <3>2, <3>3 DEF Operands, Outs, Ins
    <3> QED
      BY <1>1, <3>4, ProgramsAssumption
  <2>3. <<b, r, code'[b][k].id>> \in PlacesOf(code'[b], b)
    <3>1. r \in Mentions(code'[b][k])
      BY <1>14 DEF Operands, Mentions
    <3> QED
      BY <1>14, <3>1 DEF PlacesOf
  <2>4. r \in ToSet(queue') /\ r \in DOMAIN conflicts'
    BY <1>9, <1>11, <2>1, <2>2
  <2> QED
    BY <1>2, <2>3, <2>4 DEF Awaited
<1>15. DOMAIN code' = B
  BY <1>2
<1>16. TidyCode'
  BY <1>12, <1>13, <1>14, <1>15 DEF TidyCode, TidyBlock
<1>17. CodeOver(Nat)'
  BY <1>5, <1>2, InstructionsAreOver DEF CodeOver, Blocks
<1> QED
  BY <1>2, <1>10, <1>11, <1>16, <1>17 DEF RegistersInv, Phases, Sweeps, Compiled

(* What leaves the queue is allocated, or no longer in the code.           *)
LEMMA QueueTurns ==
  ASSUME NEW R, NEW q \in Seq(R), q # <<>>
  PROVE  /\ Tail(q) \in Seq(R) /\ Head(q) \in R /\ Head(q) \in ToSet(q)
         /\ ToSet(q) = {Head(q)} \cup ToSet(Tail(q))
<1>1. /\ Len(q) \in Nat /\ Len(q) > 0 /\ DOMAIN q = 1..Len(q) /\ Head(q) = q[1]
      /\ Tail(q) \in Seq(R) /\ Len(Tail(q)) = Len(q) - 1
      /\ \A k \in 1..(Len(q) - 1) : Tail(q)[k] = q[k + 1]
  OBVIOUS
<1>2. 1 \in DOMAIN q
  BY <1>1
<1> DEFINE t == Tail(q)
<1>3. DOMAIN t = 1..(Len(q) - 1)
  BY <1>1
<1> HIDE DEF t
<1>4. ASSUME NEW x \in ToSet(q) PROVE x = q[1] \/ x \in ToSet(t)
  <2>1. PICK k \in DOMAIN q : x = q[k]
    BY DEF ToSet
  <2>2. CASE k = 1
    BY <2>1, <2>2
  <2>3. CASE k # 1
    <3>1. k - 1 \in 1..(Len(q) - 1) /\ (k - 1) + 1 = k
      BY <1>1, <2>3
    <3>2. t[k - 1] = q[k]
      BY <1>1, <3>1 DEF t
    <3> QED
      BY <1>3, <2>1, <3>1, <3>2 DEF ToSet
  <2> QED
    BY <2>2, <2>3
<1>5. ASSUME NEW x \in ToSet(t) PROVE x \in ToSet(q)
  <2>1. PICK k \in 1..(Len(q) - 1) : x = t[k]
    BY <1>3 DEF ToSet
  <2>2. k + 1 \in DOMAIN q /\ t[k] = q[k + 1]
    BY <1>1, <2>1 DEF t
  <2> QED
    BY <2>1, <2>2 DEF ToSet
<1>6. q[1] \in ToSet(q) /\ q[1] \in R
  BY <1>2 DEF ToSet
<1>7. ToSet(q) = {q[1]} \cup ToSet(t)
  BY <1>4, <1>5, <1>6
<1> QED
  BY <1>1, <1>6, <1>7 DEF t

(* A register that is not wanted any more waits for nothing.               *)
LEMMA SkipRegisters ==
  ASSUME RegistersInv, Skip
  PROVE  RegistersInv'
<1>1. /\ phase = "allocate" /\ queue # <<>> /\ queue' = Tail(queue)
      /\ Head(queue) \in DOMAIN subs \/ Head(queue) \notin DOMAIN conflicts
      /\ UNCHANGED <<phase, code, places, ranges, conflicts, subs, fresh>>
  BY DEF Skip
<1>2. TidyCode /\ queue \in Seq({r \in Nat : IsVirtual(r)})
  BY <1>1 DEF RegistersInv
<1>3. queue' \in Seq({r \in Nat : IsVirtual(r)}) /\ ToSet(queue) = {Head(queue)} \cup ToSet(queue')
  BY <1>1, <1>2, QueueTurns
<1>4. Awaited' = Awaited
  BY <1>1, <1>3 DEF Awaited
<1>5. TidyCode'
  BY <1>1, <1>2, <1>4 DEF TidyCode, TidyBlock, Ordered, Numbered
<1>6. Bounded' /\ \E X : CodeOver(X)'
  BY <1>1 DEF RegistersInv, Bounded, Made, CodeOver, Blocks
<1> QED
  BY <1>1, <1>3, <1>5, <1>6 DEF RegistersInv, Phases, Sweeps, Compiled

(* What leaves the queue is allocated.                                     *)
LEMMA AssignRegisters ==
  ASSUME AllocationInv, RegistersInv, Assign
  PROVE  RegistersInv'
<1> DEFINE r == Head(queue)
           p == Min(FreeFor(r))
<1>1. /\ phase = "allocate" /\ queue # <<>> /\ queue' = Tail(queue) /\ SpillableCode
      /\ r \in DOMAIN conflicts /\ FreeFor(r) # {}
      /\ subs' = [x \in DOMAIN subs \cup {r} |-> IF x = r THEN p ELSE subs[x]]
      /\ UNCHANGED <<phase, code, places, ranges, conflicts, fresh>>
  BY DEF AllocationInv, Assign, Wanted
<1>2. p \in PhysRegs
  <2>1. ChoicesFor(r) \in SUBSET PhysRegs
    <3>1. choices \in Restrictions
      BY <1>1 DEF SpillableCode
    <3>2. PICK A \in SUBSET Nat : choices \in [A -> SUBSET PhysRegs]
      BY <3>1 DEF Restrictions
    <3> QED
      BY <3>2 DEF ChoicesFor
  <2>2. FreeFor(r) \in SUBSET PhysRegs
    BY <2>1 DEF FreeFor
  <2>3. IsFiniteSet(PhysRegs) /\ PhysRegs \in SUBSET Int
    BY RegisterAssumption, FS_Interval DEF PhysRegs
  <2>4. FreeFor(r) \in SUBSET Int /\ IsFiniteSet(FreeFor(r))
    BY <2>2, <2>3, FS_Subset
  <2>5. p \in FreeFor(r)
    BY <1>1, <2>4, FiniteExtremes
  <2> QED
    BY <2>2, <2>5
<1> HIDE DEF p
<1>3. TidyCode /\ queue \in Seq({x \in Nat : IsVirtual(x)})
  BY <1>1 DEF RegistersInv
<1>4. queue' \in Seq({x \in Nat : IsVirtual(x)}) /\ ToSet(queue) = {r} \cup ToSet(queue')
  BY <1>1, <1>3, QueueTurns
<1> HIDE DEF r
<1>5. DOMAIN subs' = DOMAIN subs \cup {r} /\ subs'[r] = p /\ \A x \in DOMAIN subs \ {r} : subs'[x] = subs[x]
  BY <1>1
<1>6. Awaited \in SUBSET Awaited'
  BY <1>1, <1>4, <1>5 DEF Awaited
<1>7. TidyCode'
  BY <1>1, <1>3, <1>6 DEF TidyCode, TidyBlock, Ordered, Numbered
<1>8. Bounded'
  BY <1>1, <1>2, <1>5 DEF RegistersInv, Bounded, Made
<1>9. \E X : CodeOver(X)'
  BY <1>1 DEF RegistersInv, CodeOver, Blocks
<1> QED
  BY <1>1, <1>4, <1>7, <1>8, <1>9 DEF RegistersInv, Phases, Sweeps, Compiled

(* A victim is a virtual register made before.                             *)
LEMMA VictimIsSpillable ==
  ASSUME RegistersInv, phase = "allocate", queue # <<>>, NEW v \in Victims(Head(queue))
  PROVE  Spillable(v)
<1>1. Head(queue) \in {r \in Nat : IsVirtual(r)}
  BY QueueTurns DEF RegistersInv
<1>2. v \in Candidates(Head(queue)) /\ \E i \in ranges : v = i.reg
  BY DEF Victims, CostsFor
<1>3. IsVirtual(v)
  BY <1>1, <1>2 DEF Candidates
<1>4. fresh.reg \in Nat /\ fresh.reg > NumRegs /\ v \in 1..(fresh.reg - 1)
  BY <1>2 DEF RegistersInv, Bounded, Made
<1>5. v \in Nat /\ v < fresh.reg
  BY <1>4
<1> QED
  BY <1>3, <1>4, <1>5 DEF Spillable

(* A spill renames v everywhere: what it leaves is made, and awaited.      *)
LEMMA SpillRegisters ==
  ASSUME AllocationInv, AllocationInv', RegistersInv, Spill
  PROVE  RegistersInv'
<1> DEFINE cause == Head(queue)
<1>1. PICK v \in Victims(cause) : SpillFor(v, cause, Spilled(v, cause))
  BY DEF Spill
<1> DEFINE w == Spilled(v, cause)
           new == w.live
           kept(b) == Part(w.blocks[b], {k \in DOMAIN w.blocks[b] :
                                           <<b, w.blocks[b][k].id>> \notin w.erased})
           T == Regs(w.live) \cup {p[2] : p \in w.at} \cup {cause}
           V == {r \in Nat : IsVirtual(r)}
<1>2. /\ source \in Programs /\ phase = "allocate" /\ SpillableCode /\ queue # <<>>
      /\ TidyCode /\ queue \in Seq(V) /\ Bounded
  BY DEF AllocationInv, Spill, RegistersInv
<1>3. Spillable(v)
  BY <1>2, VictimIsSpillable
<1>4. PICK D \in SUBSET Nat : IsFiniteSet(D) /\ DOMAIN code \in SUBSET D /\ w \in Walked(D, v)
  BY <1>2, SpilledIsWalked
<1>5. Covering(w, v, {})
  BY <1>2, <1>3, SpilledCovers
<1>6. /\ code' = [b \in DOMAIN w.blocks |-> kept(b)]
      /\ places' = {p \in places \cup w.at : <<p[1], p[3]>> \notin w.erased}
      /\ ranges' = {i \in ranges : i.reg # v} \cup new
      /\ conflicts' = WithInterference(v, new)
      /\ queue' = Tail(queue) \o Ascending(T)
      /\ subs' = RestrictDomain(subs, LAMBDA r : r # v)
      /\ fresh' = w.next
      /\ phase' = IF \A b \in DOMAIN w.blocks : Increasing(w.blocks[b])
                  THEN "allocate" ELSE "positions exhausted"
  BY <1>1 DEF SpillFor, Requeued
<1> HIDE DEF w
<1>7. w \in WalkFields(D) /\ LivesAnew(w, v)
  BY <1>4 DEF Walked
<1>8. /\ w.blocks \in [D -> RealBlocks] /\ DOMAIN w.blocks = D
      /\ w.at \in SUBSET PlacesIn(D) /\ w.live \in SUBSET Intervals /\ w.pieces \in SUBSET Nat
      /\ fresh.reg \in Nat /\ w.next.reg \in Nat /\ w.next.reg >= fresh.reg /\ fresh.reg > NumRegs
      /\ NumRegs \in Nat /\ v \in Nat /\ v < fresh.reg /\ IsVirtual(v)
  BY <1>2, <1>3, <1>7, RegisterAssumption DEF WalkFields, LivesAnew, Bounded, Spillable
<1>9. ASSUME NEW b \in D
      PROVE  /\ kept(b) \in Seq(Instructions)
             /\ Numbered(kept(b), w.next.id) /\ (Increasing(w.blocks[b]) => Ordered(kept(b)))
             /\ \A k \in DOMAIN kept(b) : \E j \in DOMAIN w.blocks[b] :
                  kept(b)[k] = w.blocks[b][j] /\ <<b, w.blocks[b][j].id>> \notin w.erased
  <2> DEFINE s == w.blocks[b]
             K == {k \in DOMAIN s : <<b, s[k].id>> \notin w.erased}
  <2>1. s \in Seq(Instructions) /\ K \in SUBSET DOMAIN s
    BY <1>8 DEF RealBlocks
  <2>2. Numbered(s, w.next.id)
    BY <1>5, <1>8 DEF Covering
  <2>3. \A k \in K : k \in DOMAIN s /\ <<b, s[k].id>> \notin w.erased
    OBVIOUS
  <2>4. kept(b) = Part(s, K)
    OBVIOUS
  <2> HIDE DEF s, K
  <2>5. Part(s, K) \in Seq(Instructions) /\ \A n \in DOMAIN Part(s, K) : \E k \in K : Part(s, K)[n] = s[k]
    BY <2>1, PartOfSequence
  <2>6. Numbered(Part(s, K), w.next.id) /\ (Ordered(s) => Ordered(Part(s, K)))
    BY <2>1, <2>2, PartIsTidy
  <2>7. Increasing(s) => Ordered(s)
    BY <2>1, IncreasingIsOrdered
  <2> HIDE DEF kept
  <2> QED
    BY <2>3, <2>4, <2>5, <2>6, <2>7 DEF s
<1> HIDE DEF kept
<1>10. /\ DOMAIN code' = D /\ \A b \in D : code'[b] = kept(b)
       /\ code' = [b \in D |-> kept(b)]
  BY <1>6, <1>8
<1>11. ASSUME NEW i \in new PROVE i.reg \in 1..(w.next.reg - 1) /\ IsVirtual(i.reg)
  <2>1. CASE i.reg \in w.pieces
    <3>1. i.reg \in Nat /\ fresh.reg <= i.reg /\ i.reg < w.next.reg
      BY <1>7, <1>8, <2>1 DEF LivesAnew
    <3> QED
      BY <1>8, <3>1 DEF IsVirtual
  <2>2. CASE i.reg = v
    BY <1>8, <2>2 DEF IsVirtual
  <2> QED
    BY <1>7, <2>1, <2>2 DEF LivesAnew
<1>12. Made' = 1..(w.next.reg - 1) /\ Made \in SUBSET Made'
  <2> DEFINE before == fresh.reg
             after == w.next.reg
  <2>1. Made' = 1..(after - 1)
    BY <1>6 DEF Made
  <2>2. before \in Nat /\ after \in Nat /\ before <= after
    BY <1>8
  <2>3. Made = 1..(before - 1)
    BY DEF Made
  <2> HIDE DEF before, after
  <2>4. 1..(before - 1) \in SUBSET (1..(after - 1))
    BY <2>2
  <2>5. Made' = 1..(after - 1) /\ Made \in SUBSET Made'
    BY <2>1, <2>3, <2>4
  <2> QED
    BY <2>5 DEF after
<1>13. \A i \in ranges' : i.reg \in Made'
  BY <1>2, <1>6, <1>11, <1>12 DEF Bounded
<1>14. /\ DOMAIN conflicts' = (DOMAIN conflicts \ {v}) \cup Regs(new)
       /\ \A r \in DOMAIN conflicts' : conflicts'[r] \in SUBSET Made'
  <2> DEFINE meets == {<<p[1].reg, p[2].reg>> : p \in {q \in new \X ranges' : Overlap(q[1], q[2])}}
             pairs == {p \in meets \cup {<<q[2], q[1]>> : q \in meets} : p[1] # p[2]}
  <2>1. conflicts' = [r \in (DOMAIN conflicts \ {v}) \cup Regs(new) |->
         (IF r \in DOMAIN conflicts /\ r # v THEN conflicts[r] \ {v} ELSE {})
           \cup {p[2] : p \in {p \in pairs : p[1] = r}}]
    BY <1>6 DEF WithInterference
  <2>2. \A p \in meets : p[1] \in Made' /\ p[2] \in Made'
    BY <1>11, <1>12, <1>13
  <2> HIDE DEF meets
  <2>3. \A p \in pairs : p[2] \in Made'
    BY <2>2
  <2> HIDE DEF pairs
  <2>4. \A r \in DOMAIN conflicts : conflicts[r] \in SUBSET Made'
    BY <1>2, <1>12 DEF Bounded
  <2> QED
    BY <2>1, <2>3, <2>4
<1>15. DOMAIN subs' = DOMAIN subs \ {v} /\ \A r \in DOMAIN subs \ {v} : subs'[r] = subs[r]
  BY <1>6 DEF RestrictDomain, Restrict
<1>16. Bounded'
  <2>1. fresh'.reg = w.next.reg /\ fresh'.reg \in Nat /\ fresh'.reg > NumRegs
    <3> DEFINE before == fresh.reg
               after == w.next.reg
    <3>1. fresh'.reg = after
      BY <1>6
    <3>2. before \in Nat /\ after \in Nat /\ before <= after /\ before > NumRegs /\ NumRegs \in Nat
      BY <1>8
    <3> HIDE DEF before, after
    <3>3. fresh'.reg = after /\ fresh'.reg \in Nat /\ fresh'.reg > NumRegs
      BY <3>1, <3>2
    <3> QED
      BY <3>3 DEF after
  <2>2. DOMAIN conflicts' \subseteq Made'
    BY <1>2, <1>11, <1>12, <1>14 DEF Bounded, Regs
  <2>3. DOMAIN subs' \subseteq DOMAIN conflicts' /\ \A r \in DOMAIN subs' : subs'[r] \in PhysRegs
    BY <1>2, <1>14, <1>15 DEF Bounded
  <2> QED
    BY <1>13, <1>14, <2>1, <2>2, <2>3 DEF Bounded
<1>17. CodeOver(Nat)'
  <2> DEFINE X == Seq(InstructionsOver(Nat))
  <2>1. \A b \in D : kept(b) \in X
    BY <1>9, InstructionsAreOver
  <2> HIDE DEF X
  <2>2. code' \in [D -> X]
    BY <1>10, <2>1
  <2> QED
    BY <1>10, <2>2 DEF X, CodeOver, Blocks
<1>18. cause \in V /\ Tail(queue) \in Seq(V) /\ ToSet(queue) = {cause} \cup ToSet(Tail(queue))
  <2> HIDE DEF V
  <2> QED
    BY <1>2, QueueTurns
<1>19. T \in SUBSET V /\ IsFiniteSet(T)
  <2> DEFINE f == [p \in w.at |-> p[2]]
  <2>1. Listed(w)
    BY <1>5 DEF Covering
  <2>2. IsFiniteSet(Regs(w.live))
    BY <2>1, RegsAreFinite DEF Listed
  <2>3. {p[2] : p \in w.at} = {f[p] : p \in w.at}
    OBVIOUS
  <2> HIDE DEF f
  <2>4. IsFiniteSet({p[2] : p \in w.at})
    <3>1. IsFiniteSet(w.at)
      BY <2>1 DEF Listed
    <3> DEFINE Q == w.at
    <3>2. IsFiniteSet(Q)
      BY <3>1
    <3> HIDE DEF Q
    <3>3. IsFiniteSet({f[p] : p \in Q})
      BY ONLY <3>2, FiniteImage
    <3> QED
      BY <2>3, <3>3 DEF Q
  <2>5. IsFiniteSet(T)
    <3> DEFINE A == Regs(w.live)
               C == {p[2] : p \in w.at}
    <3>1. IsFiniteSet(A) /\ IsFiniteSet(C)
      BY <2>2, <2>4
    <3> HIDE DEF A, C
    <3>2. IsFiniteSet(A \cup C)
      BY <3>1, FS_Union
    <3>3. IsFiniteSet((A \cup C) \cup {cause})
      BY <3>2, FS_AddElement
    <3> QED
      BY <3>3 DEF A, C
  <2>6. Regs(w.live) \in SUBSET V
    BY <1>11 DEF Regs
  <2>7. {p[2] : p \in w.at} \in SUBSET V
    BY <1>8, <2>1 DEF Listed, PlacesIn
  <2> QED
    BY <1>18, <2>5, <2>6, <2>7
<1>20. Ascending(T) \in Seq(V) /\ ToSet(Ascending(T)) = T
  <2> HIDE DEF T, V
  <2>0. T \in SUBSET Int
    BY <1>19 DEF V
  <2>1. /\ Ascending(T) \in [1..Cardinality(T) -> T] /\ Cardinality(T) \in Nat
        /\ \A x \in T : \E k \in 1..Cardinality(T) : Ascending(T)[k] = x
    BY <1>19, <2>0, AscendingLists
  <2>2. ToSet(Ascending(T)) = T
    BY <2>1 DEF ToSet
  <2>3. Ascending(T) \in [1..Cardinality(T) -> V]
    BY <1>19, <2>1
  <2> QED
    BY <2>1, <2>2, <2>3
<1>21. queue' \in Seq(V) /\ ToSet(queue') = ToSet(Tail(queue)) \cup T
  <2> DEFINE a == Tail(queue)
             c == Ascending(T)
  <2>1. a \in Seq(V) /\ c \in Seq(V) /\ queue' = a \o c
    BY <1>6, <1>18, <1>20
  <2>2. ToSet(c) = T
    BY <1>20
  <2> HIDE DEF a, c, V, T
  <2>3. queue' \in Seq(V)
    BY <2>1
  <2>4. ToSet(a \o c) = ToSet(a) \cup ToSet(c)
    <3>1. /\ Len(a) \in Nat /\ Len(c) \in Nat /\ DOMAIN a = 1..Len(a) /\ DOMAIN c = 1..Len(c)
          /\ DOMAIN (a \o c) = 1..(Len(a) + Len(c))
          /\ \A k \in 1..Len(a) : (a \o c)[k] = a[k]
          /\ \A k \in 1..Len(c) : (a \o c)[Len(a) + k] = c[k]
      BY <2>1
    <3> DEFINE t == a \o c
    <3> HIDE DEF t
    <3>2. ASSUME NEW x \in ToSet(t) PROVE x \in ToSet(a) \cup ToSet(c)
      <4>1. PICK k \in 1..(Len(a) + Len(c)) : x = t[k]
        BY <3>1 DEF ToSet, t
      <4>2. CASE k <= Len(a)
        <5>1. k \in 1..Len(a) /\ t[k] = a[k]
          BY <3>1, <4>1, <4>2 DEF t
        <5> QED
          BY <3>1, <4>1, <5>1 DEF ToSet
      <4>3. CASE k > Len(a)
        <5>1. k - Len(a) \in 1..Len(c) /\ Len(a) + (k - Len(a)) = k
          BY <3>1, <4>1, <4>3
        <5>2. t[k] = c[k - Len(a)]
          BY <3>1, <5>1 DEF t
        <5> QED
          BY <3>1, <4>1, <5>1, <5>2 DEF ToSet
      <4> QED
        BY <3>1, <4>1, <4>2, <4>3
    <3>3. ASSUME NEW x \in ToSet(a) PROVE x \in ToSet(t)
      <4>1. PICK k \in 1..Len(a) : x = a[k]
        BY <3>1 DEF ToSet
      <4>2. k \in 1..(Len(a) + Len(c)) /\ t[k] = a[k]
        BY <3>1, <4>1 DEF t
      <4> QED
        BY <3>1, <4>1, <4>2 DEF ToSet, t
    <3>4. ASSUME NEW x \in ToSet(c) PROVE x \in ToSet(t)
      <4>1. PICK k \in 1..Len(c) : x = c[k]
        BY <3>1 DEF ToSet
      <4>2. Len(a) + k \in 1..(Len(a) + Len(c)) /\ t[Len(a) + k] = c[k]
        BY <3>1, <4>1 DEF t
      <4> QED
        BY <3>1, <4>1, <4>2 DEF ToSet, t
    <3> QED
      BY <3>2, <3>3, <3>4 DEF t
  <2> QED
    BY <2>1, <2>2, <2>3, <2>4 DEF a
<1> HIDE DEF V
<1>22. ASSUME NEW r \in Awaited \ {v} PROVE r \in Awaited'
  <2>1. r \in DOMAIN conflicts' /\ (r \in DOMAIN subs' \/ r \in ToSet(queue))
    BY <1>14, <1>15, <1>22 DEF Awaited
  <2>2. cause \in T
    OBVIOUS
  <2>3. r \in ToSet(queue) => r \in ToSet(queue')
    BY <1>18, <1>21, <2>2
  <2> QED
    BY <2>1, <2>3 DEF Awaited
<1>23. Regs(new) \in SUBSET Awaited'
  BY <1>14, <1>21 DEF Awaited
<1>24. ASSUME NEW b \in D, NEW k \in DOMAIN kept(b), NEW r \in Operands(kept(b)[k])
       PROVE  r \in Awaited' /\ <<b, r, kept(b)[k].id>> \in places'
  <2>1. PICK j \in DOMAIN w.blocks[b] :
          kept(b)[k] = w.blocks[b][j] /\ <<b, w.blocks[b][j].id>> \notin w.erased
    BY <1>9, <1>24
  <2> DEFINE id == w.blocks[b][j].id
             p == <<b, r, id>>
  <2>2. Accounted(w, b, v, r, id)
    BY <1>5, <1>8, <1>24, <2>1 DEF Covering, Covered
  <2>3. p[1] = b /\ p[3] = id
    OBVIOUS
  <2> HIDE DEF id
  <2>4. p \in places \cup w.at
    BY <2>2 DEF Accounted
  <2> HIDE DEF p
  <2>5. p \in places'
    BY <1>6, <2>1, <2>3, <2>4 DEF id
  <2>6. r \in Awaited'
    BY <1>22, <1>23, <2>2 DEF Accounted
  <2> QED
    BY <2>1, <2>5, <2>6 DEF p, id
<1>25. phase' = "allocate" => TidyCode'
  <2>1. ASSUME phase' = "allocate", NEW b \in D PROVE Ordered(code'[b])
    BY <1>6, <1>8, <1>9, <1>10, <2>1
  <2>2. \A b \in D : Numbered(code'[b], fresh'.id)
    BY <1>6, <1>9, <1>10
  <2>3. \A b \in D : \A k \in DOMAIN code'[b] : \A r \in Operands(code'[b][k]) :
          r \in Awaited' /\ <<b, r, code'[b][k].id>> \in places'
    BY <1>10, <1>24
  <2> QED
    BY <1>10, <2>1, <2>2, <2>3 DEF TidyCode, TidyBlock
<1>26. Operable(DOMAIN conflicts)'
  <2>1. Awaited' \in SUBSET DOMAIN conflicts'
    BY DEF Awaited
  <2> QED
    BY <1>10, <1>24, <2>1 DEF Operable, Blocks
<1>27. queue' \in Seq({r \in Nat : IsVirtual(r)})
  BY <1>21 DEF V
<1> QED
  BY <1>6, <1>16, <1>17, <1>25, <1>26, <1>27 DEF RegistersInv, Phases, Sweeps, Compiled

(* With nothing left in the queue, every operand is allocated.             *)
LEMMA ColourSlotsRegisters ==
  ASSUME RegistersInv, ColourSlots
  PROVE  RegistersInv'
<1> DEFINE of(b, k) == SlotOf(Slots, code[b][k])
           slotted(b, k) == IF code[b][k].kind \in {"str", "ldr"}
                            THEN [code[b][k] EXCEPT !.slot = of(b, k)] ELSE code[b][k]
<1>1. /\ phase = "allocate" /\ queue = <<>> /\ phase' = "substitute"
      /\ code' = [b \in Blocks |-> [k \in DOMAIN code[b] |-> slotted(b, k)]]
      /\ UNCHANGED <<ranges, conflicts, subs, fresh>>
  BY DEF ColourSlots
<1>2. PICK X : CodeOver(X)
  BY DEF RegistersInv
<1> HIDE DEF of
<1> DEFINE Z == X \cup UNION {{of(b, k) : k \in DOMAIN code[b]} : b \in Blocks}
<1>3. ASSUME NEW b \in Blocks, NEW k \in DOMAIN code[b]
      PROVE  /\ slotted(b, k) \in InstructionsOver(Z)
             /\ slotted(b, k).outs = code[b][k].outs /\ slotted(b, k).ins = code[b][k].ins
  <2> DEFINE i == code[b][k]
             n == of(b, k)
  <2>1. i \in InstructionsOver(X)
    <3> DEFINE Y == InstructionsOver(X)
    <3>1. code \in [Blocks -> Seq(Y)]
      BY <1>2 DEF CodeOver
    <3> HIDE DEF Y
    <3>2. code[b] \in Seq(Y)
      BY <3>1
    <3>3. code[b][k] \in Y
      BY <3>2
    <3> QED
      BY <3>3 DEF Y
  <2>2. n \in Z /\ X \in SUBSET Z
    OBVIOUS
  <2>3. slotted(b, k) = IF i.kind \in {"str", "ldr"} THEN [i EXCEPT !.slot = n] ELSE i
    OBVIOUS
  <2> HIDE DEF i, n, Z, slotted
  <2>4. /\ slotted(b, k) \in InstructionsOver(Z)
        /\ slotted(b, k).outs = i.outs /\ slotted(b, k).ins = i.ins
    BY <2>1, <2>2, <2>3 DEF InstructionsOver
  <2> QED
    BY <2>4 DEF i
<1> HIDE DEF Z, slotted
<1>4. PICK V : \A b \in Blocks : \A k \in DOMAIN code[b] : slotted(b, k) \in InstructionsOver(V)
  BY <1>3
<1>5. CodeOver(V)'
  <2> DEFINE Y == InstructionsOver(V)
  <2>1. ASSUME NEW b \in Blocks PROVE code'[b] \in Seq(Y)
    <3> DEFINE T == Seq(InstructionsOver(X))
    <3>1. code \in [Blocks -> T]
      BY <1>2 DEF CodeOver
    <3> HIDE DEF T
    <3>2. code[b] \in T
      BY <3>1
    <3>3. Len(code[b]) \in Nat /\ DOMAIN code[b] = 1..Len(code[b])
      BY <3>2 DEF T
    <3>4. code'[b] = [k \in DOMAIN code[b] |-> slotted(b, k)]
      BY <1>1
    <3>5. \A k \in DOMAIN code[b] : slotted(b, k) \in Y
      BY <1>4
    <3> HIDE DEF Y
    <3> QED
      BY <3>3, <3>4, <3>5
  <2> DEFINE S == Seq(Y)
  <2>2. \A b \in Blocks : code'[b] \in S
    BY <2>1
  <2> HIDE DEF S
  <2>3. DOMAIN code' = Blocks /\ code' = [b \in Blocks |-> code'[b]]
    BY <1>1
  <2>4. code' \in [DOMAIN code' -> S]
    BY <2>2, <2>3
  <2> QED
    BY <2>4 DEF S, Y, CodeOver, Blocks
<1>6. Operable(DOMAIN subs)'
  <2>1. Awaited \in SUBSET DOMAIN subs
    BY <1>1 DEF Awaited, ToSet
  <2>2. ASSUME NEW b \in Blocks, NEW k \in DOMAIN code[b] PROVE Operands(code[b][k]) \in SUBSET DOMAIN subs
    BY <1>1, <2>1 DEF RegistersInv, TidyCode, TidyBlock, Blocks
  <2>3. ASSUME NEW b \in Blocks', NEW k \in DOMAIN code'[b] PROVE Operands(code'[b][k]) \in SUBSET DOMAIN subs'
    <3>1. b \in Blocks /\ k \in DOMAIN code[b] /\ code'[b][k] = slotted(b, k)
      BY <1>1, <2>3 DEF Blocks
    <3>2. code'[b][k].outs = code[b][k].outs /\ code'[b][k].ins = code[b][k].ins
      BY <1>3, <3>1
    <3>3. Operands(code'[b][k]) = Operands(code[b][k])
      BY <3>2 DEF Operands, Outs, Ins
    <3> QED
      BY <1>1, <2>2, <3>1, <3>3
  <2> QED
    BY <2>3 DEF Operable
<1>7. Bounded'
  BY <1>1 DEF RegistersInv, Bounded, Made
<1>8. \E W : CodeOver(W)'
  BY <1>5
<1> QED
  BY <1>1, <1>6, <1>7, <1>8 DEF RegistersInv, Phases, Sweeps, Compiled

(* An instruction over physical registers.                                 *)
PhysicalOver(X) == {i \in InstructionsOver(X) : Mentions(i) \subseteq PhysRegs}

(* Code over physical registers is a sequence of such instructions.        *)
LEMMA PhysicalCode ==
  ASSUME NEW X
  PROVE  CodeOver(X) /\ Physical <=> code \in [Blocks -> Seq(PhysicalOver(X))]
<1> DEFINE Y == InstructionsOver(X)
           Z == PhysicalOver(X)
<1>1. \A i \in Z : i \in Y
  BY DEF PhysicalOver
<1>2. \A i \in Y : i \in Z <=> Mentions(i) \subseteq PhysRegs
  BY DEF PhysicalOver
<1> HIDE DEF Y, Z
<1> DEFINE S == Seq(Y)
           T == Seq(Z)
<1>3. \A s : s \in T <=> s \in S /\ \A k \in DOMAIN s : Mentions(s[k]) \subseteq PhysRegs
  <2>1. ASSUME NEW s \in T PROVE s \in S /\ \A k \in DOMAIN s : Mentions(s[k]) \subseteq PhysRegs
    <3>1. \A k \in DOMAIN s : s[k] \in Z
      OBVIOUS
    <3>2. \A k \in DOMAIN s : s[k] \in Y /\ Mentions(s[k]) \subseteq PhysRegs
      BY <1>1, <1>2, <3>1
    <3>3. s \in Seq(Y)
      BY <3>2
    <3> QED
      BY <3>2, <3>3
  <2>2. ASSUME NEW s \in S, \A k \in DOMAIN s : Mentions(s[k]) \subseteq PhysRegs PROVE s \in T
    <3>1. \A k \in DOMAIN s : s[k] \in Y
      OBVIOUS
    <3>2. \A k \in DOMAIN s : s[k] \in Z
      BY <1>2, <2>2, <3>1
    <3> QED
      BY <3>2
  <2> QED
    BY <2>1, <2>2
<1> HIDE DEF S, T
<1>4. code \in [Blocks -> S] /\ Physical <=> code \in [Blocks -> T]
  BY <1>3 DEF Physical
<1> QED
  BY <1>4 DEF S, T, Y, Z, CodeOver

(* Allocated operands become physical registers.                           *)
LEMMA SubstituteRegisters ==
  ASSUME RegistersInv, Substitute
  PROVE  RegistersInv'
<1>1. /\ phase = "substitute" /\ phase' = "peephole"
      /\ code' = [b \in Blocks |-> [k \in DOMAIN code[b] |-> Substituted(code[b][k])]]
      /\ UNCHANGED <<ranges, conflicts, subs, fresh>>
  BY DEF Substitute
<1>2. PICK X : CodeOver(X)
  BY DEF RegistersInv
<1> DEFINE Y == InstructionsOver(X)
           Z == PhysicalOver(X)
<1>3. ASSUME NEW i \in Y, Operands(i) \subseteq DOMAIN subs
      PROVE  Substituted(i) \in Z
  <2> DEFINE of(r) == IF r \in DOMAIN subs THEN subs[r] ELSE r
             outs == [k \in DOMAIN i.outs |-> of(i.outs[k])]
             ins == [k \in DOMAIN i.ins |-> of(i.ins[k])]
  <2>1. \A r \in DOMAIN subs : of(r) \in PhysRegs
    BY DEF RegistersInv, Bounded
  <2>2. i.outs \in Seq(Nat) /\ i.ins \in Seq(Nat)
    BY DEF InstructionsOver
  <2>3. \A k \in DOMAIN i.outs : i.outs[k] \in DOMAIN subs
    BY <1>3 DEF Operands, Outs, ToSet
  <2>4. \A k \in DOMAIN i.ins : i.ins[k] \in DOMAIN subs
    BY <1>3 DEF Operands, Ins, ToSet
  <2>5. Substituted(i) = [i EXCEPT !.outs = outs, !.ins = ins]
    BY DEF Substituted
  <2> HIDE DEF of
  <2>6. outs \in Seq(PhysRegs) /\ ins \in Seq(PhysRegs)
    <3>1. \A k \in DOMAIN i.outs : of(i.outs[k]) \in PhysRegs
      BY <2>1, <2>3
    <3>2. \A k \in DOMAIN i.ins : of(i.ins[k]) \in PhysRegs
      BY <2>1, <2>4
    <3>3. /\ Len(i.outs) \in Nat /\ DOMAIN i.outs = 1..Len(i.outs)
          /\ Len(i.ins) \in Nat /\ DOMAIN i.ins = 1..Len(i.ins)
      BY <2>2
    <3>4. outs \in Seq(PhysRegs)
      BY <3>1, <3>3
    <3> QED
      BY <3>2, <3>3, <3>4
  <2>7. PhysRegs \in SUBSET Nat
    BY RegisterAssumption DEF PhysRegs
  <2> HIDE DEF outs, ins
  <2>8. outs \in Seq(Nat) /\ ins \in Seq(Nat) /\ ToSet(outs) \in SUBSET PhysRegs /\ ToSet(ins) \in SUBSET PhysRegs
    <3> DEFINE P == PhysRegs
    <3>1. outs \in Seq(P) /\ ins \in Seq(P) /\ \A r \in P : r \in Nat
      BY <2>6, <2>7
    <3> HIDE DEF P
    <3>2. \A s \in Seq(P) : s \in Seq(Nat) /\ \A k \in DOMAIN s : s[k] \in P
      <4>1. ASSUME NEW s \in Seq(P) PROVE s \in Seq(Nat) /\ \A k \in DOMAIN s : s[k] \in P
        <5>1. \A k \in DOMAIN s : s[k] \in P
          OBVIOUS
        <5>2. \A k \in DOMAIN s : s[k] \in Nat
          BY <3>1, <5>1
        <5> QED
          BY <5>1, <5>2
      <4> QED
        BY <4>1
    <3>3. outs \in Seq(Nat) /\ ins \in Seq(Nat) /\ ToSet(outs) \in SUBSET P /\ ToSet(ins) \in SUBSET P
      BY <3>1, <3>2 DEF ToSet
    <3> QED
      BY <3>3 DEF P
  <2>9. /\ Substituted(i) \in InstructionsOver(X)
        /\ Substituted(i).outs = outs /\ Substituted(i).ins = ins
    BY <2>5, <2>8 DEF InstructionsOver
  <2>10. Mentions(Substituted(i)) \subseteq PhysRegs
    BY <2>8, <2>9 DEF Mentions, Outs, Ins, ClobberedBy
  <2> QED
    BY <2>9, <2>10 DEF PhysicalOver
<1> HIDE DEF Z
<1>4. ASSUME NEW b \in Blocks PROVE code'[b] \in Seq(Z)
  <2>1. code[b] \in Seq(Y)
    <3> DEFINE T == Seq(Y)
    <3>1. code \in [Blocks -> T]
      BY <1>2 DEF CodeOver
    <3> HIDE DEF T
    <3>2. code[b] \in T
      BY <3>1
    <3> QED
      BY <3>2 DEF T
  <2>2. \A k \in DOMAIN code[b] : Operands(code[b][k]) \subseteq DOMAIN subs
    BY <1>1 DEF RegistersInv, Operable
  <2> HIDE DEF Y
  <2>3. code'[b] = [k \in DOMAIN code[b] |-> Substituted(code[b][k])]
    BY <1>1
  <2>4. \A k \in DOMAIN code[b] : code[b][k] \in Y
    BY <2>1
  <2>5. \A k \in DOMAIN code[b] : Substituted(code[b][k]) \in Z
    BY <1>3, <2>2, <2>4
  <2> QED
    BY <2>1, <2>3, <2>5
<1>5. code' \in [Blocks' -> Seq(Z)]
  <2> DEFINE S == Seq(Z)
  <2>1. \A b \in Blocks : code'[b] \in S
    BY <1>4
  <2> HIDE DEF S
  <2>2. DOMAIN code' = Blocks /\ code' = [b \in Blocks |-> code'[b]]
    BY <1>1
  <2>3. code' \in [DOMAIN code' -> S]
    BY <2>1, <2>2
  <2> QED
    BY <2>3 DEF S, Blocks
<1>6. (code \in [Blocks -> Seq(PhysicalOver(X))])'
  BY <1>5 DEF Z, PhysicalOver, InstructionsOver, Mentions, Outs, Ins, ClobberedBy, PhysRegs, Kinds
<1>7. (CodeOver(X) /\ Physical <=> code \in [Blocks -> Seq(PhysicalOver(X))])'
  BY PhysicalCode, PTL
<1>8. CodeOver(X)' /\ Physical'
  BY <1>6, <1>7
<1>9. Bounded'
  BY <1>1 DEF RegistersInv, Bounded, Made
<1> QED
  BY <1>1, <1>8, <1>9 DEF RegistersInv, Phases, Sweeps, Compiled

(* Dropping what is redundant adds no registers.                           *)
LEMMA TidiedStays ==
  ASSUME NEW Y, \A i \in Y : [i EXCEPT !.kind = "gone"] \in Y, NEW block \in Seq(Y)
  PROVE  Tidied(block) \in Seq(Y)
<1> DEFINE S == DOMAIN block
           Z == Y \cup {NoInstr}
           A == [PhysRegs -> Z]
           C == [SlotIds -> Z]
           W == [code : Seq(Y), written : A, stored : C]
           base == [code |-> <<>>, written |-> [r \in PhysRegs |-> NoInstr],
                    stored |-> [k \in SlotIds |-> NoInstr]]
           pick == [s \in SUBSET S |-> Max(s)]
           step == [p \in W \X S |-> Peephole(p[1], block[p[2]])]
           iter == CHOOSE f : f = [s \in SUBSET S |->
                     IF s = {} THEN base ELSE Peephole(f[s \ {Max(s)}], block[Max(s)])]
<1>1. Tidied(block) = iter[S].code
  BY DEF Tidied, FoldLeft, MapThenFoldSet
<1>2. IsFiniteSet(S) /\ S \in SUBSET Int
  BY SequenceSetIsFinite
<1>3. Picks(pick, S)
  <2>1. ASSUME NEW s \in SUBSET S, s # {} PROVE Max(s) \in s
    BY <1>2, <2>1, FS_Subset, FiniteExtremes
  <2> QED
    BY <2>1 DEF Picks
<1>4. ASSUME NEW x \in W, NEW n \in S PROVE Peephole(x, block[n]) \in W
  <2> DEFINE i == block[n]
             gone == [i EXCEPT !.kind = "gone"]
             written == [r \in PhysRegs |->
                           IF r \in Outs(i) \/ (i.kind = "str" /\ r \in Ins(i)) THEN i
                           ELSE x.written[r]]
             stored == [k \in SlotIds |-> IF i.kind = "str" /\ k = i.slot THEN i ELSE x.stored[k]]
  <2>1. i \in Y
    OBVIOUS
  <2>2. gone \in Y
    BY <2>1
  <2>3. Peephole(x, block[n]) =
          IF Redundant(i, x.written, x.stored) THEN [x EXCEPT !.code = Append(@, gone)]
          ELSE [code |-> Append(x.code, i), written |-> written, stored |-> stored]
    BY DEF Peephole
  <2>4. x.code \in Seq(Y) /\ x.written \in A /\ x.stored \in C
    OBVIOUS
  <2>5. written \in A
    BY <2>1, <2>4
  <2>6. stored \in C
    BY <2>1, <2>4
  <2> HIDE DEF i, gone, written, stored, A, C
  <2>7. Append(x.code, gone) \in Seq(Y) /\ Append(x.code, i) \in Seq(Y)
    BY <2>1, <2>2, <2>4
  <2> DEFINE Q == Seq(Y)
  <2>8. x \in [code : Q, written : A, stored : C] /\ Append(x.code, gone) \in Q /\ Append(x.code, i) \in Q
    BY <2>7
  <2> HIDE DEF Q
  <2>9. [x EXCEPT !.code = Append(@, gone)] \in [code : Q, written : A, stored : C]
    BY <2>8
  <2>10. [code |-> Append(x.code, i), written |-> written, stored |-> stored]
           \in [code : Q, written : A, stored : C]
    BY <2>5, <2>6, <2>8
  <2>11. Peephole(x, block[n]) \in [code : Q, written : A, stored : C]
    BY <2>3, <2>9, <2>10
  <2> QED
    BY <2>11 DEF Q
<1>5. base \in W
  OBVIOUS
<1>6. \A x \in W : x.code \in Seq(Y)
  OBVIOUS
<1> HIDE DEF W, base
<1>7. step \in [W \X S -> W]
  BY <1>4
<1>8. \E f : f = [s \in SUBSET S |->
                IF s = {} THEN base ELSE Peephole(f[s \ {Max(s)}], block[Max(s)])]
  <2>1. PICK f \in [SUBSET S -> W] : Folds(f, pick, base, step, SUBSET S)
    <3> HIDE DEF step, pick, S
    <3> QED
      BY <1>2, <1>3, <1>5, <1>7, FoldExists
  <2>2. ASSUME NEW s \in SUBSET S
        PROVE  f[s] = IF s = {} THEN base ELSE Peephole(f[s \ {Max(s)}], block[Max(s)])
    BY <1>3, <2>1 DEF Folds, Picks
  <2> QED
    BY <2>1, <2>2
<1>9. \A s \in SUBSET S :
        iter[s] = IF s = {} THEN base ELSE Peephole(iter[s \ {Max(s)}], block[Max(s)])
  BY <1>8
<1> HIDE DEF iter
<1>10. \A s \in SUBSET S : iter[s] \in W
  <2> DEFINE Good == {s \in SUBSET S : iter[s] \in W}
  <2>1. {} \in Good
    BY <1>5, <1>9
  <2>2. ASSUME NEW s \in SUBSET S, s # {}, s \ {pick[s]} \in Good PROVE s \in Good
    <3>1. pick[s] = Max(s) /\ Max(s) \in S
      BY <1>3, <2>2 DEF Picks
    <3> QED
      BY <1>4, <1>9, <2>2, <3>1
  <2> HIDE DEF Good, pick, S
  <2>3. \A s \in SUBSET S : s # {} /\ s \ {pick[s]} \in Good => s \in Good
    BY <2>2
  <2>4. \A s \in SUBSET S : s \in Good
    <3>1. IsFiniteSet(S)
      BY <1>2
    <3> QED
      BY ONLY <3>1, <1>3, <2>1, <2>3, SubsetInduction
  <2> QED
    BY <2>4 DEF Good
<1> QED
  BY <1>1, <1>6, <1>10

(* The peephole pass leaves no other registers.                            *)
LEMMA PostRegallocRegisters ==
  ASSUME RegistersInv, PostRegalloc
  PROVE  RegistersInv'
<1>1. /\ phase = "peephole" /\ phase' = "done"
      /\ code' = [b \in Blocks |-> Tidied(code[b])]
      /\ UNCHANGED <<ranges, conflicts, subs, fresh>>
  BY DEF PostRegalloc
<1>2. PICK X : CodeOver(X)
  BY DEF RegistersInv
<1>3. Physical
  BY <1>1 DEF RegistersInv, Compiled
<1> DEFINE Z == PhysicalOver(X)
<1>4. \A i \in Z : [i EXCEPT !.kind = "gone"] \in Z
  <2>1. ASSUME NEW i \in Z PROVE [i EXCEPT !.kind = "gone"] \in Z
    <3> DEFINE gone == [i EXCEPT !.kind = "gone"]
    <3>1. i \in InstructionsOver(X) /\ Mentions(i) \subseteq PhysRegs
      BY DEF PhysicalOver
    <3>2. /\ gone \in InstructionsOver(X) /\ gone.outs = i.outs /\ gone.ins = i.ins
          /\ gone.kind = "gone"
      BY <3>1 DEF InstructionsOver, Kinds
    <3> HIDE DEF gone
    <3>3. Mentions(gone) \subseteq PhysRegs
      BY <3>1, <3>2 DEF Mentions, Outs, Ins, ClobberedBy
    <3>4. gone \in Z
      BY <3>2, <3>3 DEF PhysicalOver
    <3> QED
      BY <3>4 DEF gone
  <2> QED
    BY <2>1
<1> DEFINE S == Seq(Z)
<1>5. code \in [Blocks -> S]
  BY <1>2, <1>3, PhysicalCode
<1> HIDE DEF Z
<1>6. \A b \in Blocks : Tidied(code[b]) \in S
  <2>1. \A block \in S : Tidied(block) \in S
    BY <1>4, TidiedStays
  <2> HIDE DEF S
  <2> QED
    BY <1>5, <2>1
<1> HIDE DEF S
<1>7. code' \in [Blocks' -> S]
  BY <1>1, <1>6 DEF Blocks
<1>8. (code \in [Blocks -> Seq(PhysicalOver(X))])'
  BY <1>7 DEF S, Z, PhysicalOver, InstructionsOver, Mentions, Outs, Ins, ClobberedBy, PhysRegs, Kinds
<1>9. (CodeOver(X) /\ Physical <=> code \in [Blocks -> Seq(PhysicalOver(X))])'
  BY PhysicalCode, PTL
<1>10. CodeOver(X)' /\ Physical'
  BY <1>8, <1>9
<1>11. Bounded'
  BY <1>1 DEF RegistersInv, Bounded, Made
<1> QED
  BY <1>1, <1>10, <1>11 DEF RegistersInv, Phases, Sweeps, Compiled

(* Running the code does not change it.                                    *)
LEMMA MachineRegisters ==
  ASSUME RegistersInv, Call \/ Execute \/ Return \/ UNCHANGED vars
  PROVE  RegistersInv'
<1>1. UNCHANGED <<code, places, ranges, conflicts, queue, subs, fresh>>
  BY DEF Call, Execute, Return, vars, allocVars
<1>2. Bounded' /\ \E X : CodeOver(X)'
  BY <1>1 DEF RegistersInv, Bounded, Made, CodeOver, Blocks
<1>3. CASE Call \/ Return
  <2>1. phase \in {"done", "running"} /\ phase' \in {"running", "returned"}
    BY <1>3 DEF Call, Return
  <2>2. Physical'
    BY <1>1, <2>1 DEF RegistersInv, Compiled, Physical, Blocks
  <2> QED
    BY <1>2, <2>1, <2>2 DEF RegistersInv, Phases, Sweeps, Compiled
<1>4. CASE Execute \/ UNCHANGED vars
  <2>1. phase' = phase
    BY <1>4 DEF Execute, vars, allocVars
  <2>2. TidyCode => TidyCode'
    BY <1>1 DEF TidyCode, TidyBlock, Ordered, Numbered, Awaited
  <2>3. Operable(DOMAIN conflicts) => Operable(DOMAIN conflicts)'
    BY <1>1 DEF Operable, Blocks
  <2>4. Operable(DOMAIN subs) => Operable(DOMAIN subs)'
    BY <1>1 DEF Operable, Blocks
  <2>5. Physical => Physical'
    BY <1>1 DEF Physical, Blocks
  <2> QED
    BY <1>1, <1>2, <2>1, <2>2, <2>3, <2>4, <2>5 DEF RegistersInv
<1> QED
  BY <1>3, <1>4

(* The invariant of the registers the code mentions.                       *)
THEOREM RegistersAreInvariant == Spec => []RegistersInv
<1>1. Init => RegistersInv
  BY InitRegisters
<1>2. AllocationInv /\ AllocationInv' /\ RegistersInv /\ [Next]_vars => RegistersInv'
  <2> SUFFICES ASSUME AllocationInv, AllocationInv', RegistersInv, [Next]_vars PROVE RegistersInv'
    OBVIOUS
  <2>1. CASE Compile
    <3>1. AllocNext
      BY <2>1 DEF Compile
    <3>2. CASE SweepAll
      BY <3>2, SweepRegisters
    <3>3. CASE Prepare
      BY <3>3, PrepareRegisters
    <3>4. CASE Skip
      BY <3>4, SkipRegisters
    <3>5. CASE Assign
      BY <3>5, AssignRegisters
    <3>6. CASE Spill
      BY <3>6, SpillRegisters
    <3>7. CASE ColourSlots
      BY <3>7, ColourSlotsRegisters
    <3>8. CASE Substitute
      BY <3>8, SubstituteRegisters
    <3>9. CASE PostRegalloc
      BY <3>9, PostRegallocRegisters
    <3> QED
      BY <3>1, <3>2, <3>3, <3>4, <3>5, <3>6, <3>7, <3>8, <3>9 DEF AllocNext
  <2>2. CASE Call \/ Execute \/ Return \/ Finished \/ UNCHANGED vars
    BY <2>2, MachineRegisters DEF Finished
  <2> QED
    BY <2>1, <2>2 DEF Next
<1> QED
  BY <1>1, <1>2, AllocationIsInvariant, PTL DEF Spec

(* The allocator's records speak of registers made so far, allocation      *)
(* keeps to physical registers, no operand is left without one, and the    *)
(* code that is run mentions no others: of every function, however many    *)
(* registers there are and however often one is spilled.                   *)
THEOREM AllocationIsTyped == Spec => []TypeOK
<1>1. AllocationInv /\ RegistersInv => TypeOK
  <2> SUFFICES ASSUME AllocationInv, RegistersInv PROVE TypeOK
    OBVIOUS
  <2>1. /\ fresh.reg \in Nat /\ fresh.reg > NumRegs /\ NumRegs \in Nat
        /\ DOMAIN subs \subseteq DOMAIN conflicts /\ \A r \in DOMAIN subs : subs[r] \in PhysRegs
        /\ DOMAIN conflicts \subseteq Made /\ \A r \in DOMAIN conflicts : conflicts[r] \subseteq Made
    BY RegisterAssumption DEF RegistersInv, Bounded
  <2>2. PhysRegs \in SUBSET Made /\ \A r \in Made : r < fresh.reg
    BY <2>1 DEF PhysRegs, Made
  <2>3. ASSUME NEW b \in Blocks, NEW k \in DOMAIN code[b]
        PROVE  code[b][k].kind \in Kinds
    <3>1. PICK X : CodeOver(X)
      BY DEF RegistersInv
    <3> DEFINE Y == InstructionsOver(X)
               S == Seq(Y)
    <3>2. code \in [Blocks -> S]
      BY <3>1 DEF CodeOver
    <3> HIDE DEF S
    <3>3. code[b] \in S
      BY <3>2
    <3> HIDE DEF Y
    <3>4. code[b][k] \in Y
      BY <3>3 DEF S
    <3> QED
      BY <3>4 DEF Y, InstructionsOver
  <2>4. ASSUME NEW b \in Blocks, NEW k \in DOMAIN code[b], phase \notin Compiled
        PROVE  Mentions(code[b][k]) \subseteq Made
    <3>1. Operands(code[b][k]) \subseteq Made
      <4>1. CASE phase \in Sweeps
        <5>1. /\ source \in Programs /\ SourceCode
          BY <4>1 DEF AllocationInv
        <5>2. code = source.blocks /\ fresh.reg = FirstPcs(source) + Len(PreservedSeq)
          BY <5>1 DEF SourceCode
        <5>3. Operands(code[b][k]) \subseteq SourceRegs(source)
          BY <5>1, <5>2, SourceCodeFacts DEF Operands, Blocks
        <5>4. \A r \in SourceRegs(source) : r \in Nat /\ r > NumRegs /\ r < fresh.reg
          BY <5>1, <5>2, StartingRegisters, ProgramsAssumption DEF IsVirtual, Known
        <5>5. \A r \in SourceRegs(source) : r \in Made
          BY <2>1, <5>4 DEF Made
        <5> QED
          BY <5>3, <5>5
      <4>2. CASE phase = "allocate"
        BY <2>1, <4>2 DEF RegistersInv, TidyCode, TidyBlock, Awaited, Blocks
      <4>3. CASE phase = "positions exhausted"
        BY <2>1, <4>3 DEF RegistersInv, Operable
      <4>4. CASE phase = "substitute"
        BY <2>1, <4>4 DEF RegistersInv, Operable
      <4> QED
        BY <2>4, <4>1, <4>2, <4>3, <4>4 DEF RegistersInv, Phases
    <3> QED
      BY <2>2, <3>1 DEF Mentions, Operands, ClobberedBy
  <2>5. ASSUME NEW b \in Blocks, NEW k \in DOMAIN code[b], phase \in Compiled
        PROVE  Mentions(code[b][k]) \subseteq PhysRegs
    BY <2>5 DEF RegistersInv, Physical
  <2>6. phase \in {"first sweep", "sweep", "ranges", "allocate", "positions exhausted",
                   "substitute", "peephole", "done", "running", "returned"}
    BY DEF RegistersInv, Phases, Sweeps, Compiled
  <2> QED
    BY <2>1, <2>2, <2>3, <2>4, <2>5, <2>6 DEF TypeOK, Made, Compiled
<1> QED
  BY <1>1, AllocationIsInvariant, RegistersAreInvariant, PTL

=============================================================================
