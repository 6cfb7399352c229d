---------------------------- MODULE CompositorProofs ----------------------------
(***************************************************************************)
(* Proofs about the legacy planner: for every list of kernels a provider   *)
(* may have, every length and every course of the auditions, whether a     *)
(* length has a composition is decided by the length alone, the lengths    *)
(* Bluestein's algorithm pads to have one, the composition kept computes   *)
(* the transform asked for, and std::next_permutation brings every order   *)
(* of the factors to its round.                                            *)
(***************************************************************************)
EXTENDS Compositor, InductionLemmas

Positive == Nat \ {0}

Factors == Seq(Nat \ {0, 1})

-----------------------------------------------------------------------------
(* Products.  The product of a sequence is a fold over its places, which   *)
(* takes the last place away at each step; any other place would do.       *)

LEMMA FiniteExtremes ==
  ASSUME NEW S \in SUBSET Int, IsFiniteSet(S), S # {}
  PROVE  /\ Max(S) \in S /\ \A k \in S : k <= Max(S)
         /\ Min(S) \in S /\ \A k \in S : Min(S) <= k
  BY FiniteBounds DEF Max, Min

(* The product of s over each set of its places.                           *)
Products(s) ==
  CHOOSE g : g = [S \in SUBSET DOMAIN s |-> IF S = {} THEN 1 ELSE g[S \ {Max(S)}] * s[Max(S)]]

LEMMA PlacesHaveExtremes ==
  ASSUME NEW X, NEW s \in Seq(X), NEW S \in SUBSET DOMAIN s
  PROVE  /\ IsFiniteSet(DOMAIN s) /\ IsFiniteSet(S) /\ S \in SUBSET Int
         /\ S # {} => /\ Max(S) \in S /\ \A k \in S : k <= Max(S)
                      /\ Min(S) \in S /\ \A k \in S : Min(S) <= k
<1>1. DOMAIN s = 1..Len(s) /\ Len(s) \in Nat
  OBVIOUS
<1>2. IsFiniteSet(1..Len(s))
  BY <1>1, FS_Interval
<1>3. IsFiniteSet(S) /\ S \in SUBSET Int
  BY <1>1, <1>2, FS_Subset
<1> QED
  BY <1>1, <1>2, <1>3, FiniteExtremes

LEMMA ProductsExist ==
  ASSUME NEW s \in Seq(Positive)
  PROVE  /\ Products(s) \in [SUBSET DOMAIN s -> Positive]
         /\ Products(s)[{}] = 1
         /\ \A S \in SUBSET DOMAIN s :
              S # {} => Products(s)[S] = Products(s)[S \ {Max(S)}] * s[Max(S)]
         /\ Product(s) = Products(s)[DOMAIN s]
<1> DEFINE D == DOMAIN s
           pick == [S \in SUBSET D |-> Max(S)]
           mult == [p \in Positive \X D |-> p[1] * s[p[2]]]
<1>1. IsFiniteSet(D) /\ Picks(pick, D)
  BY PlacesHaveExtremes DEF Picks
<1>2. mult \in [Positive \X D -> Positive] /\ 1 \in Positive
  <2>1. \A x \in Positive, y \in Positive : x * y \in Positive
    BY DEF Positive
  <2> QED
    BY <2>1 DEF Positive
<1>3. \E g \in [SUBSET D -> Positive] : Folds(g, pick, 1, mult, SUBSET D)
  <2> HIDE DEF pick, mult, D
  <2> QED
    BY <1>1, <1>2, FoldExists
<1>4. PICK g \in [SUBSET D -> Positive] : Folds(g, pick, 1, mult, SUBSET D)
  BY <1>3
<1>5. ASSUME NEW S \in SUBSET D
      PROVE  g[S] = IF S = {} THEN 1 ELSE g[S \ {Max(S)}] * s[Max(S)]
  <2>1. CASE S = {}
    BY <1>4, <2>1 DEF Folds
  <2>2. CASE S # {}
    <3>1. pick[S] = Max(S) /\ Max(S) \in D /\ S \ {Max(S)} \in SUBSET D
      BY <1>1, <2>2 DEF Picks
    <3>2. g[S] = mult[<<g[S \ {Max(S)}], Max(S)>>]
      BY <1>4, <2>2, <3>1 DEF Folds
    <3> QED
      BY <2>2, <3>1, <3>2
  <2> QED
    BY <2>1, <2>2
<1>6. g = [S \in SUBSET D |-> IF S = {} THEN 1 ELSE g[S \ {Max(S)}] * s[Max(S)]]
  BY <1>5
<1>7. Products(s) = [S \in SUBSET D |-> IF S = {} THEN 1
                                      ELSE Products(s)[S \ {Max(S)}] * s[Max(S)]]
  BY <1>6 DEF Products
<1>8. \A S \in SUBSET D : Products(s)[S] \in Positive
  <2> DEFINE Good == {S \in SUBSET D : Products(s)[S] \in Positive}
  <2>1. {} \in Good
    BY <1>7 DEF Positive
  <2>2. ASSUME NEW S \in SUBSET D, S # {}, S \ {pick[S]} \in Good PROVE S \in Good
    <3>1. pick[S] = Max(S) /\ Max(S) \in D
      BY <1>1, <2>2 DEF Picks
    <3>2. Products(s)[S \ {Max(S)}] \in Positive /\ s[Max(S)] \in Positive
      BY <2>2, <3>1
    <3>3. Products(s)[S \ {Max(S)}] * s[Max(S)] \in Positive
      BY <3>2 DEF Positive
    <3> QED
      BY <1>7, <2>2, <3>3
  <2> HIDE DEF Good, pick, D
  <2>3. \A S \in SUBSET D : S \in Good
    BY <1>1, <2>1, <2>2, SubsetInduction
  <2> QED
    BY <2>3 DEF Good
<1>9. Product(s) = Products(s)[DOMAIN s]
  BY DEF Product, FoldLeft, MapThenFoldSet, Products
<1> QED
  BY <1>7, <1>8, <1>9

(* Any place may be taken away first.                                      *)
LEMMA ProductTakesAny ==
  ASSUME NEW s \in Seq(Positive), NEW S \in SUBSET DOMAIN s, NEW i \in S
  PROVE  Products(s)[S] = Products(s)[S \ {i}] * s[i]
<1> DEFINE D == DOMAIN s
           P == Products(s)
           pick == [T \in SUBSET D |-> Max(T)]
           Good == {T \in SUBSET D : \A j \in T : P[T] = P[T \ {j}] * s[j]}
<1>1. IsFiniteSet(D) /\ Picks(pick, D)
  BY PlacesHaveExtremes DEF Picks
<1>2. {} \in Good
  OBVIOUS
<1>3. ASSUME NEW T \in SUBSET D, T # {}, T \ {pick[T]} \in Good PROVE T \in Good
  <2>1. PICK m \in T : m = Max(T) /\ m = pick[T] /\ \A k \in T : k <= m
    BY <1>3, PlacesHaveExtremes
  <2>2. P[T] = P[T \ {m}] * s[m]
    BY <1>3, <2>1, ProductsExist
  <2>3. ASSUME NEW j \in T, j # m PROVE P[T] = P[T \ {j}] * s[j]
    <3>1. P[T \ {m}] = P[(T \ {m}) \ {j}] * s[j]
      BY <1>3, <2>1, <2>3
    <3>2. P[T \ {j}] = P[(T \ {j}) \ {m}] * s[m]
      <4>1. PICK V \in SUBSET D : V = T \ {j}
        OBVIOUS
      <4>2. m \in V /\ V # {} /\ \A k \in V : k <= m
        BY <2>1, <2>3, <4>1
      <4>3. Max(V) \in V /\ m <= Max(V) /\ V \in SUBSET Int
        BY <4>2, PlacesHaveExtremes
      <4>4. Max(V) = m
        BY <4>2, <4>3
      <4>5. P[V] = P[V \ {m}] * s[m]
        BY <4>2, <4>4, ProductsExist
      <4> QED
        BY <4>1, <4>5
    <3>3. PICK V \in SUBSET D : V = (T \ {m}) \ {j} /\ V = (T \ {j}) \ {m}
      OBVIOUS
    <3>4. PICK v \in Positive : v = P[V]
      BY ProductsExist
    <3>5. PICK a \in Positive, b \in Positive : a = s[j] /\ b = s[m]
      OBVIOUS
    <3>6. (v * a) * b = (v * b) * a
      BY DEF Positive
    <3> QED
      BY <2>2, <3>1, <3>2, <3>3, <3>4, <3>5, <3>6
  <2> QED
    BY <2>1, <2>2, <2>3
<1> HIDE DEF Good, pick, D
<1>4. \A T \in SUBSET D : T \in Good
  BY <1>1, <1>2, <1>3, SubsetInduction
<1> QED
  BY <1>4 DEF Good, D

(* Sequences that hold the same elements at corresponding places have the  *)
(* same product over them.                                                 *)
Corresponds(h, t, S, s, T) ==
  /\ h \in [S -> T]
  /\ \A i, j \in S : h[i] = h[j] => i = j
  /\ \A k \in T : \E i \in S : h[i] = k
  /\ \A i \in S : t[i] = s[h[i]]

LEMMA ProductAlong ==
  ASSUME NEW s \in Seq(Positive), NEW t \in Seq(Positive),
         NEW S \in SUBSET DOMAIN t, NEW T \in SUBSET DOMAIN s,
         NEW h, Corresponds(h, t, S, s, T)
  PROVE  Products(t)[S] = Products(s)[T]
<1> DEFINE Image(U) == {h[i] : i \in U}
           pick == [U \in SUBSET S |-> Max(U)]
           Good == {U \in SUBSET S : Products(t)[U] = Products(s)[Image(U)]}
<1>1. IsFiniteSet(S) /\ Picks(pick, S)
  BY PlacesHaveExtremes DEF Picks
<1>2. {} \in Good
  BY ProductsExist
<1>3. ASSUME NEW U \in SUBSET S, U # {}, U \ {pick[U]} \in Good PROVE U \in Good
  <2>1. PICK m \in U : m = pick[U]
    BY <1>1, <1>3 DEF Picks
  <2>2. Products(t)[U] = Products(t)[U \ {m}] * t[m]
    BY ProductTakesAny
  <2>3. PICK V \in SUBSET DOMAIN s : V = Image(U) /\ h[m] \in V
    <3>1. Image(U) \in SUBSET DOMAIN s
      BY DEF Corresponds
    <3>2. h[m] \in Image(U)
      OBVIOUS
    <3> QED
      BY <3>1, <3>2
  <2>4. Products(s)[V] = Products(s)[V \ {h[m]}] * s[h[m]]
    BY <2>3, ProductTakesAny
  <2>5. V \ {h[m]} = Image(U \ {m})
    BY <2>3 DEF Corresponds
  <2>6. t[m] = s[h[m]] /\ Products(t)[U \ {m}] = Products(s)[Image(U \ {m})]
    BY <1>3, <2>1 DEF Corresponds
  <2> HIDE DEF Image
  <2> QED
    BY <2>2, <2>3, <2>4, <2>5, <2>6
<1>4. \A U \in SUBSET S : U \in Good
  <2> HIDE DEF Good, pick
  <2> QED
    BY <1>1, <1>2, <1>3, SubsetInduction
<1>5. Image(S) = T
  BY DEF Corresponds
<1> QED
  BY <1>4, <1>5

LEMMA ProductPrepends ==
  ASSUME NEW x \in Positive, NEW s \in Seq(Positive)
  PROVE  /\ Product(<< >>) = 1
         /\ << x >> \o s \in Seq(Positive)
         /\ Product(<< x >> \o s) = x * Product(s)
         /\ Product(s) \in Positive
<1> DEFINE t == << x >> \o s
<1>1. t \in Seq(Positive) /\ Len(t) = Len(s) + 1 /\ t[1] = x
      /\ \A i \in 1..Len(s) : t[i + 1] = s[i]
  OBVIOUS
<1> HIDE DEF t
<1>2. Product(<< >>) = 1
  <2>1. << >> \in Seq(Positive) /\ DOMAIN << >> = {}
    OBVIOUS
  <2> QED
    BY <2>1, ProductsExist
<1>3. Products(t)[DOMAIN t] = Products(t)[2..Len(t)] * x
  <2>1. PICK D \in SUBSET DOMAIN t : D = DOMAIN t /\ 1 \in D /\ D \ {1} = 2..Len(t)
    BY <1>1
  <2>2. Products(t)[D] = Products(t)[D \ {1}] * t[1]
    BY <1>1, <2>1, ProductTakesAny
  <2> QED
    BY <1>1, <2>1, <2>2
<1>4. Products(t)[2..Len(t)] = Products(s)[DOMAIN s]
  <2> DEFINE h == [i \in 2..Len(t) |-> i - 1]
  <2>1. Corresponds(h, t, 2..Len(t), s, DOMAIN s)
    <3>1. h \in [2..Len(t) -> DOMAIN s] /\ \A i, j \in 2..Len(t) : h[i] = h[j] => i = j
      BY <1>1
    <3>2. ASSUME NEW k \in DOMAIN s PROVE \E i \in 2..Len(t) : h[i] = k
      <4>1. k + 1 \in 2..Len(t) /\ h[k + 1] = k
        BY <1>1
      <4> QED
        BY <4>1
    <3>3. ASSUME NEW i \in 2..Len(t) PROVE t[i] = s[h[i]]
      <4>1. i - 1 \in 1..Len(s) /\ (i - 1) + 1 = i /\ h[i] = i - 1
        BY <1>1
      <4> QED
        BY <1>1, <4>1
    <3> QED
      BY <3>1, <3>2, <3>3 DEF Corresponds
  <2>2. 2..Len(t) \in SUBSET DOMAIN t
    BY <1>1
  <2> HIDE DEF h
  <2> QED
    BY <1>1, <2>1, <2>2, ProductAlong
<1>5. PICK v \in Positive : v = Product(s)
  BY ProductsExist
<1>6. v * x = x * v
  BY DEF Positive
<1>7. Product(t) = Products(t)[DOMAIN t] /\ Product(s) = Products(s)[DOMAIN s]
  BY <1>1, ProductsExist
<1> QED
  BY <1>1, <1>2, <1>3, <1>4, <1>5, <1>6, <1>7 DEF t

(* Sequences that hold the same elements, as often.                        *)
Rearranges(t, s) == \E h : Corresponds(h, t, DOMAIN t, s, DOMAIN s)

LEMMA RearrangedFacts ==
  ASSUME NEW s \in Seq(Positive), NEW t \in Seq(Positive), Rearranges(t, s)
  PROVE  /\ Product(t) = Product(s)
         /\ \A i \in DOMAIN t : \E j \in DOMAIN s : t[i] = s[j]
         /\ \A j \in DOMAIN s : \E i \in DOMAIN t : t[i] = s[j]
<1>1. PICK h : Corresponds(h, t, DOMAIN t, s, DOMAIN s)
  BY DEF Rearranges
<1>2. Product(t) = Product(s)
  <2>1. PICK D \in SUBSET DOMAIN t, E \in SUBSET DOMAIN s : D = DOMAIN t /\ E = DOMAIN s
    OBVIOUS
  <2>2. Products(t)[D] = Products(s)[E]
    BY <1>1, <2>1, ProductAlong
  <2> QED
    BY <2>1, <2>2, ProductsExist
<1> QED
  BY <1>1, <1>2 DEF Corresponds

LEMMA RearrangedTwice ==
  ASSUME NEW s, NEW t, NEW u, Rearranges(u, t), Rearranges(t, s)
  PROVE  Rearranges(u, s)
<1>1. PICK f : Corresponds(f, u, DOMAIN u, t, DOMAIN t)
  BY DEF Rearranges
<1>2. PICK g : Corresponds(g, t, DOMAIN t, s, DOMAIN s)
  BY DEF Rearranges
<1> DEFINE h == [i \in DOMAIN u |-> g[f[i]]]
<1>3. Corresponds(h, u, DOMAIN u, s, DOMAIN s)
  <2>1. f \in [DOMAIN u -> DOMAIN t] /\ g \in [DOMAIN t -> DOMAIN s]
    BY <1>1, <1>2 DEF Corresponds
  <2>2. \A i, j \in DOMAIN u : h[i] = h[j] => i = j
    BY <1>1, <1>2, <2>1 DEF Corresponds
  <2>3. \A k \in DOMAIN s : \E i \in DOMAIN u : h[i] = k
    BY <1>1, <1>2, <2>1 DEF Corresponds
  <2>4. \A i \in DOMAIN u : u[i] = s[h[i]]
    BY <1>1, <1>2, <2>1 DEF Corresponds
  <2> QED
    BY <2>1, <2>2, <2>3, <2>4 DEF Corresponds
<1> QED
  BY <1>3 DEF Rearranges

-----------------------------------------------------------------------------
(* The recursive functions of Factorize have the values their definitions  *)
(* say, as each call is for less than the one that made it.                *)

(* What a factor leaves of a length.                                       *)
LEMMA QuotientIsLess ==
  ASSUME NEW n \in Positive, NEW d \in Nat \ {0, 1}, n % d = 0
  PROVE  n \div d \in Positive /\ n = d * (n \div d) /\ 2 * (n \div d) <= n /\ d <= n
<1>1. n \in Nat /\ d \in Nat \ {0} /\ d >= 2 /\ n > 0
  BY DEF Positive
<1> DEFINE q == n \div d
<1>2. q \in Nat /\ n = d * q + (n % d)
  BY <1>1, DivisionFacts
<1> HIDE DEF q
<1>3. n = d * q
  BY <1>1, <1>2
<1>4. q # 0
  BY <1>1, <1>2, <1>3
<1>5. 2 * q <= d * q /\ d <= d * q
  <2>1. PICK e \in Nat : d = e + 2
    <3>1. d - 2 \in Nat /\ d = (d - 2) + 2
      BY <1>1
    <3> QED
      BY <3>1
  <2>2. PICK r \in Nat : q = r + 1
    <3>1. q - 1 \in Nat /\ q = (q - 1) + 1
      BY <1>2, <1>4
    <3> QED
      BY <3>1
  <2>3. e * q \in Nat /\ r * d \in Nat /\ d * q = 2 * q + e * q /\ d * q = d + r * d
    BY <1>1, <1>2, <2>1, <2>2
  <2> QED
    BY <1>1, <1>2, <2>3
<1> QED
  BY <1>2, <1>3, <1>4, <1>5 DEF q, Positive

LEMMA SquareRootIsBounded ==
  ASSUME NEW n \in Nat
  PROVE  SquareRoot(n) \in 0..n
<1> DEFINE Low == {r \in Nat : r * r <= n}
<1>1. PICK r \in Nat : r * r <= n /\ n < (r + 1) * (r + 1)
  <2>1. SUFFICES ASSUME \A r \in Nat : r * r <= n => (r + 1) * (r + 1) <= n
                 PROVE  FALSE
    BY SMT
  <2>2. 0 \in Low /\ \A r \in Low : r + 1 \in Low
    BY <2>1
  <2>3. Low = Nat
    <3> HIDE DEF Low
    <3>1. Low \in SUBSET Nat
      BY DEF Low
    <3> QED
      BY <2>2, <3>1, SetInduction
  <2>4. (n + 1) * (n + 1) <= n
    <3> HIDE DEF Low
    <3>1. n + 1 \in Low
      BY <2>3
    <3> QED
      BY <3>1 DEF Low
  <2>5. (n + 1) * (n + 1) = n * n + n + n + 1 /\ n * n \in Nat
    OBVIOUS
  <2> QED
    BY <2>4, <2>5
<1>2. r \in 0..n
  <2>1. r * r >= r
    <3>1. CASE r = 0
      BY <3>1
    <3>2. CASE r # 0
      <4>1. PICK e \in Nat : r = e + 1
        <5>1. r - 1 \in Nat /\ r = (r - 1) + 1
          BY <3>2
        <5> QED
          BY <5>1
      <4>2. r * r = r + e * r /\ e * r \in Nat
        BY <4>1
      <4> QED
        BY <4>2
    <3> QED
      BY <3>1, <3>2
  <2> QED
    BY <1>1, <2>1
<1>3. \E s \in 0..n : s * s <= n /\ n < (s + 1) * (s + 1)
  BY <1>1, <1>2
<1> QED
  BY <1>3 DEF SquareRoot

LEMMA PrependIsFactors ==
  ASSUME NEW x \in Nat \ {0, 1}, NEW s \in Factors
  PROVE  /\ << x >> \o s \in Factors /\ Len(<< x >> \o s) = Len(s) + 1
         /\ (<< x >> \o s)[1] = x
         /\ \A i \in 1..Len(s) : (<< x >> \o s)[i + 1] = s[i]
  BY DEF Factors

Trials == Positive \X (Nat \ {0, 1}) \X BOOLEAN

PrimesStep(f, p) ==
  IF p[3] \/ p[2] < SquareRoot(p[1]) + 1
  THEN IF p[1] % p[2] = 0 THEN << p[2] >> \o f[<<p[1] \div p[2], p[2], TRUE>>]
                          ELSE f[<<p[1], p[2] + 2, FALSE>>]
  ELSE IF p[1] > 1 THEN << p[1] >> ELSE << >>

PrimesMeasure ==
  [p \in Trials |-> IF p[2] > p[1] THEN IF p[3] THEN 1 ELSE 0 ELSE 2 * p[1] - p[2] + 3]

(* Where the trial goes from p: the quotient is less, the next factor is   *)
(* nearer to the length left.                                              *)
LEMMA TrialsDescend ==
  ASSUME NEW n \in Positive, NEW k \in Nat \ {0, 1}, NEW d \in BOOLEAN,
         d \/ k < SquareRoot(n) + 1
  PROVE  /\ n % k = 0 => /\ <<n \div k, k, TRUE>> \in Trials
                         /\ PrimesMeasure[<<n \div k, k, TRUE>>] < PrimesMeasure[<<n, k, d>>]
         /\ <<n, k + 2, FALSE>> \in Trials
         /\ PrimesMeasure[<<n, k + 2, FALSE>>] < PrimesMeasure[<<n, k, d>>]
<1>1. n \in Nat /\ n > 0 /\ k \in Nat /\ k >= 2 /\ <<n, k, d>> \in Trials
  BY DEF Positive, Trials
<1>2. PrimesMeasure[<<n, k, d>>] = IF k > n THEN IF d THEN 1 ELSE 0 ELSE 2 * n - k + 3
  BY <1>1 DEF PrimesMeasure
<1>3. d \/ k <= n
  BY <1>1, SquareRootIsBounded
<1>4. ASSUME n % k = 0
      PROVE  /\ <<n \div k, k, TRUE>> \in Trials
             /\ PrimesMeasure[<<n \div k, k, TRUE>>] < PrimesMeasure[<<n, k, d>>]
  <2>1. PICK q \in Positive : q = n \div k /\ 2 * q <= n /\ k <= n
    BY <1>4, QuotientIsLess
  <2>2. <<q, k, TRUE>> \in Trials /\ q \in Nat
    BY DEF Positive, Trials
  <2>3. PrimesMeasure[<<q, k, TRUE>>] = IF k > q THEN 1 ELSE 2 * q - k + 3
    BY <2>2 DEF PrimesMeasure
  <2> QED
    BY <1>1, <1>2, <2>1, <2>2, <2>3
<1>5. <<n, k + 2, FALSE>> \in Trials
  <2>1. k + 2 \in Nat \ {0, 1}
    BY <1>1
  <2> QED
    BY <2>1 DEF Trials
<1>6. PrimesMeasure[<<n, k + 2, FALSE>>] = IF k + 2 > n THEN 0 ELSE 2 * n - (k + 2) + 3
  BY <1>5 DEF PrimesMeasure
<1> QED
  BY <1>1, <1>2, <1>3, <1>4, <1>5, <1>6

LEMMA PrimesMeasureIsNatural == PrimesMeasure \in [Trials -> Nat]
<1>1. ASSUME NEW n \in Positive, NEW k \in Nat \ {0, 1}, NEW d \in BOOLEAN
      PROVE  (IF k > n THEN IF d THEN 1 ELSE 0 ELSE 2 * n - k + 3) \in Nat
  BY DEF Positive
<1>2. ASSUME NEW p \in Trials
      PROVE  (IF p[2] > p[1] THEN IF p[3] THEN 1 ELSE 0 ELSE 2 * p[1] - p[2] + 3) \in Nat
  BY <1>1 DEF Trials
<1> QED
  BY <1>2 DEF PrimesMeasure

LEMMA PrimesUnfold ==
  \A n \in Positive, k \in Nat \ {0, 1}, d \in BOOLEAN :
    PrimesFrom[<<n, k, d>>] =
      IF d \/ k < SquareRoot(n) + 1
      THEN IF n % k = 0 THEN << k >> \o PrimesFrom[<<n \div k, k, TRUE>>]
                        ELSE PrimesFrom[<<n, k + 2, FALSE>>]
      ELSE IF n > 1 THEN << n >> ELSE << >>
<1> DEFINE Step == [q \in Trials \X [Trials -> Factors] |-> PrimesStep(q[2], q[1])]
<1>1. ASSUME NEW p \in Trials, NEW f \in [Trials -> Factors]
      PROVE  PrimesStep(f, p) \in Factors
  <2>1. PICK n \in Positive, k \in Nat \ {0, 1}, d \in BOOLEAN : p = <<n, k, d>>
    BY DEF Trials
  <2>2. CASE d \/ k < SquareRoot(n) + 1
    <3>1. <<n, k + 2, FALSE>> \in Trials /\ (n % k = 0 => <<n \div k, k, TRUE>> \in Trials)
      BY <2>2, TrialsDescend
    <3>2. PrimesStep(f, p) = IF n % k = 0 THEN << k >> \o f[<<n \div k, k, TRUE>>]
                                          ELSE f[<<n, k + 2, FALSE>>]
      BY <2>1, <2>2 DEF PrimesStep
    <3> QED
      BY <3>1, <3>2, PrependIsFactors
  <2>3. CASE ~(d \/ k < SquareRoot(n) + 1)
    <3>1. PrimesStep(f, p) = IF n > 1 THEN << n >> ELSE << >>
      BY <2>1, <2>3 DEF PrimesStep
    <3>2. << >> \in Factors /\ (n > 1 => << n >> \in Factors)
      BY DEF Factors, Positive
    <3> QED
      BY <3>1, <3>2
  <2> QED
    BY <2>2, <2>3
<1>2. Step \in [Trials \X [Trials -> Factors] -> Factors]
  BY <1>1
<1>3. ASSUME NEW p \in Trials, NEW f \in [Trials -> Factors], NEW g \in [Trials -> Factors],
             \A y \in Trials : PrimesMeasure[y] < PrimesMeasure[p] => f[y] = g[y]
      PROVE  PrimesStep(f, p) = PrimesStep(g, p)
  <2>1. PICK n \in Positive, k \in Nat \ {0, 1}, d \in BOOLEAN : p = <<n, k, d>>
    BY DEF Trials
  <2>2. CASE d \/ k < SquareRoot(n) + 1
    <3>1. /\ f[<<n, k + 2, FALSE>>] = g[<<n, k + 2, FALSE>>]
          /\ n % k = 0 => f[<<n \div k, k, TRUE>>] = g[<<n \div k, k, TRUE>>]
      BY <1>3, <2>1, <2>2, TrialsDescend
    <3> QED
      BY <2>1, <3>1 DEF PrimesStep
  <2>3. CASE ~(d \/ k < SquareRoot(n) + 1)
    BY <2>1, <2>3 DEF PrimesStep
  <2> QED
    BY <2>2, <2>3
<1>4. Descends(Trials, Factors, PrimesMeasure, Step)
  BY <1>3 DEF Descends
<1>5. PICK f \in [Trials -> Factors] : \A p \in Trials : f[p] = Step[<<p, f>>]
  <2>1. << >> \in Factors
    BY DEF Factors
  <2> HIDE DEF Step
  <2>2. IsSolvable(Trials, Factors, Step)
    BY <1>2, <1>4, <2>1, PrimesMeasureIsNatural, RecursionByMeasure
  <2> QED
    BY <2>2 DEF IsSolvable
<1>6. f = [p \in Trials |-> PrimesStep(f, p)]
  BY <1>5
<1>7. PrimesFrom = CHOOSE g : g = [p \in Trials |-> PrimesStep(g, p)]
  BY DEF PrimesFrom, PrimesStep, Trials, Positive
<1>8. PrimesFrom = [p \in Trials |-> PrimesStep(PrimesFrom, p)]
  BY <1>6, <1>7
<1>9. ASSUME NEW n \in Positive, NEW k \in Nat \ {0, 1}, NEW d \in BOOLEAN
      PROVE  PrimesFrom[<<n, k, d>>] = PrimesStep(PrimesFrom, <<n, k, d>>)
  <2>1. <<n, k, d>> \in Trials
    BY DEF Trials
  <2> QED
    BY <1>8, <2>1
<1>10. ASSUME NEW n \in Positive, NEW k \in Nat \ {0, 1}, NEW d \in BOOLEAN
       PROVE  PrimesStep(PrimesFrom, <<n, k, d>>) =
                IF d \/ k < SquareRoot(n) + 1
                THEN IF n % k = 0 THEN << k >> \o PrimesFrom[<<n \div k, k, TRUE>>]
                                  ELSE PrimesFrom[<<n, k + 2, FALSE>>]
                ELSE IF n > 1 THEN << n >> ELSE << >>
  BY DEF PrimesStep
<1> QED
  BY <1>9, <1>10

LEMMA FactorsArePositive == Factors \subseteq Seq(Positive)
  BY DEF Factors, Positive

LEMMA PrependIsProduct ==
  ASSUME NEW x \in Nat \ {0, 1}, NEW s \in Factors
  PROVE  Product(<< x >> \o s) = x * Product(s)
<1>1. x \in Positive /\ s \in Seq(Positive)
  BY FactorsArePositive DEF Positive
<1> QED
  BY <1>1, ProductPrepends

(* Trial division factors what it is given.                                *)
LEMMA PrimesMultiply ==
  \A n \in Positive, k \in Nat \ {0, 1}, d \in BOOLEAN :
    PrimesFrom[<<n, k, d>>] \in Factors /\ Product(PrimesFrom[<<n, k, d>>]) = n
<1> DEFINE Good == {p \in Trials : PrimesFrom[p] \in Factors /\ Product(PrimesFrom[p]) = p[1]}
<1>1. ASSUME NEW p \in Trials, LessThan(Trials, PrimesMeasure, p) \subseteq Good
      PROVE  p \in Good
  <2>1. PICK n \in Positive, k \in Nat \ {0, 1}, d \in BOOLEAN : p = <<n, k, d>>
    BY DEF Trials
  <2>2. SUFFICES PrimesFrom[<<n, k, d>>] \in Factors /\ Product(PrimesFrom[<<n, k, d>>]) = n
    BY <2>1
  <2>3. CASE (d \/ k < SquareRoot(n) + 1) /\ n % k = 0
    <3>1. PICK q \in Positive : q = n \div k /\ n = k * q
      BY <2>3, QuotientIsLess
    <3>2. <<q, k, TRUE>> \in Good
      BY <1>1, <2>1, <2>3, <3>1, TrialsDescend DEF LessThan
    <3>3. PICK s \in Factors : s = PrimesFrom[<<q, k, TRUE>>] /\ Product(s) = q
      BY <3>2
    <3>4. PrimesFrom[<<n, k, d>>] = << k >> \o s
      BY <2>3, <3>1, <3>3, PrimesUnfold
    <3> QED
      BY <3>1, <3>3, <3>4, PrependIsFactors, PrependIsProduct
  <2>4. CASE (d \/ k < SquareRoot(n) + 1) /\ n % k # 0
    <3>1. <<n, k + 2, FALSE>> \in Good
      BY <1>1, <2>1, <2>4, TrialsDescend DEF LessThan
    <3>2. PrimesFrom[<<n, k, d>>] = PrimesFrom[<<n, k + 2, FALSE>>]
      BY <2>4, PrimesUnfold
    <3> QED
      BY <3>1, <3>2
  <2>5. CASE ~(d \/ k < SquareRoot(n) + 1)
    <3>1. PrimesFrom[<<n, k, d>>] = IF n > 1 THEN << n >> ELSE << >>
      BY <2>5, PrimesUnfold
    <3>2. << >> \in Factors /\ Product(<< >>) = 1
      <4>1. 1 \in Positive /\ << >> \in Seq(Positive)
        BY DEF Positive
      <4>2. Product(<< >>) = 1
        BY <4>1, ProductPrepends
      <4> QED
        BY <4>2 DEF Factors
    <3>3. CASE n > 1
      <4>1. n \in Nat \ {0, 1} /\ << n >> \o << >> = << n >>
        BY <3>3 DEF Positive
      <4>2. Product(<< n >> \o << >>) = n * Product(<< >>) /\ << n >> \o << >> \in Factors
        BY <3>2, <4>1, PrependIsProduct, PrependIsFactors
      <4> QED
        BY <3>1, <3>2, <3>3, <4>1, <4>2
    <3>4. CASE ~(n > 1)
      <4>1. n = 1
        BY <3>4 DEF Positive
      <4> QED
        BY <3>1, <3>2, <4>1
    <3> QED
      BY <3>3, <3>4
  <2> QED
    BY <2>3, <2>4, <2>5
<1>2. Trials \subseteq Good
  <2> HIDE DEF Good
  <2> QED
    BY <1>1, PrimesMeasureIsNatural, MeasureInduction
<1>3. ASSUME NEW n \in Positive, NEW k \in Nat \ {0, 1}, NEW d \in BOOLEAN
      PROVE  <<n, k, d>> \in Good
  BY <1>2 DEF Trials
<1> QED
  BY <1>3

LEMMA PrimesFactor ==
  ASSUME NEW n \in Positive
  PROVE  factorize_primes(n) \in Factors /\ Product(factorize_primes(n)) = n
<1>1. FirstTrial \in Nat \ {0, 1} /\ FALSE \in BOOLEAN
  BY DEF FirstTrial
<1> QED
  BY <1>1, PrimesMultiply DEF factorize_primes

-----------------------------------------------------------------------------
(* Division by the kernels, in the order of the provider.                  *)

LEMMA KernelFacts ==
  /\ Len(KernelNs) \in Nat /\ DOMAIN KernelNs = 1..Len(KernelNs)
  /\ \A k \in 1..Len(KernelNs) : KernelNs[k] \in Nat \ {0, 1} /\ IsKernel(KernelNs[k])
  /\ \A n : IsKernel(n) => \E k \in 1..Len(KernelNs) : n = KernelNs[k]
<1>1. KernelNs \in Seq(Nat \ {0, 1})
  BY KernelAssumption
<1> QED
  BY <1>1 DEF IsKernel, Range

Sweeps == Positive \X Positive

SweepMeasure ==
  [p \in Sweeps |-> IF p[2] > Len(KernelNs) THEN p[1] ELSE p[1] + (Len(KernelNs) + 1 - p[2])]

LEMMA SweepMeasureIsNatural == SweepMeasure \in [Sweeps -> Nat]
<1>1. ASSUME NEW n \in Positive, NEW k \in Positive
      PROVE  (IF k > Len(KernelNs) THEN n ELSE n + (Len(KernelNs) + 1 - k)) \in Nat
  BY KernelFacts DEF Positive
<1>2. ASSUME NEW p \in Sweeps
      PROVE  (IF p[2] > Len(KernelNs) THEN p[1] ELSE p[1] + (Len(KernelNs) + 1 - p[2])) \in Nat
  BY <1>1 DEF Sweeps
<1> QED
  BY <1>2 DEF SweepMeasure

LEMMA SweepsDescend ==
  ASSUME NEW n \in Positive, NEW k \in Positive, ~(k > Len(KernelNs))
  PROVE  /\ k \in 1..Len(KernelNs) /\ KernelNs[k] \in Nat \ {0, 1} /\ IsKernel(KernelNs[k])
         /\ n % KernelNs[k] = 0 =>
              /\ <<n \div KernelNs[k], k>> \in Sweeps
              /\ SweepMeasure[<<n \div KernelNs[k], k>>] < SweepMeasure[<<n, k>>]
         /\ <<n, k + 1>> \in Sweeps /\ SweepMeasure[<<n, k + 1>>] < SweepMeasure[<<n, k>>]
<1>1. k \in 1..Len(KernelNs) /\ KernelNs[k] \in Nat \ {0, 1} /\ IsKernel(KernelNs[k])
      /\ Len(KernelNs) \in Nat /\ k \in Nat /\ n \in Nat /\ n > 0
  BY KernelFacts DEF Positive
<1>2. <<n, k>> \in Sweeps /\ <<n, k + 1>> \in Sweeps
  <2>1. k + 1 \in Positive
    BY DEF Positive
  <2> QED
    BY <2>1 DEF Sweeps
<1>3. SweepMeasure[<<n, k>>] = n + (Len(KernelNs) + 1 - k)
  BY <1>1, <1>2 DEF SweepMeasure
<1>4. SweepMeasure[<<n, k + 1>>] = IF k + 1 > Len(KernelNs) THEN n
                                   ELSE n + (Len(KernelNs) + 1 - (k + 1))
  BY <1>1, <1>2 DEF SweepMeasure
<1>5. ASSUME n % KernelNs[k] = 0
      PROVE  /\ <<n \div KernelNs[k], k>> \in Sweeps
             /\ SweepMeasure[<<n \div KernelNs[k], k>>] < SweepMeasure[<<n, k>>]
  <2>1. PICK q \in Positive : q = n \div KernelNs[k] /\ 2 * q <= n
    BY <1>1, <1>5, QuotientIsLess
  <2>2. <<q, k>> \in Sweeps /\ q \in Nat /\ q > 0
    BY DEF Positive, Sweeps
  <2>3. SweepMeasure[<<q, k>>] = q + (Len(KernelNs) + 1 - k)
    BY <1>1, <2>2 DEF SweepMeasure
  <2> QED
    BY <1>1, <1>3, <2>1, <2>2, <2>3
<1> QED
  BY <1>1, <1>2, <1>3, <1>4, <1>5

ResidueStep(f, p) ==
  IF p[2] > Len(KernelNs) THEN p[1]
  ELSE IF p[1] % KernelNs[p[2]] = 0 THEN f[<<p[1] \div KernelNs[p[2]], p[2]>>]
  ELSE f[<<p[1], p[2] + 1>>]

LEMMA ResidueUnfold ==
  \A n \in Positive, k \in Positive :
    Residue[<<n, k>>] =
      IF k > Len(KernelNs) THEN n
      ELSE IF n % KernelNs[k] = 0 THEN Residue[<<n \div KernelNs[k], k>>]
      ELSE Residue[<<n, k + 1>>]
<1> DEFINE Step == [q \in Sweeps \X [Sweeps -> Positive] |-> ResidueStep(q[2], q[1])]
<1>1. ASSUME NEW p \in Sweeps, NEW f \in [Sweeps -> Positive]
      PROVE  ResidueStep(f, p) \in Positive
  <2>1. PICK n \in Positive, k \in Positive : p = <<n, k>>
    BY DEF Sweeps
  <2>2. CASE k > Len(KernelNs)
    <3>1. ResidueStep(f, p) = n
      BY <2>1, <2>2 DEF ResidueStep
    <3> QED
      BY <3>1
  <2>3. CASE ~(k > Len(KernelNs)) /\ n % KernelNs[k] = 0
    <3>1. f[<<n \div KernelNs[k], k>>] \in Positive /\ KernelNs[k] \in Nat \ {0, 1}
      BY <2>3, SweepsDescend
    <3>2. ResidueStep(f, p) = f[<<n \div KernelNs[k], k>>]
      BY <2>1, <2>3 DEF ResidueStep
    <3> QED
      BY <3>1, <3>2
  <2>4. CASE ~(k > Len(KernelNs)) /\ n % KernelNs[k] # 0
    <3>1. f[<<n, k + 1>>] \in Positive
      BY <2>4, SweepsDescend
    <3>2. ResidueStep(f, p) = f[<<n, k + 1>>]
      BY <2>1, <2>4 DEF ResidueStep
    <3> QED
      BY <3>1, <3>2
  <2> QED
    BY <2>2, <2>3, <2>4
<1>2. Step \in [Sweeps \X [Sweeps -> Positive] -> Positive]
  BY <1>1
<1>3. ASSUME NEW p \in Sweeps, NEW f \in [Sweeps -> Positive], NEW g \in [Sweeps -> Positive],
             \A y \in Sweeps : SweepMeasure[y] < SweepMeasure[p] => f[y] = g[y]
      PROVE  ResidueStep(f, p) = ResidueStep(g, p)
  <2>1. PICK n \in Positive, k \in Positive : p = <<n, k>>
    BY DEF Sweeps
  <2>2. CASE k > Len(KernelNs)
    BY <2>1, <2>2 DEF ResidueStep
  <2>3. CASE ~(k > Len(KernelNs)) /\ n % KernelNs[k] = 0
    <3>1. f[<<n \div KernelNs[k], k>>] = g[<<n \div KernelNs[k], k>>]
      BY <1>3, <2>1, <2>3, SweepsDescend
    <3> QED
      BY <2>1, <2>3, <3>1 DEF ResidueStep
  <2>4. CASE ~(k > Len(KernelNs)) /\ n % KernelNs[k] # 0
    <3>1. f[<<n, k + 1>>] = g[<<n, k + 1>>]
      BY <1>3, <2>1, <2>4, SweepsDescend
    <3> QED
      BY <2>1, <2>4, <3>1 DEF ResidueStep
  <2> QED
    BY <2>2, <2>3, <2>4
<1>4. Descends(Sweeps, Positive, SweepMeasure, Step)
  BY <1>3 DEF Descends
<1>5. PICK f \in [Sweeps -> Positive] : \A p \in Sweeps : f[p] = Step[<<p, f>>]
  <2>1. 1 \in Positive
    BY DEF Positive
  <2> HIDE DEF Step
  <2>2. IsSolvable(Sweeps, Positive, Step)
    BY <1>2, <1>4, <2>1, SweepMeasureIsNatural, RecursionByMeasure
  <2> QED
    BY <2>2 DEF IsSolvable
<1>6. f = [p \in Sweeps |-> ResidueStep(f, p)]
  BY <1>5
<1>7. Residue = CHOOSE g : g = [p \in Sweeps |-> ResidueStep(g, p)]
  BY DEF Residue, ResidueStep, Sweeps, Positive
<1>8. Residue = [p \in Sweeps |-> ResidueStep(Residue, p)]
  BY <1>6, <1>7
<1>9. ASSUME NEW n \in Positive, NEW k \in Positive
      PROVE  Residue[<<n, k>>] = ResidueStep(Residue, <<n, k>>)
  <2>1. <<n, k>> \in Sweeps
    BY DEF Sweeps
  <2> QED
    BY <1>8, <2>1
<1>10. ASSUME NEW n \in Positive, NEW k \in Positive
       PROVE  ResidueStep(Residue, <<n, k>>) =
                IF k > Len(KernelNs) THEN n
                ELSE IF n % KernelNs[k] = 0 THEN Residue[<<n \div KernelNs[k], k>>]
                ELSE Residue[<<n, k + 1>>]
  BY DEF ResidueStep
<1> QED
  BY <1>9, <1>10

GreedyStep(f, p) ==
  IF p[2] > Len(KernelNs) THEN factorize_primes(p[1])
  ELSE IF p[1] % KernelNs[p[2]] = 0 THEN << KernelNs[p[2]] >> \o f[<<p[1] \div KernelNs[p[2]], p[2]>>]
  ELSE f[<<p[1], p[2] + 1>>]

LEMMA GreedyUnfold ==
  \A n \in Positive, k \in Positive :
    Greedy[<<n, k>>] =
      IF k > Len(KernelNs) THEN factorize_primes(n)
      ELSE IF n % KernelNs[k] = 0 THEN << KernelNs[k] >> \o Greedy[<<n \div KernelNs[k], k>>]
      ELSE Greedy[<<n, k + 1>>]
<1> DEFINE Step == [q \in Sweeps \X [Sweeps -> Factors] |-> GreedyStep(q[2], q[1])]
<1>1. ASSUME NEW p \in Sweeps, NEW f \in [Sweeps -> Factors]
      PROVE  GreedyStep(f, p) \in Factors
  <2>1. PICK n \in Positive, k \in Positive : p = <<n, k>>
    BY DEF Sweeps
  <2>2. CASE k > Len(KernelNs)
    <3>1. GreedyStep(f, p) = factorize_primes(n)
      BY <2>1, <2>2 DEF GreedyStep
    <3> QED
      BY <3>1, PrimesFactor
  <2>3. CASE ~(k > Len(KernelNs)) /\ n % KernelNs[k] = 0
    <3>1. f[<<n \div KernelNs[k], k>>] \in Factors /\ KernelNs[k] \in Nat \ {0, 1}
      BY <2>3, SweepsDescend
    <3>2. GreedyStep(f, p) = << KernelNs[k] >> \o f[<<n \div KernelNs[k], k>>]
      BY <2>1, <2>3 DEF GreedyStep
    <3> QED
      BY <3>1, <3>2, PrependIsFactors
  <2>4. CASE ~(k > Len(KernelNs)) /\ n % KernelNs[k] # 0
    <3>1. f[<<n, k + 1>>] \in Factors
      BY <2>4, SweepsDescend
    <3>2. GreedyStep(f, p) = f[<<n, k + 1>>]
      BY <2>1, <2>4 DEF GreedyStep
    <3> QED
      BY <3>1, <3>2
  <2> QED
    BY <2>2, <2>3, <2>4
<1>2. Step \in [Sweeps \X [Sweeps -> Factors] -> Factors]
  BY <1>1
<1>3. ASSUME NEW p \in Sweeps, NEW f \in [Sweeps -> Factors], NEW g \in [Sweeps -> Factors],
             \A y \in Sweeps : SweepMeasure[y] < SweepMeasure[p] => f[y] = g[y]
      PROVE  GreedyStep(f, p) = GreedyStep(g, p)
  <2>1. PICK n \in Positive, k \in Positive : p = <<n, k>>
    BY DEF Sweeps
  <2>2. CASE k > Len(KernelNs)
    BY <2>1, <2>2 DEF GreedyStep
  <2>3. CASE ~(k > Len(KernelNs)) /\ n % KernelNs[k] = 0
    <3>1. f[<<n \div KernelNs[k], k>>] = g[<<n \div KernelNs[k], k>>]
      BY <1>3, <2>1, <2>3, SweepsDescend
    <3> QED
      BY <2>1, <2>3, <3>1 DEF GreedyStep
  <2>4. CASE ~(k > Len(KernelNs)) /\ n % KernelNs[k] # 0
    <3>1. f[<<n, k + 1>>] = g[<<n, k + 1>>]
      BY <1>3, <2>1, <2>4, SweepsDescend
    <3> QED
      BY <2>1, <2>4, <3>1 DEF GreedyStep
  <2> QED
    BY <2>2, <2>3, <2>4
<1>4. Descends(Sweeps, Factors, SweepMeasure, Step)
  BY <1>3 DEF Descends
<1>5. PICK f \in [Sweeps -> Factors] : \A p \in Sweeps : f[p] = Step[<<p, f>>]
  <2>1. << >> \in Factors
    BY DEF Factors
  <2> HIDE DEF Step
  <2>2. IsSolvable(Sweeps, Factors, Step)
    BY <1>2, <1>4, <2>1, SweepMeasureIsNatural, RecursionByMeasure
  <2> QED
    BY <2>2 DEF IsSolvable
<1>6. f = [p \in Sweeps |-> GreedyStep(f, p)]
  BY <1>5
<1>7. Greedy = CHOOSE g : g = [p \in Sweeps |-> GreedyStep(g, p)]
  BY DEF Greedy, GreedyStep, Sweeps, Positive
<1>8. Greedy = [p \in Sweeps |-> GreedyStep(Greedy, p)]
  BY <1>6, <1>7
<1>9. ASSUME NEW n \in Positive, NEW k \in Positive
      PROVE  Greedy[<<n, k>>] = GreedyStep(Greedy, <<n, k>>)
  <2>1. <<n, k>> \in Sweeps
    BY DEF Sweeps
  <2> QED
    BY <1>8, <2>1
<1>10. ASSUME NEW n \in Positive, NEW k \in Positive
       PROVE  GreedyStep(Greedy, <<n, k>>) =
                IF k > Len(KernelNs) THEN factorize_primes(n)
                ELSE IF n % KernelNs[k] = 0 THEN << KernelNs[k] >> \o Greedy[<<n \div KernelNs[k], k>>]
                ELSE Greedy[<<n, k + 1>>]
  BY DEF GreedyStep
<1> QED
  BY <1>9, <1>10

-----------------------------------------------------------------------------
(* Divisibility.                                                           *)

Divides(d, n) == \E q \in Nat : n = d * q

LEMMA DividesIsExact ==
  ASSUME NEW n \in Nat, NEW d \in Nat \ {0}
  PROVE  n % d = 0 <=> Divides(d, n)
<1>1. n \div d \in Nat /\ n = d * (n \div d) + (n % d) /\ n % d \in Nat
  BY DivisionFacts
<1>2. ASSUME n % d = 0 PROVE Divides(d, n)
  <2> DEFINE q == n \div d
  <2>1. q \in Nat /\ n = d * q + 0
    BY <1>1, <1>2
  <2> HIDE DEF q
  <2>2. n = d * q
    BY <2>1
  <2> QED
    BY <2>1, <2>2 DEF Divides
<1>3. ASSUME Divides(d, n) PROVE n % d = 0
  <2>1. PICK q \in Nat : n = d * q
    BY <1>3 DEF Divides
  <2> QED
    BY <2>1, ExactDivision
<1> QED
  BY <1>2, <1>3

LEMMA DividesThrough ==
  ASSUME NEW a \in Nat, NEW b \in Nat, NEW c \in Nat, Divides(a, b), Divides(b, c)
  PROVE  Divides(a, c)
<1>1. PICK p \in Nat, q \in Nat : b = a * p /\ c = b * q
  BY DEF Divides
<1>2. p * q \in Nat /\ c = a * (p * q)
  BY <1>1
<1> QED
  BY <1>2 DEF Divides

LEMMA DivisorIsLess ==
  ASSUME NEW d \in Nat, NEW n \in Positive, Divides(d, n)
  PROVE  d \in Positive /\ d <= n
<1>1. PICK q \in Nat : n = d * q
  BY DEF Divides
<1>2. n \in Nat /\ n > 0
  BY DEF Positive
<1>3. q # 0 /\ d # 0
  BY <1>1, <1>2
<1>4. PICK e \in Nat : q = e + 1
  <2>1. q - 1 \in Nat /\ q = (q - 1) + 1
    BY <1>3
  <2> QED
    BY <2>1
<1>5. n = d + d * e /\ d * e \in Nat
  BY <1>1, <1>4
<1> QED
  BY <1>3, <1>5 DEF Positive

(* An element of a sequence divides its product.                           *)
LEMMA ElementDivides ==
  ASSUME NEW s \in Seq(Positive), NEW i \in DOMAIN s
  PROVE  Divides(s[i], Product(s))
<1>1. PICK D \in SUBSET DOMAIN s : D = DOMAIN s
  OBVIOUS
<1>2. Product(s) = Products(s)[D \ {i}] * s[i]
  BY <1>1, ProductTakesAny, ProductsExist
<1>3. PICK v \in Positive : v = Products(s)[D \ {i}]
  BY ProductsExist
<1>4. v \in Nat /\ s[i] \in Nat /\ v * s[i] = s[i] * v
  BY DEF Positive
<1> QED
  BY <1>2, <1>3, <1>4 DEF Divides

-----------------------------------------------------------------------------
(* The greedy factorisation.                                               *)

LEMMA AllKernelsByPlace ==
  ASSUME NEW s \in Factors
  PROVE  AllKernels(s) <=> \A i \in DOMAIN s : IsKernel(s[i])
  BY DEF Factors, AllKernels, Range

LEMMA AllKernelsPrepends ==
  ASSUME NEW x \in Nat \ {0, 1}, NEW s \in Factors, IsKernel(x)
  PROVE  AllKernels(<< x >> \o s) <=> AllKernels(s)
<1> DEFINE t == << x >> \o s
<1>1. t \in Factors /\ Len(t) = Len(s) + 1 /\ t[1] = x /\ \A i \in 1..Len(s) : t[i + 1] = s[i]
  BY PrependIsFactors
<1> HIDE DEF t
<1>2. DOMAIN t = 1..(Len(s) + 1) /\ DOMAIN s = 1..Len(s) /\ Len(s) \in Nat
  BY <1>1 DEF Factors
<1>3. ASSUME AllKernels(t) PROVE \A i \in DOMAIN s : IsKernel(s[i])
  <2>1. ASSUME NEW i \in 1..Len(s) PROVE IsKernel(s[i])
    <3>1. i + 1 \in DOMAIN t /\ t[i + 1] = s[i]
      BY <1>1, <1>2
    <3> QED
      BY <1>1, <1>3, <3>1, AllKernelsByPlace
  <2> QED
    BY <1>2, <2>1
<1>4. ASSUME AllKernels(s) PROVE \A i \in DOMAIN t : IsKernel(t[i])
  <2>1. ASSUME NEW i \in 1..(Len(s) + 1) PROVE IsKernel(t[i])
    <3>1. CASE i = 1
      BY <1>1, <3>1
    <3>2. CASE i # 1
      <4>1. i - 1 \in 1..Len(s) /\ (i - 1) + 1 = i
        BY <1>2, <3>2
      <4>2. t[i] = s[i - 1] /\ i - 1 \in DOMAIN s
        BY <1>1, <1>2, <4>1
      <4> QED
        BY <1>4, <4>2, AllKernelsByPlace
    <3> QED
      BY <3>1, <3>2
  <2> QED
    BY <1>2, <2>1
<1>5. AllKernels(t) <=> AllKernels(s)
  BY <1>1, <1>3, <1>4, AllKernelsByPlace
<1> QED
  BY <1>5 DEF t

(* No kernel before the k-th divides n.                                    *)
Swept(n, k) == \A j \in 1..Len(KernelNs) : j < k => ~Divides(KernelNs[j], n)

GreedyIsRight(n, k) ==
  /\ Greedy[<<n, k>>] \in Factors /\ Product(Greedy[<<n, k>>]) = n
  /\ Residue[<<n, k>>] \in Positive /\ Divides(Residue[<<n, k>>], n)
  /\ AllKernels(Greedy[<<n, k>>]) <=> AllKernels(factorize_primes(Residue[<<n, k>>]))
  /\ Swept(n, k) => Swept(Residue[<<n, k>>], Len(KernelNs) + 1)

LEMMA GreedyFactors ==
  \A n \in Positive, k \in Positive : GreedyIsRight(n, k)
<1> DEFINE Good == {p \in Sweeps : GreedyIsRight(p[1], p[2])}
<1>0. \A n \in Positive, k \in Positive : <<n, k>> \in Good <=> GreedyIsRight(n, k)
  BY DEF Sweeps
<1> HIDE DEF Good
<1>1. ASSUME NEW p \in Sweeps, LessThan(Sweeps, SweepMeasure, p) \subseteq Good
      PROVE  p \in Good
  <2>1. PICK n \in Positive, k \in Positive : p = <<n, k>>
    BY DEF Sweeps
  <2>2. SUFFICES GreedyIsRight(n, k)
    BY <1>0, <2>1
  <2>0. n \in Nat /\ k \in Nat
    BY DEF Positive
  <2>3. CASE k > Len(KernelNs)
    <3>1. Greedy[<<n, k>>] = factorize_primes(n) /\ Residue[<<n, k>>] = n
      BY <2>3, GreedyUnfold, ResidueUnfold
    <3>2. Swept(n, k) => Swept(n, Len(KernelNs) + 1)
      BY <2>0, <2>3, KernelFacts DEF Swept
    <3>3. Divides(n, n)
      <4>1. n = n * 1
        BY <2>0
      <4> QED
        BY <4>1 DEF Divides
    <3> QED
      BY <3>1, <3>2, <3>3, PrimesFactor DEF GreedyIsRight
  <2>4. CASE ~(k > Len(KernelNs)) /\ n % KernelNs[k] = 0
    <3>1. PICK m \in Nat \ {0, 1} : m = KernelNs[k] /\ IsKernel(m)
      BY <2>4, SweepsDescend
    <3>2. PICK q \in Positive : q = n \div m /\ n = m * q
      BY <2>4, <3>1, QuotientIsLess
    <3>3. GreedyIsRight(q, k)
      <4>1. <<q, k>> \in Sweeps /\ SweepMeasure[<<q, k>>] < SweepMeasure[p]
        BY <2>1, <2>4, <3>1, <3>2, SweepsDescend
      <4>2. <<q, k>> \in Good
        BY <1>1, <4>1 DEF LessThan
      <4> QED
        BY <1>0, <4>2
    <3>4. Greedy[<<n, k>>] = << m >> \o Greedy[<<q, k>>] /\ Residue[<<n, k>>] = Residue[<<q, k>>]
      BY <2>4, <3>1, <3>2, GreedyUnfold, ResidueUnfold
    <3>5. PICK s \in Factors : s = Greedy[<<q, k>>] /\ Product(s) = q
      BY <3>3 DEF GreedyIsRight
    <3>6. PICK r \in Positive : r = Residue[<<q, k>>] /\ Divides(r, q)
      BY <3>3 DEF GreedyIsRight
    <3>7. << m >> \o s \in Factors /\ Product(<< m >> \o s) = n
      BY <3>2, <3>5, PrependIsFactors, PrependIsProduct
    <3>8. Divides(q, n)
      <4>1. m \in Nat /\ q \in Nat /\ n = q * m
        BY <3>2 DEF Positive
      <4> QED
        BY <4>1 DEF Divides
    <3>9. Divides(r, n)
      BY <2>0, <3>6, <3>8, DividesThrough DEF Positive
    <3>10. AllKernels(<< m >> \o s) <=> AllKernels(factorize_primes(r))
      BY <3>1, <3>3, <3>5, <3>6, AllKernelsPrepends DEF GreedyIsRight
    <3>11. Swept(n, k) => Swept(q, k)
      <4>1. ASSUME NEW j \in 1..Len(KernelNs), Divides(KernelNs[j], q)
            PROVE  Divides(KernelNs[j], n)
        <5>1. KernelNs[j] \in Nat /\ q \in Nat
          BY KernelFacts DEF Positive
        <5> QED
          BY <2>0, <3>8, <4>1, <5>1, DividesThrough
      <4> QED
        BY <4>1 DEF Swept
    <3>12. Swept(q, k) => Swept(r, Len(KernelNs) + 1)
      BY <3>3, <3>6 DEF GreedyIsRight
    <3> QED
      BY <3>4, <3>5, <3>6, <3>7, <3>9, <3>10, <3>11, <3>12 DEF GreedyIsRight
  <2>5. CASE ~(k > Len(KernelNs)) /\ n % KernelNs[k] # 0
    <3>1. k + 1 \in Positive /\ k \in 1..Len(KernelNs) /\ KernelNs[k] \in Nat \ {0}
      <4>1. k \in 1..Len(KernelNs) /\ KernelNs[k] \in Nat \ {0, 1}
        BY <2>5, SweepsDescend
      <4> QED
        BY <2>0, <4>1 DEF Positive
    <3>2. GreedyIsRight(n, k + 1)
      <4>1. <<n, k + 1>> \in Sweeps /\ SweepMeasure[<<n, k + 1>>] < SweepMeasure[p]
        BY <2>1, <2>5, SweepsDescend
      <4>2. <<n, k + 1>> \in Good
        BY <1>1, <4>1 DEF LessThan
      <4> QED
        BY <1>0, <3>1, <4>2
    <3>3. Greedy[<<n, k>>] = Greedy[<<n, k + 1>>] /\ Residue[<<n, k>>] = Residue[<<n, k + 1>>]
      BY <2>5, GreedyUnfold, ResidueUnfold
    <3>4. Swept(n, k) => Swept(n, k + 1)
      <4>1. ~Divides(KernelNs[k], n)
        BY <2>0, <2>5, <3>1, DividesIsExact
      <4> QED
        BY <2>0, <4>1 DEF Swept
    <3> QED
      BY <3>2, <3>3, <3>4 DEF GreedyIsRight
  <2> QED
    BY <2>3, <2>4, <2>5
<1>2. Sweeps \subseteq Good
  BY <1>1, SweepMeasureIsNatural, MeasureInduction
<1>3. ASSUME NEW n \in Positive, NEW k \in Positive PROVE <<n, k>> \in Good
  BY <1>2 DEF Sweeps
<1> QED
  BY <1>0, <1>3

(* What trial division leaves of a length that no kernel divides: kernels  *)
(* only when there is nothing left to divide.                              *)
LEMMA SweptPrimes ==
  ASSUME NEW m \in Positive, Swept(m, Len(KernelNs) + 1)
  PROVE  AllKernels(factorize_primes(m)) <=> m = 1
<1>1. PICK s \in Factors : s = factorize_primes(m) /\ Product(s) = m
  BY PrimesFactor
<1>2. \A i \in DOMAIN s : s[i] \in Nat \ {0, 1} /\ Divides(s[i], m)
  <2>1. s \in Seq(Positive)
    BY FactorsArePositive
  <2> QED
    BY <1>1, <2>1, ElementDivides DEF Factors
<1>3. ASSUME m = 1 PROVE AllKernels(s)
  <2>1. ASSUME NEW i \in DOMAIN s PROVE FALSE
    <3>1. s[i] \in Nat /\ s[i] > 1 /\ Divides(s[i], m)
      BY <1>2
    <3>2. s[i] <= m
      BY <3>1, DivisorIsLess
    <3> QED
      BY <1>3, <3>1, <3>2
  <2> QED
    BY <2>1, AllKernelsByPlace
<1>4. ASSUME AllKernels(s), m # 1 PROVE FALSE
  <2>1. s # << >>
    <3>1. 1 \in Positive /\ << >> \in Seq(Positive)
      BY DEF Positive
    <3>2. Product(<< >>) = 1
      BY <3>1, ProductPrepends
    <3> QED
      BY <1>1, <1>4, <3>2
  <2>2. 1 \in DOMAIN s
    BY <2>1 DEF Factors
  <2>3. IsKernel(s[1]) /\ Divides(s[1], m)
    BY <1>2, <1>4, <2>2, AllKernelsByPlace
  <2>4. PICK j \in 1..Len(KernelNs) : s[1] = KernelNs[j]
    BY <2>3, KernelFacts
  <2>5. j < Len(KernelNs) + 1
    BY KernelFacts
  <2> QED
    BY <2>3, <2>4, <2>5 DEF Swept
<1> QED
  BY <1>1, <1>3, <1>4

(* The greedy factorisation has kernels only for the lengths the kernels   *)
(* factor when they divide in turn.                                        *)
LEMMA GreedySucceeds ==
  ASSUME NEW n \in Positive
  PROVE  /\ Greedy[<<n, 1>>] \in Factors /\ Product(Greedy[<<n, 1>>]) = n
         /\ AllKernels(Greedy[<<n, 1>>]) <=> KernelsFactor(n)
<1>1. 1 \in Positive /\ Swept(n, 1)
  BY KernelFacts DEF Positive, Swept
<1>2. GreedyIsRight(n, 1)
  BY <1>1, GreedyFactors
<1>3. PICK r \in Positive : r = Residue[<<n, 1>>] /\ Swept(r, Len(KernelNs) + 1)
  BY <1>1, <1>2 DEF GreedyIsRight
<1>4. AllKernels(factorize_primes(r)) <=> r = 1
  BY <1>3, SweptPrimes
<1> QED
  BY <1>2, <1>3, <1>4 DEF GreedyIsRight, KernelsFactor

-----------------------------------------------------------------------------
(* Primes.                                                                 *)

IsPrime(p) == p \in Nat \ {0, 1} /\ \A d \in Nat \ {0, 1} : Divides(d, p) => d = p

LEMMA HasPrime ==
  ASSUME NEW n \in Nat \ {0, 1}
  PROVE  \E p \in Nat \ {0, 1} : IsPrime(p) /\ Divides(p, n)
<1> DEFINE Divisors == {d \in Nat \ {0, 1} : Divides(d, n)}
<1>1. n \in Divisors
  <2>1. n = n * 1
    OBVIOUS
  <2> QED
    BY <2>1 DEF Divides
<1>2. PICK p \in Divisors : \A d \in Divisors : p <= d
  <2>1. Divisors \in SUBSET Nat /\ Divisors # {}
    BY <1>1
  <2> HIDE DEF Divisors
  <2> QED
    BY <2>1, LeastNumber
<1>3. ASSUME NEW d \in Nat \ {0, 1}, Divides(d, p) PROVE d = p
  <2>1. p \in Positive /\ p \in Nat /\ Divides(p, n)
    BY DEF Positive
  <2>2. d <= p
    BY <1>3, <2>1, DivisorIsLess
  <2>3. Divides(d, n)
    BY <1>3, <2>1, DividesThrough
  <2>4. p <= d
    BY <1>2, <2>3
  <2> QED
    BY <2>1, <2>2, <2>4
<1> QED
  BY <1>3 DEF IsPrime

(* Euclid: a prime that divides a product divides one of its factors.      *)
LEMMA PrimeDivides ==
  ASSUME NEW p \in Nat \ {0, 1}, IsPrime(p), NEW a \in Nat, NEW b \in Nat, Divides(p, a * b)
  PROVE  Divides(p, a) \/ Divides(p, b)
<1> DEFINE S == {x \in Positive : Divides(p, x * b)}
<1>1. p \in S
  BY DEF Divides, Positive
<1>2. PICK d \in S : \A x \in S : d <= x
  <2>1. S \in SUBSET Nat /\ S # {}
    BY <1>1 DEF Positive
  <2> HIDE DEF S
  <2> QED
    BY <2>1, LeastNumber
<1>3. d \in Nat \ {0} /\ Divides(p, d * b)
  BY DEF Positive
<1>4. ASSUME NEW x \in Nat, Divides(p, x * b) PROVE Divides(d, x)
  <2>1. PICK q \in Nat, r \in Nat : r < d /\ x = d * q + r
    <3>1. x \div d \in Nat /\ x % d \in 0..(d - 1) /\ x = d * (x \div d) + (x % d)
      BY <1>3, DivisionFacts
    <3>2. x % d \in Nat /\ x % d < d
      BY <1>3, <3>1
    <3> QED
      BY <3>1, <3>2
  <2>2. PICK u \in Nat : d * b = p * u
    BY <1>3 DEF Divides
  <2>3. PICK v \in Nat : x * b = p * v
    BY <1>4 DEF Divides
  <2>4. r * b = p * (v - u * q)
    <3>1. x * b = (d * q + r) * b
      BY <2>1
    <3>2. (d * q + r) * b = (d * b) * q + r * b
      <4>1. \A e, f, g, h \in Nat : (e * f + g) * h = (e * h) * f + g * h
        OBVIOUS
      <4> QED
        BY <1>3, <4>1
    <3>3. (p * u) * q = p * (u * q) /\ p * (v - u * q) = p * v - p * (u * q)
      OBVIOUS
    <3>4. (d * b) * q = (p * u) * q
      BY <2>2
    <3>5. (d * b) * q \in Nat /\ r * b \in Nat /\ p * v \in Nat /\ p * (u * q) \in Nat
      BY <1>3
    <3> QED
      BY <2>3, <3>1, <3>2, <3>3, <3>4, <3>5
  <2>5. v - u * q \in Nat
    <3>1. v - u * q \in Int /\ r * b \in Nat /\ p > 0
      OBVIOUS
    <3>2. ASSUME v - u * q < 0 PROVE FALSE
      <4>1. PICK w \in Nat : v - u * q = 0 - (w + 1)
        <5>1. 0 - (v - u * q) - 1 \in Nat /\ v - u * q = 0 - ((0 - (v - u * q) - 1) + 1)
          BY <3>1, <3>2
        <5> QED
          BY <5>1
      <4>2. p * (v - u * q) = 0 - (p * w + p) /\ p * w \in Nat
        BY <4>1
      <4> QED
        BY <2>4, <3>1, <4>2
    <3> QED
      BY <3>1, <3>2
  <2>6. Divides(p, r * b)
    BY <2>4, <2>5 DEF Divides
  <2>7. r = 0
    <3>1. ASSUME r # 0 PROVE FALSE
      <4>1. r \in S
        BY <2>6, <3>1 DEF Positive
      <4> QED
        BY <1>2, <1>3, <2>1, <4>1
    <3> QED
      BY <3>1
  <2>8. x = d * q
    BY <1>3, <2>1, <2>7
  <2> QED
    BY <2>8 DEF Divides
<1>5. Divides(d, p)
  BY <1>1, <1>4
<1>6. d = 1 \/ d = p
  BY <1>3, <1>5 DEF IsPrime
<1>7. CASE d = 1
  <2>1. d * b = b
    BY <1>7
  <2> QED
    BY <1>3, <2>1
<1>8. CASE d = p
  BY <1>4, <1>8
<1> QED
  BY <1>6, <1>7, <1>8

LEMMA PrimeDividesElement ==
  ASSUME NEW p \in Nat \ {0, 1}, IsPrime(p), NEW s \in Seq(Positive), Divides(p, Product(s))
  PROVE  \E i \in DOMAIN s : Divides(p, s[i])
<1> DEFINE D == DOMAIN s
           pick == [S \in SUBSET D |-> Max(S)]
           Good == {S \in SUBSET D : Divides(p, Products(s)[S]) => \E i \in S : Divides(p, s[i])}
<1>1. IsFiniteSet(D) /\ Picks(pick, D)
  BY PlacesHaveExtremes DEF Picks
<1>2. {} \in Good
  <2>1. ASSUME Divides(p, 1) PROVE FALSE
    <3>1. p <= 1
      BY <2>1, DivisorIsLess DEF Positive
    <3> QED
      BY <3>1
  <2> QED
    BY <2>1, ProductsExist
<1>3. ASSUME NEW S \in SUBSET D, S # {}, S \ {pick[S]} \in Good PROVE S \in Good
  <2>1. PICK m \in S : m = Max(S) /\ m = pick[S]
    BY <1>1, <1>3 DEF Picks
  <2>2. PICK a \in Positive, b \in Positive : a = Products(s)[S \ {m}] /\ b = s[m]
    <3>1. Products(s)[S \ {m}] \in Positive
      BY ProductsExist
    <3>2. s[m] \in Positive
      OBVIOUS
    <3> QED
      BY <3>1, <3>2
  <2>3. Products(s)[S] = a * b
    BY <1>3, <2>1, <2>2, ProductsExist
  <2>4. a \in Nat /\ b \in Nat
    BY DEF Positive
  <2>5. Divides(p, a * b) => Divides(p, a) \/ Divides(p, b)
    BY <2>4, PrimeDivides
  <2>6. Divides(p, a) => \E i \in S : Divides(p, s[i])
    BY <1>3, <2>1, <2>2
  <2> QED
    BY <2>2, <2>3, <2>5, <2>6
<1>4. \A S \in SUBSET D : S \in Good
  <2> HIDE DEF Good, pick, D
  <2> QED
    BY <1>1, <1>2, <1>3, SubsetInduction
<1>5. PICK S \in SUBSET D : S = DOMAIN s /\ Product(s) = Products(s)[S]
  BY ProductsExist
<1> QED
  BY <1>4, <1>5

(* A prime that divides a product of kernels is itself a kernel.           *)
LEMMA PrimesAreKernels ==
  ASSUME NEW s \in Factors, AllKernels(s),
         NEW p \in Nat \ {0, 1}, IsPrime(p), Divides(p, Product(s))
  PROVE  IsKernel(p)
<1>1. s \in Seq(Positive)
  BY FactorsArePositive
<1>2. PICK i \in DOMAIN s : Divides(p, s[i])
  BY <1>1, PrimeDividesElement
<1>3. IsKernel(s[i])
  BY AllKernelsByPlace
<1>4. PICK j \in 1..Len(KernelNs) : s[i] = KernelNs[j]
  BY <1>3, KernelFacts
<1>5. KernelNs[j] \in Positive /\ KernelNs[j] \in Nat /\ j \in DOMAIN KernelNs
  BY KernelFacts DEF Positive
<1>6. p \in 2..KernelNs[j]
  BY <1>2, <1>4, <1>5, DivisorIsLess
<1>7. KernelNs[j] % p = 0
  BY <1>2, <1>4, <1>5, DividesIsExact
<1> QED
  BY <1>5, <1>6, <1>7, KernelAssumption

(* So a product of kernels, in any order, is factored by dividing greedily.*)
LEMMA KernelsFactorProducts ==
  ASSUME NEW s \in Factors, AllKernels(s)
  PROVE  KernelsFactor(Product(s))
<1>1. PICK n \in Positive : n = Product(s)
  BY FactorsArePositive, ProductsExist
<1>2. 1 \in Positive /\ Swept(n, 1)
  BY KernelFacts DEF Positive, Swept
<1>3. GreedyIsRight(n, 1)
  BY <1>2, GreedyFactors
<1>4. PICK r \in Positive : r = Residue[<<n, 1>>] /\ Swept(r, Len(KernelNs) + 1) /\ Divides(r, n)
  BY <1>2, <1>3 DEF GreedyIsRight
<1>5. ASSUME r # 1 PROVE FALSE
  <2>1. r \in Nat \ {0, 1} /\ n \in Nat
    BY <1>5 DEF Positive
  <2>2. PICK p \in Nat \ {0, 1} : IsPrime(p) /\ Divides(p, r)
    BY <2>1, HasPrime
  <2>3. Divides(p, n)
    BY <1>4, <2>1, <2>2, DividesThrough
  <2>4. IsKernel(p)
    BY <1>1, <2>2, <2>3, PrimesAreKernels
  <2>5. PICK j \in 1..Len(KernelNs) : p = KernelNs[j]
    BY <2>4, KernelFacts
  <2>6. j < Len(KernelNs) + 1
    BY KernelFacts
  <2> QED
    BY <1>4, <2>2, <2>5, <2>6 DEF Swept
<1> QED
  BY <1>1, <1>4, <1>5 DEF KernelsFactor

(* And the primes of a length the kernels factor are kernels.              *)
LEMMA FactoredPrimes ==
  ASSUME NEW n \in Positive, KernelsFactor(n),
         NEW p \in Nat \ {0, 1}, IsPrime(p), Divides(p, n)
  PROVE  IsKernel(p)
<1>1. PICK s \in Factors : s = Greedy[<<n, 1>>] /\ Product(s) = n /\ AllKernels(s)
  BY GreedySucceeds
<1> QED
  BY <1>1, PrimesAreKernels

-----------------------------------------------------------------------------
(* The factorisation towards equal factors.                                *)

LEMMA UsefulKernels ==
  ASSUME NEW n \in Positive
  PROVE  /\ Useful(n) \in SUBSET (1..Len(KernelNs)) /\ Useful(n) \in SUBSET DOMAIN KernelNs
         /\ \A i \in Useful(n) : KernelNs[i] \in Nat \ {0, 1} /\ IsKernel(KernelNs[i])
                                 /\ n % KernelNs[i] = 0
         /\ Useful(n) = {} <=> Swept(n, Len(KernelNs) + 1)
<1>1. Useful(n) = {i \in 1..Len(KernelNs) : n % KernelNs[i] = 0}
  BY KernelFacts DEF Useful
<1>2. \A i \in 1..Len(KernelNs) : KernelNs[i] \in Nat \ {0, 1} /\ IsKernel(KernelNs[i])
  BY KernelFacts
<1>3. \A i \in 1..Len(KernelNs) : n % KernelNs[i] = 0 <=> Divides(KernelNs[i], n)
  BY <1>2, DividesIsExact DEF Positive
<1>4. Len(KernelNs) \in Nat /\ \A i \in 1..Len(KernelNs) : i < Len(KernelNs) + 1
  BY KernelFacts
<1>5. Useful(n) = {} <=> Swept(n, Len(KernelNs) + 1)
  BY <1>1, <1>3, <1>4 DEF Swept
<1> QED
  BY <1>1, <1>2, <1>5, KernelFacts

LEMMA TopsDivide ==
  ASSUME NEW n \in Positive, Useful(n) # {}
  PROVE  /\ TopFactors(n) # {}
         /\ \A top \in TopFactors(n) : top \in Nat \ {0, 1} /\ IsKernel(top) /\ n % top = 0
<1>1. PICK U \in SUBSET DOMAIN KernelNs : U = Useful(n) /\ U # {}
  BY UsefulKernels
<1>2. ASSUME NEW root PROVE \E i \in U : Snap(U, root) = KernelNs[i]
  <2> DEFINE above == {i \in U : /\ KernelNs[i] >= root
                                 /\ \E j \in U : /\ j > i /\ KernelNs[j] < root
                                                 /\ \A k \in U : k <= i \/ k >= j}
  <2>1. Snap(U, root) = KernelNs[IF above = {} THEN Max(U) ELSE Min(above)]
    BY DEF Snap
  <2>2. above \in SUBSET U
    OBVIOUS
  <2> HIDE DEF above
  <2>3. KernelNs \in Seq(Nat \ {0, 1})
    BY KernelAssumption
  <2>4. Max(U) \in U
    BY <1>1, <2>3, PlacesHaveExtremes
  <2>5. above # {} => Min(above) \in above
    BY <2>2, <2>3, PlacesHaveExtremes
  <2> QED
    BY <2>1, <2>2, <2>4, <2>5
<1>3. \A top \in TopFactors(n) : \E i \in U : top = KernelNs[i]
  BY <1>1, <1>2 DEF TopFactors
<1>4. TopFactors(n) # {}
  <2>1. \E lg : lg \in Logs(n, SquareBase(n))
    BY DEF Logs
  <2>2. PICK lg : lg \in Logs(n, SquareBase(n))
    BY <2>1
  <2>3. \E root : root \in FloorRoots(n, lg)
    BY DEF FloorRoots
  <2>4. PICK root : root \in FloorRoots(n, lg)
    BY <2>3
  <2>5. Snap(Useful(n), root) \in TopFactors(n)
    BY <2>2, <2>4 DEF TopFactors
  <2> QED
    BY <2>5
<1> QED
  BY <1>1, <1>3, <1>4, UsefulKernels

WithTop(f, n, top) == {<< top >> \o rest : rest \in f[n \div top]}

SquarestStep(f, n) ==
  IF Useful(n) = {} THEN {factorize_primes(n)}
  ELSE UNION {WithTop(f, n, top) : top \in TopFactors(n)}

LEMMA SquarestUnfold ==
  \A n \in Positive : Squarest[n] = SquarestStep(Squarest, n)
<1> DEFINE S == SUBSET Factors
           Step == [q \in Positive \X [Positive -> S] |-> SquarestStep(q[2], q[1])]
           size == [n \in Positive |-> n]
<1>1. ASSUME NEW n \in Positive, NEW f \in [Positive -> S]
      PROVE  SquarestStep(f, n) \in S
  <2>1. CASE Useful(n) = {}
    BY <2>1, PrimesFactor DEF SquarestStep
  <2>2. CASE Useful(n) # {}
    <3>1. ASSUME NEW top \in TopFactors(n), NEW rest \in f[n \div top]
          PROVE  << top >> \o rest \in Factors
      <4>1. top \in Nat \ {0, 1} /\ n \div top \in Positive
        BY <2>2, TopsDivide, QuotientIsLess
      <4>2. rest \in Factors
        BY <4>1
      <4> QED
        BY <4>1, <4>2, PrependIsFactors
    <3>2. \A top \in TopFactors(n) : WithTop(f, n, top) \subseteq Factors
      BY <3>1 DEF WithTop
    <3>3. UNION {WithTop(f, n, top) : top \in TopFactors(n)} \subseteq Factors
      BY <3>2
    <3> QED
      BY <2>2, <3>3 DEF SquarestStep
  <2> QED
    BY <2>1, <2>2
<1>2. Step \in [Positive \X [Positive -> S] -> S]
  BY <1>1
<1>3. ASSUME NEW n \in Positive, NEW f \in [Positive -> S], NEW g \in [Positive -> S],
             \A y \in Positive : size[y] < size[n] => f[y] = g[y]
      PROVE  SquarestStep(f, n) = SquarestStep(g, n)
  <2>1. CASE Useful(n) = {}
    BY <2>1 DEF SquarestStep
  <2>2. CASE Useful(n) # {}
    <3>1. ASSUME NEW top \in TopFactors(n) PROVE f[n \div top] = g[n \div top]
      <4>1. PICK q \in Positive : q = n \div top /\ 2 * q <= n
        BY <2>2, TopsDivide, QuotientIsLess
      <4>2. size[q] < size[n]
        BY <4>1 DEF Positive
      <4> QED
        BY <1>3, <4>1, <4>2
    <3>2. \A top \in TopFactors(n) : WithTop(f, n, top) = WithTop(g, n, top)
      BY <3>1 DEF WithTop
    <3>3. {WithTop(f, n, top) : top \in TopFactors(n)} = {WithTop(g, n, top) : top \in TopFactors(n)}
      BY <3>2
    <3> QED
      BY <2>2, <3>3 DEF SquarestStep
  <2> QED
    BY <2>1, <2>2
<1>4. Descends(Positive, S, size, Step)
  BY <1>3 DEF Descends
<1>5. PICK f \in [Positive -> S] : \A n \in Positive : f[n] = Step[<<n, f>>]
  <2>1. {} \in S /\ size \in [Positive -> Nat]
    BY DEF Positive
  <2> HIDE DEF Step, S, size
  <2>2. IsSolvable(Positive, S, Step)
    BY <1>2, <1>4, <2>1, RecursionByMeasure
  <2> QED
    BY <2>2 DEF IsSolvable
<1>6. f = [n \in Positive |-> SquarestStep(f, n)]
  BY <1>5
<1>7. Squarest = CHOOSE g : g = [n \in Positive |-> SquarestStep(g, n)]
  BY DEF Squarest, SquarestStep, WithTop, Positive
<1>8. Squarest = [n \in Positive |-> SquarestStep(Squarest, n)]
  BY <1>6, <1>7
<1> QED
  BY <1>8

(* Kernels, and what trial division makes of a divisor that no kernel      *)
(* divides.                                                                *)
SquareIsRight(n, s) ==
  /\ s \in Factors /\ Product(s) = n
  /\ \E m \in Positive : /\ Divides(m, n) /\ Swept(m, Len(KernelNs) + 1)
                         /\ AllKernels(s) <=> AllKernels(factorize_primes(m))

LEMMA SquarestFactors ==
  \A n \in Positive : Squarest[n] # {} /\ \A s \in Squarest[n] : SquareIsRight(n, s)
<1> DEFINE Good == {n \in Positive : Squarest[n] # {} /\ \A s \in Squarest[n] : SquareIsRight(n, s)}
           size == [n \in Positive |-> n]
<1>1. ASSUME NEW n \in Positive, LessThan(Positive, size, n) \subseteq Good
      PROVE  n \in Good
  <2>1. CASE Useful(n) = {}
    <3>1. Squarest[n] = {factorize_primes(n)}
      BY <2>1, SquarestUnfold DEF SquarestStep
    <3>2. Divides(n, n)
      <4>1. n \in Nat /\ n = n * 1
        BY DEF Positive
      <4> QED
        BY <4>1 DEF Divides
    <3>3. SquareIsRight(n, factorize_primes(n))
      BY <2>1, <3>2, PrimesFactor, UsefulKernels DEF SquareIsRight
    <3> QED
      BY <3>1, <3>3
  <2>2. CASE Useful(n) # {}
    <3>1. Squarest[n] = UNION {{<< top >> \o rest : rest \in Squarest[n \div top]}
                               : top \in TopFactors(n)}
      BY <2>2, SquarestUnfold DEF SquarestStep, WithTop
    <3>2. ASSUME NEW top \in TopFactors(n)
          PROVE  /\ top \in Nat \ {0, 1} /\ IsKernel(top)
                 /\ n \div top \in Good /\ n = top * (n \div top)
      <4>1. top \in Nat \ {0, 1} /\ IsKernel(top) /\ n % top = 0
        BY <2>2, TopsDivide
      <4>2. PICK q \in Positive : q = n \div top /\ 2 * q <= n /\ n = top * q
        BY <4>1, QuotientIsLess
      <4>3. size[q] < size[n]
        BY <4>2 DEF Positive
      <4>4. q \in Good
        <5> HIDE DEF Good, size
        <5> QED
          BY <1>1, <4>3 DEF LessThan
      <4> QED
        BY <4>1, <4>2, <4>4
    <3>3. ASSUME NEW top \in TopFactors(n), NEW rest \in Squarest[n \div top]
          PROVE  SquareIsRight(n, << top >> \o rest)
      <4>1. PICK q \in Positive : q = n \div top /\ n = top * q /\ SquareIsRight(q, rest)
        BY <3>2
      <4>2. top \in Nat \ {0, 1} /\ IsKernel(top) /\ rest \in Factors
        BY <3>2, <4>1 DEF SquareIsRight
      <4>3. PICK m \in Positive : /\ Divides(m, q) /\ Swept(m, Len(KernelNs) + 1)
                                  /\ AllKernels(rest) <=> AllKernels(factorize_primes(m))
        BY <4>1 DEF SquareIsRight
      <4>4. << top >> \o rest \in Factors /\ Product(<< top >> \o rest) = n
        BY <4>1, <4>2, PrependIsFactors, PrependIsProduct DEF SquareIsRight
      <4>5. AllKernels(<< top >> \o rest) <=> AllKernels(rest)
        BY <4>2, AllKernelsPrepends
      <4>6. Divides(m, n)
        <5>1. m \in Nat /\ q \in Nat /\ n \in Nat /\ n = q * top
          BY <4>1, <4>2 DEF Positive
        <5>2. Divides(q, n)
          BY <4>2, <5>1 DEF Divides
        <5> QED
          BY <4>3, <5>1, <5>2, DividesThrough
      <4> QED
        BY <4>3, <4>4, <4>5, <4>6 DEF SquareIsRight
    <3>4. \A s \in Squarest[n] : SquareIsRight(n, s)
      <4>1. \A s \in Squarest[n] : \E top \in TopFactors(n) : \E rest \in Squarest[n \div top] :
              s = << top >> \o rest
        BY <3>1
      <4> QED
        BY <3>3, <4>1
    <3>5. Squarest[n] # {}
      <4>1. PICK top \in TopFactors(n) : TRUE
        BY <2>2, TopsDivide
      <4>2. PICK rest : rest \in Squarest[n \div top]
        BY <3>2
      <4>3. << top >> \o rest \in Squarest[n]
        BY <3>1, <4>2
      <4> QED
        BY <4>3
    <3> QED
      BY <3>4, <3>5
  <2> QED
    BY <2>1, <2>2
<1>2. Positive \subseteq Good
  <2>1. size \in [Positive -> Nat]
    BY DEF Positive
  <2> HIDE DEF Good, size
  <2> QED
    BY <1>1, <2>1, MeasureInduction
<1> QED
  BY <1>2

(* Both factorisations have kernels only for the same lengths.             *)
LEMMA SquareSucceeds ==
  ASSUME NEW n \in Positive, NEW s \in Squarest[n]
  PROVE  s \in Factors /\ Product(s) = n /\ (AllKernels(s) <=> KernelsFactor(n))
<1>1. SquareIsRight(n, s)
  BY SquarestFactors
<1>2. s \in Factors /\ Product(s) = n
  BY <1>1 DEF SquareIsRight
<1>3. AllKernels(s) => KernelsFactor(n)
  BY <1>2, KernelsFactorProducts
<1>4. ASSUME KernelsFactor(n) PROVE AllKernels(s)
  <2>1. PICK m \in Positive : /\ Divides(m, n) /\ Swept(m, Len(KernelNs) + 1)
                              /\ AllKernels(s) <=> AllKernels(factorize_primes(m))
    BY <1>1 DEF SquareIsRight
  <2>2. ASSUME m # 1 PROVE FALSE
    <3>1. m \in Nat \ {0, 1} /\ n \in Nat
      BY <2>2 DEF Positive
    <3>2. PICK p \in Nat \ {0, 1} : IsPrime(p) /\ Divides(p, m)
      BY <3>1, HasPrime
    <3>3. Divides(p, n)
      BY <2>1, <3>1, <3>2, DividesThrough
    <3>4. PICK j \in 1..Len(KernelNs) : p = KernelNs[j]
      BY <1>4, <3>2, <3>3, FactoredPrimes, KernelFacts
    <3>5. j < Len(KernelNs) + 1
      BY KernelFacts
    <3> QED
      BY <2>1, <3>2, <3>4, <3>5 DEF Swept
  <2> QED
    BY <2>1, <2>2, SweptPrimes
<1> QED
  BY <1>2, <1>3, <1>4

-----------------------------------------------------------------------------
(* The next length the kernels factor.                                     *)

LEMMA EmptyFactors == << >> \in Factors /\ Product(<< >>) = 1 /\ AllKernels(<< >>)
<1>1. 1 \in Positive /\ << >> \in Seq(Positive) /\ << >> \in Factors
  BY DEF Positive, Factors
<1>2. AllKernels(<< >>)
  BY <1>1, AllKernelsByPlace
<1> QED
  BY <1>1, <1>2, ProductPrepends

LEMMA MultiplesFactor ==
  ASSUME NEW n \in Positive, KernelsFactor(n), NEW k \in Nat \ {0, 1}, IsKernel(k)
  PROVE  KernelsFactor(k * n)
<1>1. PICK s \in Factors : Product(s) = n /\ AllKernels(s)
  BY GreedySucceeds
<1>2. << k >> \o s \in Factors /\ Product(<< k >> \o s) = k * n /\ AllKernels(<< k >> \o s)
  BY <1>1, PrependIsFactors, PrependIsProduct, AllKernelsPrepends
<1> QED
  BY <1>2, KernelsFactorProducts

LEMMA SomeLengthFactors ==
  ASSUME KernelNs # << >>
  PROVE  \A n \in Nat : \E m \in Positive : n <= m /\ KernelsFactor(m)
<1> DEFINE Good == {n \in Nat : \E m \in Positive : n <= m /\ KernelsFactor(m)}
<1>1. 0 \in Good
  <2>1. KernelsFactor(1)
    BY EmptyFactors, KernelsFactorProducts
  <2> QED
    BY <2>1 DEF Positive
<1>2. ASSUME NEW n \in Good PROVE n + 1 \in Good
  <2>1. PICK m \in Positive : n <= m /\ KernelsFactor(m)
    OBVIOUS
  <2>2. 1 \in 1..Len(KernelNs)
    <3>1. KernelNs \in Seq(Nat \ {0, 1})
      BY KernelAssumption
    <3> QED
      BY <3>1
  <2>3. PICK k \in Nat \ {0, 1} : k = KernelNs[1] /\ IsKernel(k)
    BY <2>2, KernelFacts
  <2>4. KernelsFactor(k * m)
    BY <2>1, <2>3, MultiplesFactor
  <2>5. k * m \in Positive /\ n + 1 <= k * m
    <3>1. PICK e \in Nat : k = e + 2
      <4>1. k - 2 \in Nat /\ k = (k - 2) + 2
        OBVIOUS
      <4> QED
        BY <4>1
    <3>2. m \in Nat /\ m > 0 /\ n \in Nat
      BY DEF Positive
    <3>3. k * m = m + m + e * m /\ e * m \in Nat
      BY <3>1, <3>2
    <3> QED
      BY <2>1, <3>2, <3>3 DEF Positive
  <2> QED
    BY <2>4, <2>5
<1>3. Good = Nat
  <2>1. Good \in SUBSET Nat
    OBVIOUS
  <2> HIDE DEF Good
  <2> QED
    BY <1>1, <1>2, <2>1, SetInduction
<1> QED
  BY <1>3

IsCeiling(m, n) ==
  /\ n <= m /\ KernelsFactor(m)
  /\ \A k \in Positive : n <= k /\ KernelsFactor(k) => m <= k

LEMMA CeilingExists ==
  ASSUME KernelNs # << >>, NEW n \in Positive
  PROVE  \E m \in Positive : IsCeiling(m, n)
<1> DEFINE Above == {m \in Positive : n <= m /\ KernelsFactor(m)}
<1>1. Above \in SUBSET Nat /\ Above # {}
  BY SomeLengthFactors DEF Positive
<1>2. PICK m \in Above : \A k \in Above : m <= k
  <2> HIDE DEF Above
  <2> QED
    BY <1>1, LeastNumber
<1> QED
  BY <1>2 DEF IsCeiling

(* The loop ends, at a length that is not less and that the kernels factor.*)
LEMMA NextLengthFactors ==
  ASSUME KernelNs # << >>
  PROVE  \A n \in Positive : /\ next_length_factorable_by(n) \in Positive
                             /\ next_length_factorable_by(n) >= n
                             /\ KernelsFactor(next_length_factorable_by(n))
<1> DEFINE ceiling == [n \in Positive |-> CHOOSE m \in Positive : IsCeiling(m, n)]
           gap == [n \in Positive |-> ceiling[n] - n]
           Step == [q \in Positive \X [Positive -> Positive] |->
                      IF KernelsFactor(q[1]) THEN q[1] ELSE q[2][q[1] + 1]]
<1>1. \A n \in Positive : ceiling[n] \in Positive /\ IsCeiling(ceiling[n], n)
  BY CeilingExists
<1> HIDE DEF ceiling
<1>2. gap \in [Positive -> Nat]
  <2>1. ASSUME NEW n \in Positive PROVE ceiling[n] - n \in Nat
    BY <1>1 DEF IsCeiling, Positive
  <2> QED
    BY <2>1
<1>3. ASSUME NEW n \in Positive, ~KernelsFactor(n)
      PROVE  n + 1 \in Positive /\ gap[n + 1] < gap[n]
  <2>1. PICK m \in Positive : m = ceiling[n] /\ IsCeiling(m, n)
    BY <1>1
  <2>2. n + 1 \in Positive
    BY DEF Positive
  <2>3. PICK l \in Positive : l = ceiling[n + 1] /\ IsCeiling(l, n + 1)
    BY <1>1, <2>2
  <2>4. m # n /\ n \in Nat /\ m \in Nat /\ l \in Nat
    BY <1>3, <2>1 DEF IsCeiling, Positive
  <2>5. n + 1 <= m /\ KernelsFactor(m)
    BY <2>1, <2>4 DEF IsCeiling
  <2>6. l <= m
    BY <2>3, <2>5 DEF IsCeiling
  <2> QED
    BY <2>1, <2>2, <2>3, <2>4, <2>6
<1> HIDE DEF gap
<1>4. Step \in [Positive \X [Positive -> Positive] -> Positive]
  <2>1. ASSUME NEW n \in Positive, NEW f \in [Positive -> Positive]
        PROVE  (IF KernelsFactor(n) THEN n ELSE f[n + 1]) \in Positive
    BY DEF Positive
  <2> QED
    BY <2>1
<1>5. Descends(Positive, Positive, gap, Step)
  <2>1. ASSUME NEW n \in Positive, NEW f \in [Positive -> Positive], NEW g \in [Positive -> Positive],
               \A y \in Positive : gap[y] < gap[n] => f[y] = g[y]
        PROVE  Step[<<n, f>>] = Step[<<n, g>>]
    BY <1>3, <2>1
  <2> QED
    BY <2>1 DEF Descends
<1>6. PICK f \in [Positive -> Positive] : \A n \in Positive : f[n] = Step[<<n, f>>]
  <2>1. 1 \in Positive
    BY DEF Positive
  <2> HIDE DEF Step
  <2>2. IsSolvable(Positive, Positive, Step)
    BY <1>2, <1>4, <1>5, <2>1, RecursionByMeasure
  <2> QED
    BY <2>2 DEF IsSolvable
<1>7. f = [n \in Positive |-> IF KernelsFactor(n) THEN n ELSE f[n + 1]]
  BY <1>6
<1>8. NextFactorableFrom = CHOOSE g : g = [n \in Positive |-> IF KernelsFactor(n) THEN n ELSE g[n + 1]]
  BY DEF NextFactorableFrom, Positive
<1>9. NextFactorableFrom =
        [n \in Positive |-> IF KernelsFactor(n) THEN n ELSE NextFactorableFrom[n + 1]]
  BY <1>7, <1>8
<1> DEFINE Good == {n \in Positive : /\ NextFactorableFrom[n] \in Positive
                                     /\ NextFactorableFrom[n] >= n
                                     /\ KernelsFactor(NextFactorableFrom[n])}
<1>10. ASSUME NEW n \in Positive, LessThan(Positive, gap, n) \subseteq Good PROVE n \in Good
  <2>1. CASE KernelsFactor(n)
    BY <1>9, <2>1 DEF Positive
  <2>2. CASE ~KernelsFactor(n)
    <3>1. n + 1 \in Positive /\ n + 1 \in Good
      <4> HIDE DEF Good
      <4> QED
        BY <1>3, <1>10, <2>2 DEF LessThan
    <3>2. NextFactorableFrom[n] = NextFactorableFrom[n + 1]
      BY <1>9, <2>2
    <3>3. n \in Nat
      BY DEF Positive
    <3> QED
      BY <3>1, <3>2, <3>3 DEF Positive
  <2> QED
    BY <2>1, <2>2
<1>11. Positive \subseteq Good
  <2> HIDE DEF Good
  <2> QED
    BY <1>2, <1>10, MeasureInduction
<1> QED
  BY <1>11 DEF next_length_factorable_by

-----------------------------------------------------------------------------
(* Sorting and permuting the factors.                                      *)

(* InsertAt moves what comes after.                                        *)
LEMMA InsertAtFacts ==
  ASSUME NEW X, NEW s \in Seq(X), NEW k \in 1..(Len(s) + 1), NEW e \in X
  PROVE  /\ InsertAt(s, k, e) \in Seq(X) /\ Len(InsertAt(s, k, e)) = Len(s) + 1
         /\ InsertAt(s, k, e)[k] = e
         /\ \A n \in 1..(k - 1) : InsertAt(s, k, e)[n] = s[n]
         /\ \A n \in (k + 1)..(Len(s) + 1) : InsertAt(s, k, e)[n] = s[n - 1]
<1> DEFINE a == SubSeq(s, 1, k - 1)
           c == SubSeq(s, k, Len(s))
           t == InsertAt(s, k, e)
<1>1. /\ a \in Seq(X) /\ Len(a) = k - 1 /\ \A n \in 1..(k - 1) : a[n] = s[n]
      /\ c \in Seq(X) /\ Len(c) = Len(s) - k + 1 /\ \A n \in 1..Len(c) : c[n] = s[k + n - 1]
  BY SMT
<1>2. t = a \o << e >> \o c
  BY DEF InsertAt
<1> HIDE DEF a, c, t
<1> DEFINE d == a \o << e >>
<1>3. d \in Seq(X) /\ Len(d) = k /\ d[k] = e /\ \A n \in 1..(k - 1) : d[n] = a[n]
  BY <1>1
<1>4. t = d \o c
  BY <1>2
<1> HIDE DEF d
<1>5. t \in Seq(X) /\ Len(t) = Len(d) + Len(c)
  <2>1. c \in Seq(X) /\ d \in Seq(X)
    BY <1>1, <1>3
  <2> QED
    BY ONLY <1>4, <2>1
<1>6. Len(s) \in Nat /\ k \in Int /\ Len(t) = Len(s) + 1
  <2>1. Len(s) \in Nat /\ k \in Int
    OBVIOUS
  <2> QED
    BY <1>1, <1>3, <1>5, <2>1
<1>7. \A n \in 1..k : t[n] = d[n]
  BY <1>1, <1>3, <1>4
<1>8. \A n \in 1..Len(c) : t[k + n] = c[n]
  BY <1>1, <1>3, <1>4
<1>9. ASSUME NEW n \in (k + 1)..(Len(s) + 1) PROVE t[n] = s[n - 1]
  <2>1. PICK i \in Int : i = n - k
    BY <1>6
  <2>2. i \in 1..Len(c) /\ k + i = n /\ k + i - 1 = n - 1
    BY <1>1, <1>6, <2>1
  <2> QED
    BY <1>1, <1>8, <2>2
<1>10. k \in 1..k /\ \A n \in 1..(k - 1) : n \in 1..k
  BY <1>6
<1> QED
  BY <1>1, <1>3, <1>5, <1>6, <1>7, <1>9, <1>10 DEF t

(* One more element goes to any place.                                     *)
LEMMA InsertCorresponds ==
  ASSUME NEW s \in Factors, NEW T \in SUBSET DOMAIN s, NEW m \in DOMAIN s, m \notin T,
         NEW t \in Factors, NEW h, Corresponds(h, t, DOMAIN t, s, T),
         NEW p \in 1..(Len(t) + 1)
  PROVE  /\ InsertAt(t, p, s[m]) \in Factors
         /\ \E g : Corresponds(g, InsertAt(t, p, s[m]), DOMAIN InsertAt(t, p, s[m]), s, T \cup {m})
<1> DEFINE x == s[m]
           u == InsertAt(t, p, x)
<1>0. x \in Nat \ {0, 1} /\ t \in Seq(Nat \ {0, 1}) /\ Len(t) \in Nat /\ DOMAIN t = 1..Len(t)
  BY DEF Factors
<1> HIDE DEF u, x
<1>3. /\ u \in Seq(Nat \ {0, 1}) /\ Len(u) = Len(t) + 1 /\ u[p] = x
      /\ \A n \in 1..(p - 1) : u[n] = t[n]
      /\ \A n \in (p + 1)..(Len(t) + 1) : u[n] = t[n - 1]
  <2>1. PICK X : X = Nat \ {0, 1}
    OBVIOUS
  <2>2. x \in X /\ t \in Seq(X)
    BY <1>0, <2>1
  <2>3. u = InsertAt(t, p, x)
    BY DEF u
  <2>4. /\ u \in Seq(X) /\ Len(u) = Len(t) + 1 /\ u[p] = x
        /\ \A n \in 1..(p - 1) : u[n] = t[n]
        /\ \A n \in (p + 1)..(Len(t) + 1) : u[n] = t[n - 1]
    BY <2>2, <2>3, InsertAtFacts
  <2> QED
    BY <2>1, <2>4
<1>4. DOMAIN u = 1..(Len(t) + 1) /\ p \in Int
  BY <1>3
<1>5. \A n \in DOMAIN u : n < p => n \in DOMAIN t /\ u[n] = t[n]
  BY <1>0, <1>3, <1>4
<1>6. \A n \in DOMAIN u : n > p => n - 1 \in DOMAIN t /\ u[n] = t[n - 1]
  BY <1>0, <1>3, <1>4
<1>7. /\ h \in [DOMAIN t -> T] /\ \A i, j \in DOMAIN t : h[i] = h[j] => i = j
      /\ \A k \in T : \E i \in DOMAIN t : h[i] = k
      /\ \A i \in DOMAIN t : t[i] = s[h[i]]
  BY DEF Corresponds
<1> DEFINE g == [n \in DOMAIN u |-> IF n < p THEN h[n] ELSE IF n = p THEN m ELSE h[n - 1]]
<1>8. ASSUME NEW n \in DOMAIN u
      PROVE  /\ n \in Int
             /\ n < p => g[n] = h[n] /\ n \in DOMAIN t
             /\ n = p => g[n] = m
             /\ n > p => g[n] = h[n - 1] /\ n - 1 \in DOMAIN t
  BY <1>4, <1>5, <1>6
<1> HIDE DEF g
<1>9. g = [n \in DOMAIN u |-> g[n]]
  BY DEF g
<1>10. \A n \in DOMAIN u : g[n] \in T \cup {m} /\ u[n] = s[g[n]]
  <2>1. ASSUME NEW n \in DOMAIN u PROVE g[n] \in T \cup {m} /\ u[n] = s[g[n]]
    <3>1. CASE n < p
      BY <1>5, <1>7, <1>8, <3>1
    <3>2. CASE n = p
      BY <1>3, <1>8, <3>2 DEF x
    <3>3. CASE n > p
      BY <1>6, <1>7, <1>8, <3>3
    <3> QED
      BY <1>4, <1>8, <3>1, <3>2, <3>3
  <2> QED
    BY <2>1
<1>11. \A i, j \in DOMAIN u : g[i] = g[j] => i = j
  <2>1. ASSUME NEW i \in DOMAIN u, NEW j \in DOMAIN u, g[i] = g[j] PROVE i = j
    <3> DEFINE back(n) == IF n < p THEN n ELSE n - 1
    <3>1. i # p => back(i) \in DOMAIN t /\ g[i] = h[back(i)]
      BY <1>4, <1>8
    <3>2. j # p => back(j) \in DOMAIN t /\ g[j] = h[back(j)]
      BY <1>4, <1>8
    <3>3. (i = p) <=> (j = p)
      <4>1. i = p => g[i] = m
        BY <1>8
      <4>2. j = p => g[j] = m
        BY <1>8
      <4>3. i # p => g[i] # m
        BY <1>7, <3>1
      <4>4. j # p => g[j] # m
        BY <1>7, <3>2
      <4> QED
        BY <2>1, <4>1, <4>2, <4>3, <4>4
    <3>4. CASE i # p /\ j # p
      <4>1. back(i) = back(j)
        <5> HIDE DEF back
        <5> QED
          BY <1>7, <2>1, <3>1, <3>2, <3>4
      <4> QED
        BY <1>4, <1>8, <3>4, <4>1
    <3> QED
      BY <3>3, <3>4
  <2> QED
    BY <2>1
<1>12. \A k \in T \cup {m} : \E n \in DOMAIN u : g[n] = k
  <2>1. ASSUME NEW k \in T PROVE \E n \in DOMAIN u : g[n] = k
    <3>1. PICK i \in DOMAIN t : h[i] = k
      BY <1>7
    <3>2. CASE i < p
      <4>1. i \in DOMAIN u
        BY <1>0, <1>4
      <4> QED
        BY <1>8, <3>1, <3>2, <4>1
    <3>3. CASE ~(i < p)
      <4>1. i + 1 \in DOMAIN u /\ i + 1 > p /\ (i + 1) - 1 = i
        BY <1>0, <1>4, <3>3
      <4> QED
        BY <1>8, <3>1, <4>1
    <3> QED
      BY <3>2, <3>3
  <2>2. p \in DOMAIN u /\ g[p] = m
    BY <1>0, <1>4, <1>8
  <2> QED
    BY <2>1, <2>2
<1>13. Corresponds(g, u, DOMAIN u, s, T \cup {m})
  BY <1>9, <1>10, <1>11, <1>12 DEF Corresponds
<1>14. u \in Factors
  BY <1>3 DEF Factors
<1> QED
  BY <1>13, <1>14 DEF u, x

LEMMA PlaceToInsert ==
  ASSUME NEW t \in Factors, NEW x
  PROVE  1 + Cardinality({k \in DOMAIN t : t[k] >= x}) \in 1..(Len(t) + 1)
<1> DEFINE S == {k \in DOMAIN t : t[k] >= x}
<1>1. Len(t) \in Nat /\ DOMAIN t = 1..Len(t)
  BY DEF Factors
<1>2. IsFiniteSet(1..Len(t)) /\ Cardinality(1..Len(t)) = Len(t)
  <2>1. PICK n \in Nat : n = Len(t)
    BY <1>1
  <2>2. Cardinality(1..n) = IF 1 > n THEN 0 ELSE n - 1 + 1
    BY FS_Interval
  <2>3. IsFiniteSet(1..n)
    BY FS_Interval
  <2>4. (IF 1 > n THEN 0 ELSE n - 1 + 1) = n
    BY <2>1
  <2> QED
    BY <2>1, <2>2, <2>3, <2>4
<1>3. S \in SUBSET (1..Len(t))
  BY <1>1
<1> HIDE DEF S
<1>4. IsFiniteSet(S) /\ Cardinality(S) <= Cardinality(1..Len(t))
  BY <1>2, <1>3, FS_Subset
<1>5. Cardinality(S) \in Nat
  BY <1>4, FS_CardinalityType
<1>6. 1 + Cardinality(S) \in 1..(Len(t) + 1)
  BY <1>1, <1>2, <1>4, <1>5
<1> QED
  BY <1>6 DEF S

(* Sorting keeps the factors.                                              *)
LEMMA DescendingRearranges ==
  ASSUME NEW s \in Factors
  PROVE  Descending(s) \in Factors /\ Rearranges(Descending(s), s)
<1> DEFINE D == DOMAIN s
           pick == [S \in SUBSET D |-> Min(S)]
           add == [p \in Factors \X D |-> InsertDescending(s[p[2]], p[1])]
           sorted == CHOOSE f : f = [S \in SUBSET D |->
                       IF S = {} THEN << >> ELSE InsertDescending(s[Min(S)], f[S \ {Min(S)}])]
<1>0. s \in Seq(Positive)
  BY FactorsArePositive
<1>1. IsFiniteSet(D) /\ Picks(pick, D)
  BY <1>0, PlacesHaveExtremes DEF Picks
<1>2. ASSUME NEW t \in Factors, NEW m \in D, NEW S \in SUBSET D, m \notin S,
             NEW h, Corresponds(h, t, DOMAIN t, s, S)
      PROVE  /\ InsertDescending(s[m], t) \in Factors
             /\ \E g : Corresponds(g, InsertDescending(s[m], t), DOMAIN InsertDescending(s[m], t),
                                   s, S \cup {m})
  <2>1. PICK p \in 1..(Len(t) + 1) : InsertDescending(s[m], t) = InsertAt(t, p, s[m])
    BY PlaceToInsert DEF InsertDescending
  <2> DEFINE u == InsertAt(t, p, s[m])
  <2>2. u \in Factors /\ \E g : Corresponds(g, u, DOMAIN u, s, S \cup {m})
    BY <1>2, <2>1, InsertCorresponds
  <2>3. InsertDescending(s[m], t) = u
    BY <2>1
  <2> HIDE DEF u
  <2> QED
    BY <2>2, <2>3
<1>3. add \in [Factors \X D -> Factors]
  <2>1. ASSUME NEW t \in Factors, NEW m \in D PROVE InsertDescending(s[m], t) \in Factors
    <3>1. PICK p \in 1..(Len(t) + 1) : InsertDescending(s[m], t) = InsertAt(t, p, s[m])
      BY PlaceToInsert DEF InsertDescending
    <3>2. PICK X : X = Nat \ {0, 1}
      OBVIOUS
    <3>3. t \in Seq(X) /\ s[m] \in X
      BY <3>2 DEF Factors
    <3>4. InsertAt(t, p, s[m]) \in Seq(X)
      BY <3>3, InsertAtFacts
    <3> QED
      BY <3>1, <3>2, <3>4 DEF Factors
  <2> QED
    BY <2>1
<1>4. << >> \in Factors
  BY DEF Factors
<1>5. PICK f \in [SUBSET D -> Factors] : Folds(f, pick, << >>, add, SUBSET D)
  <2> HIDE DEF pick, add, D
  <2> QED
    BY <1>1, <1>3, <1>4, FoldExists
<1>6. f = [S \in SUBSET D |->
             IF S = {} THEN << >> ELSE InsertDescending(s[Min(S)], f[S \ {Min(S)}])]
  <2>1. ASSUME NEW S \in SUBSET D
        PROVE  f[S] = IF S = {} THEN << >> ELSE InsertDescending(s[Min(S)], f[S \ {Min(S)}])
    <3>1. CASE S = {}
      BY <1>5, <3>1 DEF Folds
    <3>2. CASE S # {}
      <4>1. pick[S] = Min(S) /\ Min(S) \in D /\ S \ {Min(S)} \in SUBSET D
        BY <1>1, <3>2 DEF Picks
      <4>2. f[S] = add[<<f[S \ {Min(S)}], Min(S)>>]
        BY <1>5, <3>2, <4>1 DEF Folds
      <4> QED
        BY <3>2, <4>1, <4>2
    <3> QED
      BY <3>1, <3>2
  <2> QED
    BY <2>1
<1>7. sorted = [S \in SUBSET D |->
                  IF S = {} THEN << >> ELSE InsertDescending(s[Min(S)], sorted[S \ {Min(S)}])]
  BY <1>6
<1>8. Descending(s) = sorted[D]
  BY DEF Descending, FoldRight, MapThenFoldSet
<1> HIDE DEF sorted
<1> DEFINE Good == {S \in SUBSET D : /\ sorted[S] \in Factors
                                     /\ \E h : Corresponds(h, sorted[S], DOMAIN sorted[S], s, S)}
<1>9. {} \in Good
  <2>1. sorted[{}] = << >>
    BY <1>7
  <2> DEFINE h == [i \in {} |-> i]
  <2>2. Corresponds(h, << >>, DOMAIN << >>, s, {})
    BY DEF Corresponds
  <2> HIDE DEF h
  <2> QED
    BY <1>4, <2>1, <2>2
<1>10. ASSUME NEW S \in SUBSET D, S # {}, S \ {pick[S]} \in Good PROVE S \in Good
  <2>1. PICK m \in S : m = Min(S) /\ m = pick[S] /\ m \in D
    BY <1>1, <1>10 DEF Picks
  <2>2. PICK V \in SUBSET D : V = S \ {m} /\ m \notin V /\ S = V \cup {m}
    <3>1. S \ {m} \in SUBSET D /\ m \notin S \ {m} /\ S = (S \ {m}) \cup {m}
      OBVIOUS
    <3> QED
      BY <3>1
  <2>3. PICK t \in Factors : t = sorted[V] /\ \E h : Corresponds(h, t, DOMAIN t, s, V)
    BY <1>10, <2>1, <2>2
  <2>4. PICK h : Corresponds(h, t, DOMAIN t, s, V)
    BY <2>3
  <2>5. sorted[S] = InsertDescending(s[m], t)
    BY <1>7, <1>10, <2>1, <2>2, <2>3
  <2>6. /\ sorted[S] \in Factors
        /\ \E g : Corresponds(g, sorted[S], DOMAIN sorted[S], s, S)
    <3>1. PICK u : u = InsertDescending(s[m], t)
      OBVIOUS
    <3>2. u \in Factors /\ \E g : Corresponds(g, u, DOMAIN u, s, V \cup {m})
      BY <1>2, <2>1, <2>2, <2>4, <3>1
    <3> QED
      BY <2>2, <2>5, <3>1, <3>2
  <2> QED
    BY <2>6
<1>11. \A S \in SUBSET D : S \in Good
  <2> HIDE DEF Good, pick, D
  <2> QED
    BY <1>1, <1>9, <1>10, SubsetInduction
<1>12. PICK S \in SUBSET D : S = D /\ S \in Good
  BY <1>11
<1> QED
  BY <1>8, <1>12 DEF Rearranges

(* The steps of next_permutation.                                          *)
LEMMA ReverseRearranges ==
  ASSUME NEW s \in Factors
  PROVE  Reverse(s) \in Factors /\ Len(Reverse(s)) = Len(s) /\ Rearranges(Reverse(s), s)
<1> DEFINE n == Len(s)
           h == [i \in 1..n |-> n - i + 1]
           t == Reverse(s)
<1>1. n \in Nat /\ DOMAIN s = 1..n /\ \A i \in 1..n : s[i] \in Nat \ {0, 1}
  BY DEF Factors
<1> HIDE DEF n
<1>2. \A i \in 1..n : n - i + 1 \in 1..n /\ n - (n - i + 1) + 1 = i
  BY <1>1
<1>3. t = [i \in 1..n |-> s[n - i + 1]]
  BY DEF Reverse, n
<1>4. t \in [1..n -> Nat \ {0, 1}] /\ \A i \in 1..n : t[i] = s[n - i + 1]
  BY <1>1, <1>2, <1>3
<1> HIDE DEF t
<1>5. t \in Factors /\ Len(t) = n /\ DOMAIN t = 1..n
  BY <1>1, <1>4 DEF Factors
<1>6. Corresponds(h, t, DOMAIN t, s, DOMAIN s)
  <2>1. h \in [1..n -> 1..n] /\ \A i \in 1..n : t[i] = s[h[i]]
    BY <1>2, <1>4
  <2>2. \A i, j \in 1..n : h[i] = h[j] => i = j
    BY <1>1
  <2>3. ASSUME NEW k \in 1..n PROVE \E i \in 1..n : h[i] = k
    <3>1. n - k + 1 \in 1..n /\ h[n - k + 1] = k
      BY <1>2
    <3> QED
      BY <3>1
  <2> QED
    BY <1>1, <1>5, <2>1, <2>2, <2>3 DEF Corresponds
<1> QED
  BY <1>5, <1>6 DEF Rearranges, t, n

LEMMA ExchangeRearranges ==
  ASSUME NEW s \in Factors, NEW i \in DOMAIN s, NEW j \in DOMAIN s
  PROVE  /\ Exchange(s, i, j) \in Factors /\ Len(Exchange(s, i, j)) = Len(s)
         /\ Rearranges(Exchange(s, i, j), s)
<1> DEFINE t == Exchange(s, i, j)
           h == [n \in DOMAIN s |-> IF n = i THEN j ELSE IF n = j THEN i ELSE n]
<1>1. Len(s) \in Nat /\ DOMAIN s = 1..Len(s) /\ \A n \in DOMAIN s : s[n] \in Nat \ {0, 1}
  BY DEF Factors
<1>2. t = [n \in DOMAIN s |-> IF n = j THEN s[i] ELSE IF n = i THEN s[j] ELSE s[n]]
  BY DEF Exchange, Factors
<1> HIDE DEF t
<1>3. t \in [1..Len(s) -> Nat \ {0, 1}] /\ DOMAIN t = DOMAIN s
  BY <1>1, <1>2
<1>4. t \in Factors /\ Len(t) = Len(s)
  BY <1>1, <1>3 DEF Factors
<1>5. Corresponds(h, t, DOMAIN t, s, DOMAIN s)
  <2>1. h \in [DOMAIN s -> DOMAIN s] /\ \A n \in DOMAIN s : t[n] = s[h[n]]
    BY <1>2
  <2>2. \A m, n \in DOMAIN s : h[m] = h[n] => m = n
    OBVIOUS
  <2>3. \A k \in DOMAIN s : \E n \in DOMAIN s : h[n] = k
    <3>1. ASSUME NEW k \in DOMAIN s PROVE h[h[k]] = k /\ h[k] \in DOMAIN s
      OBVIOUS
    <3> HIDE DEF h
    <3> QED
      BY <3>1
  <2> QED
    BY <1>3, <2>1, <2>2, <2>3 DEF Corresponds
<1> QED
  BY <1>4, <1>5 DEF Rearranges, t

LEMMA ReverseFromRearranges ==
  ASSUME NEW s \in Factors, NEW k \in 1..(Len(s) + 1)
  PROVE  /\ ReverseFrom(s, k) \in Factors /\ Len(ReverseFrom(s, k)) = Len(s)
         /\ Rearranges(ReverseFrom(s, k), s)
<1> DEFINE t == ReverseFrom(s, k)
           a == SubSeq(s, 1, k - 1)
           b == SubSeq(s, k, Len(s))
           c == Reverse(b)
           n == Len(s)
           h == [i \in 1..n |-> IF i < k THEN i ELSE n + k - i]
<1>1. n \in Nat /\ k \in Int /\ 1 <= k /\ k <= n + 1 /\ DOMAIN s = 1..n
      /\ s \in Seq(Nat \ {0, 1})
  BY DEF Factors
<1>2. /\ a \in Seq(Nat \ {0, 1}) /\ Len(a) = k - 1 /\ \A i \in 1..(k - 1) : a[i] = s[i]
      /\ b \in Seq(Nat \ {0, 1}) /\ Len(b) = n - k + 1
      /\ \A i \in 1..Len(b) : b[i] = s[k + i - 1]
  BY ONLY <1>1 DEF n
<1>3. c \in Factors /\ Len(c) = n - k + 1
  BY <1>2, ReverseRearranges DEF Factors
<1>4. ASSUME NEW i \in 1..(n - k + 1) PROVE c[i] = s[n - i + 1]
  <2>1. c[i] = b[Len(b) - i + 1]
    BY <1>2 DEF Reverse
  <2>2. PICK l \in 1..Len(b) : l = Len(b) - i + 1 /\ k + l - 1 = n - i + 1
    <3> HIDE DEF n, b
    <3>1. Len(b) - i + 1 \in 1..Len(b) /\ k + (Len(b) - i + 1) - 1 = n - i + 1
      BY <1>1, <1>2
    <3> QED
      BY <3>1
  <2> QED
    BY <1>2, <2>1, <2>2
<1>5. t = a \o c
  BY DEF ReverseFrom
<1> HIDE DEF a, b, c, n, t
<1>6. t \in Factors /\ Len(t) = n /\ DOMAIN t = 1..n
      /\ (\A i \in 1..(k - 1) : t[i] = a[i])
      /\ (\A i \in 1..(n - k + 1) : t[(k - 1) + i] = c[i])
  <2>1. a \in Seq(Nat \ {0, 1}) /\ c \in Seq(Nat \ {0, 1})
    BY <1>2, <1>3 DEF Factors
  <2>2. t \in Seq(Nat \ {0, 1}) /\ Len(t) = Len(a) + Len(c)
    BY ONLY <1>5, <2>1
  <2>3. Len(t) = n
    BY <1>1, <1>2, <1>3, <2>2
  <2>4. \A i \in 1..(k - 1) : t[i] = a[i]
    BY <1>1, <1>2, <1>5, <2>1
  <2>5. \A i \in 1..(n - k + 1) : t[(k - 1) + i] = c[i]
    <3>1. \A i \in 1..Len(c) : t[Len(a) + i] = c[i]
      BY ONLY <1>5, <2>1
    <3> QED
      BY <1>2, <1>3, <3>1
  <2> QED
    BY <2>2, <2>3, <2>4, <2>5 DEF Factors
<1>7. ASSUME NEW i \in 1..n PROVE h[i] \in 1..n /\ t[i] = s[h[i]]
  <2>1. CASE i < k
    <3>1. i \in 1..(k - 1) /\ h[i] = i
      BY <1>1, <2>1
    <3> QED
      BY <1>2, <1>6, <3>1
  <2>2. CASE ~(i < k)
    <3>1. PICK l \in 1..(n - k + 1) : l = i - k + 1 /\ (k - 1) + l = i /\ n - l + 1 = n + k - i
      BY <1>1, <2>2
    <3>2. t[i] = s[n + k - i]
      BY <1>4, <1>6, <3>1
    <3>3. h[i] = n + k - i /\ n + k - i \in 1..n
      BY <1>1, <2>2
    <3> QED
      BY <3>2, <3>3
  <2> QED
    BY <2>1, <2>2
<1>8. \A i, j \in 1..n : h[i] = h[j] => i = j
  BY <1>1
<1>9. ASSUME NEW j \in 1..n PROVE \E i \in 1..n : h[i] = j
  <2>1. CASE j < k
    BY <1>1, <2>1
  <2>2. CASE ~(j < k)
    <3>1. n + k - j \in 1..n /\ ~(n + k - j < k) /\ n + k - (n + k - j) = j
      BY <1>1, <2>2
    <3>2. h[n + k - j] = j
      BY <3>1
    <3> QED
      BY <3>1, <3>2
  <2> QED
    BY <2>1, <2>2
<1>10. h = [i \in 1..n |-> h[i]]
  OBVIOUS
<1> HIDE DEF h
<1>11. Corresponds(h, t, DOMAIN t, s, DOMAIN s)
  <2>1. h \in [1..n -> 1..n]
    BY <1>7, <1>10
  <2> QED
    BY <1>1, <1>6, <1>7, <1>8, <1>9, <2>1 DEF Corresponds
<1> QED
  BY <1>6, <1>11 DEF Rearranges, t, n

LEMMA NextPermutationRearranges ==
  ASSUME NEW s \in Factors
  PROVE  /\ NextPermutation(s) \in Factors /\ Len(NextPermutation(s)) = Len(s)
         /\ Rearranges(NextPermutation(s), s)
<1> DEFINE ascents == {i \in 1..(Len(s) - 1) : s[i] < s[i + 1]}
           i == Max(ascents)
           later == {k \in DOMAIN s : k > i /\ s[k] > s[i]}
           j == Max(later)
<1>1. s \in Seq(Positive) /\ Len(s) \in Nat /\ DOMAIN s = 1..Len(s)
      /\ \A n \in DOMAIN s : s[n] \in Nat
  BY FactorsArePositive DEF Factors
<1>2. CASE ascents = {}
  <2>1. NextPermutation(s) = Reverse(s)
    BY <1>2 DEF NextPermutation
  <2> QED
    BY <2>1, ReverseRearranges
<1>3. CASE ascents # {}
  <2>1. NextPermutation(s) = ReverseFrom(Exchange(s, i, j), i + 1)
    BY <1>3 DEF NextPermutation
  <2>2. ascents \in SUBSET DOMAIN s
    BY <1>1
  <2>3. i \in ascents
    <3> HIDE DEF ascents
    <3> QED
      BY <1>1, <1>3, <2>2, PlacesHaveExtremes
  <2>4. i \in DOMAIN s /\ i + 1 \in DOMAIN s /\ i + 1 \in later /\ i \in Int
    <3> DEFINE n == Len(s)
    <3>1. \A l \in ascents : l \in Int /\ l \in DOMAIN s /\ l + 1 \in DOMAIN s /\ l + 1 > l
                             /\ s[l + 1] > s[l]
      BY <1>1
    <3> HIDE DEF i, ascents
    <3> QED
      BY <2>3, <3>1
  <2> HIDE DEF i, ascents
  <2>5. later \in SUBSET DOMAIN s
    OBVIOUS
  <2>6. j \in DOMAIN s
    <3> HIDE DEF later
    <3> QED
      BY <1>1, <2>4, <2>5, PlacesHaveExtremes
  <2> HIDE DEF j, later
  <2>7. PICK u \in Factors : u = Exchange(s, i, j) /\ Len(u) = Len(s) /\ Rearranges(u, s)
    BY <2>4, <2>6, ExchangeRearranges
  <2>8. i + 1 \in 1..(Len(u) + 1)
    BY <1>1, <2>4, <2>7
  <2>9. /\ ReverseFrom(u, i + 1) \in Factors /\ Len(ReverseFrom(u, i + 1)) = Len(u)
        /\ Rearranges(ReverseFrom(u, i + 1), u)
    BY <2>8, ReverseFromRearranges
  <2> QED
    BY <2>1, <2>7, <2>9, RearrangedTwice
<1> QED
  BY <1>2, <1>3


-----------------------------------------------------------------------------
(* The factorisations the compositor tries.                                *)

Factored(f, n) == f \in Factors /\ Product(f) = n /\ (AllKernels(f) <=> KernelsFactor(n))

LEMMA RearrangedIsFactored ==
  ASSUME NEW n, NEW s, NEW t \in Factors, Factored(s, n), Rearranges(t, s)
  PROVE  Factored(t, n)
<1>1. s \in Factors /\ s \in Seq(Positive) /\ t \in Seq(Positive)
  BY FactorsArePositive DEF Factored
<1>2. /\ Product(t) = Product(s)
      /\ \A i \in DOMAIN t : \E j \in DOMAIN s : t[i] = s[j]
      /\ \A j \in DOMAIN s : \E i \in DOMAIN t : t[i] = s[j]
  BY <1>1, RearrangedFacts
<1>3. AllKernels(t) <=> \A i \in DOMAIN t : IsKernel(t[i])
  BY AllKernelsByPlace
<1>4. AllKernels(s) <=> \A i \in DOMAIN s : IsKernel(s[i])
  BY <1>1, AllKernelsByPlace
<1>5. AllKernels(t) <=> AllKernels(s)
  BY <1>2, <1>3, <1>4
<1> QED
  BY <1>2, <1>5 DEF Factored

LEMMA DescendingIsFactored ==
  ASSUME NEW n, NEW s, Factored(s, n)
  PROVE  Factored(Descending(s), n)
<1>1. Descending(s) \in Factors /\ Rearranges(Descending(s), s)
  BY DescendingRearranges DEF Factored
<1> QED
  BY <1>1, RearrangedIsFactored

(* Both factorisations multiply to the length, and are of kernels for the  *)
(* same lengths.                                                           *)
LEMMA FactorisationsFactor ==
  ASSUME NEW n \in Positive
  PROVE  /\ Factored(factorize_descending(n), n)
         /\ factorize_square(n) # {}
         /\ \A s \in factorize_square(n) : Factored(s, n)
<1>1. Factored(factorize_descending(n), n)
  <2>1. Factored(Greedy[<<n, 1>>], n)
    BY GreedySucceeds DEF Factored
  <2> QED
    BY <2>1, DescendingIsFactored DEF factorize_descending
<1>2. ASSUME NEW s \in Squarest[n] PROVE Factored(Descending(s), n)
  <2>1. Factored(s, n)
    BY SquareSucceeds DEF Factored
  <2> QED
    BY <2>1, DescendingIsFactored
<1>3. Squarest[n] # {}
  BY SquarestFactors
<1> QED
  BY <1>1, <1>2, <1>3 DEF factorize_square

LEMMA NextPermutationIsFactored ==
  ASSUME NEW n, NEW s, Factored(s, n)
  PROVE  Factored(NextPermutation(s), n) /\ Len(NextPermutation(s)) = Len(s)
<1>1. /\ NextPermutation(s) \in Factors /\ Len(NextPermutation(s)) = Len(s)
      /\ Rearranges(NextPermutation(s), s)
  BY NextPermutationRearranges DEF Factored
<1> QED
  BY <1>1, RearrangedIsFactored

LEMMA FactoredIsNotEmpty ==
  ASSUME NEW n, n \in Nat \ {0, 1}, NEW s, Factored(s, n)
  PROVE  s # << >> /\ DOMAIN s # {}
<1>1. s # << >>
  BY EmptyFactors DEF Factored
<1>2. s \in Factors
  BY DEF Factored
<1>3. Len(s) # 0 /\ Len(s) \in Nat /\ DOMAIN s = 1..Len(s)
  BY <1>1, <1>2 DEF Factors
<1>4. 1 \in DOMAIN s
  BY <1>3
<1> QED
  BY <1>1, <1>4

LEMMA FactorialIsPositive == \A k \in Nat : Factorial(k) \in Positive
<1> SUFFICES ASSUME NEW k \in Nat PROVE Factorial(k) \in Positive
  OBVIOUS
<1> DEFINE s == [i \in 1..k |-> i]
<1>1. s \in Seq(Positive)
  BY DEF Positive
<1> HIDE DEF s
<1>2. Products(s) \in [SUBSET DOMAIN s -> Positive] /\ Product(s) = Products(s)[DOMAIN s]
  BY <1>1, ProductsExist
<1>3. Product(s) \in Positive
  BY <1>2
<1> QED
  BY <1>3 DEF s, Factorial

(* What Bluestein's algorithm pads to.                                     *)
LEMMA FactorableIsPlannable ==
  ASSUME NEW n \in Positive, KernelsFactor(n), KernelNs # << >>, NEW timed \in BOOLEAN
  PROVE  DirectlyPlannable(n, timed)
<1>1. AllKernels(factorize_descending(n))
  BY FactorisationsFactor DEF Factored
<1>2. PICK square : square \in factorize_square(n)
  BY FactorisationsFactor
<1>3. IF timed \/ ~AllKernels(square) THEN AllKernels(factorize_descending(n)) ELSE TRUE
  BY <1>1
<1>4. \E s \in factorize_square(n) :
        IF timed \/ ~AllKernels(s) THEN AllKernels(factorize_descending(n)) ELSE TRUE
  BY <1>2, <1>3
<1> QED
  BY <1>4 DEF DirectlyPlannable

LEMMA PaddedFactors ==
  ASSUME NEW n \in Nat \ {0, 1}, KernelNs # << >>
  PROVE  LET n_pad == next_length_factorable_by(2 * n - 1)
         IN  /\ n_pad >= 2 * n - 1
             /\ \A timed \in BOOLEAN : DirectlyPlannable(n_pad, timed)
<1>1. 2 * n - 1 \in Positive
  BY DEF Positive
<1>2. PICK m : m = next_length_factorable_by(2 * n - 1)
  OBVIOUS
<1>3. m \in Positive /\ m >= 2 * n - 1 /\ KernelsFactor(m)
  BY <1>1, <1>2, NextLengthFactors
<1>4. \A timed \in BOOLEAN : DirectlyPlannable(m, timed)
  BY <1>3, FactorableIsPlannable
<1> QED
  BY <1>2, <1>3, <1>4

-----------------------------------------------------------------------------
(* The candidates of a round.                                              *)

CanSucceed == KernelsFactor(call.n) \/ (call.convolutions /\ ~Integral)

LEMMA AlgorithmOfLevel ==
  ASSUME NEW factor, NEW timed, NEW raders \in BOOLEAN, NEW bluestein \in BOOLEAN
  PROVE  /\ Algorithm(factor, timed, raders, bluestein) = "none"
              <=> ~IsKernel(factor) /\ (Integral \/ ~(raders \/ bluestein))
         /\ Algorithm(factor, timed, raders, bluestein) = "rader" => raders /\ ~Integral
  BY CompositorAssumption DEF Algorithm

LEMMA CandidateFacts ==
  ASSUME NEW raders \in BOOLEAN, NEW bluestein \in BOOLEAN, factors \in Factors
  PROVE  /\ DOMAIN LevelsOf(raders, bluestein) = DOMAIN factors
         /\ \A i \in DOMAIN factors : LevelsOf(raders, bluestein)[i].n1 = factors[i]
         /\ Uses(LevelsOf(raders, bluestein), "none")
              <=> ~AllKernels(factors) /\ (Integral \/ ~(raders \/ bluestein))
         /\ Uses(LevelsOf(raders, bluestein), "rader") => raders /\ ~Integral
<1>1. /\ DOMAIN LevelsOf(raders, bluestein) = DOMAIN factors
      /\ \A i \in DOMAIN factors :
           /\ LevelsOf(raders, bluestein)[i].n1 = factors[i]
           /\ LevelsOf(raders, bluestein)[i].by
                = Algorithm(factors[i], call.timed, raders, bluestein)
  BY DEF LevelsOf
<1>2. AllKernels(factors) <=> \A i \in DOMAIN factors : IsKernel(factors[i])
  BY AllKernelsByPlace
<1>3. /\ Uses(LevelsOf(raders, bluestein), "none")
              <=> ~AllKernels(factors) /\ (Integral \/ ~(raders \/ bluestein))
      /\ Uses(LevelsOf(raders, bluestein), "rader") => raders /\ ~Integral
  BY <1>1, <1>2, AlgorithmOfLevel DEF Uses
<1> QED
  BY <1>1, <1>3

(* A candidate without a missing algorithm computes the transform.         *)
LEMMA CandidateServes ==
  ASSUME NEW raders \in BOOLEAN, NEW bluestein \in BOOLEAN,
         call.n \in Nat \ {0, 1}, Factored(factors, call.n),
         ~Uses(LevelsOf(raders, bluestein), "none"), NEW mean
  PROVE  CompositionServes([levels |-> LevelsOf(raders, bluestein), mean |-> mean], call)
<1>1. factors \in Factors /\ factors # << >> /\ DOMAIN factors # {} /\ Product(factors) = call.n
  BY FactoredIsNotEmpty DEF Factored
<1>2. PICK levels : levels = LevelsOf(raders, bluestein)
  OBVIOUS
<1>3. DOMAIN levels = DOMAIN factors /\ \A i \in DOMAIN factors : levels[i].n1 = factors[i]
  BY <1>1, <1>2, CandidateFacts
<1>4. [i \in DOMAIN levels |-> levels[i].n1] = factors
  <2>1. factors = [i \in DOMAIN factors |-> factors[i]]
    BY <1>1 DEF Factors
  <2> QED
    BY <1>3, <2>1
<1>5. levels # << >>
  BY <1>1, <1>3
<1> QED
  BY <1>1, <1>2, <1>4, <1>5 DEF CompositionServes

-----------------------------------------------------------------------------
(* The inductive invariant: the factors under audition multiply to the     *)
(* length; until the first candidate is adopted nothing is kept, and from  *)
(* then on what is kept computes the transform.  That the first audition   *)
(* fails only when the second must fail, too, rests on the two             *)
(* factorisations agreeing about the kernels.                              *)

AuditionInv ==
  Auditioning =>
    /\ call.n \in Nat \ {0, 1} /\ KernelNs # << >>
    /\ Factored(factors, call.n)
    /\ step = "bluestein" => call.convolutions /\ ~Integral /\ ~first
    /\ (phase = "square" /\ first) \/ ~CanSucceed \/ CompositionServes(comp, call)

KeptInv ==
  \A i \in DOMAIN comp.levels : comp.levels[i].n1 \in Nat \ {0, 1} /\ KernelNs # << >>

IdleInv == phase = "idle" => step = "rader" /\ first = TRUE /\ perm = 0

AnswerInv ==
  phase = "done" => /\ result <=> LengthIsPlannable(call)
                    /\ result => CompositionServes(comp, call)

CompositorInv == TypeOK /\ AuditionInv /\ KeptInv /\ IdleInv /\ AnswerInv

LEMMA InitCompositor == Init => CompositorInv
<1> SUFFICES ASSUME Init PROVE CompositorInv
  OBVIOUS
<1>1. TypeOK
  BY DEF Init, TypeOK, Auditioning, NoComposition
<1>2. AuditionInv /\ KeptInv /\ IdleInv /\ AnswerInv
  BY DEF Init, AuditionInv, KeptInv, IdleInv, AnswerInv, Auditioning, NoComposition
<1> QED
  BY <1>1, <1>2 DEF CompositorInv

LEMMA NumPermutationsIsPositive == factors \in Factors => NumPermutations \in Positive
<1> SUFFICES ASSUME factors \in Factors PROVE NumPermutations \in Positive
  OBVIOUS
<1>1. Len(factors) \in Nat
  BY DEF Factors
<1>2. Factorial(Len(factors)) \in Positive
  BY <1>1, FactorialIsPositive
<1>3. 1 \in Positive
  BY DEF Positive
<1> QED
  BY <1>2, <1>3 DEF NumPermutations

LEMMA StartKeeps ==
  ASSUME CompositorInv, NEW n \in Lengths, NEW timed \in BOOLEAN, NEW convolutions \in BOOLEAN,
         Start(n, timed, convolutions)
  PROVE  CompositorInv'
<1> USE DEF Start
<1>1. n \in Nat \ {0} /\ n \in Positive
  BY CompositorAssumption DEF Positive
<1>2. /\ call' = [n |-> n, timed |-> timed, convolutions |-> convolutions]
      /\ call' \in [n : Nat \ {0}, timed : BOOLEAN, convolutions : BOOLEAN]
      /\ UNCHANGED <<step, perm, first, measured, comp, tried>>
      /\ phase = "idle" /\ step = "rader" /\ first = TRUE /\ perm = 0
  BY <1>1 DEF CompositorInv, IdleInv
<1>3. KeptInv'
  BY <1>2 DEF CompositorInv, KeptInv
<1>4. CASE n < 2 \/ KernelNs = << >>
  <2>1. phase' = "done" /\ result' = (n < 2) /\ factors' = factors
    BY <1>4
  <2>2. TypeOK'
    BY <1>2, <2>1 DEF CompositorInv, TypeOK, Auditioning
  <2>3. AuditionInv' /\ IdleInv'
    BY <2>1 DEF AuditionInv, Auditioning, IdleInv
  <2>4. n < 2 <=> n = 1
    BY <1>1
  <2>5. call'.n = n
    BY <1>2
  <2>6. LengthIsPlannable(call') <=> n = 1
    BY <1>4, <2>4, <2>5 DEF LengthIsPlannable
  <2>7. n = 1 => CompositionServes(comp', call')
    BY <2>5 DEF CompositionServes
  <2>8. AnswerInv'
    BY <2>1, <2>4, <2>6, <2>7 DEF AnswerInv
  <2> QED
    BY <1>3, <2>2, <2>3, <2>8 DEF CompositorInv
<1>5. CASE ~(n < 2 \/ KernelNs = << >>)
  <2>1. phase' = "square" /\ factors' \in factorize_square(n) /\ result' = result
    BY <1>5
  <2>2. n \in Nat \ {0, 1}
    BY <1>1, <1>5
  <2>3. Factored(factors', n)
    BY <1>1, <2>1, FactorisationsFactor
  <2>4. factors' \in Factors
    BY <2>3 DEF Factored
  <2>6. 0 \in 0..(NumPermutations' - 1)
    <3>1. Len(factors') \in Nat
      BY <2>4 DEF Factors
    <3>2. Factorial(Len(factors')) \in Positive /\ 1 \in Positive
      BY <3>1, FactorialIsPositive DEF Positive
    <3>3. PICK m \in Positive : m = NumPermutations'
      BY <3>2 DEF NumPermutations
    <3>4. 0 \in 0..(m - 1)
      BY DEF Positive
    <3> QED
      BY <3>3, <3>4
  <2>7. TypeOK'
    BY <1>2, <2>1, <2>4, <2>6 DEF CompositorInv, TypeOK, Auditioning, Factors
  <2>8. AuditionInv'
    BY <1>2, <1>5, <2>1, <2>2, <2>3 DEF AuditionInv, Auditioning, Factored
  <2>9. IdleInv' /\ AnswerInv'
    BY <2>1 DEF IdleInv, AnswerInv
  <2> QED
    BY <1>3, <2>7, <2>8, <2>9 DEF CompositorInv
<1> QED
  BY <1>4, <1>5

(* The end of an audition, and of a round.  What it makes of the           *)
(* composition kept is the callers' part.                                  *)
LEMMA FinishPhaseKeeps ==
  ASSUME CompositorInv, Auditioning, NEW success \in BOOLEAN, FinishPhase(success), call' = call,
         success <=> CanSucceed, success => CompositionServes(comp', call),
         comp'.mean \in Nat, measured'.mean \in Nat, KeptInv'
  PROVE  CompositorInv'
<1> USE DEF FinishPhase
<1>1. /\ call \in [n : Nat \ {0}, timed : BOOLEAN, convolutions : BOOLEAN]
      /\ factors \in Factors /\ call.n \in Nat \ {0, 1} /\ KernelNs # << >>
      /\ result \in BOOLEAN /\ step' = "rader" /\ first' = FALSE
  BY DEF CompositorInv, TypeOK, AuditionInv, Factors
<1>2. call.n \in Positive
  BY <1>1 DEF Positive
<1>3. CASE phase = "square" /\ (~success \/ call.timed)
  <2>1. /\ phase' = "descending" /\ factors' = factorize_descending(call.n) /\ perm' = 0
        /\ result' = result
    BY <1>3
  <2>2. Factored(factors', call.n)
    BY <1>2, <2>1, FactorisationsFactor
  <2>3. factors' \in Factors
    BY <2>2 DEF Factored
  <2>5. 0 \in 0..(NumPermutations' - 1)
    <3>1. Len(factors') \in Nat
      BY <2>3 DEF Factors
    <3>2. Factorial(Len(factors')) \in Positive /\ 1 \in Positive
      BY <3>1, FactorialIsPositive DEF Positive
    <3>3. PICK m \in Positive : m = NumPermutations'
      BY <3>2 DEF NumPermutations
    <3>4. 0 \in 0..(m - 1)
      BY DEF Positive
    <3> QED
      BY <3>3, <3>4
  <2>6. TypeOK'
    BY <1>1, <2>1, <2>3, <2>5 DEF TypeOK, Auditioning, Factors
  <2>7. ~CanSucceed' \/ CompositionServes(comp', call)
    BY DEF CanSucceed
  <2>8. AuditionInv'
    BY <1>1, <2>1, <2>2, <2>7 DEF AuditionInv, Auditioning, Factored
  <2>9. IdleInv' /\ AnswerInv'
    BY <2>1 DEF IdleInv, AnswerInv
  <2> QED
    BY <2>6, <2>8, <2>9 DEF CompositorInv
<1>4. CASE ~(phase = "square" /\ (~success \/ call.timed))
  <2>1. phase' = "done" /\ result' = success /\ factors' = factors
    BY <1>4
  <2>2. TypeOK'
    BY <1>1, <2>1 DEF TypeOK, Auditioning, Factors
  <2>3. AuditionInv' /\ IdleInv'
    BY <2>1 DEF AuditionInv, Auditioning, IdleInv
  <2>4. call.n # 1
    BY <1>1
  <2>5. AnswerInv'
    BY <1>1, <2>1, <2>4 DEF AnswerInv, LengthIsPlannable, CanSucceed
  <2> QED
    BY <2>2, <2>3, <2>5 DEF CompositorInv
<1> QED
  BY <1>3, <1>4

LEMMA FinishRoundKeeps ==
  ASSUME CompositorInv, Auditioning, FinishRound, call' = call,
         CanSucceed, CompositionServes(comp', call),
         comp'.mean \in Nat, measured'.mean \in Nat, KeptInv'
  PROVE  CompositorInv'
<1>1. CASE perm + 1 = NumPermutations
  <2>1. FinishPhase(TRUE)
    BY <1>1 DEF FinishRound
  <2> QED
    BY <2>1, FinishPhaseKeeps
<1>2. CASE perm + 1 # NumPermutations
  <2>1. /\ factors' = NextPermutation(factors) /\ perm' = perm + 1
        /\ step' = "rader" /\ first' = FALSE /\ phase' = phase /\ result' = result
    BY <1>2 DEF FinishRound
  <2>2. /\ call \in [n : Nat \ {0}, timed : BOOLEAN, convolutions : BOOLEAN]
        /\ factors \in Factors /\ call.n \in Nat \ {0, 1} /\ KernelNs # << >>
        /\ Factored(factors, call.n)
        /\ result \in BOOLEAN /\ perm \in 0..(NumPermutations - 1)
    BY DEF CompositorInv, TypeOK, AuditionInv, Factors
  <2>3. Factored(factors', call.n) /\ Len(factors') = Len(factors)
    BY <2>1, <2>2, NextPermutationIsFactored
  <2>4. factors' \in Factors
    BY <2>3 DEF Factored
  <2>5. NumPermutations' = NumPermutations
    BY <2>3 DEF NumPermutations
  <2>6. NumPermutations \in Positive
    BY <2>2, NumPermutationsIsPositive
  <2>7. perm + 1 \in 0..(NumPermutations - 1)
    BY <1>2, <2>2, <2>6 DEF Positive
  <2>8. TypeOK'
    BY <2>1, <2>2, <2>4, <2>5, <2>7 DEF CompositorInv, TypeOK, Auditioning, Factors
  <2>9. AuditionInv'
    BY <2>1, <2>2, <2>3 DEF AuditionInv, Auditioning, Factored
  <2>10. IdleInv' /\ AnswerInv'
    BY <2>1 DEF IdleInv, AnswerInv, Auditioning
  <2> QED
    BY <2>8, <2>9, <2>10 DEF CompositorInv
<1> QED
  BY <1>1, <1>2

LEMMA EstimatesAreNatural == Estimates \subseteq Nat
  BY CompositorAssumption DEF Estimates

LEMMA CandidateIsKept ==
  ASSUME factors \in Factors, KernelNs # << >>, NEW raders \in BOOLEAN, NEW bluestein \in BOOLEAN
  PROVE  \A i \in DOMAIN LevelsOf(raders, bluestein) :
           LevelsOf(raders, bluestein)[i].n1 \in Nat \ {0, 1} /\ KernelNs # << >>
<1>1. \A i \in DOMAIN factors : factors[i] \in Nat \ {0, 1}
  BY DEF Factors
<1> QED
  BY <1>1, CandidateFacts

LEMMA AuditionKeeps == ASSUME CompositorInv, Audition PROVE CompositorInv'
<1>1. PICK levels : levels = LevelsOf(call.convolutions, call.convolutions)
  OBVIOUS
<1>2. /\ Auditioning /\ step = "rader" /\ call' = call
      /\ IF Uses(levels, "none")
         THEN FinishPhase(FALSE) /\ UNCHANGED <<measured, comp>>
         ELSE \E mean \in Estimates, timeout \in TimeIsUp :
                /\ measured' = [levels |-> levels, mean |-> mean]
                /\ comp' = IF Wins(mean) THEN [levels |-> levels, mean |-> mean] ELSE comp
                /\ IF timeout THEN FinishPhase(TRUE)
                   ELSE IF Uses(levels, "rader")
                   THEN /\ step' = "bluestein" /\ first' = FALSE
                        /\ UNCHANGED <<phase, factors, perm, tried, result>>
                   ELSE FinishRound
  BY <1>1 DEF Audition, Auditioning
<1>3. /\ call \in [n : Nat \ {0}, timed : BOOLEAN, convolutions : BOOLEAN]
      /\ call.convolutions \in BOOLEAN
      /\ factors \in Factors /\ call.n \in Nat \ {0, 1} /\ KernelNs # << >>
      /\ Factored(factors, call.n) /\ comp.mean \in Nat /\ measured.mean \in Nat
  BY <1>2 DEF CompositorInv, TypeOK, AuditionInv, Factors
<1>4. Uses(levels, "none") <=> ~CanSucceed
  BY <1>1, <1>3, CandidateFacts, CompositorAssumption DEF CanSucceed, Factored
<1>5. CASE Uses(levels, "none")
  <2>1. FinishPhase(FALSE) /\ comp' = comp /\ measured' = measured
    BY <1>2, <1>5
  <2>2. KeptInv'
    BY <2>1 DEF CompositorInv, KeptInv
  <2> QED
    BY <1>2, <1>3, <1>4, <1>5, <2>1, <2>2, FinishPhaseKeeps
<1>6. CASE ~Uses(levels, "none")
  <2>1. PICK mean \in Estimates, timeout \in TimeIsUp :
                /\ measured' = [levels |-> levels, mean |-> mean]
                /\ comp' = IF Wins(mean) THEN [levels |-> levels, mean |-> mean] ELSE comp
                /\ IF timeout THEN FinishPhase(TRUE)
                   ELSE IF Uses(levels, "rader")
                   THEN /\ step' = "bluestein" /\ first' = FALSE
                        /\ UNCHANGED <<phase, factors, perm, tried, result>>
                   ELSE FinishRound
    BY <1>2, <1>6
  <2>2. CanSucceed
    BY <1>4, <1>6
  <2>3. mean \in Nat /\ comp'.mean \in Nat /\ measured'.mean \in Nat
    BY <1>3, <2>1, EstimatesAreNatural
  <2>4. CompositionServes([levels |-> levels, mean |-> mean], call)
    BY <1>1, <1>3, <1>6, CandidateServes
  <2>5. ~Wins(mean) => CompositionServes(comp, call)
    BY <1>2, <2>2 DEF CompositorInv, AuditionInv, Wins
  <2>6. CompositionServes(comp', call)
    BY <2>1, <2>4, <2>5
  <2>7. KeptInv'
    <3>1. \A i \in DOMAIN levels : levels[i].n1 \in Nat \ {0, 1} /\ KernelNs # << >>
      BY <1>1, <1>3, CandidateIsKept
    <3> QED
      BY <2>1, <3>1 DEF CompositorInv, KeptInv
  <2>8. CASE timeout
    BY <1>2, <2>1, <2>2, <2>3, <2>6, <2>7, <2>8, FinishPhaseKeeps
  <2>9. CASE ~timeout /\ Uses(levels, "rader")
    <3>1. /\ step' = "bluestein" /\ first' = FALSE
          /\ UNCHANGED <<phase, factors, perm, tried, result>>
      BY <2>1, <2>9
    <3>2. call.convolutions /\ ~Integral
      BY <1>1, <1>3, <2>9, CandidateFacts
    <3>3. NumPermutations' = NumPermutations /\ Auditioning'
      BY <1>2, <3>1 DEF NumPermutations, Auditioning
    <3>4. TypeOK'
      BY <1>2, <2>3, <3>1, <3>3 DEF CompositorInv, TypeOK, Auditioning
    <3>5. AuditionInv'
      BY <1>2, <1>3, <2>6, <3>1, <3>2 DEF AuditionInv, Factored
    <3>6. IdleInv' /\ AnswerInv'
      BY <3>3 DEF IdleInv, AnswerInv, Auditioning
    <3> QED
      BY <2>7, <3>4, <3>5, <3>6 DEF CompositorInv
  <2>10. CASE ~timeout /\ ~Uses(levels, "rader")
    BY <1>2, <2>1, <2>2, <2>3, <2>6, <2>7, <2>10, FinishRoundKeeps
  <2> QED
    BY <2>8, <2>9, <2>10
<1> QED
  BY <1>5, <1>6

LEMMA BluesteinKeeps == ASSUME CompositorInv, AuditionBluestein PROVE CompositorInv'
<1>1. PICK mean \in Estimates, timeout \in TimeIsUp :
        /\ measured' = [levels |-> LevelsOf(FALSE, TRUE), mean |-> mean]
        /\ comp' = IF mean < comp.mean
                   THEN [levels |-> LevelsOf(call.convolutions, call.convolutions), mean |-> 0]
                   ELSE comp
        /\ IF timeout THEN FinishPhase(TRUE) ELSE FinishRound
  BY DEF AuditionBluestein
<1>2. Auditioning /\ step = "bluestein" /\ call' = call
  BY DEF AuditionBluestein, Auditioning
<1>3. /\ call.convolutions = TRUE /\ ~Integral /\ ~first
      /\ factors \in Factors /\ call.n \in Nat \ {0, 1} /\ KernelNs # << >>
      /\ Factored(factors, call.n) /\ comp.mean \in Nat
  BY <1>2 DEF CompositorInv, TypeOK, AuditionInv, Factors
<1>4. CanSucceed
  BY <1>3 DEF CanSucceed
<1>5. comp'.mean \in Nat /\ measured'.mean \in Nat
  BY <1>1, <1>3, EstimatesAreNatural
<1>6. CompositionServes(comp', call)
  <2>1. ~Uses(LevelsOf(TRUE, TRUE), "none")
    BY <1>3, CandidateFacts
  <2>2. CompositionServes([levels |-> LevelsOf(TRUE, TRUE), mean |-> 0], call)
    BY <1>3, <2>1, CandidateServes
  <2>3. CompositionServes(comp, call)
    BY <1>2, <1>3, <1>4 DEF CompositorInv, AuditionInv
  <2> QED
    BY <1>1, <1>3, <2>2, <2>3
<1>7. KeptInv'
  <2>1. \A i \in DOMAIN LevelsOf(TRUE, TRUE) :
          LevelsOf(TRUE, TRUE)[i].n1 \in Nat \ {0, 1} /\ KernelNs # << >>
    BY <1>3, CandidateIsKept
  <2> QED
    BY <1>1, <1>3, <2>1 DEF CompositorInv, KeptInv
<1>8. CASE timeout
  BY <1>1, <1>2, <1>4, <1>5, <1>6, <1>7, <1>8, FinishPhaseKeeps
<1>9. CASE ~timeout
  BY <1>1, <1>2, <1>4, <1>5, <1>6, <1>7, <1>9, FinishRoundKeeps
<1> QED
  BY <1>8, <1>9

LEMMA ReturnKeeps == ASSUME CompositorInv, Return PROVE CompositorInv'
<1> USE DEF Return, NoComposition
<1>1. TypeOK'
  BY DEF TypeOK, Auditioning
<1>2. AuditionInv' /\ KeptInv' /\ IdleInv' /\ AnswerInv'
  BY DEF AuditionInv, KeptInv, IdleInv, AnswerInv, Auditioning
<1> QED
  BY <1>1, <1>2 DEF CompositorInv

LEMMA CompositorStep == CompositorInv /\ [Next]_vars => CompositorInv'
<1> SUFFICES ASSUME CompositorInv, [Next]_vars PROVE CompositorInv'
  OBVIOUS
<1>1. CASE UNCHANGED vars
  BY <1>1 DEF vars, CompositorInv, TypeOK, AuditionInv, KeptInv, IdleInv, AnswerInv, Auditioning,
              NumPermutations, CanSucceed, CompositionServes, LengthIsPlannable, Factored, Uses
<1>2. CASE \E n \in Lengths, timed, convolutions \in BOOLEAN : Start(n, timed, convolutions)
  BY <1>2, StartKeeps
<1>3. CASE Audition
  BY <1>3, AuditionKeeps
<1>4. CASE AuditionBluestein
  BY <1>4, BluesteinKeeps
<1>5. CASE Return
  BY <1>5, ReturnKeeps
<1> QED
  BY <1>1, <1>2, <1>3, <1>4, <1>5 DEF Next

LEMMA CompositorIsInvariant == Spec => []CompositorInv
  BY InitCompositor, CompositorStep, PTL DEF Spec

-----------------------------------------------------------------------------
(* The compositor's state stays within its types; no factorisation of k    *)
(* factors has more than factorial(k) rounds.                              *)
THEOREM CompositorIsTyped == Spec => []TypeOK
<1>1. CompositorInv => TypeOK
  BY DEF CompositorInv
<1> QED
  BY <1>1, CompositorIsInvariant, PTL

(* Whatever the lengths, the kernels and the measurements: composite_init  *)
(* succeeds for a length and the convolutions allowed, or fails, and the   *)
(* time it is given makes no difference.                                   *)
THEOREM SuccessDependsOnTheLength == Spec => []SuccessIsDetermined
<1>1. CompositorInv => SuccessIsDetermined
  BY DEF CompositorInv, AnswerInv, SuccessIsDetermined, LengthIsPlannable
<1> QED
  BY <1>1, CompositorIsInvariant, PTL

(* The length create_bluestein pads to is long enough and has a            *)
(* composition without convolutions, for every level of every composition  *)
(* kept: the assertion there never fails.                                  *)
THEOREM PaddedLengthsArePlannable == Spec => []PaddedLengthIsPlannable
<1>1. CompositorInv => PaddedLengthIsPlannable
  <2> SUFFICES ASSUME CompositorInv, NEW i \in DOMAIN comp.levels
               PROVE  LET n_pad == next_length_factorable_by(2 * comp.levels[i].n1 - 1)
                      IN  /\ n_pad >= 2 * comp.levels[i].n1 - 1
                          /\ \A timed \in BOOLEAN : DirectlyPlannable(n_pad, timed)
    BY DEF PaddedLengthIsPlannable
  <2>1. comp.levels[i].n1 \in Nat \ {0, 1} /\ KernelNs # << >>
    BY DEF CompositorInv, KeptInv
  <2> QED
    BY <2>1, PaddedFactors
<1> QED
  BY <1>1, CompositorIsInvariant, PTL

(* The legacy planner keeps the safety part of a planner's promise: every  *)
(* answer serves the request or there is none to be had.  That every call  *)
(* returns is left to the runs.                                            *)
THEOREM CompositorKeepsItsPromise == Spec => Contract!Safety
<1> DEFINE Phase == IF phase = "idle" THEN "idle" ELSE IF phase = "done" THEN "answered" ELSE "asked"
           Given == IF phase = "done" /\ result THEN Answered(TRUE, comp.levels)
                                                ELSE Answered(FALSE, << >>)
<1>1. Init => Contract!Init
  BY DEF Init, Contract!Init
<1>2. CompositorInv /\ CompositorInv' /\ [Next]_vars => [Contract!Next]_<<Phase, call, Given>>
  <2> SUFFICES ASSUME CompositorInv, CompositorInv', [Next]_vars
               PROVE  [Contract!Next]_<<Phase, call, Given>>
    OBVIOUS
  <2>1. phase \in {"idle", "square", "descending", "done"} /\ result \in BOOLEAN
    BY DEF CompositorInv, TypeOK
  <2>2. /\ phase' = "done" /\ result' => Given' = Answered(TRUE, comp'.levels)
        /\ ~(phase' = "done" /\ result') => Given' = Answered(FALSE, << >>)
    OBVIOUS
  <2>3. ASSUME phase' = "done", phase # "done", phase # "idle" => call' = call
        PROVE  Contract!Answer
    <3>1. result' <=> LengthIsPlannable(call')
      BY <2>3 DEF CompositorInv, AnswerInv
    <3>2. result' => CompositionServes(Answered(TRUE, comp'.levels), call')
      BY <2>3 DEF CompositorInv, AnswerInv, CompositionServes, Answered
    <3>3. Answered(TRUE, comp'.levels) # Answered(FALSE, << >>)
      BY DEF Answered
    <3>4. Phase \in {"idle", "asked"} /\ Phase' = "answered" /\ (Phase = "asked" => call' = call)
      BY <2>1, <2>3
    <3>5. CASE result'
      BY <2>2, <2>3, <3>1, <3>2, <3>3, <3>4, <3>5 DEF Contract!Answer
    <3>6. CASE ~result'
      BY <2>2, <2>3, <3>1, <3>4, <3>6 DEF Contract!Answer
    <3> QED
      BY <3>5, <3>6
  <2>4. ASSUME phase' \in {"square", "descending"}, phase \in {"square", "descending"}, call' = call
        PROVE  UNCHANGED <<Phase, call, Given>>
    BY <2>4
  <2>5. ASSUME NEW n \in Lengths, NEW timed \in BOOLEAN, NEW convolutions \in BOOLEAN,
               Start(n, timed, convolutions)
        PROVE  Contract!Next
    <3>1. phase = "idle" /\ phase' \in {"done", "square"}
      BY <2>5 DEF Start
    <3>2. CASE phase' = "done"
      BY <2>3, <3>1, <3>2 DEF Contract!Next
    <3>3. CASE phase' = "square"
      BY <2>2, <3>1, <3>3 DEF Contract!Next, Contract!Ask
    <3> QED
      BY <3>1, <3>2, <3>3
  <2>6. ASSUME Audition \/ AuditionBluestein PROVE [Contract!Next]_<<Phase, call, Given>>
    <3>1. phase \in {"square", "descending"} /\ call' = call
      BY <2>6 DEF Audition, AuditionBluestein
    <3>2. phase' \in {"idle", "square", "descending", "done"}
      BY DEF CompositorInv, TypeOK
    <3>3. phase' # "idle"
      BY <2>6, <3>1 DEF Audition, AuditionBluestein, FinishPhase, FinishRound
    <3> QED
      BY <2>3, <2>4, <3>1, <3>2, <3>3 DEF Contract!Next
  <2>7. CASE Return
    BY <2>2, <2>7 DEF Return, Contract!Next, Contract!Forget
  <2>8. CASE UNCHANGED vars
    BY <2>8 DEF vars
  <2> QED
    BY <2>5, <2>6, <2>7, <2>8 DEF Next
<1> QED
  BY <1>1, <1>2, InitCompositor, CompositorStep, PTL DEF Spec, Contract!Safety

-----------------------------------------------------------------------------
(* What the steps of next_permutation leave at each place.                 *)
LEMMA StepsOfNextPermutation ==
  ASSUME NEW s \in Factors
  PROVE  /\ \A i \in DOMAIN s : Reverse(s)[i] = s[Len(s) - i + 1]
         /\ \A i, j \in DOMAIN s : \A k \in DOMAIN s :
              Exchange(s, i, j)[k] = IF k = j THEN s[i] ELSE IF k = i THEN s[j] ELSE s[k]
         /\ \A k \in 1..(Len(s) + 1) : \A i \in DOMAIN s :
              ReverseFrom(s, k)[i] = IF i < k THEN s[i] ELSE s[Len(s) + k - i]
<1>1. Len(s) \in Nat /\ DOMAIN s = 1..Len(s) /\ s \in Seq(Nat \ {0, 1})
  BY DEF Factors
<1>2. \A i \in DOMAIN s : Reverse(s)[i] = s[Len(s) - i + 1]
  BY <1>1 DEF Reverse
<1>3. \A i, j \in DOMAIN s : \A k \in DOMAIN s :
        Exchange(s, i, j)[k] = IF k = j THEN s[i] ELSE IF k = i THEN s[j] ELSE s[k]
  BY DEF Exchange
<1>4. ASSUME NEW k \in 1..(Len(s) + 1), NEW i \in DOMAIN s
      PROVE  ReverseFrom(s, k)[i] = IF i < k THEN s[i] ELSE s[Len(s) + k - i]
  <2> DEFINE n == Len(s)
  <2>1. PICK a \in Seq(Nat \ {0, 1}), b \in Factors :
          /\ a = SubSeq(s, 1, k - 1) /\ Len(a) = k - 1
          /\ b = SubSeq(s, k, n) /\ Len(b) = n - k + 1
          /\ \A l \in 1..(k - 1) : a[l] = s[l]
          /\ \A l \in 1..Len(b) : b[l] = s[k + l - 1]
    <3>1. /\ SubSeq(s, 1, k - 1) \in Seq(Nat \ {0, 1}) /\ Len(SubSeq(s, 1, k - 1)) = k - 1
          /\ \A l \in 1..(k - 1) : SubSeq(s, 1, k - 1)[l] = s[l]
          /\ SubSeq(s, k, n) \in Seq(Nat \ {0, 1}) /\ Len(SubSeq(s, k, n)) = n - k + 1
          /\ \A l \in 1..Len(SubSeq(s, k, n)) : SubSeq(s, k, n)[l] = s[k + l - 1]
      BY ONLY <1>1, k \in 1..(Len(s) + 1)
    <3> QED
      BY <3>1, Zenon DEF Factors
  <2>2. PICK c \in Factors : c = Reverse(b) /\ Len(c) = Len(b)
                             /\ \A l \in 1..Len(b) : c[l] = b[Len(b) - l + 1]
    <3>1. Reverse(b) \in Factors /\ Len(Reverse(b)) = Len(b)
      BY ReverseRearranges
    <3>2. \A l \in 1..Len(b) : Reverse(b)[l] = b[Len(b) - l + 1]
      BY DEF Reverse
    <3> QED
      BY <3>1, <3>2
  <2>3. ReverseFrom(s, k) = a \o c
    BY <2>1, <2>2 DEF ReverseFrom
  <2>4. PICK t : t = a \o c /\ (\A l \in 1..Len(a) : t[l] = a[l])
                            /\ (\A l \in 1..Len(c) : t[Len(a) + l] = c[l])
    <3>1. c \in Seq(Nat \ {0, 1})
      BY DEF Factors
    <3>2. /\ \A l \in 1..Len(a) : (a \o c)[l] = a[l]
          /\ \A l \in 1..Len(c) : (a \o c)[Len(a) + l] = c[l]
      BY ONLY <3>1, a \in Seq(Nat \ {0, 1})
    <3> QED
      BY <3>2
  <2> HIDE DEF n
  <2>5. CASE i < k
    <3>1. i \in 1..(k - 1)
      BY <1>1, <2>5
    <3> QED
      BY <2>1, <2>3, <2>4, <2>5, <3>1
  <2>6. CASE ~(i < k)
    <3>1. n \in Nat /\ n = Len(s) /\ i \in 1..n /\ k \in 1..(n + 1)
      BY <1>1 DEF n
    <3>2. PICK l \in 1..(n - k + 1) : l = i - k + 1
      BY <2>6, <3>1
    <3>3. PICK m \in 1..(n - k + 1) : m = (n - k + 1) - l + 1
      BY <3>1, <3>2
    <3>4. (k - 1) + l = i /\ k + m - 1 = n + k - i
      BY <3>1, <3>2, <3>3
    <3>5. t[(k - 1) + l] = c[l] /\ c[l] = b[m] /\ b[m] = s[k + m - 1]
      BY <2>1, <2>2, <2>4, <3>3
    <3> QED
      BY <2>3, <2>4, <2>6, <3>1, <3>4, <3>5
  <2> QED
    BY <2>5, <2>6
<1> QED
  BY <1>2, <1>3, <1>4

-----------------------------------------------------------------------------
(* The orders of a factorisation: what its factors are when its places are *)
(* permuted.                                                               *)
Orders(s) == {[i \in DOMAIN s |-> s[p[i]]] : p \in Bijection(DOMAIN s, DOMAIN s)}

LEMMA OrdersAreRearranged ==
  ASSUME NEW s \in Factors, NEW t
  PROVE  t \in Orders(s) <=> t \in Factors /\ Len(t) = Len(s) /\ Rearranges(t, s)
<1> DEFINE D == DOMAIN s
<1>1. Len(s) \in Nat /\ D = 1..Len(s) /\ \A i \in D : s[i] \in Nat \ {0, 1}
  BY DEF Factors
<1>2. ASSUME NEW p \in Bijection(D, D), t = [i \in D |-> s[p[i]]]
      PROVE  t \in Factors /\ Len(t) = Len(s) /\ Rearranges(t, s)
  <2>1. /\ p \in [D -> D] /\ \A i, j \in D : p[i] = p[j] => i = j
        /\ \A k \in D : \E i \in D : p[i] = k
    BY DEF Bijection, Injection, Surjection, IsInjective
  <2>2. t \in [1..Len(s) -> Nat \ {0, 1}]
    BY <1>1, <1>2, <2>1
  <2>3. t \in Factors /\ Len(t) = Len(s) /\ DOMAIN t = D
    BY <1>1, <2>2 DEF Factors
  <2>4. Corresponds(p, t, DOMAIN t, s, DOMAIN s)
    BY <1>2, <2>1, <2>3 DEF Corresponds
  <2> QED
    BY <2>3, <2>4 DEF Rearranges
<1>3. ASSUME t \in Factors, Len(t) = Len(s), NEW h, Corresponds(h, t, DOMAIN t, s, DOMAIN s)
      PROVE  h \in Bijection(D, D) /\ t = [i \in D |-> s[h[i]]]
  <2>1. DOMAIN t = D /\ t = [i \in DOMAIN t |-> t[i]]
    BY <1>1, <1>3 DEF Factors
  <2>2. /\ h \in [D -> D] /\ \A i, j \in D : h[i] = h[j] => i = j
        /\ \A k \in D : \E i \in D : h[i] = k
        /\ \A i \in D : t[i] = s[h[i]]
    BY <1>3, <2>1 DEF Corresponds
  <2>3. h \in Bijection(D, D)
    BY <2>2 DEF Bijection, Injection, Surjection, IsInjective
  <2> QED
    BY <2>1, <2>2, <2>3
<1> HIDE DEF D
<1>4. t \in Orders(s) <=> \E p \in Bijection(D, D) : t = [i \in D |-> s[p[i]]]
  BY DEF Orders, D
<1> QED
  BY <1>2, <1>3, <1>4 DEF Rearranges

LEMMA RearrangedBack ==
  ASSUME NEW s, NEW t, Rearranges(t, s), s = [i \in DOMAIN s |-> s[i]]
  PROVE  Rearranges(s, t)
<1>1. PICK h : Corresponds(h, t, DOMAIN t, s, DOMAIN s)
  BY DEF Rearranges
<1> DEFINE g == [k \in DOMAIN s |-> CHOOSE i \in DOMAIN t : h[i] = k]
<1>2. \A k \in DOMAIN s : g[k] \in DOMAIN t /\ h[g[k]] = k
  BY <1>1 DEF Corresponds
<1>3. g \in [DOMAIN s -> DOMAIN t]
  BY <1>2
<1>4. \A i \in DOMAIN t : h[i] \in DOMAIN s /\ t[i] = s[h[i]]
  BY <1>1 DEF Corresponds
<1>5. \A i \in DOMAIN t : g[h[i]] = i
  BY <1>1, <1>2, <1>4 DEF Corresponds
<1> HIDE DEF g
<1>6. \A k, l \in DOMAIN s : g[k] = g[l] => k = l
  BY <1>2
<1>7. \A i \in DOMAIN t : \E k \in DOMAIN s : g[k] = i
  BY <1>4, <1>5
<1>8. \A k \in DOMAIN s : s[k] = t[g[k]]
  BY <1>2, <1>4
<1>9. Corresponds(g, s, DOMAIN s, t, DOMAIN t)
  BY <1>3, <1>6, <1>7, <1>8 DEF Corresponds
<1> QED
  BY <1>9 DEF Rearranges

(* Each order of the factors has the same orders.                          *)
LEMMA OrdersAgree ==
  ASSUME NEW s \in Factors, NEW t \in Orders(s)
  PROVE  t \in Factors /\ Len(t) = Len(s) /\ s \in Orders(t) /\ Orders(t) = Orders(s)
<1>1. t \in Factors /\ Len(t) = Len(s) /\ Rearranges(t, s)
  BY OrdersAreRearranged
<1>2. Rearranges(s, t)
  <2>1. s = [i \in DOMAIN s |-> s[i]]
    BY DEF Factors
  <2> QED
    BY <1>1, <2>1, RearrangedBack
<1>3. \A u : u \in Orders(t) <=> u \in Factors /\ Len(u) = Len(t) /\ Rearranges(u, t)
  BY <1>1, OrdersAreRearranged
<1>4. \A u : u \in Orders(s) <=> u \in Factors /\ Len(u) = Len(s) /\ Rearranges(u, s)
  BY OrdersAreRearranged
<1>5. \A u : Rearranges(u, s) <=> Rearranges(u, t)
  BY <1>1, <1>2, RearrangedTwice
<1> QED
  BY <1>1, <1>2, <1>3, <1>4, <1>5

LEMMA OrderIsItsOwn ==
  ASSUME NEW s \in Factors
  PROVE  s \in Orders(s)
<1> DEFINE h == [i \in DOMAIN s |-> i]
<1>1. Corresponds(h, s, DOMAIN s, s, DOMAIN s)
  BY DEF Corresponds
<1>2. Rearranges(s, s)
  BY <1>1 DEF Rearranges
<1> QED
  BY <1>2, OrdersAreRearranged

(* As many elements of one order as of another are in a set V.             *)
LEMMA RearrangedCounts ==
  ASSUME NEW s \in Factors, NEW t \in Orders(s), NEW V,
         \A k \in DOMAIN s : s[k] \in V => t[k] \in V
  PROVE  \A k \in DOMAIN s : t[k] \in V => s[k] \in V
<1> DEFINE S == {k \in DOMAIN s : s[k] \in V}
           T == {k \in DOMAIN s : t[k] \in V}
<1>1. t \in Factors /\ Len(t) = Len(s) /\ Rearranges(t, s)
  BY OrdersAreRearranged
<1>2. DOMAIN t = DOMAIN s
  BY <1>1 DEF Factors
<1>3. PICK h : Corresponds(h, t, DOMAIN t, s, DOMAIN s)
  BY <1>1 DEF Rearranges
<1>4. /\ h \in [DOMAIN s -> DOMAIN s] /\ \A i, j \in DOMAIN s : h[i] = h[j] => i = j
      /\ \A k \in DOMAIN s : \E i \in DOMAIN s : h[i] = k
      /\ \A i \in DOMAIN s : t[i] = s[h[i]]
  BY <1>2, <1>3 DEF Corresponds
<1> DEFINE g == [i \in T |-> h[i]]
<1>5. g \in Bijection(T, S)
  <2>1. g \in [T -> S] /\ \A i, j \in T : g[i] = g[j] => i = j
    BY <1>4
  <2>2. ASSUME NEW k \in S PROVE \E i \in T : g[i] = k
    BY <1>4
  <2> QED
    BY <2>1, <2>2 DEF Bijection, Injection, Surjection, IsInjective
<1>6. IsFiniteSet(T) /\ S \in SUBSET T
  <2>1. s \in Seq(Positive) /\ T \in SUBSET DOMAIN s
    BY FactorsArePositive
  <2> QED
    BY <2>1, PlacesHaveExtremes
<1> HIDE DEF S, T, g
<1>7. Cardinality(S) = Cardinality(T)
  BY <1>5, <1>6, FS_Bijection DEF ExistsBijection
<1>8. S = T
  BY <1>6, <1>7, FS_Subset
<1> QED
  BY <1>8 DEF S, T

-----------------------------------------------------------------------------
(* The lexicographic order, which std::next_permutation goes through.      *)
Agree(t, s, d) == \A k \in DOMAIN s : k < d => t[k] = s[k]

Before(t, s) == \E d \in DOMAIN s : t[d] < s[d] /\ Agree(t, s, d)

LEMMA FactorPlaces ==
  ASSUME NEW s \in Factors
  PROVE  /\ Len(s) \in Nat /\ DOMAIN s = 1..Len(s) /\ DOMAIN s \in SUBSET Nat
         /\ \A k \in DOMAIN s : s[k] \in Nat
  BY DEF Factors

LEMMA BeforeIsTotal ==
  ASSUME NEW s \in Factors, NEW t \in Orders(s)
  PROVE  /\ DOMAIN t = DOMAIN s
         /\ t # s => Before(t, s) \/ Before(s, t)
         /\ ~(Before(t, s) /\ Before(s, t)) /\ ~Before(s, s)
<1>1. t \in Factors /\ DOMAIN t = DOMAIN s
  BY OrdersAgree, FactorPlaces
<1>2. ASSUME t # s PROVE Before(t, s) \/ Before(s, t)
  <2> DEFINE Apart == {k \in DOMAIN s : t[k] # s[k]}
  <2>1. t = [k \in DOMAIN s |-> t[k]] /\ s = [k \in DOMAIN s |-> s[k]]
    BY <1>1 DEF Factors
  <2>2. Apart \in SUBSET Nat /\ Apart # {}
    BY <1>2, <2>1, FactorPlaces
  <2>3. PICK d \in Apart : \A k \in Apart : d <= k
    <3> HIDE DEF Apart
    <3> QED
      BY <2>2, LeastNumber
  <2>4. \A k \in DOMAIN s : k < d => t[k] = s[k]
    BY <2>3, FactorPlaces
  <2>5. t[d] < s[d] \/ s[d] < t[d]
    BY <1>1, FactorPlaces
  <2> QED
    BY <1>1, <2>4, <2>5 DEF Before, Agree
<1>3. ASSUME Before(t, s), Before(s, t) PROVE FALSE
  <2>1. PICK d \in DOMAIN s : t[d] < s[d] /\ Agree(t, s, d)
    BY <1>3 DEF Before
  <2>2. PICK e \in DOMAIN s : s[e] < t[e] /\ Agree(s, t, e)
    BY <1>1, <1>3 DEF Before
  <2>3. d \in Nat /\ e \in Nat /\ s[d] \in Nat /\ s[e] \in Nat /\ t[d] \in Nat /\ t[e] \in Nat
    BY <1>1, FactorPlaces
  <2> QED
    BY <1>1, <2>1, <2>2, <2>3 DEF Agree
<1>4. ~Before(s, s)
  BY FactorPlaces DEF Before
<1> QED
  BY <1>1, <1>2, <1>3, <1>4

LEMMA BeforeIsTransitive ==
  ASSUME NEW s \in Factors, NEW t \in Orders(s), NEW u \in Orders(s), Before(u, t), Before(t, s)
  PROVE  Before(u, s)
<1>1. t \in Factors /\ u \in Factors /\ DOMAIN t = DOMAIN s /\ DOMAIN u = DOMAIN s
  BY OrdersAgree, FactorPlaces
<1>2. PICK d \in DOMAIN s : u[d] < t[d] /\ Agree(u, t, d)
  BY <1>1 DEF Before
<1>3. PICK e \in DOMAIN s : t[e] < s[e] /\ Agree(t, s, e)
  BY DEF Before
<1>4. \A k \in DOMAIN s : k \in Nat /\ s[k] \in Nat /\ t[k] \in Nat /\ u[k] \in Nat
  BY <1>1, FactorPlaces
<1>5. PICK m \in DOMAIN s : (m = d \/ m = e) /\ m <= d /\ m <= e
  BY <1>4
<1>6. u[m] < s[m]
  BY <1>1, <1>2, <1>3, <1>4, <1>5 DEF Agree
<1>7. Agree(u, s, m)
  BY <1>1, <1>2, <1>3, <1>4, <1>5 DEF Agree
<1> QED
  BY <1>6, <1>7 DEF Before

(* No order of the factors that agrees with s below d has more at d when   *)
(* s has its greatest there, or less when it has its least.                *)
LEMMA TailIsGreatest ==
  ASSUME NEW s \in Factors, NEW t \in Orders(s), NEW d \in DOMAIN s, Agree(t, s, d),
         \A k \in DOMAIN s : d <= k => s[k] <= s[d]
  PROVE  t[d] <= s[d]
<1>1. t \in Factors /\ DOMAIN t = DOMAIN s
  BY OrdersAgree, FactorPlaces
<1>2. \A k \in DOMAIN s : k \in Nat /\ s[k] \in Nat /\ t[k] \in Nat
  BY <1>1, FactorPlaces
<1> DEFINE V == {v \in Nat : s[d] < v}
<1>3. \A k \in DOMAIN s : s[k] \in V => t[k] \in V
  BY <1>2 DEF Agree
<1>4. \A k \in DOMAIN s : t[k] \in V => s[k] \in V
  <2> HIDE DEF V
  <2> QED
    BY <1>3, RearrangedCounts
<1>5. s[d] \notin V
  BY <1>2
<1>6. t[d] \notin V
  BY <1>4, <1>5
<1> QED
  BY <1>2, <1>6

LEMMA TailIsLeast ==
  ASSUME NEW s \in Factors, NEW t \in Orders(s), NEW d \in DOMAIN s, Agree(t, s, d),
         \A k \in DOMAIN s : d <= k => s[d] <= s[k]
  PROVE  s[d] <= t[d]
<1>1. t \in Factors /\ DOMAIN t = DOMAIN s
  BY OrdersAgree, FactorPlaces
<1>2. \A k \in DOMAIN s : k \in Nat /\ s[k] \in Nat /\ t[k] \in Nat
  BY <1>1, FactorPlaces
<1> DEFINE V == {v \in Nat : v < s[d]}
<1>3. \A k \in DOMAIN s : s[k] \in V => t[k] \in V
  BY <1>2 DEF Agree
<1>4. \A k \in DOMAIN s : t[k] \in V => s[k] \in V
  <2> HIDE DEF V
  <2> QED
    BY <1>3, RearrangedCounts
<1>5. s[d] \notin V
  BY <1>2
<1>6. t[d] \notin V
  BY <1>4, <1>5
<1> QED
  BY <1>2, <1>6

-----------------------------------------------------------------------------
(* next_permutation goes to the next order.                                *)
Falls(s, i) == \A k, l \in DOMAIN s : i < k /\ k <= l => s[l] <= s[k]

Rises(s, i) == \A k, l \in DOMAIN s : i < k /\ k <= l => s[k] <= s[l]

LEMMA FallsWithoutAscents ==
  ASSUME NEW s \in Factors, NEW i \in Nat,
         \A k \in 1..(Len(s) - 1) : i < k => s[k + 1] <= s[k]
  PROVE  Falls(s, i)
<1> SUFFICES ASSUME NEW k \in DOMAIN s, NEW l \in DOMAIN s, i < k, k <= l
             PROVE  s[l] <= s[k]
  BY DEF Falls
<1>1. PICK n \in Nat : n = Len(s) /\ DOMAIN s = 1..n
  BY FactorPlaces
<1>2. \A m \in 1..n : s[m] \in Nat
  BY <1>1, FactorPlaces
<1> DEFINE Good == {m \in Nat : k + m \in 1..n => s[k + m] <= s[k]}
<1>3. 0 \in Good
  BY <1>1, <1>2
<1>4. ASSUME NEW m \in Good PROVE m + 1 \in Good
  <2> SUFFICES ASSUME k + (m + 1) \in 1..n PROVE s[k + (m + 1)] <= s[k]
    OBVIOUS
  <2>1. PICK p \in 1..(n - 1) : p = k + m /\ p + 1 = k + (m + 1) /\ i < p
    BY <1>1
  <2>2. s[p] <= s[k]
    BY <2>1
  <2>3. s[p + 1] <= s[p]
    BY <1>1, <2>1
  <2>4. p \in 1..n /\ p + 1 \in 1..n
    OBVIOUS
  <2> QED
    BY <1>1, <1>2, <2>1, <2>2, <2>3, <2>4
<1>5. Good = Nat
  <2> HIDE DEF Good
  <2>1. Good \in SUBSET Nat
    BY DEF Good
  <2> QED
    BY <1>3, <1>4, <2>1, SetInduction
<1>6. l - k \in Nat /\ k + (l - k) = l
  BY <1>1
<1> QED
  BY <1>1, <1>5, <1>6

(* Where there is no ascent, the factors fall, and rise when reversed.     *)
LEMMA LastOrderIsReversed ==
  ASSUME NEW s \in Factors, {i \in 1..(Len(s) - 1) : s[i] < s[i + 1]} = {}
  PROVE  Falls(s, 0) /\ Rises(NextPermutation(s), 0)
<1>1. PICK n \in Nat : n = Len(s) /\ DOMAIN s = 1..n
  BY FactorPlaces
<1>2. \A m \in 1..n : s[m] \in Nat
  BY <1>1, FactorPlaces
<1>3. Falls(s, 0)
  <2>0. \A k \in 1..(n - 1) : ~(s[k] < s[k + 1])
    BY <1>1
  <2>1. ASSUME NEW k \in 1..(n - 1) PROVE s[k + 1] <= s[k]
    <3>1. k \in 1..n /\ k + 1 \in 1..n /\ ~(s[k] < s[k + 1])
      BY <1>1, <2>0
    <3> QED
      BY <1>2, <3>1
  <2> QED
    BY <1>1, <2>1, FallsWithoutAscents
<1>4. PICK u : u = NextPermutation(s) /\ DOMAIN u = 1..n /\ \A k \in 1..n : u[k] = s[n - k + 1]
  <2>1. NextPermutation(s) = Reverse(s)
    BY DEF NextPermutation
  <2>2. Reverse(s) \in Factors /\ Len(Reverse(s)) = n
    BY <1>1, ReverseRearranges
  <2>3. DOMAIN Reverse(s) = 1..n /\ \A k \in 1..n : Reverse(s)[k] = s[n - k + 1]
    BY <1>1, <2>2, FactorPlaces, StepsOfNextPermutation
  <2> QED
    BY <2>1, <2>3
<1>5. ASSUME NEW k \in 1..n, NEW l \in 1..n, k <= l PROVE u[k] <= u[l]
  <2>1. n - l + 1 \in 1..n /\ n - k + 1 \in 1..n /\ n - l + 1 <= n - k + 1 /\ 0 < n - l + 1
    BY <1>5
  <2>2. s[n - k + 1] <= s[n - l + 1]
    BY <1>1, <1>3, <2>1 DEF Falls
  <2> QED
    BY <1>4, <2>2
<1> QED
  BY <1>3, <1>4, <1>5 DEF Rises

(* The last ascent at i, the least that is greater than s[i] after it at   *)
(* j, and u what next_permutation makes of s.                              *)
Advances(s, i, j, u) ==
  /\ i \in DOMAIN s /\ j \in DOMAIN s /\ i < j /\ s[i] < s[j]
  /\ Falls(s, i) /\ \A k \in DOMAIN s : i < k /\ s[i] < s[k] => s[j] <= s[k]
  /\ Agree(u, s, i) /\ u[i] = s[j] /\ Rises(u, i)

LEMMA NextPermutationAdvances ==
  ASSUME NEW s \in Factors, {i \in 1..(Len(s) - 1) : s[i] < s[i + 1]} # {}
  PROVE  \E i, j : Advances(s, i, j, NextPermutation(s))
<1> DEFINE ascents == {i \in 1..(Len(s) - 1) : s[i] < s[i + 1]}
           later(i) == {k \in DOMAIN s : k > i /\ s[k] > s[i]}
<1>1. PICK n \in Nat : n = Len(s) /\ DOMAIN s = 1..n
  BY FactorPlaces
<1>2. \A m \in 1..n : s[m] \in Nat
  BY <1>1, FactorPlaces
<1>3. s \in Seq(Positive)
  BY FactorsArePositive
<1>4. PICK i \in ascents : i = Max(ascents) /\ \A k \in ascents : k <= i
  <2>1. ascents \in SUBSET DOMAIN s /\ ascents # {}
    BY <1>1
  <2> HIDE DEF ascents
  <2> QED
    BY <1>3, <2>1, PlacesHaveExtremes
<1>5. i \in 1..n /\ i + 1 \in 1..n /\ s[i] < s[i + 1] /\ i \in Nat
  BY <1>1
<1>6. PICK j \in later(i) : j = Max(later(i)) /\ \A k \in later(i) : k <= j
  <2>1. later(i) \in SUBSET DOMAIN s /\ i + 1 \in later(i)
    BY <1>1, <1>5
  <2> HIDE DEF later
  <2> QED
    BY <1>3, <2>1, PlacesHaveExtremes
<1>7. j \in 1..n /\ i < j /\ s[i] < s[j] /\ j \in Nat
  BY <1>1, <1>5
<1>8. Falls(s, i)
  <2>1. ASSUME NEW k \in 1..(n - 1), i < k PROVE s[k + 1] <= s[k]
    <3>1. k \in 1..n /\ k + 1 \in 1..n
      BY <1>1
    <3>2. k \notin ascents
      <4> HIDE DEF ascents
      <4> QED
        BY <1>4, <1>5, <2>1, <3>1
    <3>3. ~(s[k] < s[k + 1])
      BY <1>1, <3>2
    <3> QED
      BY <1>2, <3>1, <3>3
  <2> QED
    BY <1>1, <1>5, <2>1, FallsWithoutAscents
<1>9. ASSUME NEW k \in 1..n, i < k, s[i] < s[k] PROVE k <= j /\ s[j] <= s[k]
  <2>1. k <= j
    BY <1>1, <1>6, <1>9
  <2> QED
    BY <1>1, <1>7, <1>8, <1>9, <2>1 DEF Falls
<1>10. PICK v \in Factors : v = Exchange(s, i, j) /\ Len(v) = n /\ DOMAIN v = 1..n
         /\ \A k \in 1..n : v[k] = IF k = j THEN s[i] ELSE IF k = i THEN s[j] ELSE s[k]
  <2>1. i \in DOMAIN s /\ j \in DOMAIN s
    BY <1>1, <1>5, <1>7
  <2>2. Exchange(s, i, j) \in Factors /\ Len(Exchange(s, i, j)) = n
    BY <1>1, <2>1, ExchangeRearranges
  <2>3. DOMAIN Exchange(s, i, j) = 1..n
    BY <2>2, FactorPlaces
  <2>4. \A k \in 1..n :
          Exchange(s, i, j)[k] = IF k = j THEN s[i] ELSE IF k = i THEN s[j] ELSE s[k]
    BY <1>1, <2>1, StepsOfNextPermutation
  <2> QED
    BY <2>2, <2>3, <2>4
<1>11. Falls(v, i)
  <2> SUFFICES ASSUME NEW k \in 1..n, NEW l \in 1..n, i < k, k <= l PROVE v[l] <= v[k]
    BY <1>10 DEF Falls
  <2>1. i \in Nat /\ j \in Nat /\ s[i] \in Nat /\ s[j] \in Nat /\ s[k] \in Nat /\ s[l] \in Nat
    BY <1>2, <1>5, <1>7
  <2>2. k # i /\ l # i /\ s[l] <= s[k] /\ i < l
    BY <1>1, <1>8, <2>1 DEF Falls
  <2>3. CASE k = j /\ l = j
    BY <1>10, <2>1, <2>3
  <2>4. CASE k = j /\ l # j
    <3>1. v[k] = s[i] /\ v[l] = s[l] /\ ~(l <= j)
      BY <1>10, <2>1, <2>2, <2>4
    <3>2. ~(s[i] < s[l])
      BY <1>9, <2>2, <3>1
    <3> QED
      BY <2>1, <3>1, <3>2
  <2>5. CASE k # j /\ l = j
    <3>1. v[k] = s[k] /\ v[l] = s[i]
      BY <1>10, <2>2, <2>5
    <3>2. s[j] <= s[k]
      BY <2>2, <2>5
    <3> QED
      BY <1>7, <2>1, <3>1, <3>2
  <2>6. CASE k # j /\ l # j
    BY <1>10, <2>2, <2>6
  <2> QED
    BY <2>3, <2>4, <2>5, <2>6
<1>12. PICK u : u = NextPermutation(s) /\ DOMAIN u = 1..n
         /\ \A k \in 1..n : u[k] = IF k < i + 1 THEN v[k] ELSE v[n + (i + 1) - k]
  <2>1. NextPermutation(s) = ReverseFrom(v, i + 1)
    BY <1>4, <1>6, <1>10 DEF NextPermutation
  <2>2. i + 1 \in 1..(Len(v) + 1)
    BY <1>5, <1>10
  <2>3. ReverseFrom(v, i + 1) \in Factors /\ Len(ReverseFrom(v, i + 1)) = n
    BY <1>10, <2>2, ReverseFromRearranges
  <2>4. \A k \in 1..n :
          ReverseFrom(v, i + 1)[k] = IF k < i + 1 THEN v[k] ELSE v[n + (i + 1) - k]
    <3>1. PICK m \in 1..(Len(v) + 1) : m = i + 1
      BY <2>2
    <3>2. \A k \in DOMAIN v : ReverseFrom(v, m)[k] = IF k < m THEN v[k] ELSE v[Len(v) + m - k]
      BY StepsOfNextPermutation
    <3> QED
      BY <1>10, <3>1, <3>2
  <2> QED
    BY <2>1, <2>3, <2>4, FactorPlaces
<1>13. Agree(u, s, i) /\ u[i] = s[j]
  <2>1. \A k \in 1..n : k < i => u[k] = s[k]
    BY <1>5, <1>7, <1>10, <1>12
  <2>2. u[i] = s[j]
    BY <1>5, <1>7, <1>10, <1>12
  <2> QED
    BY <1>1, <2>1, <2>2 DEF Agree
<1>14. Rises(u, i)
  <2> SUFFICES ASSUME NEW k \in 1..n, NEW l \in 1..n, i < k, k <= l PROVE u[k] <= u[l]
    BY <1>12 DEF Rises
  <2>1. PICK a \in 1..n, b \in 1..n : a = n + (i + 1) - k /\ b = n + (i + 1) - l
    BY <1>5
  <2>2. i < b /\ b <= a /\ ~(k < i + 1) /\ ~(l < i + 1)
    BY <1>5, <2>1
  <2>3. u[k] = v[a] /\ u[l] = v[b]
    BY <1>12, <2>1, <2>2
  <2> QED
    BY <1>10, <1>11, <2>2, <2>3 DEF Falls
<1>15. Advances(s, i, j, u)
  BY <1>1, <1>5, <1>7, <1>8, <1>9, <1>13, <1>14 DEF Advances
<1> QED
  BY <1>12, <1>15

LEMMA RisingIsLeast ==
  ASSUME NEW u \in Factors, NEW t \in Orders(u), NEW i \in Nat, Rises(u, i),
         \A k \in DOMAIN u : k <= i => t[k] = u[k]
  PROVE  ~Before(t, u)
<1> SUFFICES ASSUME NEW d \in DOMAIN u, t[d] < u[d], Agree(t, u, d) PROVE FALSE
  BY DEF Before
<1>1. t \in Factors /\ DOMAIN t = DOMAIN u
  BY OrdersAgree, FactorPlaces
<1>2. d \in Nat /\ u[d] \in Nat /\ t[d] \in Nat
  BY <1>1, FactorPlaces
<1>3. i < d
  BY <1>2
<1>4. \A k \in DOMAIN u : d <= k => u[d] <= u[k]
  BY <1>3 DEF Rises
<1>5. u[d] <= t[d]
  BY <1>4, TailIsLeast
<1> QED
  BY <1>2, <1>5

LEMMA FallingIsGreatest ==
  ASSUME NEW s \in Factors, NEW t \in Orders(s), NEW i \in Nat, Falls(s, i),
         \A k \in DOMAIN s : k <= i => t[k] = s[k]
  PROVE  ~Before(s, t)
<1>1. t \in Factors /\ DOMAIN t = DOMAIN s
  BY OrdersAgree, FactorPlaces
<1> SUFFICES ASSUME NEW d \in DOMAIN s, s[d] < t[d], Agree(s, t, d) PROVE FALSE
  BY <1>1 DEF Before
<1>2. d \in Nat /\ s[d] \in Nat /\ t[d] \in Nat
  BY <1>1, FactorPlaces
<1>3. i < d
  BY <1>2
<1>4. \A k \in DOMAIN s : d <= k => s[k] <= s[d]
  BY <1>3 DEF Falls
<1>5. Agree(t, s, d)
  BY <1>1 DEF Agree
<1>6. t[d] <= s[d]
  BY <1>4, <1>5, TailIsGreatest
<1> QED
  BY <1>2, <1>6

HasAscent(s) == {i \in 1..(Len(s) - 1) : s[i] < s[i + 1]} # {}

(* Nothing is between an order and the next; after the last one comes the  *)
(* first.                                                                  *)
LEMMA NextIsSuccessor ==
  ASSUME NEW s \in Factors
  PROVE  /\ NextPermutation(s) \in Orders(s)
         /\ HasAscent(s) => /\ Before(s, NextPermutation(s))
                            /\ \A t \in Orders(s) : Before(s, t) => ~Before(t, NextPermutation(s))
         /\ ~HasAscent(s) => \A t \in Orders(s) : ~Before(s, t) /\ ~Before(t, NextPermutation(s))
<1>1. PICK u : u = NextPermutation(s) /\ u \in Orders(s)
  BY NextPermutationRearranges, OrdersAreRearranged
<1>2. u \in Factors /\ DOMAIN u = DOMAIN s /\ Orders(u) = Orders(s)
  BY <1>1, OrdersAgree, FactorPlaces
<1>3. ASSUME HasAscent(s)
      PROVE  Before(s, u) /\ \A t \in Orders(s) : Before(s, t) => ~Before(t, u)
  <2>1. PICK i, j : Advances(s, i, j, u)
    BY <1>1, <1>3, NextPermutationAdvances DEF HasAscent
  <2>2. /\ i \in DOMAIN s /\ j \in DOMAIN s /\ i < j /\ s[i] < s[j]
        /\ Falls(s, i) /\ \A k \in DOMAIN s : i < k /\ s[i] < s[k] => s[j] <= s[k]
        /\ Agree(u, s, i) /\ u[i] = s[j] /\ Rises(u, i)
    BY <2>1 DEF Advances
  <2>3. \A k \in DOMAIN s : k \in Nat /\ s[k] \in Nat /\ u[k] \in Nat
    BY <1>2, FactorPlaces
  <2>4. Before(s, u)
    BY <1>2, <2>2 DEF Before, Agree
  <2>5. ASSUME NEW t \in Orders(s), Before(s, t), Before(t, u) PROVE FALSE
    <3>1. t \in Factors /\ DOMAIN t = DOMAIN s
      BY OrdersAgree, FactorPlaces
    <3>2. \A k \in DOMAIN s : t[k] \in Nat
      BY <3>1, FactorPlaces
    <3>3. PICK d \in DOMAIN s : s[d] < t[d] /\ Agree(s, t, d)
      BY <2>5, <3>1 DEF Before
    <3>4. PICK e \in DOMAIN s : t[e] < u[e] /\ Agree(t, u, e)
      BY <1>2, <2>5 DEF Before
    <3>5. d <= i
      <4>1. SUFFICES ASSUME i < d PROVE FALSE
        BY <2>2, <2>3
      <4>2. \A k \in DOMAIN s : k <= i => t[k] = s[k]
        BY <2>2, <2>3, <3>1, <3>3, <4>1 DEF Agree
      <4> QED
        BY <2>2, <2>3, <2>5, <4>2, FallingIsGreatest
    <3>6. d = i
      <4>1. SUFFICES ASSUME d < i PROVE FALSE
        BY <2>2, <2>3, <3>5
      <4>2. u[d] = s[d] /\ \A k \in DOMAIN s : k < d => u[k] = s[k] /\ t[k] = s[k]
        BY <2>2, <2>3, <3>1, <3>3, <4>1 DEF Agree
      <4>3. e < d \/ e = d \/ d < e
        BY <2>3
      <4> QED
        BY <1>2, <2>3, <3>2, <3>3, <3>4, <4>2, <4>3 DEF Agree
    <3>7. \A k \in DOMAIN s : k < i => t[k] = u[k]
      BY <2>2, <3>1, <3>3, <3>6 DEF Agree
    <3>8. s[j] <= t[i]
      <4>1. SUFFICES ASSUME \A k \in DOMAIN s : i < k => s[k] # t[i] PROVE FALSE
        BY <2>2, <3>3, <3>6
      <4> DEFINE V == {t[i]}
      <4>2. \A k \in DOMAIN s : s[k] \in V => t[k] \in V
        <5>1. ASSUME NEW k \in DOMAIN s, s[k] = t[i] PROVE t[k] = t[i]
          <6>1. k < i
            BY <2>2, <2>3, <3>2, <3>3, <3>6, <4>1, <5>1
          <6> QED
            BY <3>1, <3>3, <3>6, <5>1, <6>1 DEF Agree
        <5> QED
          BY <5>1
      <4>3. \A k \in DOMAIN s : t[k] \in V => s[k] \in V
        <5> HIDE DEF V
        <5> QED
          BY <4>2, RearrangedCounts
      <4>4. s[i] = t[i]
        BY <2>2, <4>3
      <4> QED
        BY <2>2, <2>3, <3>3, <3>6, <4>4
    <3>9. CASE t[i] = u[i]
      <4>1. \A k \in DOMAIN u : k <= i => t[k] = u[k]
        BY <1>2, <2>2, <2>3, <3>7, <3>9
      <4> QED
        BY <1>2, <2>2, <2>3, <2>5, <4>1, RisingIsLeast
    <3>10. CASE t[i] # u[i]
      <4>1. u[i] < t[i]
        BY <2>2, <2>3, <3>2, <3>8, <3>10
      <4>2. e < i \/ e = i \/ i < e
        BY <2>2, <2>3
      <4> QED
        BY <1>2, <2>2, <2>3, <3>2, <3>4, <3>7, <4>1, <4>2 DEF Agree
    <3> QED
      BY <3>9, <3>10
  <2> QED
    BY <2>4, <2>5
<1>4. ASSUME ~HasAscent(s), NEW t \in Orders(s)
      PROVE  ~Before(s, t) /\ ~Before(t, u)
  <2>1. Falls(s, 0) /\ Rises(u, 0)
    BY <1>1, <1>4, LastOrderIsReversed DEF HasAscent
  <2>2. \A k \in DOMAIN s : ~(k <= 0)
    BY FactorPlaces
  <2> QED
    BY <1>2, <2>1, <2>2, FallingIsGreatest, RisingIsLeast
<1> QED
  BY <1>1, <1>3, <1>4

-----------------------------------------------------------------------------
(* Going from order to order, every order comes.                           *)
LEMMA OrdersAreOrdered ==
  ASSUME NEW s \in Factors, NEW t \in Orders(s), NEW u \in Orders(s)
  PROVE  /\ ~Before(t, t) /\ ~(Before(t, u) /\ Before(u, t))
         /\ t # u => Before(t, u) \/ Before(u, t)
         /\ \A v \in Orders(s) : Before(t, u) /\ Before(u, v) => Before(t, v)
<1>1. /\ t \in Factors /\ u \in Orders(t) /\ u \in Factors
      /\ Orders(t) = Orders(s) /\ Orders(u) = Orders(s)
  BY OrdersAgree
<1>2. /\ ~Before(t, t) /\ ~(Before(t, u) /\ Before(u, t))
      /\ t # u => Before(t, u) \/ Before(u, t)
  BY <1>1, BeforeIsTotal
<1>3. ASSUME NEW v \in Orders(s), Before(t, u), Before(u, v) PROVE Before(t, v)
  <2>1. v \in Factors /\ t \in Orders(v) /\ u \in Orders(v)
    BY OrdersAgree
  <2> QED
    BY <1>3, <2>1, BeforeIsTransitive
<1> QED
  BY <1>2, <1>3

IsFirst(f, S) == f \in S /\ \A x \in S : ~Before(x, f)

IsLast(l, S) == l \in S /\ \A x \in S : ~Before(l, x)

LEMMA OrdersHaveEnds ==
  ASSUME NEW s \in Factors, IsFiniteSet(Orders(s)), NEW S \in SUBSET Orders(s), S # {}
  PROVE  (\E f : IsFirst(f, S)) /\ (\E l : IsLast(l, S))
<1> DEFINE O == Orders(s)
           pick == [T \in SUBSET O |-> CHOOSE x \in T : TRUE]
           Good == {T \in SUBSET O : T # {} => (\E f : IsFirst(f, T)) /\ (\E l : IsLast(l, T))}
<1>1. Picks(pick, O)
  BY DEF Picks
<1>2. {} \in Good
  OBVIOUS
<1>3. ASSUME NEW T \in SUBSET O, T # {}, T \ {pick[T]} \in Good PROVE T \in Good
  <2>1. PICK p \in T : p = pick[T]
    BY <1>1, <1>3 DEF Picks
  <2> DEFINE R == T \ {p}
  <2>2. R # {} => (\E f : IsFirst(f, R)) /\ (\E l : IsLast(l, R))
    BY <1>3, <2>1
  <2>3. /\ \A x, y \in O : ~Before(x, x) /\ ~(Before(x, y) /\ Before(y, x))
        /\ \A x, y, z \in O : Before(x, y) /\ Before(y, z) => Before(x, z)
    BY OrdersAreOrdered
  <2>4. R \in SUBSET O /\ p \in O /\ p \notin R /\ \A x : x \in T <=> x \in R \/ x = p
    OBVIOUS
  <2> HIDE DEF O, R, pick
  <2>5. CASE R = {}
    <3>1. IsFirst(p, T) /\ IsLast(p, T)
      BY <2>3, <2>4, <2>5 DEF IsFirst, IsLast
    <3> QED
      BY <3>1
  <2>6. CASE R # {}
    <3>1. PICK f : IsFirst(f, R)
      BY <2>2, <2>6
    <3>2. PICK l : IsLast(l, R)
      BY <2>2, <2>6
    <3>3. IsFirst(f, T) \/ IsFirst(p, T)
      BY <2>3, <2>4, <3>1 DEF IsFirst
    <3>4. IsLast(l, T) \/ IsLast(p, T)
      BY <2>3, <2>4, <3>2 DEF IsLast
    <3> QED
      BY <3>3, <3>4
  <2> QED
    BY <2>5, <2>6
<1>4. \A T \in SUBSET O : T \in Good
  <2> HIDE DEF Good, pick, O
  <2> QED
    BY <1>1, <1>2, <1>3, SubsetInduction DEF O
<1> QED
  BY <1>4

(* Orders that next_permutation does not leave are all the orders.         *)
LEMMA ClosedOrdersAreAll ==
  ASSUME NEW s \in Factors, IsFiniteSet(Orders(s)), NEW C \in SUBSET Orders(s), C # {},
         \A c \in C : NextPermutation(c) \in C
  PROVE  C = Orders(s)
<1>1. ASSUME NEW c \in Orders(s)
      PROVE  /\ NextPermutation(c) \in Orders(s)
             /\ HasAscent(c) => /\ Before(c, NextPermutation(c))
                                /\ \A t \in Orders(s) : Before(c, t) => ~Before(t, NextPermutation(c))
             /\ ~HasAscent(c) => \A t \in Orders(s) : ~Before(c, t) /\ ~Before(t, NextPermutation(c))
  <2>1. c \in Factors /\ Orders(c) = Orders(s)
    BY OrdersAgree
  <2> QED
    BY <2>1, NextIsSuccessor
<1>2. PICK l : IsLast(l, C)
  BY OrdersHaveEnds
<1>3. l \in C /\ NextPermutation(l) \in C /\ l \in Orders(s)
  BY <1>2 DEF IsLast
<1>4. ~HasAscent(l)
  BY <1>1, <1>2, <1>3 DEF IsLast
<1>5. SUFFICES ASSUME Orders(s) \ C # {} PROVE FALSE
  OBVIOUS
<1>6. PICK f : IsFirst(f, Orders(s) \ C)
  BY <1>5, OrdersHaveEnds
<1>7. f \in Orders(s) /\ f \notin C /\ \A x \in Orders(s) : Before(x, f) => x \in C
  BY <1>6 DEF IsFirst
<1> DEFINE Below == {x \in Orders(s) : Before(x, f)}
<1>8. Before(NextPermutation(l), f)
  <2>1. ~Before(f, NextPermutation(l)) /\ NextPermutation(l) # f
    BY <1>1, <1>3, <1>4, <1>7
  <2> QED
    BY <1>1, <1>3, <1>7, <2>1, OrdersAreOrdered
<1>9. PICK b : IsLast(b, Below)
  <2>1. Below \in SUBSET Orders(s) /\ Below # {}
    BY <1>1, <1>3, <1>8
  <2> HIDE DEF Below
  <2> QED
    BY <2>1, OrdersHaveEnds
<1>10. b \in Orders(s) /\ Before(b, f) /\ b \in C /\ \A x \in Orders(s) : Before(x, f) => ~Before(b, x)
  BY <1>7, <1>9 DEF IsLast
<1>11. PICK n \in C : n = NextPermutation(b)
  BY <1>10
<1>12. HasAscent(b)
  BY <1>1, <1>7, <1>10
<1>13. Before(b, n) /\ ~Before(f, n)
  BY <1>1, <1>7, <1>10, <1>11, <1>12
<1>14. ~Before(n, f) /\ n # f
  BY <1>7, <1>10, <1>11, <1>13
<1> QED
  BY <1>7, <1>11, <1>13, <1>14, OrdersAreOrdered

-----------------------------------------------------------------------------
(* There are at most factorial(k) orders of k factors.                     *)
LEMMA FactorialGrows ==
  ASSUME NEW k \in Nat
  PROVE  Factorial(0) = 1 /\ Factorial(k + 1) = Factorial(k) * (k + 1)
<1> DEFINE Upto(n) == [i \in 1..n |-> i]
<1>1. \A n \in Nat : Upto(n) \in Seq(Positive) /\ DOMAIN Upto(n) = 1..n
  BY DEF Positive
<1>2. \A n \in Nat : Factorial(n) = Products(Upto(n))[1..n]
  <2>1. \A n \in Nat : Factorial(n) = Product(Upto(n))
    BY DEF Factorial
  <2> HIDE DEF Upto
  <2> QED
    BY <1>1, <2>1, ProductsExist
<1>3. Factorial(0) = 1
  <2>1. 1..0 = {} /\ 0 \in Nat
    OBVIOUS
  <2> HIDE DEF Upto
  <2> QED
    BY <1>1, <1>2, <2>1, ProductsExist
<1>4. PICK t \in Seq(Positive) : t = Upto(k + 1) /\ DOMAIN t = 1..(k + 1) /\ t[k + 1] = k + 1
  <2>1. k + 1 \in Nat /\ Upto(k + 1)[k + 1] = k + 1
    OBVIOUS
  <2> HIDE DEF Upto
  <2> QED
    BY <1>1, <2>1
<1>5. PICK s \in Seq(Positive) : s = Upto(k) /\ DOMAIN s = 1..k
  BY <1>1
<1>6. Products(t)[1..(k + 1)] = Products(t)[1..k] * (k + 1)
  <2>1. PICK D \in SUBSET DOMAIN t : D = 1..(k + 1) /\ k + 1 \in D /\ D \ {k + 1} = 1..k
    <3>1. (1..(k + 1)) \ {k + 1} = 1..k /\ k + 1 \in 1..(k + 1)
      OBVIOUS
    <3> QED
      BY <1>4, <3>1
  <2>2. Products(t)[D] = Products(t)[D \ {k + 1}] * t[k + 1]
    BY <2>1, ProductTakesAny
  <2> QED
    BY <1>4, <2>1, <2>2
<1>7. Products(t)[1..k] = Products(s)[1..k]
  <2> DEFINE h == [i \in 1..k |-> i]
  <2>1. Corresponds(h, t, 1..k, s, 1..k)
    <3>1. \A i \in 1..k : t[i] = i /\ s[i] = i
      BY <1>4, <1>5
    <3> QED
      BY <3>1 DEF Corresponds
  <2>2. PICK S \in SUBSET DOMAIN t, T \in SUBSET DOMAIN s : S = 1..k /\ T = 1..k
    BY <1>4, <1>5
  <2> HIDE DEF h
  <2> QED
    BY <2>1, <2>2, ProductAlong
<1> HIDE DEF Upto
<1>8. Factorial(k + 1) = Products(t)[1..(k + 1)] /\ Factorial(k) = Products(s)[1..k]
  BY <1>2, <1>4, <1>5
<1> QED
  BY <1>3, <1>6, <1>7, <1>8

Shuffles(k) == Bijection(1..k, 1..k)

(* Take the last place out: whatever was sent to k + 1 goes where it went. *)
LEMMA ShufflesGrow ==
  ASSUME NEW k \in Nat, IsFiniteSet(Shuffles(k))
  PROVE  /\ IsFiniteSet(Shuffles(k + 1))
         /\ Cardinality(Shuffles(k + 1)) <= (k + 1) * Cardinality(Shuffles(k))
<1> DEFINE m == k + 1
           Short(p) == [i \in 1..k |-> IF p[i] = m THEN p[m] ELSE p[i]]
           f == [p \in Shuffles(m) |-> <<p[m], Short(p)>>]
<1>1. m \in 1..m /\ 1..m = (1..k) \cup {m} /\ m \notin 1..k
  OBVIOUS
<1> HIDE DEF m
<1>2. ASSUME NEW p \in Shuffles(m)
      PROVE  /\ p \in [1..m -> 1..m] /\ \A i, j \in 1..m : p[i] = p[j] => i = j
             /\ \A n \in 1..m : \E i \in 1..m : p[i] = n
  BY DEF Shuffles, Bijection, Injection, Surjection, IsInjective
<1>3. ASSUME NEW p \in Shuffles(m) PROVE Short(p) \in Shuffles(k)
  <2>0. ASSUME NEW i \in 1..k
        PROVE  i \in 1..m /\ i # m /\ p[i] # p[m] /\ p[i] \in 1..m /\ p[m] \in 1..m
    <3>1. i \in 1..m /\ m \in 1..m /\ i # m
      BY <1>1, Zenon
    <3>2. p \in [1..m -> 1..m]
      BY <1>2
    <3>3. p[i] # p[m]
      BY <1>2, <3>1, Zenon
    <3> QED
      BY <3>1, <3>2, <3>3
  <2>1. Short(p) \in [1..k -> 1..k]
    <3>1. ASSUME NEW i \in 1..k PROVE (IF p[i] = m THEN p[m] ELSE p[i]) \in 1..k
      <4>1. p[i] # p[m] /\ p[i] \in 1..m /\ p[m] \in 1..m
        BY <2>0
      <4> QED
        BY <1>1, <4>1, Zenon
    <3> QED
      BY <3>1
  <2>2. \A i, j \in 1..k : Short(p)[i] = Short(p)[j] => i = j
    <3> SUFFICES ASSUME NEW i \in 1..k, NEW j \in 1..k, Short(p)[i] = Short(p)[j] PROVE i = j
      OBVIOUS
    <3>1. (IF p[i] = m THEN p[m] ELSE p[i]) = (IF p[j] = m THEN p[m] ELSE p[j])
      OBVIOUS
    <3>2. p[i] = p[j]
      BY <2>0, <3>1, Zenon
    <3>3. i \in 1..m /\ j \in 1..m
      BY <2>0
    <3> QED
      BY <1>2, <3>2, <3>3, Zenon
  <2>3. ASSUME NEW n \in 1..k PROVE \E i \in 1..k : Short(p)[i] = n
    <3>1. PICK i \in 1..m : p[i] = n
      BY <1>1, <1>2
    <3>2. CASE i # m
      BY <1>1, <3>1, <3>2
    <3>3. CASE i = m
      <4>1. PICK j \in 1..m : p[j] = m
        BY <1>1, <1>2
      <4>2. j # m
        BY <1>1, <3>1, <3>3, <4>1
      <4> QED
        BY <1>1, <3>1, <3>3, <4>1, <4>2
    <3> QED
      BY <3>2, <3>3
  <2> HIDE DEF Short
  <2> QED
    BY <2>1, <2>2, <2>3 DEF Shuffles, Bijection, Injection, Surjection, IsInjective
<1>4. f \in Injection(Shuffles(m), (1..m) \X Shuffles(k))
  <2>1. f \in [Shuffles(m) -> (1..m) \X Shuffles(k)]
    BY <1>1, <1>2, <1>3
  <2>2. ASSUME NEW p \in Shuffles(m), NEW q \in Shuffles(m), f[p] = f[q] PROVE p = q
    <3>1. p[m] = q[m] /\ Short(p) = Short(q)
      BY <2>2
    <3>2. ASSUME NEW i \in 1..k PROVE p[i] = q[i]
      <4>1. (IF p[i] = m THEN p[m] ELSE p[i]) = (IF q[i] = m THEN p[m] ELSE q[i])
        <5>1. Short(p)[i] = Short(q)[i]
          BY <3>1
        <5> QED
          BY <3>1, <5>1
      <4>2. p[i] # p[m] /\ q[i] # p[m]
        <5>1. i \in 1..m /\ m \in 1..m /\ i # m
          BY <1>1, Zenon
        <5> QED
          BY <1>2, <3>1, <5>1, Zenon
      <4> QED
        BY <4>1, <4>2
    <3>3. p = [i \in 1..m |-> p[i]] /\ q = [i \in 1..m |-> q[i]]
      BY <1>2
    <3> QED
      BY <1>1, <3>1, <3>2, <3>3
  <2> HIDE DEF f
  <2> QED
    BY <2>1, <2>2 DEF Injection, IsInjective
<1>5. /\ IsFiniteSet((1..m) \X Shuffles(k))
      /\ Cardinality((1..m) \X Shuffles(k)) = m * Cardinality(Shuffles(k))
  <2>1. IsFiniteSet(1..m) /\ Cardinality(1..m) = m
    <3>1. m \in Int /\ 1 \in Int /\ ~(1 > m) /\ m - 1 + 1 = m
      BY DEF m
    <3> QED
      BY <3>1, FS_Interval
  <2> QED
    BY <2>1, FS_Product
<1> HIDE DEF f
<1>6. /\ IsFiniteSet(Shuffles(m))
      /\ Cardinality(Shuffles(m)) <= Cardinality((1..m) \X Shuffles(k))
  BY <1>4, <1>5, FS_Injection
<1> QED
  BY <1>5, <1>6 DEF m

LEMMA ShufflesAreFew ==
  \A k \in Nat : IsFiniteSet(Shuffles(k)) /\ Cardinality(Shuffles(k)) <= Factorial(k)
<1> DEFINE Good == {k \in Nat : IsFiniteSet(Shuffles(k)) /\ Cardinality(Shuffles(k)) <= Factorial(k)}
<1>1. 0 \in Good
  <2>1. Shuffles(0) \subseteq {<< >>}
    <3>1. 1..0 = {}
      OBVIOUS
    <3>2. \A p \in Shuffles(0) : p \in [{} -> {}]
      BY <3>1 DEF Shuffles, Bijection, Injection
    <3> QED
      BY <3>2
  <2>2. IsFiniteSet({<< >>}) /\ Cardinality({<< >>}) = 1
    BY FS_Singleton, Zenon
  <2>3. IsFiniteSet(Shuffles(0)) /\ Cardinality(Shuffles(0)) <= 1
    BY <2>1, <2>2, FS_Subset
  <2> QED
    BY <2>3, FactorialGrows
<1>2. ASSUME NEW k \in Good PROVE k + 1 \in Good
  <2>1. k \in Nat /\ IsFiniteSet(Shuffles(k)) /\ Cardinality(Shuffles(k)) <= Factorial(k)
    OBVIOUS
  <2>2. /\ IsFiniteSet(Shuffles(k + 1))
        /\ Cardinality(Shuffles(k + 1)) <= (k + 1) * Cardinality(Shuffles(k))
    BY <2>1, ShufflesGrow
  <2>3. PICK c \in Nat : c = Cardinality(Shuffles(k))
    BY <2>1, FS_CardinalityType
  <2>4. PICK d \in Nat : d = Cardinality(Shuffles(k + 1))
    BY <2>2, FS_CardinalityType
  <2>5. PICK f \in Nat : f = Factorial(k) /\ Factorial(k + 1) = f * (k + 1)
    BY <2>1, FactorialIsPositive, FactorialGrows DEF Positive
  <2>6. (k + 1) * c <= f * (k + 1)
    <3>1. c <= f /\ k \in Nat
      BY <2>1, <2>3, <2>5
    <3>2. PICK r \in Nat : f = c + r
      <4>1. f - c \in Nat /\ f = c + (f - c)
        BY <3>1
      <4> QED
        BY <4>1
    <3>3. f * (k + 1) = (k + 1) * c + r * (k + 1) /\ r * (k + 1) \in Nat /\ (k + 1) * c \in Nat
      BY <3>1, <3>2
    <3> QED
      BY <3>3
  <2>7. d <= Factorial(k + 1)
    <3>1. PICK x \in Nat : x = (k + 1) * c
      BY <2>1
    <3>2. PICK y \in Nat : y = f * (k + 1)
      BY <2>1
    <3>3. d <= x
      BY <2>2, <2>3, <2>4, <3>1
    <3> QED
      BY <2>5, <2>6, <3>1, <3>2, <3>3
  <2> QED
    BY <2>1, <2>2, <2>4, <2>7
<1>3. Good = Nat
  <2> HIDE DEF Good
  <2>1. Good \in SUBSET Nat
    BY DEF Good
  <2> QED
    BY <1>1, <1>2, <2>1, SetInduction
<1> QED
  BY <1>3

LEMMA OrdersAreFew ==
  ASSUME NEW s \in Factors
  PROVE  /\ IsFiniteSet(Orders(s)) /\ Cardinality(Orders(s)) \in Nat
         /\ Cardinality(Orders(s)) <= Factorial(Len(s))
<1> DEFINE f == [p \in Shuffles(Len(s)) |-> [i \in DOMAIN s |-> s[p[i]]]]
<1>1. Len(s) \in Nat /\ DOMAIN s = 1..Len(s)
  BY FactorPlaces
<1>2. Orders(s) = {[i \in DOMAIN s |-> s[p[i]]] : p \in Shuffles(Len(s))}
  BY <1>1 DEF Orders, Shuffles
<1>3. f \in Surjection(Shuffles(Len(s)), Orders(s))
  <2>1. f \in [Shuffles(Len(s)) -> Orders(s)]
    BY <1>2
  <2>2. \A t \in Orders(s) : \E p \in Shuffles(Len(s)) : f[p] = t
    BY <1>2
  <2> HIDE DEF f
  <2> QED
    BY <2>1, <2>2 DEF Surjection
<1>4. IsFiniteSet(Shuffles(Len(s))) /\ Cardinality(Shuffles(Len(s))) <= Factorial(Len(s))
  BY <1>1, ShufflesAreFew
<1> HIDE DEF f
<1>5. IsFiniteSet(Orders(s)) /\ Cardinality(Orders(s)) <= Cardinality(Shuffles(Len(s)))
  BY <1>3, <1>4, FS_Surjection
<1>6. PICK a \in Nat, b \in Nat, c \in Nat :
        /\ a = Cardinality(Orders(s)) /\ b = Cardinality(Shuffles(Len(s))) /\ c = Factorial(Len(s))
  BY <1>1, <1>4, <1>5, FS_CardinalityType, FactorialIsPositive DEF Positive
<1> QED
  BY <1>4, <1>5, <1>6

-----------------------------------------------------------------------------
(* The orders that had their round, while order f has its own after p      *)
(* rounds: next_permutation leads from each to another or to f, and they   *)
(* are as many as the rounds until they are all.                           *)
Covers(T, f, p) ==
  /\ T \subseteq Orders(f)
  /\ \A s \in T : NextPermutation(s) \in T \cup {f}
  /\ \/ f \notin T /\ Cardinality(T) = p
     \/ T = Orders(f)

OrderInv ==
  /\ phase = "idle" => perm = 0 /\ tried = {}
  /\ Auditioning => Covers(tried, factors, perm)

LEMMA NoneIsCovered ==
  ASSUME NEW f
  PROVE  Covers({}, f, 0)
  BY FS_EmptySet DEF Covers

LEMMA RoundCovers ==
  ASSUME NEW f \in Factors, NEW T, NEW p \in Nat, Covers(T, f, p)
  PROVE  Covers(T \cup {f}, NextPermutation(f), p + 1)
<1> DEFINE U == T \cup {f}
           g == NextPermutation(f)
<1>1. /\ T \subseteq Orders(f) /\ \A s \in T : NextPermutation(s) \in U
      /\ f \in Orders(f) /\ g \in Orders(f) /\ Orders(g) = Orders(f)
  BY OrderIsItsOwn, NextIsSuccessor, OrdersAgree DEF Covers
<1>2. IsFiniteSet(Orders(f))
  BY OrdersAreFew
<1>3. IsFiniteSet(T) /\ IsFiniteSet(U) /\ U \in SUBSET Orders(f)
  BY <1>1, <1>2, FS_Subset
<1>4. \A s \in U : NextPermutation(s) \in U \cup {g}
  BY <1>1
<1>5. CASE T = Orders(f)
  <2>1. U = Orders(g)
    BY <1>1, <1>5
  <2> QED
    BY <1>1, <1>4, <2>1 DEF Covers
<1>6. CASE f \notin T /\ Cardinality(T) = p /\ g \notin U
  <2>1. Cardinality(U) = p + 1
    BY <1>3, <1>6, FS_AddElement
  <2> QED
    BY <1>1, <1>3, <1>4, <1>6, <2>1 DEF Covers
<1>7. CASE g \in U
  <2>1. U # {} /\ \A s \in U : NextPermutation(s) \in U
    BY <1>4, <1>7
  <2> HIDE DEF U
  <2>2. U = Orders(f)
    BY <1>2, <1>3, <2>1, ClosedOrdersAreAll
  <2> QED
    BY <1>1, <1>4, <2>2 DEF Covers, U
<1> QED
  BY <1>5, <1>6, <1>7 DEF Covers

LEMMA RoundsCoverAll ==
  ASSUME NEW f \in Factors, NEW T, NEW p \in Nat, Covers(T, f, p), p + 1 = Factorial(Len(f))
  PROVE  T \cup {f} = Orders(f)
<1>1. IsFiniteSet(Orders(f)) /\ T \subseteq Orders(f) /\ f \in Orders(f)
  BY OrdersAreFew, OrderIsItsOwn DEF Covers
<1>2. CASE T = Orders(f)
  BY <1>1, <1>2
<1>3. CASE f \notin T /\ Cardinality(T) = p
  <2>1. PICK U \in SUBSET Orders(f) : U = T \cup {f}
    BY <1>1
  <2>2. IsFiniteSet(T) /\ IsFiniteSet(U) /\ Cardinality(U) <= Cardinality(Orders(f))
    BY <1>1, <2>1, FS_Subset
  <2>3. Cardinality(U) = p + 1
    BY <1>3, <2>1, <2>2, FS_AddElement
  <2>4. Cardinality(Orders(f)) \in Nat /\ Cardinality(Orders(f)) <= p + 1
    BY OrdersAreFew
  <2>5. Cardinality(Orders(f)) = Cardinality(U)
    BY <2>2, <2>3, <2>4
  <2> QED
    BY <1>1, <2>1, <2>5, FS_Subset
<1> QED
  BY <1>2, <1>3 DEF Covers

LEMMA OrdersStep == CompositorInv /\ OrderInv /\ [Next]_vars => OrderInv'
<1> SUFFICES ASSUME CompositorInv, OrderInv, [Next]_vars PROVE OrderInv'
  OBVIOUS
<1>1. ASSUME Auditioning PROVE Covers(tried, factors, perm) /\ factors \in Factors /\ perm \in Nat
  <2>1. factors \in Factors /\ perm \in 0..(NumPermutations - 1)
    BY <1>1 DEF CompositorInv, TypeOK, Factors
  <2>2. NumPermutations \in Nat
    BY <2>1, NumPermutationsIsPositive DEF Positive
  <2>3. perm \in Nat
    BY <2>1, <2>2
  <2> QED
    BY <1>1, <2>1, <2>3 DEF OrderInv
<1>2. ASSUME NEW success, FinishPhase(success) PROVE OrderInv'
  <2>1. CASE phase = "square" /\ (~success \/ call.timed)
    <3>1. phase' = "descending" /\ perm' = 0 /\ tried' = {}
      BY <1>2, <2>1 DEF FinishPhase
    <3> QED
      BY <3>1, NoneIsCovered DEF OrderInv
  <2>2. CASE ~(phase = "square" /\ (~success \/ call.timed))
    BY <1>2, <2>2 DEF FinishPhase, OrderInv, Auditioning
  <2> QED
    BY <2>1, <2>2
<1>3. ASSUME FinishRound, Auditioning PROVE OrderInv'
  <2>1. CASE perm + 1 = NumPermutations
    BY <1>2, <1>3, <2>1 DEF FinishRound
  <2>2. CASE perm + 1 # NumPermutations
    <3>1. /\ factors' = NextPermutation(factors) /\ perm' = perm + 1
          /\ tried' = tried \cup {factors} /\ phase' = phase
      BY <1>3, <2>2 DEF FinishRound
    <3>2. Covers(tried', factors', perm')
      BY <1>1, <1>3, <3>1, RoundCovers
    <3> QED
      BY <1>3, <3>1, <3>2 DEF OrderInv, Auditioning
  <2> QED
    BY <2>1, <2>2
<1>4. CASE \E n \in Lengths, timed, convolutions \in BOOLEAN : Start(n, timed, convolutions)
  <2>1. PICK n \in Lengths, timed \in BOOLEAN, convolutions \in BOOLEAN :
          Start(n, timed, convolutions)
    BY <1>4
  <2>2. perm' = 0 /\ tried' = {}
    BY <2>1 DEF Start, OrderInv
  <2> QED
    BY <2>2, NoneIsCovered DEF OrderInv
<1>5. CASE Audition
  <2>1. Auditioning
    BY <1>5 DEF Audition, Auditioning
  <2>2. \/ FinishPhase(FALSE) \/ FinishPhase(TRUE) \/ FinishRound
        \/ UNCHANGED <<phase, factors, perm, tried>>
    BY <1>5 DEF Audition
  <2>3. CASE UNCHANGED <<phase, factors, perm, tried>>
    BY <2>3 DEF OrderInv, Auditioning
  <2> QED
    BY <1>2, <1>3, <2>1, <2>2, <2>3
<1>6. CASE AuditionBluestein
  <2>1. Auditioning /\ (FinishPhase(TRUE) \/ FinishRound)
    BY <1>6 DEF AuditionBluestein, Auditioning
  <2> QED
    BY <1>2, <1>3, <2>1
<1>7. CASE Return
  BY <1>7 DEF Return, OrderInv, Auditioning
<1>8. CASE UNCHANGED vars
  BY <1>8 DEF vars, OrderInv, Auditioning
<1> QED
  BY <1>4, <1>5, <1>6, <1>7, <1>8 DEF Next

(* Whatever the factors, equal ones included: when the last of the rounds  *)
(* that a factorisation has time for is due, every order of its factors    *)
(* has had its round or has it then.                                       *)
THEOREM EveryOrderHasItsRound == Spec => []EveryOrderIsAuditioned
<1>1. Init => OrderInv
  BY DEF Init, OrderInv, Auditioning
<1>2. CompositorInv /\ OrderInv => EveryOrderIsAuditioned
  <2> SUFFICES ASSUME CompositorInv, OrderInv, Auditioning, call.timed, perm + 1 = NumPermutations
               PROVE  tried \cup {factors} =
                        {[i \in DOMAIN factors |-> factors[p[i]]] :
                           p \in Bijection(DOMAIN factors, DOMAIN factors)}
    BY DEF EveryOrderIsAuditioned
  <2>1. factors \in Factors /\ perm \in 0..(NumPermutations - 1)
    BY DEF CompositorInv, TypeOK, Factors
  <2>2. NumPermutations \in Nat /\ NumPermutations = Factorial(Len(factors))
    BY <2>1, NumPermutationsIsPositive DEF Positive, NumPermutations
  <2>3. perm \in Nat /\ Covers(tried, factors, perm)
    BY <2>1, <2>2 DEF OrderInv
  <2>4. tried \cup {factors} = Orders(factors)
    BY <2>1, <2>2, <2>3, RoundsCoverAll
  <2> QED
    BY <2>4 DEF Orders
<1> QED
  BY <1>1, <1>2, InitCompositor, CompositorStep, OrdersStep, PTL DEF Spec
=============================================================================
