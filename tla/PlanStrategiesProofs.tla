------------------------- MODULE PlanStrategiesProofs -------------------------
(***************************************************************************)
(* What the strategies promise for every table of kernel lengths: the      *)
(* length a Bluestein convolution is padded to exists, and the problems a  *)
(* strategy asks for are smaller than the one it is asked to solve.        *)
(***************************************************************************)
EXTENDS PlanStrategies, SequenceTheorems, InductionLemmas

-----------------------------------------------------------------------------
(* Division.                                                               *)

LEMMA QuotientIsSmaller ==
  ASSUME NEW n \in Nat \ {0}, NEW r \in Nat \ {0, 1}, r <= n
  PROVE  n \div r \in Nat \ {0} /\ n \div r < n
<1> DEFINE q == n \div r
           m == n % r
<1>1. q \in Nat /\ m \in 0..(r - 1) /\ n = r * q + m
  BY DivisionFacts
<1>2. q # 0
  BY <1>1
<1>3. 2 * q <= r * q
  BY <1>1
<1>4. q < n
  <2> HIDE DEF q, m
  <2> QED
    BY <1>1, <1>2, <1>3
<1> QED
  BY <1>1, <1>2, <1>4

LEMMA SmallestPrimeFactorDivides ==
  ASSUME NEW n \in Nat \ {0, 1}
  PROVE  SmallestPrimeFactor(n) \in 2..n /\ n % SmallestPrimeFactor(n) = 0
<1> DEFINE D == {d \in 2..n : n % d = 0}
<1>1. n % n = 0 /\ n \in 2..n
  OBVIOUS
<1>2. D \in SUBSET Nat /\ D # {}
  BY <1>1
<1>3. PICK least \in D : \A k \in D : least <= k
  <2> HIDE DEF D
  <2> QED
    BY <1>2, LeastNumber
<1>4. \A e \in 2..(least - 1) : n % e # 0
  BY <1>3
<1>5. \E d \in 2..n : n % d = 0 /\ \A e \in 2..(d - 1) : n % e # 0
  BY <1>3, <1>4
<1> QED
  BY <1>1, <1>5 DEF SmallestPrimeFactor

-----------------------------------------------------------------------------
(* Dividing a factor out.                                                  *)

IsStrip(strip, c, f) ==
  strip = [k \in 1..c |-> IF k % f = 0 THEN strip[k \div f] ELSE k]

LEMMA StripExists ==
  ASSUME NEW f \in Nat \ {0, 1}
  PROVE  \A c \in Nat : \E strip : IsStrip(strip, c, f)
<1> DEFINE Good == {c \in Nat : \E strip : IsStrip(strip, c, f)}
<1>1. 0 \in Good
  <2>1. IsStrip([k \in 1..0 |-> k], 0, f)
    BY DEF IsStrip
  <2> QED
    BY <2>1
<1>2. ASSUME NEW c \in Good PROVE c + 1 \in Good
  <2>1. PICK strip : IsStrip(strip, c, f)
    OBVIOUS
  <2> DEFINE last == IF (c + 1) % f = 0 THEN strip[(c + 1) \div f] ELSE c + 1
             longer == [k \in 1..(c + 1) |-> IF k = c + 1 THEN last ELSE strip[k]]
  <2>2. \A k \in 1..(c + 1) : k % f = 0 => k \div f \in 1..c /\ k \div f < k
    <3>1. ASSUME NEW k \in 1..(c + 1), k % f = 0 PROVE k \div f \in 1..c /\ k \div f < k
      <4>1. k \in Nat \ {0}
        OBVIOUS
      <4>2. f <= k
        BY <3>1, <4>1
      <4>3. k \div f \in Nat \ {0} /\ k \div f < k
        BY <4>1, <4>2, QuotientIsSmaller
      <4> QED
        BY <4>3
    <3> QED
      BY <3>1
  <2>3. \A k \in 1..c : longer[k] = strip[k]
    OBVIOUS
  <2>4. longer[c + 1] = last
    OBVIOUS
  <2>5. \A k \in 1..(c + 1) : longer[k] = IF k % f = 0 THEN longer[k \div f] ELSE k
    <3>1. ASSUME NEW k \in 1..c
          PROVE  longer[k] = IF k % f = 0 THEN longer[k \div f] ELSE k
      <4>1. strip[k] = IF k % f = 0 THEN strip[k \div f] ELSE k
        BY <2>1 DEF IsStrip
      <4> HIDE DEF longer
      <4> QED
        BY <2>2, <2>3, <4>1
    <3>2. longer[c + 1] = IF (c + 1) % f = 0 THEN longer[(c + 1) \div f] ELSE c + 1
      <4> HIDE DEF longer
      <4> QED
        BY <2>2, <2>3, <2>4
    <3> HIDE DEF longer
    <3> QED
      BY <3>1, <3>2
  <2>6. IsStrip(longer, c + 1, f)
    BY <2>5 DEF IsStrip
  <2> QED
    BY <2>6
<1>3. Good \in SUBSET Nat
  OBVIOUS
<1>4. Good = Nat
  <2> HIDE DEF Good
  <2> QED
    BY <1>1, <1>2, <1>3, SetInduction
<1> QED
  BY <1>4

LEMMA StripIs ==
  ASSUME NEW f \in Nat \ {0, 1}, NEW c \in Nat
  PROVE  \E strip : IsStrip(strip, c, f) /\ Strip(c, f) = strip[c]
<1> DEFINE strip == CHOOSE s : IsStrip(s, c, f)
<1>1. IsStrip(strip, c, f)
  BY StripExists
<1>2. Strip(c, f) = strip[c]
  BY DEF Strip, IsStrip
<1> QED
  BY <1>1, <1>2


(* The powers of a factor up to the n-th, by repeated multiplication.      *)
Powers(power, f, n) ==
  /\ power \in [0..n -> Nat \ {0}] /\ power[0] = 1
  /\ \A i \in 1..n : power[i] = f * power[i - 1]

LEMMA PowersExist ==
  ASSUME NEW f \in Nat \ {0, 1}, NEW n \in Nat
  PROVE  \E power : Powers(power, f, n)
<1> DEFINE S == Nat \ {0}
           step == [x \in S \X Nat |-> f * x[1]]
<1>1. 1 \in S /\ step \in [S \X Nat -> S]
  OBVIOUS
<1>2. PICK power \in [0..n -> S] : Recurs(power, 1, step, n)
  <2> HIDE DEF S, step
  <2> QED
    BY <1>1, RecursionExists
<1>3. \A i \in 0..n : power[i] = IF i = 0 THEN 1 ELSE step[<<power[i - 1], i>>]
  BY <1>2 DEF Recurs
<1>4. ASSUME NEW i \in 1..n PROVE power[i] = f * power[i - 1]
  <2>1. i \in 0..n /\ i # 0 /\ i - 1 \in 0..n /\ power[i - 1] \in S /\ i \in Nat
    OBVIOUS
  <2> QED
    BY <1>3, <2>1
<1>5. power[0] = 1
  <2> HIDE DEF step
  <2>1. 0 \in 0..n
    OBVIOUS
  <2> QED
    BY <1>3, <2>1
<1>6. Powers(power, f, n)
  <2> HIDE DEF step
  <2> QED
    BY <1>2, <1>4, <1>5 DEF Powers
<1> QED
  BY <1>6

LEMMA PowersGrow ==
  ASSUME NEW f \in Nat \ {0, 1}, NEW n \in Nat, NEW power, Powers(power, f, n)
  PROVE  \A i \in 0..n : i < power[i]
<1> DEFINE Bad == {i \in 0..n : ~(i < power[i])}
<1>1. SUFFICES ASSUME Bad # {} PROVE FALSE
  BY DEF Powers
<1>2. PICK m \in Bad : \A k \in Bad : m <= k
  <2>1. Bad \in SUBSET Nat
    OBVIOUS
  <2> HIDE DEF Bad
  <2> QED
    BY <1>1, <2>1, LeastNumber
<1>3. m \in 1..n /\ m - 1 \in 0..n /\ m - 1 \notin Bad
  BY <1>2 DEF Powers
<1>4. power[m] = f * power[m - 1] /\ power[m - 1] \in Nat /\ m - 1 < power[m - 1]
  BY <1>3 DEF Powers
<1>5. 2 * power[m - 1] <= power[m]
  BY <1>4
<1> QED
  BY <1>2, <1>3, <1>4, <1>5

LEMMA StripPower ==
  ASSUME NEW f \in Nat \ {0, 1}, NEW n \in Nat, NEW power, Powers(power, f, n),
         NEW top \in 0..n
  PROVE  Strip(power[top], f) = 1
<1>1. PICK strip : IsStrip(strip, power[top], f) /\ Strip(power[top], f) = strip[power[top]]
  BY StripIs DEF Powers
<1> DEFINE Bad == {i \in 0..top : power[i] <= power[top] /\ strip[power[i]] # 1}
<1>2. SUFFICES ASSUME strip[power[top]] # 1 PROVE FALSE
  BY <1>1
<1>3. PICK m \in Bad : \A k \in Bad : m <= k
  <2>1. Bad \in SUBSET Nat
    OBVIOUS
  <2>2. top \in 0..top /\ power[top] <= power[top]
    BY DEF Powers
  <2>3. Bad # {}
    BY <1>2, <2>2
  <2> HIDE DEF Bad
  <2> QED
    BY <2>1, <2>3, LeastNumber
<1>4. /\ m \in 0..n /\ power[m] \in 1..power[top] /\ power[m] \in Nat /\ strip[power[m]] # 1
  BY <1>3 DEF Powers
<1>5. strip[power[m]] = IF power[m] % f = 0 THEN strip[power[m] \div f] ELSE power[m]
  BY <1>1, <1>4 DEF IsStrip
<1>6. m # 0
  <2>1. 1 % f = 1
    OBVIOUS
  <2>2. power[0] = 1
    BY DEF Powers
  <2> QED
    BY <1>4, <1>5, <2>1, <2>2
<1>7. m - 1 \in 0..n /\ power[m - 1] \in Nat \ {0} /\ power[m] = f * power[m - 1]
  BY <1>4, <1>6 DEF Powers
<1>8. power[m] % f = 0 /\ power[m] \div f = power[m - 1]
  BY <1>7, ExactDivision
<1>9. power[m - 1] <= power[m]
  BY <1>7
<1>10. m - 1 \in Bad
  <2>1. m - 1 \in 0..top
    BY <1>6
  <2>2. power[m - 1] <= power[top]
    BY <1>4, <1>7, <1>9 DEF Powers
  <2>3. strip[power[m - 1]] # 1
    BY <1>4, <1>5, <1>8
  <2> QED
    BY <2>1, <2>2, <2>3
<1> QED
  BY <1>3, <1>10

-----------------------------------------------------------------------------
(* Lengths the kernels factor.                                             *)

LEMMA BaseFacts ==
  /\ Len(Base) \in Nat \ {0} /\ DOMAIN Base = 1..Len(Base)
  /\ \A i \in 1..Len(Base) : Base[i] \in Nat \ {0, 1}
BY BaseAssumption

IsFactoring(candidate, c) ==
  candidate = [k \in 0..Len(Base) |-> IF k = 0 THEN c ELSE Strip(candidate[k - 1], Base[k])]

LEMMA FactoringIs ==
  ASSUME NEW c, \E candidate : IsFactoring(candidate, c)
  PROVE  \E candidate : /\ IsFactoring(candidate, c)
                        /\ FactorableByBase(c) = (candidate[Len(Base)] = 1)
<1> DEFINE candidate == CHOOSE f : IsFactoring(f, c)
<1>1. IsFactoring(candidate, c)
  OBVIOUS
<1>2. FactorableByBase(c) = (candidate[Len(Base)] = 1)
  BY DEF FactorableByBase, IsFactoring
<1> QED
  BY <1>1, <1>2

LEMMA PowerIsFactorable ==
  ASSUME NEW n \in Nat, NEW power, Powers(power, Base[1], n), NEW top \in 0..n
  PROVE  FactorableByBase(power[top])
<1> DEFINE c == power[top]
           explicit == [k \in 0..Len(Base) |-> IF k = 0 THEN c ELSE 1]
<1>1. Strip(c, Base[1]) = 1
  BY BaseFacts, StripPower
<1>2. \A f \in Nat \ {0, 1} : Strip(1, f) = 1
  <2>1. ASSUME NEW f \in Nat \ {0, 1} PROVE Strip(1, f) = 1
    <3>1. PICK strip : IsStrip(strip, 1, f) /\ Strip(1, f) = strip[1]
      BY StripIs
    <3>2. 1 % f = 1
      OBVIOUS
    <3> QED
      BY <3>1, <3>2 DEF IsStrip
  <2> QED
    BY <2>1
<1> HIDE DEF c
<1>3. IsFactoring(explicit, c)
  <2>1. ASSUME NEW k \in 0..Len(Base)
        PROVE  explicit[k] = IF k = 0 THEN c ELSE Strip(explicit[k - 1], Base[k])
    <3>1. CASE k = 0
      BY <3>1
    <3>2. CASE k = 1
      BY <1>1, <3>2, BaseFacts
    <3>3. CASE k \in 2..Len(Base)
      <4>1. explicit[k] = 1 /\ explicit[k - 1] = 1 /\ k \in 1..Len(Base) /\ k # 0
        BY <3>3, BaseFacts
      <4> QED
        BY <1>2, <4>1, BaseFacts
    <3> QED
      BY <3>1, <3>2, <3>3, BaseFacts
  <2>2. explicit = [k \in 0..Len(Base) |-> explicit[k]]
    OBVIOUS
  <2> HIDE DEF explicit
  <2> QED
    BY <2>1, <2>2 DEF IsFactoring
<1>4. PICK candidate :
        /\ IsFactoring(candidate, c)
        /\ FactorableByBase(c) = (candidate[Len(Base)] = 1)
  <2> HIDE DEF explicit
  <2> QED
    BY <1>3, FactoringIs
<1>6. \A k \in 1..Len(Base) : candidate[k] = 1
  <2> DEFINE Bad == {k \in 1..Len(Base) : candidate[k] # 1}
  <2>1. SUFFICES ASSUME Bad # {} PROVE FALSE
    OBVIOUS
  <2>2. PICK m \in Bad : \A k \in Bad : m <= k
    <3>1. Bad \in SUBSET Nat
      OBVIOUS
    <3> HIDE DEF Bad
    <3> QED
      BY <2>1, <3>1, LeastNumber
  <2>3. m \in 1..Len(Base) /\ m \in 0..Len(Base) /\ candidate[m] # 1
    BY BaseFacts
  <2>4. candidate[m] = Strip(candidate[m - 1], Base[m])
    BY <1>4, <2>3, BaseFacts DEF IsFactoring
  <2>5. CASE m = 1
    <3>1. candidate[0] = c
      BY <1>4, BaseFacts DEF IsFactoring
    <3> QED
      BY <1>1, <2>3, <2>4, <2>5, <3>1
  <2>6. CASE m # 1
    <3>1. m - 1 \in 1..Len(Base) /\ m - 1 \notin Bad
      BY <2>2, <2>3, <2>6, BaseFacts
    <3>2. candidate[m - 1] = 1
      BY <3>1
    <3> QED
      BY <1>2, <2>3, <2>4, <3>2, BaseFacts
  <2> QED
    BY <2>5, <2>6
<1>7. candidate[Len(Base)] = 1
  BY <1>6, BaseFacts
<1>8. FactorableByBase(c)
  BY <1>4, <1>7
<1> QED
  BY <1>8 DEF c

(* The length a Bluestein convolution is padded to exists: the search of   *)
(* next_length_factorable_by ends, at the latest at a power of the         *)
(* smallest kernel length, with the least length the kernels factor.       *)
THEOREM PaddedLengthExists ==
  ASSUME NEW n \in Nat \ {0}
  PROVE  LET l == NextLengthFactorableByBase(n)
         IN  /\ l \in n..(Base[1] * n) /\ FactorableByBase(l)
             /\ \A k \in n..(l - 1) : ~FactorableByBase(k)
<1> DEFINE b == Base[1]
<1>1. b \in Nat \ {0, 1}
  BY BaseFacts
<1> HIDE DEF b
<1>2. PICK power : Powers(power, b, n)
  BY <1>1, PowersExist
<1> DEFINE Enough == {i \in 0..n : n <= power[i]}
<1>3. n \in Enough
  <2>1. n \in 0..n /\ power[n] \in Nat
    BY <1>2 DEF Powers
  <2>2. n < power[n]
    BY <1>1, <1>2, <2>1, PowersGrow
  <2> QED
    BY <2>1, <2>2
<1>4. PICK least \in Enough : \A k \in Enough : least <= k
  <2>1. Enough \in SUBSET Nat
    OBVIOUS
  <2> HIDE DEF Enough
  <2> QED
    BY <1>3, <2>1, LeastNumber
<1>5. power[least] \in n..(b * n)
  <2>1. CASE least = 0
    BY <1>1, <1>2, <1>4, <2>1 DEF Powers
  <2>2. CASE least # 0
    <3>1. least - 1 \in 0..n /\ least \in 1..n /\ least - 1 \notin Enough
      BY <1>4, <2>2
    <3>2. power[least - 1] \in Nat /\ power[least - 1] <= n /\ power[least] = b * power[least - 1]
      BY <1>2, <3>1 DEF Powers
    <3>3. b * power[least - 1] <= b * n
      BY <1>1, <3>2
    <3> QED
      BY <1>1, <1>4, <3>2, <3>3
  <2> QED
    BY <2>1, <2>2
<1>6. FactorableByBase(power[least])
  BY <1>2, PowerIsFactorable DEF b
<1> DEFINE Found == {l \in n..(b * n) : FactorableByBase(l)}
<1>7. PICK l \in Found : \A k \in Found : l <= k
  <2>1. Found \in SUBSET Nat /\ Found # {}
    BY <1>5, <1>6
  <2> HIDE DEF Found
  <2> QED
    BY <2>1, LeastNumber
<1>8. l \in n..(b * n) /\ FactorableByBase(l) /\ \A k \in n..(l - 1) : ~FactorableByBase(k)
  BY <1>1, <1>7
<1> QED
  BY <1>8 DEF NextLengthFactorableByBase, b

-----------------------------------------------------------------------------
(* Products of kernel lengths.                                             *)

IsProducts(product, n) ==
  product = [k \in 1..n |->
               k = 1 \/ \E i \in DOMAIN Base : k % Base[i] = 0 /\ product[k \div Base[i]]]

(* Dividing by a kernel length leaves a smaller number.                    *)
LEMMA KernelQuotient ==
  ASSUME NEW n \in Nat \ {0}, NEW i \in DOMAIN Base, n % Base[i] = 0
  PROVE  n \div Base[i] \in Nat \ {0} /\ n \div Base[i] < n /\ n \div Base[i] \in 1..(n - 1)
<1>1. PICK b : b = Base[i] /\ b \in Nat \ {0, 1}
  BY BaseFacts
<1>2. b <= n
  BY <1>1
<1>3. n \div b \in Nat \ {0} /\ n \div b < n
  BY <1>1, <1>2, QuotientIsSmaller
<1> QED
  BY <1>1, <1>3

LEMMA ProductsExist == \A n \in Nat : \E product : IsProducts(product, n)
<1> DEFINE Good == {n \in Nat : \E product : IsProducts(product, n)}
           Divides(f, k) == \E i \in DOMAIN Base : k % Base[i] = 0 /\ f[k \div Base[i]]
<1>1. 0 \in Good
  <2>1. IsProducts([k \in 1..0 |-> TRUE], 0)
    BY DEF IsProducts
  <2> QED
    BY <2>1
<1>2. ASSUME NEW n \in Good PROVE n + 1 \in Good
  <2>1. PICK product : IsProducts(product, n)
    OBVIOUS
  <2> DEFINE last == n + 1 = 1 \/ Divides(product, n + 1)
             longer == [k \in 1..(n + 1) |-> IF k = n + 1 THEN last ELSE product[k]]
  <2>2. \A k \in 1..(n + 1), i \in DOMAIN Base :
          k % Base[i] = 0 => k \div Base[i] \in 1..n
    <3>1. ASSUME NEW k \in 1..(n + 1), NEW i \in DOMAIN Base, k % Base[i] = 0
          PROVE  k \div Base[i] \in 1..n
      <4>1. PICK q : q = k \div Base[i]
        OBVIOUS
      <4>2. k \in Nat \ {0}
        OBVIOUS
      <4>3. q \in Nat \ {0} /\ q < k
        BY <3>1, <4>1, <4>2, KernelQuotient
      <4> QED
        BY <4>1, <4>3
    <3> QED
      BY <3>1
  <2>3. \A k \in 1..n : longer[k] = product[k]
    OBVIOUS
  <2>4. longer[n + 1] = last
    OBVIOUS
  <2>5. longer = [k \in 1..(n + 1) |-> longer[k]]
    OBVIOUS
  <2> HIDE DEF longer
  <2>6. \A k \in 1..(n + 1) : Divides(longer, k) = Divides(product, k)
    BY <2>2, <2>3
  <2>7. \A k \in 1..(n + 1) : longer[k] = (k = 1 \/ Divides(longer, k))
    <3>1. ASSUME NEW k \in 1..n PROVE longer[k] = (k = 1 \/ Divides(longer, k))
      <4>1. product[k] = (k = 1 \/ Divides(product, k))
        BY <2>1 DEF IsProducts
      <4>2. k \in 1..(n + 1)
        OBVIOUS
      <4> HIDE DEF Divides
      <4> QED
        BY <2>3, <2>6, <4>1, <4>2
    <3>2. longer[n + 1] = (n + 1 = 1 \/ Divides(longer, n + 1))
      <4>1. n + 1 \in 1..(n + 1)
        OBVIOUS
      <4> HIDE DEF Divides
      <4> QED
        BY <2>4, <2>6, <4>1
    <3>3. \A k \in 1..(n + 1) : k \in 1..n \/ k = n + 1
      OBVIOUS
    <3> HIDE DEF Divides
    <3> QED
      BY <3>1, <3>2, <3>3
  <2>8. longer = [k \in 1..(n + 1) |-> k = 1 \/ Divides(longer, k)]
    <3> HIDE DEF Divides
    <3> QED
      BY <2>5, <2>7
  <2>9. IsProducts(longer, n + 1)
    BY <2>8 DEF IsProducts
  <2> QED
    BY <2>9
<1>3. Good \in SUBSET Nat
  OBVIOUS
<1>4. Good = Nat
  <2> HIDE DEF Good
  <2> QED
    BY <1>1, <1>2, <1>3, SetInduction
<1> QED
  BY <1>4

LEMMA ProductIs ==
  ASSUME NEW n \in Nat
  PROVE  \E product : IsProducts(product, n) /\ IsProductOfBase(n) = product[n]
<1> DEFINE product == CHOOSE f : IsProducts(f, n)
<1>1. IsProducts(product, n)
  BY ProductsExist
<1>2. IsProductOfBase(n) = product[n]
  BY DEF IsProductOfBase, IsProducts
<1> QED
  BY <1>1, <1>2

(* However far the products are tabulated, they are the same.              *)
LEMMA ProductsAgree ==
  ASSUME NEW m \in Nat, NEW n \in Nat, NEW f, IsProducts(f, m), NEW g, IsProducts(g, n)
  PROVE  \A k \in 1..m : k <= n => f[k] = g[k]
<1> DEFINE Bad == {k \in 1..m : k <= n /\ f[k] # g[k]}
<1>1. SUFFICES ASSUME Bad # {} PROVE FALSE
  OBVIOUS
<1>2. PICK k \in Bad : \A j \in Bad : k <= j
  <2>1. Bad \in SUBSET Nat
    OBVIOUS
  <2> HIDE DEF Bad
  <2> QED
    BY <1>1, <2>1, LeastNumber
<1>3. k \in 1..m /\ k \in 1..n /\ k \in Nat \ {0} /\ f[k] # g[k]
  OBVIOUS
<1>4. \A i \in DOMAIN Base : k % Base[i] = 0 => f[k \div Base[i]] = g[k \div Base[i]]
  <2>1. ASSUME NEW i \in DOMAIN Base, k % Base[i] = 0
        PROVE  f[k \div Base[i]] = g[k \div Base[i]]
    <3>1. PICK q : q = k \div Base[i]
      OBVIOUS
    <3>2. q \in Nat \ {0} /\ q < k
      BY <1>3, <2>1, <3>1, KernelQuotient
    <3>3. q \in 1..m /\ q <= n /\ q \notin Bad
      BY <1>2, <1>3, <3>2
    <3> QED
      BY <3>1, <3>3
  <2> QED
    BY <2>1
<1>5. f[k] = (k = 1 \/ \E i \in DOMAIN Base : k % Base[i] = 0 /\ f[k \div Base[i]])
  BY <1>3 DEF IsProducts
<1>6. g[k] = (k = 1 \/ \E i \in DOMAIN Base : k % Base[i] = 0 /\ g[k \div Base[i]])
  BY <1>3 DEF IsProducts
<1> QED
  BY <1>3, <1>4, <1>5, <1>6

(* A product of kernel lengths is 1, or a kernel length times a product.   *)
LEMMA ProductMeans ==
  ASSUME NEW n \in Nat \ {0}
  PROVE  IsProductOfBase(n) <=>
           n = 1 \/ \E i \in DOMAIN Base : n % Base[i] = 0 /\ IsProductOfBase(n \div Base[i])
<1>1. PICK f : IsProducts(f, n) /\ IsProductOfBase(n) = f[n]
  BY ProductIs
<1>2. \A i \in DOMAIN Base :
        n % Base[i] = 0 => IsProductOfBase(n \div Base[i]) = f[n \div Base[i]]
  <2>1. ASSUME NEW i \in DOMAIN Base, n % Base[i] = 0
        PROVE  IsProductOfBase(n \div Base[i]) = f[n \div Base[i]]
    <3>1. PICK q : q = n \div Base[i]
      OBVIOUS
    <3>2. q \in Nat \ {0} /\ q < n
      BY <2>1, <3>1, KernelQuotient
    <3>3. PICK g : IsProducts(g, q) /\ IsProductOfBase(q) = g[q]
      BY <3>2, ProductIs
    <3>4. q \in 1..q /\ q <= n /\ q \in Nat /\ n \in Nat
      BY <3>2
    <3>5. g[q] = f[q]
      BY <1>1, <3>3, <3>4, ProductsAgree
    <3> QED
      BY <3>1, <3>3, <3>5
  <2> QED
    BY <2>1
<1>3. f[n] = (n = 1 \/ \E i \in DOMAIN Base : n % Base[i] = 0 /\ f[n \div Base[i]])
  <2>1. n \in 1..n
    OBVIOUS
  <2> QED
    BY <1>1, <2>1 DEF IsProducts
<1> QED
  BY <1>1, <1>2, <1>3

(* Dividing a kernel length out, as often as it goes.                      *)
LEMMA StripOfProduct ==
  ASSUME NEW i \in DOMAIN Base, NEW c \in Nat \ {0}
  PROVE  /\ Strip(c, Base[i]) \in Nat \ {0}
         /\ IsProductOfBase(Strip(c, Base[i])) => IsProductOfBase(c)
<1>1. PICK f : f = Base[i] /\ f \in Nat \ {0, 1}
  BY BaseFacts
<1>2. PICK strip : IsStrip(strip, c, f) /\ Strip(c, f) = strip[c]
  BY <1>1, StripIs
<1> DEFINE Fine(k) == /\ strip[k] \in Nat \ {0}
                      /\ IsProductOfBase(strip[k]) => IsProductOfBase(k)
           Bad == {k \in 1..c : ~Fine(k)}
<1>3. SUFFICES ASSUME Bad # {} PROVE FALSE
  <2>1. c \in 1..c
    OBVIOUS
  <2> QED
    BY <1>1, <1>2, <2>1
<1>4. PICK k \in Bad : \A j \in Bad : k <= j
  <2>1. Bad \in SUBSET Nat
    OBVIOUS
  <2> HIDE DEF Bad
  <2> QED
    BY <1>3, <2>1, LeastNumber
<1>5. k \in 1..c /\ k \in Nat \ {0} /\ ~Fine(k)
  OBVIOUS
<1>6. strip[k] = IF k % f = 0 THEN strip[k \div f] ELSE k
  BY <1>2, <1>5 DEF IsStrip
<1>7. k % f = 0
  BY <1>5, <1>6
<1>8. PICK q : q = k \div f
  OBVIOUS
<1>9. q \in Nat \ {0} /\ q < k
  BY <1>1, <1>5, <1>7, <1>8, KernelQuotient
<1>10. q \in 1..c /\ q \notin Bad
  BY <1>4, <1>5, <1>9
<1>11. Fine(q)
  BY <1>10
<1>12. IsProductOfBase(q) => IsProductOfBase(k)
  BY <1>1, <1>5, <1>7, <1>8, ProductMeans
<1> QED
  BY <1>5, <1>6, <1>7, <1>8, <1>11, <1>12

LEMMA FactoringExists ==
  ASSUME NEW c \in Nat \ {0}
  PROVE  \E candidate : IsFactoring(candidate, c)
<1> DEFINE S == Nat \ {0}
           step == [x \in S \X Nat |->
                      IF x[2] \in 1..Len(Base) THEN Strip(x[1], Base[x[2]]) ELSE x[1]]
<1>1. Len(Base) \in Nat /\ DOMAIN Base = 1..Len(Base)
  BY BaseFacts
<1>2. c \in S /\ step \in [S \X Nat -> S]
  <2>1. \A d \in S, k \in 1..Len(Base) : Strip(d, Base[k]) \in S
    BY <1>1, StripOfProduct
  <2> QED
    BY <2>1
<1>3. \A d \in S, k \in 1..Len(Base) : step[<<d, k>>] = Strip(d, Base[k])
  OBVIOUS
<1> HIDE DEF step
<1>4. PICK candidate \in [0..Len(Base) -> S] : Recurs(candidate, c, step, Len(Base))
  <2> HIDE DEF S
  <2> QED
    BY <1>1, <1>2, RecursionExists
<1>5. ASSUME NEW k \in 0..Len(Base)
      PROVE  candidate[k] = IF k = 0 THEN c ELSE Strip(candidate[k - 1], Base[k])
  <2>1. candidate[k] = IF k = 0 THEN c ELSE step[<<candidate[k - 1], k>>]
    BY <1>4 DEF Recurs
  <2>2. k # 0 => k - 1 \in 0..Len(Base) /\ k \in 1..Len(Base)
    BY <1>1
  <2>3. k # 0 => candidate[k - 1] \in S
    BY <2>2
  <2> HIDE DEF S
  <2> QED
    BY <1>3, <2>1, <2>2, <2>3
<1>6. candidate = [k \in 0..Len(Base) |-> candidate[k]]
  OBVIOUS
<1>7. IsFactoring(candidate, c)
  BY <1>5, <1>6 DEF IsFactoring
<1> QED
  BY <1>7

(* What the kernels factor is a product of their lengths.                  *)
LEMMA FactorableIsProduct ==
  ASSUME NEW c \in Nat \ {0}, FactorableByBase(c)
  PROVE  IsProductOfBase(c)
<1>1. Len(Base) \in Nat \ {0} /\ DOMAIN Base = 1..Len(Base)
  BY BaseFacts
<1>2. PICK candidate : IsFactoring(candidate, c) /\ candidate[Len(Base)] = 1
  BY FactoringExists, FactoringIs
<1>3. \A k \in 0..Len(Base) :
        candidate[k] = IF k = 0 THEN c ELSE Strip(candidate[k - 1], Base[k])
  BY <1>2 DEF IsFactoring
<1> DEFINE Fine(k) == /\ candidate[k] \in Nat \ {0}
                      /\ IsProductOfBase(candidate[k]) => IsProductOfBase(c)
           Bad == {k \in 0..Len(Base) : ~Fine(k)}
<1>4. Bad = {}
  <2>1. SUFFICES ASSUME Bad # {} PROVE FALSE
    OBVIOUS
  <2>2. PICK k \in Bad : \A j \in Bad : k <= j
    <3>1. Bad \in SUBSET Nat
      OBVIOUS
    <3> HIDE DEF Bad
    <3> QED
      BY <2>1, <3>1, LeastNumber
  <2>3. k \in 0..Len(Base) /\ ~Fine(k)
    OBVIOUS
  <2>4. k # 0
    BY <1>1, <1>3, <2>3
  <2>5. k \in DOMAIN Base /\ k - 1 \in 0..Len(Base) /\ k - 1 \notin Bad
    BY <1>1, <2>2, <2>3, <2>4
  <2>6. Fine(k - 1)
    BY <2>5
  <2>7. candidate[k] = Strip(candidate[k - 1], Base[k])
    BY <1>3, <2>3, <2>4
  <2>8. PICK d : d = candidate[k - 1]
    OBVIOUS
  <2>9. /\ Strip(d, Base[k]) \in Nat \ {0}
        /\ IsProductOfBase(Strip(d, Base[k])) => IsProductOfBase(d)
    BY <2>5, <2>6, <2>8, StripOfProduct
  <2> QED
    BY <2>3, <2>6, <2>7, <2>8, <2>9
<1>5. Fine(Len(Base))
  <2>1. Len(Base) \in 0..Len(Base)
    BY <1>1
  <2> QED
    BY <1>4, <2>1
<1>6. IsProductOfBase(1)
  BY ProductMeans
<1> QED
  BY <1>2, <1>5, <1>6

(* The length a Bluestein convolution is padded to needs no convolution.   *)
LEMMA PaddedLengthIsProduct ==
  ASSUME NEW n \in Nat \ {0, 1}
  PROVE  IsProductOfBase(BluesteinConvolutionLength(n))
<1>1. PICK m : m = 2 * n - 1 /\ m \in Nat \ {0}
  OBVIOUS
<1>2. PICK l : l = NextLengthFactorableByBase(m)
  OBVIOUS
<1>3. l \in m..(Base[1] * m) /\ FactorableByBase(l)
  BY <1>1, <1>2, PaddedLengthExists
<1>4. l \in Nat \ {0}
  BY <1>1, <1>3
<1> QED
  BY <1>1, <1>2, <1>3, <1>4, FactorableIsProduct DEF BluesteinConvolutionLength

-----------------------------------------------------------------------------
(* The table of strategies.                                                *)

Convolving == {"ct_rader_ab", "ct_rader_ac", "ct_bluestein_ab", "ct_bluestein_ac",
               "rader", "bluestein"}

StrategyType ==
  {s \in [name : {"direct", "ct_ab", "ct_ac", "loop", "fft1"} \cup Convolving, r : Nat] :
     s.name \in {"ct_ab", "ct_ac"} => s.r > 1}

LEMMA NamedTyped ==
  ASSUME NEW name \in {"direct", "ct_ab", "ct_ac"}, NEW rs \in Seq(Nat \ {0, 1})
  PROVE  Named(name, rs) \in Seq(StrategyType)
<1>1. DOMAIN rs = 1..Len(rs) /\ Len(rs) \in Nat
  OBVIOUS
<1>2. ASSUME NEW i \in 1..Len(rs) PROVE [name |-> name, r |-> rs[i]] \in StrategyType
  BY <1>1 DEF StrategyType
<1> QED
  BY <1>1, <1>2 DEF Named

LEMMA StrategiesTyped ==
  /\ Strategies \in Seq(StrategyType)
  /\ Len(Strategies) \in Nat /\ DOMAIN Strategies = 1..Len(Strategies)
  /\ \A i \in 1..Len(Strategies) : Strategies[i] \in StrategyType
<1> DEFINE direct == Named("direct", Radices)
           ab     == Named("ct_ab", Reverse(Radices))
           ac     == Named("ct_ac", Reverse(Radices))
           convs  == [i \in DOMAIN ConvolutionNames |-> [name |-> ConvolutionNames[i], r |-> 0]]
           last   == << [name |-> "loop", r |-> 0], [name |-> "fft1", r |-> 0] >>
<1>1. Radices \in Seq(Nat \ {0, 1}) /\ Reverse(Radices) \in Seq(Nat \ {0, 1})
  BY BaseAssumption DEF Reverse
<1>2. direct \in Seq(StrategyType) /\ ab \in Seq(StrategyType) /\ ac \in Seq(StrategyType)
  BY <1>1, NamedTyped
<1>3. convs \in Seq(StrategyType)
  <2>1. DOMAIN ConvolutionNames = 1..6 /\ \A i \in 1..6 : ConvolutionNames[i] \in Convolving
    BY DEF ConvolutionNames, Convolving
  <2>2. \A i \in 1..6 : convs[i] \in StrategyType
    BY <2>1 DEF StrategyType, Convolving
  <2>3. convs = [i \in 1..6 |-> convs[i]]
    BY <2>1
  <2> HIDE DEF convs
  <2> QED
    BY <2>2, <2>3
<1>4. last \in Seq(StrategyType)
  BY DEF StrategyType, Convolving
<1>5. Strategies = direct \o ab \o ac \o convs \o last
  BY DEF Strategies
<1> HIDE DEF direct, ab, ac, convs, last
<1>6. Strategies \in Seq(StrategyType)
  BY <1>2, <1>3, <1>4, <1>5
<1> QED
  BY <1>6

LEMMA IsConvolutionMeans ==
  ASSUME NEW s
  PROVE  IsConvolution(s) <=> s.name \in Convolving
BY DEF IsConvolution, ConvolutionNames, Convolving

-----------------------------------------------------------------------------
(* The problems a strategy asks for.                                       *)

(* What a sub-planner is asked for is smaller: it lost the right to        *)
(* convolve, or is shorter, or as long with a single batch.                *)
Smaller(inner, outer) ==
  \/ AllowsConvolution(outer.policy) /\ ~AllowsConvolution(inner.policy)
  \/ /\ inner.policy = outer.policy
     /\ \/ inner.p.n < outer.p.n
        \/ inner.p.n = outer.p.n /\ inner.p.howmany = 1 /\ outer.p.howmany > 1

Without(policy) == policy \ {"CONVOLUTIONS"}

LEMMA ConvolutionLengthTyped ==
  ASSUME NEW s, NEW n \in Nat \ {0, 1}
  PROVE  ConvolutionLength(s, n) \in Nat \ {0}
<1>1. n - 1 \in Nat \ {0} /\ 2 * n - 1 \in Nat \ {0}
  OBVIOUS
<1>2. NextLengthFactorableByBase(2 * n - 1) \in (2 * n - 1)..(Base[1] * (2 * n - 1))
  BY <1>1, PaddedLengthExists
<1>3. NextLengthFactorableByBase(2 * n - 1) \in Nat \ {0}
  BY <1>1, <1>2
<1> QED
  BY <1>1, <1>3 DEF ConvolutionLength, BluesteinConvolutionLength

Asking(policy) == [p : Problems, policy : {policy}]

LEMMA SeqSubset ==
  ASSUME NEW T, NEW U, T \subseteq U, NEW seq \in Seq(T)
  PROVE  seq \in Seq(U) /\ \A k \in 1..Len(seq) : seq[k] \in T
OBVIOUS

LEMMA AskTyped ==
  ASSUME NEW ps \in Seq(Problems), NEW policy
  PROVE  /\ Ask(ps, policy) \in Seq(Asking(policy))
         /\ Len(Ask(ps, policy)) = Len(ps)
         /\ \A i \in 1..Len(ps) : Ask(ps, policy)[i] = [p |-> ps[i], policy |-> policy]
<1>1. DOMAIN ps = 1..Len(ps) /\ Len(ps) \in Nat /\ \A i \in 1..Len(ps) : ps[i] \in Problems
  OBVIOUS
<1>2. Ask(ps, policy) = [i \in 1..Len(ps) |-> [p |-> ps[i], policy |-> policy]]
  BY <1>1 DEF Ask
<1>3. \A i \in 1..Len(ps) : [p |-> ps[i], policy |-> policy] \in Asking(policy)
  BY <1>1 DEF Asking
<1> QED
  BY <1>1, <1>2, <1>3

LEMMA ConvolutionAsksTyped ==
  ASSUME NEW s, NEW n \in Nat \ {0, 1}, NEW howmany \in Nat \ {0}, NEW policy
  PROVE  /\ ConvolutionAsks(s, n, howmany, policy)
              \in Seq(Asking(Without(policy)))
         /\ Len(ConvolutionAsks(s, n, howmany, policy)) = 3
<1> DEFINE l == ConvolutionLength(s, n)
           ps == ConvolutionProblems(l, howmany)
<1>1. l \in Nat \ {0}
  BY ConvolutionLengthTyped
<1> HIDE DEF l
<1>2. ps \in Seq(Problems) /\ Len(ps) = 3
  BY <1>1 DEF ConvolutionProblems, Problem, Problems
<1>3. ConvolutionAsks(s, n, howmany, policy) = Ask(ps, Without(policy))
  BY DEF ConvolutionAsks, Without, l
<1> HIDE DEF ps
<1> QED
  BY <1>2, <1>3, AskTyped

(* A stage of radix r leaves transforms of n / r.                          *)
LEMMA StagesTyped ==
  ASSUME NEW p \in Problems, NEW r \in Nat \ {0, 1}, r <= p.n
  PROVE  /\ AbStage(p, r) \in Problems /\ AbStage(p, r).n < p.n
         /\ AcStage(p, r) \in Problems /\ AcStage(p, r).n < p.n
<1>1. p.n \in Nat \ {0} /\ p.howmany \in Nat \ {0} /\ p.istride \in Int /\ p.ostride \in Int
        /\ p.idist \in Int /\ p.odist \in Int
  BY DEF Problems
<1>2. PICK m, hr, i, o, ab, ac :
        /\ m = p.n \div r /\ hr = p.howmany * r /\ i = p.istride * r /\ o = p.ostride * r
        /\ ab = AbStage(p, r) /\ ac = AcStage(p, r)
  OBVIOUS
<1>3. m \in Nat \ {0} /\ m < p.n
  BY <1>1, <1>2, QuotientIsSmaller
<1>4. /\ hr \in Nat \ {0} /\ r \in Nat \ {0}
      /\ i \in Int /\ o \in Int /\ hr \in Int /\ r \in Int /\ 1 \in Int
  BY <1>1, <1>2
<1>5. ab \in Problems /\ ab.n = m
  <2>1. CASE ab = Problem(p.kind, m, i, r, r, p.istride, 1, p.dir)
    BY <1>1, <1>3, <1>4, <2>1 DEF Problem, Problems
  <2>2. CASE ab = Problem(p.kind, m, r, o, r, 1, p.ostride, p.dir)
    BY <1>1, <1>3, <1>4, <2>2 DEF Problem, Problems
  <2> QED
    BY <1>2, <2>1, <2>2 DEF AbStage
<1>6. ac \in Problems /\ ac.n = m
  <2>1. CASE ac = Problem(p.kind, m, i, hr, hr, p.idist, 1, p.dir)
    BY <1>1, <1>3, <1>4, <2>1 DEF Problem, Problems
  <2>2. CASE ac = Problem(p.kind, m, hr, o, hr, 1, p.odist, p.dir)
    BY <1>1, <1>3, <1>4, <2>2 DEF Problem, Problems
  <2> QED
    BY <1>2, <2>1, <2>2 DEF AcStage
<1> QED
  BY <1>2, <1>3, <1>5, <1>6

(* One plan of the strategies without a convolution.                       *)
LEMMA OneAsk ==
  ASSUME NEW q \in Problems, NEW policy
  PROVE  /\ Ask(<<q>>, policy) \in Seq(Asking(policy))
         /\ Len(Ask(<<q>>, policy)) = 1
         /\ Ask(<<q>>, policy)[1] = [p |-> q, policy |-> policy]
<1>1. PICK qs : qs = <<q>>
  OBVIOUS
<1>2. qs \in Seq(Problems) /\ Len(qs) = 1 /\ qs[1] = q
  BY <1>1
<1>3. /\ Ask(qs, policy) \in Seq(Asking(policy)) /\ Len(Ask(qs, policy)) = 1
      /\ Ask(qs, policy)[1] = [p |-> q, policy |-> policy]
  BY <1>2, AskTyped
<1> QED
  BY <1>1, <1>3

AskType(policy) == Asking(policy) \cup Asking(Without(policy))

(* What an applicable strategy asks for, and in which order: nothing, one  *)
(* smaller problem, or the three plans of a convolution under the reduced  *)
(* policy with at most a smaller problem after them.                       *)
AsksAreSound(s, p, policy) ==
  LET asks == Asks(s, p, policy)
  IN  /\ asks \in Seq(AskType(policy))
      /\ Len(asks) \in IF IsConvolution(s) THEN {3, 4} ELSE {0, 1}
      /\ IsConvolution(s) => /\ AllowsConvolution(policy)
                             /\ \A k \in 1..3 : asks[k].policy = Without(policy)
      /\ \A k \in 1..Len(asks) : Smaller(asks[k], [p |-> p, policy |-> policy])

LEMMA ThreeAndOne ==
  ASSUME NEW T, NEW cs \in Seq(T), Len(cs) = 3, NEW one \in Seq(T), Len(one) = 1
  PROVE  /\ cs \o one \in Seq(T) /\ Len(cs \o one) = 4
         /\ \A k \in 1..3 : (cs \o one)[k] = cs[k]
         /\ (cs \o one)[4] = one[1]
<1>1. cs \o one \in Seq(T) /\ Len(cs \o one) = Len(cs) + Len(one)
  BY ConcatProperties
<1>2. \A i \in 1..(Len(cs) + Len(one)) :
        (cs \o one)[i] = IF i <= Len(cs) THEN cs[i] ELSE one[i - Len(cs)]
  BY ConcatProperties
<1>3. 3 + 1 = 4 /\ 4 - 3 = 1 /\ \A k \in 1..3 : k \in 1..4 /\ k <= 3
  OBVIOUS
<1> QED
  BY <1>1, <1>2, <1>3

(* The plans of a convolution and one more.                                *)
ConvolvesThenStages(asks, s, n, columns, p, q, policy) ==
  /\ n \in Nat \ {0, 1} /\ columns \in Nat \ {0} /\ AllowsConvolution(policy)
  /\ p \in Problems /\ q \in Problems /\ q.n < p.n
  /\ asks = ConvolutionAsks(s, n, columns, policy) \o Ask(<<q>>, policy)

LEMMA ConvolutionAndStage ==
  ASSUME NEW asks, NEW s, NEW n, NEW columns, NEW p, NEW q, NEW policy,
         ConvolvesThenStages(asks, s, n, columns, p, q, policy)
  PROVE  /\ asks \in Seq(AskType(policy)) /\ Len(asks) = 4
         /\ \A k \in 1..3 : asks[k].policy = Without(policy)
         /\ \A k \in 1..Len(asks) : Smaller(asks[k], [p |-> p, policy |-> policy])
<1> USE DEF ConvolvesThenStages
<1>1. PICK cs, one : cs = ConvolutionAsks(s, n, columns, policy) /\ one = Ask(<<q>>, policy)
  OBVIOUS
<1>2. cs \in Seq(Asking(Without(policy))) /\ Len(cs) = 3
  BY <1>1, ConvolutionAsksTyped
<1>3. /\ one \in Seq(Asking(policy)) /\ Len(one) = 1
      /\ one[1] = [p |-> q, policy |-> policy]
  BY <1>1, OneAsk
<1>4. cs \in Seq(AskType(policy)) /\ one \in Seq(AskType(policy))
  BY <1>2, <1>3, SeqSubset DEF AskType
<1>5. asks = cs \o one
  BY <1>1
<1>6. /\ asks \in Seq(AskType(policy)) /\ Len(asks) = 4
      /\ \A k \in 1..3 : asks[k] = cs[k]
      /\ asks[4] = one[1]
  <2>1. PICK T : T = AskType(policy)
    OBVIOUS
  <2>2. cs \in Seq(T) /\ Len(cs) = 3 /\ one \in Seq(T) /\ Len(one) = 1
    BY <1>2, <1>3, <1>4, <2>1
  <2>3. /\ cs \o one \in Seq(T) /\ Len(cs \o one) = 4
        /\ \A k \in 1..3 : (cs \o one)[k] = cs[k]
        /\ (cs \o one)[4] = one[1]
    BY ONLY <2>2, ThreeAndOne
  <2> QED
    BY <1>5, <2>1, <2>3
<1>7. \A k \in 1..3 : cs[k] \in Asking(Without(policy))
  BY <1>2, SeqSubset
<1>8. ~AllowsConvolution(Without(policy))
  BY DEF AllowsConvolution, Without
<1>9. \A k \in 1..3 : asks[k].policy = Without(policy)
  BY <1>6, <1>7 DEF Asking
<1>10. ASSUME NEW k \in 1..Len(asks)
       PROVE  Smaller(asks[k], [p |-> p, policy |-> policy])
  <2>1. CASE k \in 1..3
    BY <1>8, <1>9, <2>1 DEF Smaller
  <2>2. CASE k = 4
    <3>1. asks[k] = [p |-> q, policy |-> policy]
      BY <1>3, <1>6, <2>2
    <3> QED
      BY <3>1 DEF Smaller
  <2> QED
    BY <1>6, <2>1, <2>2
<1> QED
  BY <1>6, <1>9, <1>10

LEMMA ConvolutionAlone ==
  ASSUME NEW s, NEW n \in Nat \ {0, 1}, NEW columns \in Nat \ {0}, NEW policy,
         AllowsConvolution(policy), NEW p,
         NEW asks, asks = ConvolutionAsks(s, n, columns, policy)
  PROVE  /\ asks \in Seq(AskType(policy)) /\ Len(asks) = 3
         /\ \A k \in 1..3 : asks[k].policy = Without(policy)
         /\ \A k \in 1..Len(asks) : Smaller(asks[k], [p |-> p, policy |-> policy])
<1>1. asks \in Seq(Asking(Without(policy))) /\ Len(asks) = 3
  BY ConvolutionAsksTyped
<1>2. asks \in Seq(AskType(policy)) /\ \A k \in 1..3 : asks[k] \in Asking(Without(policy))
  BY <1>1, SeqSubset DEF AskType
<1>3. ~AllowsConvolution(Without(policy))
  BY DEF AllowsConvolution, Without
<1>4. \A k \in 1..3 : asks[k].policy = Without(policy)
  BY <1>2 DEF Asking
<1>5. \A k \in 1..3 : Smaller(asks[k], [p |-> p, policy |-> policy])
  BY <1>3, <1>4 DEF Smaller
<1> QED
  BY <1>1, <1>2, <1>4, <1>5

LEMMA StageAlone ==
  ASSUME NEW p \in Problems, NEW q \in Problems, NEW policy,
         q.n < p.n \/ (q.n = p.n /\ q.howmany = 1 /\ p.howmany > 1),
         NEW asks, asks = Ask(<<q>>, policy)
  PROVE  /\ asks \in Seq(AskType(policy)) /\ Len(asks) = 1
         /\ \A k \in 1..Len(asks) : Smaller(asks[k], [p |-> p, policy |-> policy])
<1>1. /\ asks \in Seq(Asking(policy)) /\ Len(asks) = 1
      /\ asks[1] = [p |-> q, policy |-> policy]
  BY OneAsk
<1>2. asks \in Seq(AskType(policy))
  BY <1>1, SeqSubset DEF AskType
<1>3. Smaller(asks[1], [p |-> p, policy |-> policy])
  BY <1>1 DEF Smaller
<1> QED
  BY <1>1, <1>2, <1>3

THEOREM AsksDescend ==
  ASSUME NEW s \in StrategyType, NEW p \in Problems, NEW policy, IsApplicable(s, p, policy)
  PROVE  AsksAreSound(s, p, policy)
<1> DEFINE spf == SmallestPrimeFactor(p.n)
           m == p.n \div spf
           columns == IF p.kind = "c2r" THEN m \div 2 + 1 ELSE m
<1>1. p.n \in Nat \ {0} /\ p.howmany \in Nat \ {0}
  BY DEF Problems
<1>2. IsConvolution(s) <=> s.name \in Convolving
  BY IsConvolutionMeans
<1>3. CASE s.name \in {"direct", "fft1"}
  <2>1. Asks(s, p, policy) = << >> /\ ~IsConvolution(s)
    BY <1>2, <1>3 DEF Asks, Convolving
  <2> QED
    BY <2>1 DEF AsksAreSound
<1>4. CASE s.name \in {"ct_ab", "ct_ac"}
  <2>1. s.r \in Nat \ {0, 1} /\ s.r <= p.n
    BY <1>4, <1>1 DEF StrategyType, IsApplicable, IsProperBaseRadix
  <2>2. PICK q : q = IF s.name = "ct_ab" THEN AbStage(p, s.r) ELSE AcStage(p, s.r)
    OBVIOUS
  <2>3. q \in Problems /\ q.n < p.n
    BY <2>1, <2>2, StagesTyped
  <2>4. Asks(s, p, policy) = Ask(<<q>>, policy) /\ ~IsConvolution(s)
    BY <1>2, <1>4, <2>2 DEF Asks, Convolving
  <2> QED
    BY <2>3, <2>4, StageAlone DEF AsksAreSound
<1>5. CASE s.name = "loop"
  <2>1. p.howmany > 1
    BY <1>5 DEF IsApplicable
  <2>2. PICK q : q = LoopInner(p)
    OBVIOUS
  <2>3. q \in Problems /\ q.n = p.n /\ q.howmany = 1
    BY <1>1, <2>1, <2>2 DEF LoopInner, Problem, Problems
  <2>4. Asks(s, p, policy) = Ask(<<q>>, policy) /\ ~IsConvolution(s)
    BY <1>2, <1>5, <2>2 DEF Asks, Convolving
  <2> QED
    BY <2>1, <2>3, <2>4, StageAlone DEF AsksAreSound
<1>6. CASE s.name \in {"rader", "bluestein"}
  <2>1. p.n \in Nat \ {0, 1} /\ AllowsConvolution(policy)
    BY <1>1, <1>6 DEF IsApplicable, IsConvolvablePrime
  <2>2. Asks(s, p, policy) = ConvolutionAsks(s, p.n, p.howmany, policy) /\ IsConvolution(s)
    BY <1>2, <1>6 DEF Asks, Convolving
  <2> QED
    BY <1>1, <2>1, <2>2, ConvolutionAlone DEF AsksAreSound
<1>7. CASE s.name \in Convolving \ {"rader", "bluestein"}
  <2>1. AllowsConvolution(policy) /\ HasConvolvableRadix(p)
    BY <1>7 DEF IsApplicable, Convolving
  <2>2. p.n \in Nat \ {0, 1}
    BY <1>1, <2>1 DEF HasConvolvableRadix
  <2>3. spf \in 2..p.n
    BY <2>2, SmallestPrimeFactorDivides
  <2> HIDE DEF spf
  <2>4. spf \in Nat \ {0, 1} /\ spf <= p.n
    BY <2>2, <2>3
  <2>5. m \in Nat \ {0}
    BY <1>1, <2>4, QuotientIsSmaller
  <2> HIDE DEF m
  <2>6. columns \in Nat \ {0}
    BY <2>5
  <2> HIDE DEF columns
  <2>7. PICK q : q = IF s.name \in {"ct_rader_ab", "ct_bluestein_ab"}
                     THEN AbStage(p, spf) ELSE AcStage(p, spf)
    OBVIOUS
  <2>8. q \in Problems /\ q.n < p.n
    BY <2>4, <2>7, StagesTyped
  <2>9. /\ Asks(s, p, policy) = ConvolutionAsks(s, spf, columns, policy) \o Ask(<<q>>, policy)
        /\ IsConvolution(s)
    BY <1>2, <1>7, <2>7 DEF Asks, Convolving, spf, m, columns
  <2> QED
    <3>1. PICK asks : asks = Asks(s, p, policy)
      OBVIOUS
    <3>2. PICK l, c : l = spf /\ c = columns
      OBVIOUS
    <3>3. ConvolvesThenStages(asks, s, l, c, p, q, policy)
      BY <2>1, <2>4, <2>6, <2>8, <2>9, <3>1, <3>2 DEF ConvolvesThenStages
    <3>4. /\ asks \in Seq(AskType(policy)) /\ Len(asks) = 4
          /\ \A k \in 1..3 : asks[k].policy = Without(policy)
          /\ \A k \in 1..Len(asks) : Smaller(asks[k], [p |-> p, policy |-> policy])
      BY ONLY <3>3, ConvolutionAndStage
    <3> QED
      BY <2>1, <2>9, <3>1, <3>4 DEF AsksAreSound
<1> QED
  BY <1>3, <1>4, <1>5, <1>6, <1>7 DEF StrategyType

-----------------------------------------------------------------------------
(* Which problems the strategies solve between them.                       *)

(* There is a plan for the problem under the policy, as PlanStrategies'    *)
(* caller states it; convolutions need floating-point data.                *)
HasPlan(p, policy, fixedPoint) ==
  (AllowsConvolution(policy) /\ ~fixedPoint) \/ IsProductOfBase(p.n)

(* The strategy is in the table, applies, and is answered what it asks.    *)
Succeeds(s, p, policy, fixedPoint) ==
  /\ ~(fixedPoint /\ IsConvolution(s)) /\ IsApplicable(s, p, policy)
  /\ \A k \in 1..Len(Asks(s, p, policy)) :
       HasPlan(Asks(s, p, policy)[k].p, Asks(s, p, policy)[k].policy, fixedPoint)

LEMMA OneIsProduct == IsProductOfBase(1)
BY ProductMeans

LEMMA KernelTimesProduct ==
  ASSUME NEW n \in Nat \ {0}, NEW r, IsBaseN(r), n % r = 0, IsProductOfBase(n \div r)
  PROVE  IsProductOfBase(n)
BY ProductMeans DEF IsBaseN

LEMMA KernelIsProduct ==
  ASSUME NEW n \in Nat \ {0}, IsBaseN(n)
  PROVE  IsProductOfBase(n)
<1>1. n % n = 0 /\ n \div n = 1
  OBVIOUS
<1> QED
  BY <1>1, OneIsProduct, KernelTimesProduct

LEMMA StageLengths ==
  ASSUME NEW p, NEW r
  PROVE  AbStage(p, r).n = p.n \div r /\ AcStage(p, r).n = p.n \div r
BY DEF AbStage, AcStage, Problem

LEMMA ConvolutionAsksMean ==
  ASSUME NEW s, NEW n \in Nat \ {0, 1}, NEW howmany \in Nat \ {0}, NEW policy
  PROVE  \A k \in 1..3 :
           /\ ConvolutionAsks(s, n, howmany, policy)[k].p.n = ConvolutionLength(s, n)
           /\ ConvolutionAsks(s, n, howmany, policy)[k].policy = Without(policy)
<1>1. PICK l, ps : l = ConvolutionLength(s, n) /\ ps = ConvolutionProblems(l, howmany)
  OBVIOUS
<1>2. l \in Nat \ {0}
  BY <1>1, ConvolutionLengthTyped
<1>3. ps \in Seq(Problems) /\ Len(ps) = 3 /\ \A k \in 1..3 : ps[k].n = l
  <2>1. PICK a, b, c :
          /\ a = Problem("c2c", l, 1, 1, 1, 0, 0, "FORWARD")
          /\ b = Problem("c2c", l, howmany, howmany, howmany, 1, 1, "FORWARD")
          /\ c = Problem("c2c", l, howmany, howmany, howmany, 1, 1, "BACKWARD")
    OBVIOUS
  <2>2. a \in Problems /\ b \in Problems /\ c \in Problems /\ a.n = l /\ b.n = l /\ c.n = l
    BY <1>2, <2>1 DEF Problem, Problems
  <2>3. ps = <<a, b, c>>
    BY <1>1, <2>1 DEF ConvolutionProblems
  <2> QED
    BY <2>2, <2>3
<1>4. ConvolutionAsks(s, n, howmany, policy) = Ask(ps, Without(policy))
  BY <1>1 DEF ConvolutionAsks, Without
<1>5. \A k \in 1..3 : Ask(ps, Without(policy))[k] = [p |-> ps[k], policy |-> Without(policy)]
  BY <1>3, AskTyped
<1> QED
  BY <1>1, <1>3, <1>4, <1>5

(* A plan exists only for what the kernels factor or a convolution covers. *)
THEOREM StrategiesAreSound ==
  ASSUME NEW s \in StrategyType, NEW p \in Problems, NEW policy, NEW fixedPoint \in BOOLEAN,
         Succeeds(s, p, policy, fixedPoint)
  PROVE  HasPlan(p, policy, fixedPoint)
<1>1. p.n \in Nat \ {0}
  BY DEF Problems
<1>2. IsApplicable(s, p, policy) /\ ~(fixedPoint /\ IsConvolution(s))
  BY DEF Succeeds
<1>3. CASE s.name = "direct"
  <2>1. IsBaseN(p.n)
    BY <1>2, <1>3 DEF IsApplicable
  <2> QED
    BY <1>1, <2>1, KernelIsProduct DEF HasPlan
<1>4. CASE s.name = "fft1"
  <2>1. p.n = 1
    BY <1>2, <1>4 DEF IsApplicable
  <2> QED
    BY <2>1, OneIsProduct DEF HasPlan
<1>5. CASE s.name \in {"ct_ab", "ct_ac"}
  <2>1. p.n % s.r = 0 /\ IsBaseN(s.r) /\ s.r \in Nat \ {0, 1} /\ s.r <= p.n
    BY <1>1, <1>2, <1>5 DEF IsApplicable, IsProperBaseRadix, StrategyType
  <2>2. PICK q : q = IF s.name = "ct_ab" THEN AbStage(p, s.r) ELSE AcStage(p, s.r)
    OBVIOUS
  <2>3. Asks(s, p, policy) = Ask(<<q>>, policy)
    BY <1>5, <2>2 DEF Asks
  <2>4. q \in Problems /\ q.n = p.n \div s.r
    BY <2>1, <2>2, StagesTyped, StageLengths
  <2>5. /\ Len(Asks(s, p, policy)) = 1
        /\ Asks(s, p, policy)[1] = [p |-> q, policy |-> policy]
    BY <2>3, <2>4, OneAsk
  <2>6. HasPlan(q, policy, fixedPoint)
    BY <2>5 DEF Succeeds
  <2> QED
    BY <1>1, <2>1, <2>4, <2>6, KernelTimesProduct DEF HasPlan
<1>6. CASE s.name = "loop"
  <2>1. PICK q : q = LoopInner(p)
    OBVIOUS
  <2>2. q \in Problems /\ q.n = p.n
    BY <1>1, <2>1 DEF LoopInner, Problem, Problems
  <2>3. Asks(s, p, policy) = Ask(<<q>>, policy)
    BY <1>6, <2>1 DEF Asks
  <2>4. /\ Len(Asks(s, p, policy)) = 1
        /\ Asks(s, p, policy)[1] = [p |-> q, policy |-> policy]
    BY <2>2, <2>3, OneAsk
  <2>5. HasPlan(q, policy, fixedPoint)
    BY <2>4 DEF Succeeds
  <2> QED
    BY <2>2, <2>5 DEF HasPlan
<1>7. CASE s.name \in Convolving
  <2>1. IsConvolution(s)
    BY <1>7, IsConvolutionMeans
  <2>2. AllowsConvolution(policy)
    BY <1>2, <2>1, AsksDescend DEF AsksAreSound
  <2> QED
    BY <1>2, <2>1, <2>2 DEF HasPlan
<1> QED
  BY <1>3, <1>4, <1>5, <1>6, <1>7 DEF StrategyType

Lists(seq, x) == \E i \in 1..Len(seq) : seq[i] = x

LEMMA ListsInConcat ==
  ASSUME NEW T, NEW a \in Seq(T), NEW b \in Seq(T), NEW x, Lists(a, x) \/ Lists(b, x)
  PROVE  Lists(a \o b, x)
<1>1. /\ Len(a \o b) = Len(a) + Len(b) /\ Len(a) \in Nat /\ Len(b) \in Nat
      /\ \A i \in 1..(Len(a) + Len(b)) :
           (a \o b)[i] = IF i <= Len(a) THEN a[i] ELSE b[i - Len(a)]
  BY ConcatProperties
<1>2. CASE Lists(a, x)
  <2>1. PICK i \in 1..Len(a) : a[i] = x
    BY <1>2 DEF Lists
  <2>2. i \in 1..(Len(a) + Len(b)) /\ i <= Len(a)
    BY <1>1
  <2> QED
    BY <1>1, <2>1, <2>2 DEF Lists
<1>3. CASE Lists(b, x)
  <2>1. PICK i \in 1..Len(b) : b[i] = x
    BY <1>3 DEF Lists
  <2>2. Len(a) + i \in 1..(Len(a) + Len(b)) /\ ~(Len(a) + i <= Len(a)) /\ (Len(a) + i) - Len(a) = i
    BY <1>1
  <2> QED
    BY <1>1, <2>1, <2>2 DEF Lists
<1> QED
  BY <1>2, <1>3

(* The strategies of the table the argument needs.                         *)
LEMMA TableLists ==
  /\ \A r : IsBaseN(r) => /\ Lists(Strategies, [name |-> "direct", r |-> r])
                          /\ Lists(Strategies, [name |-> "ct_ab", r |-> r])
  /\ Lists(Strategies, [name |-> "ct_bluestein_ab", r |-> 0])
  /\ Lists(Strategies, [name |-> "bluestein", r |-> 0])
  /\ Lists(Strategies, [name |-> "loop", r |-> 0])
  /\ Lists(Strategies, [name |-> "fft1", r |-> 0])
<1>1. PICK direct, ab, ac, convs, last :
        /\ direct = Named("direct", Radices)
        /\ ab     = Named("ct_ab", Reverse(Radices))
        /\ ac     = Named("ct_ac", Reverse(Radices))
        /\ convs  = [i \in DOMAIN ConvolutionNames |-> [name |-> ConvolutionNames[i], r |-> 0]]
        /\ last   = << [name |-> "loop", r |-> 0], [name |-> "fft1", r |-> 0] >>
  OBVIOUS
<1>2. PICK T : T = [name : {"direct", "ct_ab", "ct_ac", "loop", "fft1"} \cup Convolving, r : Nat]
  OBVIOUS
<1>3. /\ Radices \in Seq(Nat \ {0, 1}) /\ Reverse(Radices) \in Seq(Nat \ {0, 1})
      /\ DOMAIN Radices = 1..Len(Radices) /\ Len(Radices) \in Nat
      /\ Len(Reverse(Radices)) = Len(Radices)
      /\ \A i \in 1..Len(Radices) : Reverse(Radices)[i] = Radices[Len(Radices) - i + 1]
  BY BaseAssumption DEF Reverse
<1>4. ASSUME NEW name \in {"direct", "ct_ab", "ct_ac"}, NEW rs \in Seq(Nat \ {0, 1})
      PROVE  /\ Named(name, rs) \in Seq(T) /\ Len(Named(name, rs)) = Len(rs)
             /\ \A i \in 1..Len(rs) : Named(name, rs)[i] = [name |-> name, r |-> rs[i]]
  <2>1. DOMAIN rs = 1..Len(rs) /\ Len(rs) \in Nat
    OBVIOUS
  <2>2. \A i \in 1..Len(rs) : [name |-> name, r |-> rs[i]] \in T
    BY <1>2, <2>1
  <2>3. Named(name, rs) = [i \in 1..Len(rs) |-> [name |-> name, r |-> rs[i]]]
    BY <2>1 DEF Named
  <2> QED
    BY <2>1, <2>2, <2>3
<1>5. direct \in Seq(T) /\ ab \in Seq(T) /\ ac \in Seq(T)
  BY <1>1, <1>3, <1>4
<1>6. /\ convs \in Seq(T) /\ Len(convs) = 6
      /\ convs[3] = [name |-> "ct_bluestein_ab", r |-> 0]
      /\ convs[6] = [name |-> "bluestein", r |-> 0]
  <2>1. /\ DOMAIN ConvolutionNames = 1..6
        /\ \A i \in 1..6 : ConvolutionNames[i] \in Convolving
        /\ ConvolutionNames[3] = "ct_bluestein_ab" /\ ConvolutionNames[6] = "bluestein"
    BY DEF ConvolutionNames, Convolving
  <2>2. convs = [i \in 1..6 |-> [name |-> ConvolutionNames[i], r |-> 0]]
    BY <1>1, <2>1
  <2>3. \A i \in 1..6 : [name |-> ConvolutionNames[i], r |-> 0] \in T
    BY <1>2, <2>1
  <2> QED
    BY <2>1, <2>2, <2>3
<1>7. /\ last \in Seq(T) /\ Lists(last, [name |-> "loop", r |-> 0])
      /\ Lists(last, [name |-> "fft1", r |-> 0])
  <2>1. PICK a, b : a = [name |-> "loop", r |-> 0] /\ b = [name |-> "fft1", r |-> 0]
    OBVIOUS
  <2>2. a \in T /\ b \in T
    BY <1>2, <2>1
  <2>3. last = <<a, b>>
    BY <1>1, <2>1
  <2>4. Len(last) = 2 /\ last[1] = a /\ last[2] = b /\ last \in Seq(T)
    BY <2>2, <2>3
  <2>5. 1 \in 1..2 /\ 2 \in 1..2
    OBVIOUS
  <2> QED
    BY <2>1, <2>4, <2>5 DEF Lists
<1>8. Strategies = direct \o ab \o ac \o convs \o last
  BY <1>1 DEF Strategies
<1>9. ASSUME NEW x, Lists(direct, x) \/ Lists(ab, x) \/ Lists(convs, x) \/ Lists(last, x)
      PROVE  Lists(Strategies, x)
  <2>1. PICK two, three, four : two = direct \o ab /\ three = two \o ac /\ four = three \o convs
    OBVIOUS
  <2>2. two \in Seq(T) /\ (Lists(direct, x) \/ Lists(ab, x) => Lists(two, x))
    <3>1. direct \o ab \in Seq(T)
      BY <1>5, ConcatProperties
    <3> QED
      BY <1>5, <2>1, <3>1, ListsInConcat
  <2>3. three \in Seq(T) /\ (Lists(two, x) => Lists(three, x))
    <3>1. two \o ac \in Seq(T)
      BY <1>5, <2>2, ConcatProperties
    <3> QED
      BY <1>5, <2>1, <2>2, <3>1, ListsInConcat
  <2>4. four \in Seq(T) /\ (Lists(three, x) \/ Lists(convs, x) => Lists(four, x))
    <3>1. three \o convs \in Seq(T)
      BY <1>6, <2>3, ConcatProperties
    <3> QED
      BY <1>6, <2>1, <2>3, <3>1, ListsInConcat
  <2>5. Lists(four, x) \/ Lists(last, x) => Lists(four \o last, x)
    BY <1>7, <2>4, ListsInConcat
  <2>6. Strategies = four \o last
    BY <1>8, <2>1
  <2> QED
    BY <1>9, <2>2, <2>3, <2>4, <2>5, <2>6
<1>10. ASSUME NEW r, IsBaseN(r)
       PROVE  /\ Lists(direct, [name |-> "direct", r |-> r])
              /\ Lists(ab, [name |-> "ct_ab", r |-> r])
  <2>1. PICK j \in 1..Len(Radices) : Radices[j] = r
    BY <1>3, <1>10, TableAssumption DEF IsBaseN
  <2>2. PICK i : i = Len(Radices) - j + 1
    OBVIOUS
  <2>3. i \in 1..Len(Radices) /\ Len(Radices) - i + 1 = j
    BY <1>3, <2>2
  <2>4. Len(direct) = Len(Radices) /\ direct[j] = [name |-> "direct", r |-> r]
    BY <1>1, <1>3, <1>4, <2>1
  <2>5. PICK rs : rs = Reverse(Radices)
    OBVIOUS
  <2>6. rs \in Seq(Nat \ {0, 1}) /\ Len(rs) = Len(Radices) /\ rs[i] = r
    BY <1>3, <2>1, <2>3, <2>5
  <2>7. Len(ab) = Len(Radices) /\ ab[i] = [name |-> "ct_ab", r |-> r]
    BY <1>1, <1>4, <2>3, <2>5, <2>6
  <2> QED
    BY <2>1, <2>3, <2>4, <2>7 DEF Lists
<1>11. /\ Lists(convs, [name |-> "ct_bluestein_ab", r |-> 0])
       /\ Lists(convs, [name |-> "bluestein", r |-> 0])
  <2>1. 3 \in 1..6 /\ 6 \in 1..6
    OBVIOUS
  <2> QED
    BY <1>6, <2>1 DEF Lists
<1> QED
  BY <1>7, <1>9, <1>10, <1>11

LEMMA ConvolutionHasPlans ==
  ASSUME NEW s, s.name \in {"bluestein", "ct_bluestein_ab"}, NEW n \in Nat \ {0, 1},
         NEW columns \in Nat \ {0}, NEW policy, NEW fixedPoint,
         NEW asks, asks = ConvolutionAsks(s, n, columns, policy)
  PROVE  \A k \in 1..3 : HasPlan(asks[k].p, asks[k].policy, fixedPoint)
<1>1. ConvolutionLength(s, n) = BluesteinConvolutionLength(n)
  BY DEF ConvolutionLength
<1> QED
  BY <1>1, ConvolutionAsksMean, PaddedLengthIsProduct DEF HasPlan

(* A strategy that asks for one problem which has a plan.                  *)
LEMMA OneAskSucceeds ==
  ASSUME NEW s, NEW p, NEW policy, NEW fixedPoint, ~IsConvolution(s), IsApplicable(s, p, policy),
         NEW q \in Problems, Asks(s, p, policy) = Ask(<<q>>, policy), HasPlan(q, policy, fixedPoint)
  PROVE  Succeeds(s, p, policy, fixedPoint)
<1>1. PICK asks : asks = Asks(s, p, policy)
  OBVIOUS
<1>2. Len(asks) = 1 /\ asks[1] = [p |-> q, policy |-> policy]
  BY <1>1, OneAsk
<1>3. \A k \in 1..Len(asks) : HasPlan(asks[k].p, asks[k].policy, fixedPoint)
  <2>1. \A k \in 1..1 : k = 1
    OBVIOUS
  <2> QED
    BY <1>2, <2>1
<1> QED
  BY <1>1, <1>3 DEF Succeeds

(* Whatever has a plan, some strategy of the table finds one.              *)
THEOREM StrategiesAreComplete ==
  ASSUME NEW p \in Problems, NEW policy, NEW fixedPoint \in BOOLEAN,
         HasPlan(p, policy, fixedPoint)
  PROVE  \E j \in 1..Len(Strategies) : Succeeds(Strategies[j], p, policy, fixedPoint)
<1>1. p.n \in Nat \ {0} /\ p.howmany \in Nat \ {0}
  BY DEF Problems
<1>2. SUFFICES \E s : Lists(Strategies, s) /\ Succeeds(s, p, policy, fixedPoint)
  BY DEF Lists
<1>3. \A s : IsConvolution(s) <=> s.name \in Convolving
  BY IsConvolutionMeans
<1>4. CASE p.n = 1
  <2>1. PICK s : s = [name |-> "fft1", r |-> 0]
    OBVIOUS
  <2>2. Asks(s, p, policy) = << >> /\ IsApplicable(s, p, policy) /\ ~IsConvolution(s)
    BY <1>3, <1>4, <2>1 DEF Asks, IsApplicable, Convolving
  <2>3. Succeeds(s, p, policy, fixedPoint)
    BY <2>2 DEF Succeeds
  <2> QED
    BY <2>1, <2>3, TableLists
<1>5. CASE IsBaseN(p.n)
  <2>1. PICK s : s = [name |-> "direct", r |-> p.n]
    OBVIOUS
  <2>2. Asks(s, p, policy) = << >> /\ IsApplicable(s, p, policy) /\ ~IsConvolution(s)
    BY <1>3, <1>5, <2>1 DEF Asks, IsApplicable, Convolving
  <2>3. Succeeds(s, p, policy, fixedPoint)
    BY <2>2 DEF Succeeds
  <2> QED
    BY <1>5, <2>1, <2>3, TableLists
<1>6. CASE p.n # 1 /\ p.howmany > 1
  <2>1. PICK s, q : s = [name |-> "loop", r |-> 0] /\ q = LoopInner(p)
    OBVIOUS
  <2>2. q \in Problems /\ q.n = p.n
    BY <1>1, <2>1 DEF LoopInner, Problem, Problems
  <2>3. Asks(s, p, policy) = Ask(<<q>>, policy)
    BY <2>1 DEF Asks
  <2>4. IsApplicable(s, p, policy) /\ ~IsConvolution(s)
    BY <1>1, <1>3, <1>6, <2>1 DEF IsApplicable, Convolving
  <2>5. HasPlan(q, policy, fixedPoint)
    BY <2>2 DEF HasPlan
  <2>6. Succeeds(s, p, policy, fixedPoint)
    BY <2>2, <2>3, <2>4, <2>5, OneAskSucceeds
  <2> QED
    BY <2>1, <2>6, TableLists
<1>7. ASSUME p.howmany = 1, NEW r \in Nat \ {0, 1}, r < p.n, p.n % r = 0, IsBaseN(r),
             \/ AllowsConvolution(policy) /\ ~fixedPoint
             \/ IsProductOfBase(p.n \div r)
      PROVE  \E s : Lists(Strategies, s) /\ Succeeds(s, p, policy, fixedPoint)
  <2>1. PICK s, q : s = [name |-> "ct_ab", r |-> r] /\ q = AbStage(p, r)
    OBVIOUS
  <2>2. q \in Problems /\ q.n = p.n \div r
    <3>1. r <= p.n
      BY <1>1, <1>7
    <3> QED
      BY <2>1, <3>1, StagesTyped, StageLengths
  <2>3. Asks(s, p, policy) = Ask(<<q>>, policy)
    BY <2>1 DEF Asks
  <2>4. IsApplicable(s, p, policy) /\ ~IsConvolution(s)
    BY <1>3, <1>7, <2>1 DEF IsApplicable, IsProperBaseRadix, Convolving
  <2>5. HasPlan(q, policy, fixedPoint)
    BY <1>7, <2>2 DEF HasPlan
  <2>6. Succeeds(s, p, policy, fixedPoint)
    BY <2>2, <2>3, <2>4, <2>5, OneAskSucceeds
  <2> QED
    BY <1>7, <2>1, <2>6, TableLists
<1>8. CASE p.n # 1 /\ ~IsBaseN(p.n) /\ p.howmany = 1 /\ IsProductOfBase(p.n)
  <2>1. PICK i \in DOMAIN Base : p.n % Base[i] = 0 /\ IsProductOfBase(p.n \div Base[i])
    BY <1>1, <1>8, ProductMeans
  <2>2. PICK r : r = Base[i] /\ r \in Nat \ {0, 1} /\ IsBaseN(r)
    BY BaseFacts DEF IsBaseN
  <2>3. r # p.n
    BY <1>8, <2>2
  <2>4. r < p.n
    BY <1>1, <2>1, <2>2, <2>3
  <2> QED
    BY <1>7, <1>8, <2>1, <2>2, <2>4
<1>9. CASE /\ p.n # 1 /\ ~IsBaseN(p.n) /\ p.howmany = 1
           /\ AllowsConvolution(policy) /\ ~fixedPoint
  <2>1. p.n > 2
    <3>1. IsBaseN(2)
      BY TableAssumption DEF IsBaseN
    <3> QED
      BY <1>1, <1>9, <3>1
  <2>2. PICK spf : spf = SmallestPrimeFactor(p.n)
    OBVIOUS
  <2>3. spf \in Nat \ {0, 1} /\ spf <= p.n /\ p.n % spf = 0
    <3>1. p.n \in Nat \ {0, 1}
      BY <1>1, <1>9
    <3>2. spf \in 2..p.n /\ p.n % spf = 0
      BY <2>2, <3>1, SmallestPrimeFactorDivides
    <3> QED
      BY <3>1, <3>2
  <2>4. CASE IsPrime(p.n)
    <3>1. PICK s, asks : s = [name |-> "bluestein", r |-> 0] /\ asks = Asks(s, p, policy)
      OBVIOUS
    <3>2. asks = ConvolutionAsks(s, p.n, p.howmany, policy)
      BY <3>1 DEF Asks
    <3>3. IsApplicable(s, p, policy)
      BY <1>9, <2>1, <2>4, <3>1 DEF IsApplicable, IsConvolvablePrime
    <3>4. p.n \in Nat \ {0, 1}
      BY <1>1, <1>9
    <3>5. Len(asks) = 3 /\ \A k \in 1..3 : HasPlan(asks[k].p, asks[k].policy, fixedPoint)
      <4>1. s.name \in {"bluestein", "ct_bluestein_ab"}
        BY <3>1
      <4>2. PICK n \in Nat \ {0, 1}, h \in Nat \ {0} : n = p.n /\ h = p.howmany
        BY <1>1, <3>4
      <4>3. asks = ConvolutionAsks(s, n, h, policy)
        BY <3>2, <4>2
      <4>4. Len(asks) = 3
        BY <4>3, ConvolutionAsksTyped
      <4>5. \A k \in 1..3 : HasPlan(asks[k].p, asks[k].policy, fixedPoint)
        BY ONLY <4>1, <4>3, ConvolutionHasPlans
      <4> QED
        BY <4>4, <4>5
    <3>6. Succeeds(s, p, policy, fixedPoint)
      BY <1>9, <3>1, <3>3, <3>5 DEF Succeeds
    <3> QED
      BY <3>1, <3>6, TableLists
  <2>5. CASE ~IsPrime(p.n) /\ IsBaseN(spf)
    <3>1. spf < p.n
      BY <1>1, <2>1, <2>2, <2>3, <2>5 DEF IsPrime
    <3> QED
      BY <1>7, <1>9, <2>3, <2>5, <3>1
  <2>6. CASE ~IsPrime(p.n) /\ ~IsBaseN(spf)
    <3>1. PICK s, asks : s = [name |-> "ct_bluestein_ab", r |-> 0] /\ asks = Asks(s, p, policy)
      OBVIOUS
    <3>2. PICK m, columns, q, cs, one :
            /\ m = p.n \div spf /\ columns = (IF p.kind = "c2r" THEN m \div 2 + 1 ELSE m)
            /\ q = AbStage(p, spf) /\ cs = ConvolutionAsks(s, spf, columns, policy)
            /\ one = Ask(<<q>>, policy)
      OBVIOUS
    <3>3. asks = cs \o one
      BY <2>2, <3>1, <3>2 DEF Asks
    <3>4. m \in Nat \ {0}
      BY <1>1, <2>3, <3>2, QuotientIsSmaller
    <3>5. columns \in Nat \ {0}
      BY <3>2, <3>4
    <3>6. q \in Problems
      BY <2>3, <3>2, StagesTyped
    <3>7. /\ cs \in Seq(Asking(Without(policy))) /\ Len(cs) = 3
          /\ \A k \in 1..3 : HasPlan(cs[k].p, cs[k].policy, fixedPoint)
      <4>1. s.name \in {"bluestein", "ct_bluestein_ab"}
        BY <3>1
      <4>2. cs \in Seq(Asking(Without(policy))) /\ Len(cs) = 3
        BY <2>3, <3>2, <3>5, ConvolutionAsksTyped
      <4>3. cs = ConvolutionAsks(s, spf, columns, policy)
        BY <3>2
      <4>4. spf \in Nat \ {0, 1}
        BY <2>3
      <4>5. \A k \in 1..3 : HasPlan(cs[k].p, cs[k].policy, fixedPoint)
        BY ONLY <3>5, <4>1, <4>3, <4>4, ConvolutionHasPlans
      <4> QED
        BY <4>2, <4>5
    <3>8. /\ one \in Seq(Asking(policy)) /\ Len(one) = 1
          /\ one[1] = [p |-> q, policy |-> policy]
      BY <3>2, <3>6, OneAsk
    <3>9. HasPlan(one[1].p, one[1].policy, fixedPoint)
      BY <1>9, <3>8 DEF HasPlan
    <3>10. /\ Len(asks) = 4 /\ \A k \in 1..3 : asks[k] = cs[k]
           /\ asks[4] = one[1]
      <4>1. PICK T : T = AskType(policy)
        OBVIOUS
      <4>2. cs \in Seq(T) /\ one \in Seq(T)
        BY <3>7, <3>8, <4>1, SeqSubset DEF AskType
      <4> QED
        BY ONLY <3>3, <3>7, <3>8, <4>2, ThreeAndOne
    <3>11. \A k \in 1..Len(asks) : HasPlan(asks[k].p, asks[k].policy, fixedPoint)
      <4>1. \A k \in 1..4 : k \in 1..3 \/ k = 4
        OBVIOUS
      <4> QED
        BY <3>7, <3>9, <3>10, <4>1
    <3>12. IsApplicable(s, p, policy)
      BY <1>9, <2>1, <2>2, <2>6, <3>1 DEF IsApplicable, HasConvolvableRadix
    <3>13. Succeeds(s, p, policy, fixedPoint)
      BY <1>9, <3>1, <3>11, <3>12 DEF Succeeds
    <3> QED
      BY <3>1, <3>13, TableLists
  <2> QED
    BY <2>4, <2>5, <2>6
<1> QED
  BY <1>1, <1>4, <1>5, <1>6, <1>8, <1>9 DEF HasPlan

=============================================================================
