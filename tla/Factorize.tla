------------------------------- MODULE Factorize -------------------------------
(***************************************************************************)
(* Factorisation of a transform length into the levels of a composition    *)
(* (factorize.hpp): greedily by the kernel lengths the provider offers, in *)
(* the provider's order, or towards equal factors; what no kernel divides  *)
(* is left to trial division.                                              *)
(***************************************************************************)
EXTENDS Integers, Sequences, SequencesExt, FiniteSetsExt

CONSTANT KernelNs     (* get_kernel_ns: lengths with a kernel, in the       *)
                      (* order the provider lists them                      *)

IsKernel(n) == n \in Range(KernelNs)

(* A provider that has a kernel has one for every divisor of its length:   *)
(* the lists of the AOT and of the JIT provider are closed this way, and   *)
(* without it the order of the list would decide what greed can factor.    *)
ASSUME KernelAssumption ==
  /\ KernelNs \in Seq(Nat \ {0, 1})
  /\ \A i \in DOMAIN KernelNs : \A d \in 2..KernelNs[i] :
       KernelNs[i] % d = 0 => IsKernel(d)

(* The product of the elements of a sequence of lengths.                   *)
Product(s) == FoldLeft(LAMBDA a, b : a * b, 1, s)

(* Before the elements that are less.                                      *)
InsertDescending(x, s) == InsertAt(s, 1 + Cardinality({k \in DOMAIN s : s[k] >= x}), x)

Descending(s) == FoldRight(InsertDescending, s, << >>)

SquareRoot(n) == CHOOSE r \in 0..n : r * r <= n /\ n < (r + 1) * (r + 1)

(* Every prime below 23 is expected to be a kernel.                        *)
FirstTrial == 23

(* factorize_primes, before it sorts: the length left, the factor tried,   *)
(* and whether it divided the length just before, when the length left is  *)
(* not compared with it again.                                             *)
PrimesFrom[p \in (Nat \ {0}) \X (Nat \ {0, 1}) \X BOOLEAN] ==
  LET n == p[1]
      factor == p[2]
      divided == p[3]
  IN  IF divided \/ factor < SquareRoot(n) + 1
      THEN IF n % factor = 0
           THEN << factor >> \o PrimesFrom[<<n \div factor, factor, TRUE>>]
           ELSE PrimesFrom[<<n, factor + 2, FALSE>>]
      ELSE IF n > 1 THEN << n >> ELSE << >>

factorize_primes(n) == PrimesFrom[<<n, FirstTrial, FALSE>>]

(* Factors of p[1] found by the kernels from the p[2]-th on, greedily,     *)
(* then by trial division.                                                 *)
Greedy[p \in (Nat \ {0}) \X (Nat \ {0})] ==
  LET n == p[1]
      k == p[2]
  IN  IF k > Len(KernelNs) THEN factorize_primes(n)
      ELSE IF n % KernelNs[k] = 0
           THEN << KernelNs[k] >> \o Greedy[<<n \div KernelNs[k], k>>]
           ELSE Greedy[<<n, k + 1>>]

factorize_descending(n) == Descending(Greedy[<<n, 1>>])

(* The kernels that divide n, by their place in the provider's list.       *)
Useful(n) == {i \in DOMAIN KernelNs : n % KernelNs[i] = 0}

(* The base of the next factor: the first useful kernel.                   *)
SquareBase(n) == KernelNs[Min(Useful(n))]

(* ceil(log n / log base) and floor(n ^ (1 / lg)) in floating point: where *)
(* the exact result is an integer, rounding may fall on either side.       *)
Logs(n, base) ==
  LET lg == CHOOSE k \in 0..n : base ^ k >= n /\ (k = 0 \/ base ^ (k - 1) < n)
  IN  IF base ^ lg = n /\ lg > 1 THEN {lg, lg + 1} ELSE {lg}

FloorRoots(n, lg) ==
  LET root == Max({r \in 1..SquareBase(n) : r ^ lg <= n})
  IN  IF root ^ lg = n /\ lg > 1 /\ root > 1 THEN {root - 1, root} ELSE {root}

(* The useful kernel next above the root; the last one when there is none. *)
Snap(useful, root) ==
  LET above == {i \in useful : /\ KernelNs[i] >= root
                              /\ \E j \in useful : /\ j > i /\ KernelNs[j] < root
                                                   /\ \A k \in useful : k <= i \/ k >= j}
  IN  KernelNs[IF above = {} THEN Max(useful) ELSE Min(above)]

TopFactors(n) ==
  {Snap(Useful(n), root) : root \in UNION {FloorRoots(n, lg) : lg \in Logs(n, SquareBase(n))}}

(* The factorisations factorize_square may return, before sorting.         *)
Squarest[n \in Nat \ {0}] ==
  IF Useful(n) = {} THEN {factorize_primes(n)}
  ELSE UNION {{<< top >> \o rest : rest \in Squarest[n \div top]} : top \in TopFactors(n)}

factorize_square(n) == {Descending(s) : s \in Squarest[n]}

(* What is left of p[1] when the kernels from the p[2]-th on have divided. *)
Residue[p \in (Nat \ {0}) \X (Nat \ {0})] ==
  LET n == p[1]
      k == p[2]
  IN  IF k > Len(KernelNs) THEN n
      ELSE IF n % KernelNs[k] = 0 THEN Residue[<<n \div KernelNs[k], k>>]
      ELSE Residue[<<n, k + 1>>]

KernelsFactor(n) == Residue[<<n, 1>>] = 1

(* The least length from n on that the kernels factor completely.          *)
NextFactorableFrom[n \in Nat \ {0}] ==
  IF KernelsFactor(n) THEN n ELSE NextFactorableFrom[n + 1]

(* Seeded fault: a length that some kernel divides will do.                *)
next_length_factorable_by_Partly(n) == IF Residue[<<n, 1>>] < n THEN n ELSE n + 1

next_length_factorable_by(n) == NextFactorableFrom[n]

=============================================================================
