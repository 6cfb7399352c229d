----------------------------- MODULE ExactNumbers -----------------------------
(***************************************************************************)
(* Numbers without rounding.  The real numbers of PLFFT's transforms are   *)
(* modelled by the integers modulo a prime with enough roots of unity, and *)
(* a complex number by a pair of them, << real, imaginary >>.  Cosines and *)
(* sines of every rational angle the code uses are elements of the field   *)
(* that satisfy the identities of the real ones, so two expressions of     *)
(* the code are equal here for a generic input when the algorithms are.    *)
(***************************************************************************)
EXTENDS Integers, Sequences, FiniteSets, TLC

CONSTANTS
  Prime,      (* 4 divides Prime - 1; TLC's integers hold Prime ^ 2 + Prime *)
  Generator   (* a primitive root of Prime                                 *)

Angles == Prime - 1   (* the angles are multiples of 2 pi / Angles         *)

Power(b, e) ==
  LET power[k \in 0..e] ==
        IF k = 0 THEN 1
        ELSE LET half == power[k \div 2]
                 square == (half * half) % Prime
             IN  IF k % 2 = 0 THEN square ELSE (square * b) % Prime
  IN  power[e]

Reciprocal(a) == Power(a, Prime - 2)

Root == [m \in 0..(Angles - 1) |-> Power(Generator, m)] @@ << >>

ASSUME FieldAssumption ==
  /\ Prime \in Nat /\ Generator \in 1..(Prime - 1) /\ Angles % 4 = 0
  /\ Cardinality({Root[m] : m \in 0..(Angles - 1)}) = Angles

Half == Reciprocal(2)
HalfOverI == (Half * Reciprocal(Root[Angles \div 4])) % Prime

Zero == <<0, 0>>
One  == <<1, 0>>
Re(a) == a[1]
Im(a) == a[2]
Real(a) == <<a[1], 0>>
Conj(a) == <<a[1], (-a[2]) % Prime>>
Plus(a, b)  == <<(a[1] + b[1]) % Prime, (a[2] + b[2]) % Prime>>
Times(a, b) ==
  <<(a[1] * b[1] - a[2] * b[2]) % Prime, (((a[1] * b[2]) % Prime) + a[2] * b[1]) % Prime>>
Scale(s, a) == <<(s * a[1]) % Prime, (s * a[2]) % Prime>>

(* exp(2 pi i a / b); b divides Angles.                                    *)
Exp(a, b) ==
  LET m == (a * (Angles \div b)) % Angles
      r == Root[m]
      s == Root[(Angles - m) % Angles]
  IN  <<(((r + s) % Prime) * Half) % Prime, ((r - s) * HalfOverI) % Prime>>

Cos(a, b) == Exp(a, b)[1]
Sin(a, b) == Exp(a, b)[2]

(* The sums f(0) + ... + f(n - 1) of numbers and of complex numbers.       *)
Total(n, f(_)) ==
  LET total[k \in 0..n] == IF k = 0 THEN 0 ELSE (total[k - 1] + f(k - 1)) % Prime
  IN  total[n]

Sum(n, f(_)) ==
  LET sum[k \in 0..n] == IF k = 0 THEN Zero ELSE Plus(sum[k - 1], f(k - 1))
  IN  sum[n]

Sign(dir) == IF dir = "FORWARD" THEN -1 ELSE 1

(* X[k] = sum_j x[j] exp(+-2 pi i j k / n), as src/docs/plfft.md defines it. *)
Dft(n, dir, x(_)) ==
  [k \in 0..(n - 1) |-> Sum(n, LAMBDA j : Times(x(j), Exp(Sign(dir) * j * k, n)))] @@ << >>

(* A half spectrum extended by conjugate symmetry.                         *)
Hermitian(n, x(_), k) == IF k <= n \div 2 THEN x(k) ELSE Conj(x(n - k))

-----------------------------------------------------------------------------
(* Writes to an array: a function from the indices written to the values.  *)

(* The writes of w(0), ..., w(count - 1) in this order.                    *)
Sweep(count, w(_)) ==
  LET sweep[k \in 0..count] == IF k = 0 THEN << >> ELSE w(k - 1) @@ sweep[k - 1]
  IN  sweep[count]

Cell(a, value) == a :> value

(* The same writes through a pointer d cells further.                      *)
Shift(w, d) == [a \in {b + d : b \in DOMAIN w} |-> w[a - d]] @@ << >>

=============================================================================
