---------------------------- MODULE RealTransforms ----------------------------
(***************************************************************************)
(* The eleven real-to-real kinds, each done by one complex, r2c or c2r FFT *)
(* between a preparation of its input and an extraction of the result      *)
(* (src/src/r2r_buffer_helper.hpp), and what FFTW, whose definitions and   *)
(* scaling src/include/plfft.h promises, calls these transforms.           *)
(***************************************************************************)
EXTENDS ExactNumbers, FiniteSetsExt

CONSTANT IntWidth   (* bits of a C int *)

ASSUME IntWidthAssumption == IntWidth \in Nat \ {0, 1}

(* What is left of an int64 in an int.                                     *)
AsInt(x) ==
  LET low == x % (2 ^ IntWidth)
  IN  IF low < 2 ^ (IntWidth - 1) THEN low ELSE low - 2 ^ IntWidth

FftKind(kind) ==
  CASE kind \in {"DCT_1", "DCT_2", "DST_1", "DST_2", "R2HC"} -> "r2c"
    [] kind \in {"DCT_3", "DST_3", "HC2R"}                   -> "c2r"
    [] kind \in {"DCT_4", "DST_4", "DHT"}                    -> "c2c"

FftDirection(kind) ==
  IF kind \in {"DCT_3", "DST_3", "DST_4", "DHT", "HC2R"} THEN "BACKWARD" ELSE "FORWARD"

R2rKinds == {"DCT_1", "DCT_2", "DCT_3", "DCT_4", "DST_1", "DST_2", "DST_3", "DST_4",
             "DHT", "R2HC", "HC2R"}

FftInputSize(kind, n) ==
  CASE kind = "DCT_1" -> Max({AsInt(2 * n - 2), 0})
    [] kind = "DST_1" -> AsInt(2 * n + 2)
    [] kind \in {"DCT_3", "DST_3", "HC2R"} -> n \div 2 + 1
    [] OTHER -> n

FftOutputSize(kind, n) ==
  CASE kind = "DST_1" -> AsInt(2 * n + 2)
    [] kind \in {"DCT_2", "DST_2"} -> n \div 2 + 1
    [] OTHER -> n

TransformSize(kind, n) == Max({FftInputSize(kind, n), FftOutputSize(kind, n)})

-----------------------------------------------------------------------------
(* W[k] of DCT-2, 3, 4; the factors of the input of DST-3 and DST-4, by    *)
(* which the output of DST-2 is divided.                                   *)
Rotation(n, k) == Exp(-k, 4 * n)
SineRotation(n, k) == <<Sin(k, 4 * n), (-Cos(k, 4 * n)) % Prime>>

(* Even elements ascending, then the odd ones descending: where element i  *)
(* goes, and which element place j holds.                                  *)
UdfhtOrder(n, i) == IF i % 2 = 1 THEN n - (i + 1) \div 2 ELSE i \div 2
MakhoulOrder(n, j) == IF j < (n + 1) \div 2 THEN 2 * j ELSE 2 * (n - j) - 1

Pair(a, b) == <<a[1], b[1]>>

(* Element j of the FFT's input, from the elements x[0], ..., x[n - 1].    *)
PreparedDct1(n, x, j) == IF j < n THEN x[j] ELSE x[2 * n - 2 - j]
PreparedDct2(n, x, j) == x[MakhoulOrder(n, j)]
PreparedDct3(n, x, j) == Times(Pair(x[j], IF j = 0 THEN Zero ELSE x[n - j]), Rotation(n, j))
PreparedDct4(n, x, j) == Times(Pair(x[j], x[n - j - 1]), Rotation(n, j))

PreparedDst1(n, x, j) ==
  IF j \in {0, n + 1} THEN Zero
  ELSE IF j <= n THEN x[j - 1] ELSE Scale(-1, x[2 * n + 1 - j])

PreparedDst2(n, x, j) ==
  LET i == CHOOSE i \in 0..(n - 1) : UdfhtOrder(n, i) = j
  IN  Scale(IF i % 2 = 1 THEN -1 ELSE 1, x[i])

PreparedDst3(n, x, j) ==
  Times(IF j = 0 THEN Pair(Zero, x[n - 1]) ELSE Pair(x[j - 1], x[n - j - 1]), SineRotation(n, j))

PreparedDst4(n, x, j) == Times(Pair(x[j], x[n - j - 1]), SineRotation(n, j))
PreparedDht(n, x, j)  == IF j = 0 THEN x[0] ELSE Pair(x[j], x[n - j])

PreparedHc2r(n, x, j) ==
  IF j = n \div 2 THEN Pair(x[j], IF n % 2 = 1 THEN x[n - j] ELSE Zero)
  ELSE IF j = 0 THEN x[0] ELSE Pair(x[j], x[n - j])

PreparedElement(kind, n, x, j) ==
  CASE kind = "DCT_1" -> PreparedDct1(n, x, j)
    [] kind = "DCT_2" -> PreparedDct2(n, x, j)
    [] kind = "DCT_3" -> PreparedDct3(n, x, j)
    [] kind = "DCT_4" -> PreparedDct4(n, x, j)
    [] kind = "DST_1" -> PreparedDst1(n, x, j)
    [] kind = "DST_2" -> PreparedDst2(n, x, j)
    [] kind = "DST_3" -> PreparedDst3(n, x, j)
    [] kind = "DST_4" -> PreparedDst4(n, x, j)
    [] kind = "DHT"   -> PreparedDht(n, x, j)
    [] kind = "R2HC"  -> x[j]
    [] kind = "HC2R"  -> PreparedHc2r(n, x, j)

PrepareFftInput(kind, n, x) ==
  [j \in 0..(FftInputSize(kind, n) - 1) |-> PreparedElement(kind, n, x, j)] @@ << >>

-----------------------------------------------------------------------------
(* The writes of the outputs 0..n - 1, taken from the FFT's result f.      *)

QuarterShifted(n, f, sign, i) == Times(f[i], Exp(sign * (1 + 4 * i), 8 * n))

(* Division by a number of modulus 1.                                      *)
Over(a, b) == Times(a, Conj(b))

OutputDct2(n, f) ==
  LET rotated(k) == Scale(2, Times(f[k], Rotation(n, k)))
  IN  Sweep(FftOutputSize("DCT_2", n) - 1, LAMBDA i :
              (n - 1 - i) :> <<(-rotated(i + 1)[2]) % Prime, 0>> @@ (i + 1) :> Real(rotated(i + 1)))
        @@ 0 :> Scale(2, Real(f[0]))

OutputDst2(n, f) ==
  LET element(i) == IF i < FftOutputSize("DST_2", n) THEN f[i] ELSE Conj(f[n - i])
  IN  [o \in 0..(n - 1) |->
        IF o = n - 1 THEN Scale(2, Real(f[0]))
        ELSE Scale(2, Real(Over(element(o + 1), SineRotation(n, o + 1))))]

OutputDct3(n, f) ==
  Sweep(n, LAMBDA i : IF i = 0 THEN 0 :> f[0] ELSE MakhoulOrder(n, i) :> f[n - i])

OutputDct4(n, f) ==
  [i \in 0..(n - 1) |-> Scale(IF i % 2 = 1 THEN -1 ELSE 1,
                              Real(QuarterShifted(n, f, -1, UdfhtOrder(n, i))))]

OutputDst1(n, f) == [i \in 0..(n - 1) |-> <<(-f[i + 1][2]) % Prime, 0>>]

OutputDst3(n, f) ==
  [i \in 0..(n - 1) |-> Scale(IF i % 2 = 1 THEN -1 ELSE 1, f[UdfhtOrder(n, i)])]

OutputDst4(n, f) == [i \in 0..(n - 1) |-> Real(QuarterShifted(n, f, 1, UdfhtOrder(n, i)))]

OutputR2hc(n, f) ==
  [i \in 0..(n - 1) |-> IF i <= n \div 2 THEN Real(f[i])
                        ELSE <<f[(n - 1) \div 2 + n \div 2 + 1 - i][2], 0>>]

ExtractOutput(kind, n, f) ==
  CASE kind \in {"DCT_1", "DHT"} -> [i \in 0..(n - 1) |-> Real(f[i])]
    [] kind = "DCT_2" -> OutputDct2(n, f)
    [] kind = "DCT_3" -> OutputDct3(n, f)
    [] kind = "DCT_4" -> OutputDct4(n, f)
    [] kind = "DST_1" -> OutputDst1(n, f)
    [] kind = "DST_2" -> OutputDst2(n, f)
    [] kind = "DST_3" -> OutputDst3(n, f)
    [] kind = "DST_4" -> OutputDst4(n, f)
    [] kind = "R2HC"  -> OutputR2hc(n, f)
    [] kind = "HC2R"  -> f

-----------------------------------------------------------------------------
(* FFTW's definitions (src/docs/plfft.md names them).  Not code.           *)

R2rOutput(kind, n, x(_), k) ==
  LET r(j) == x(j)[1]
      sign == IF k % 2 = 1 THEN -1 ELSE 1
      X(i) == IF 2 * i < n /\ i > 0 THEN Pair(x(i), x(n - i)) ELSE Real(x(i))
      F(i) == Sum(n, LAMBDA j : Times(Real(x(j)), Exp(-(j * i), n)))
  IN  CASE kind = "DCT_1" -> r(0) + sign * r(n - 1)
             + 2 * Total(n - 2, LAMBDA j : r(j + 1) * Cos((j + 1) * k, 2 * (n - 1)))
        [] kind = "DCT_2" -> 2 * Total(n, LAMBDA j : r(j) * Cos((2 * j + 1) * k, 4 * n))
        [] kind = "DCT_3" -> r(0)
             + 2 * Total(n - 1, LAMBDA j : r(j + 1) * Cos((j + 1) * (2 * k + 1), 4 * n))
        [] kind = "DCT_4" -> 2 * Total(n, LAMBDA j : r(j) * Cos((2 * j + 1) * (2 * k + 1), 8 * n))
        [] kind = "DST_1" -> 2 * Total(n, LAMBDA j : r(j) * Sin((j + 1) * (k + 1), 2 * (n + 1)))
        [] kind = "DST_2" -> 2 * Total(n, LAMBDA j : r(j) * Sin((2 * j + 1) * (k + 1), 4 * n))
        [] kind = "DST_3" -> sign * r(n - 1)
             + 2 * Total(n - 1, LAMBDA j : r(j) * Sin((j + 1) * (2 * k + 1), 4 * n))
        [] kind = "DST_4" -> 2 * Total(n, LAMBDA j : r(j) * Sin((2 * j + 1) * (2 * k + 1), 8 * n))
        [] kind = "DHT"   -> Total(n, LAMBDA j : r(j) * (Cos(j * k, n) + Sin(j * k, n)))
        [] kind = "R2HC"  -> IF k <= n \div 2 THEN F(k)[1] ELSE F(n - k)[2]
        [] kind = "HC2R"  -> Total(n, LAMBDA j : Times(Hermitian(n, X, j), Exp(j * k, n))[1])

R2rOutputs(kind, n, x(_)) ==
  [k \in 0..(n - 1) |-> <<R2rOutput(kind, n, x, k) % Prime, 0>>] @@ << >>

=============================================================================
