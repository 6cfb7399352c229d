---------------------------- MODULE PlanArithmetic ----------------------------
(***************************************************************************)
(* What the planner's plans compute: the execute() of every plan class in  *)
(* src/src/planner/strategies, with its strides, distances, permutations,  *)
(* tables and twiddle factors.  An input is a function from indices to     *)
(* complex numbers read through a pointer at offset `at`; executing a plan *)
(* gives the writes through the output pointer.                            *)
(***************************************************************************)
EXTENDS PlanStrategies, Kernels

(* Tables of the convolutions.                                             *)

(* Seeded fault: the table is not read in the reversed order.              *)
PermRevIdx_Forward(n, perm, i) == CHOOSE k \in 0..(n - 2) : perm[k] = i

PermRevIdx(n, perm, i) ==
  (n - 1 - (CHOOSE k \in 0..(n - 2) : perm[k] = i)) % (n - 1)

RaderB(n, dir, perm) ==
  LET m == n - 1
  IN  [k \in 0..(m - 1) |->
        Scale(Reciprocal(m), Exp(Sign(dir) * perm[(m - k) % m], n))] @@ << >>

BluesteinW(n, dir, k) == Exp(Sign(dir) * ((k * k) % (2 * n)), 2 * n)

BluesteinB(n, pad, dir) ==
  [k \in 0..(pad - 1) |->
     IF k < n THEN Scale(Reciprocal(pad), Conj(BluesteinW(n, dir, k)))
     ELSE IF pad - k < n THEN Scale(Reciprocal(pad), Conj(BluesteinW(n, dir, pad - k)))
     ELSE Zero] @@ << >>

-----------------------------------------------------------------------------
(* The twiddled stage of a Cooley-Tukey step: r columns of m rows, each    *)
(* for `inner` neighbouring transforms.                                    *)

Stage(p, r) ==
  LET m == p.n \div r
  IN  IF IsDit(p)
      THEN [kind |-> p.kind, n |-> r, istride |-> p.howmany, ostride |-> p.ostride * m,
            rows |-> m, idist |-> p.howmany * r, odist |-> p.ostride,
            inner |-> p.howmany, dir |-> p.dir]
      ELSE [kind |-> p.kind, n |-> r, istride |-> p.istride * m, ostride |-> p.howmany,
            rows |-> m, idist |-> p.istride, odist |-> p.howmany * r,
            inner |-> p.howmany, dir |-> p.dir]

HalfLo(rows) == (rows + 1) \div 2
HalfHi(rows) == rows \div 2 + 1

(* Seeded fault: the middle row ignores its lane in a block of rows.       *)
MiddleRowOffset_NoLane(t) ==
  PremulFactor(RowLayout) *
    (((HalfLo(t.rows) - 1) \div RowLayout.interleave) * RowLayout.interleave * (t.n - 1))

(* Where ab_tfol finds the twiddles of the middle row of an even number.   *)
MiddleRowOffset(t) ==
  LET row == HalfLo(t.rows) - 1
  IN  PremulFactor(RowLayout) *
        ((row \div RowLayout.interleave) * RowLayout.interleave * (t.n - 1)
           + (row % RowLayout.interleave))

(* The twiddle factor row h applies to column k in a direct kernel.        *)
AbTwiddle(t, h, k) ==
  IF h = 0 \/ k = 0 THEN One
  ELSE IF t.kind = "r2c" /\ 2 * h = t.rows
  THEN Twiddle(t.dir, t.rows, t.n, RowLayout,
               MiddleRowOffset(t) + KernelEntry(RowLayout, t.n, 0, k))
  ELSE Twiddle(t.dir, t.rows, t.n, AbLayout, KernelEntry(AbLayout, t.n, h - 1, k))

AcTwiddle(t, h, k) ==
  IF h = 0 \/ k = 0 THEN One
  ELSE Twiddle(t.dir, t.rows, t.n, AcLayout,
               (h - 1) * PremulFactor(AcLayout) * (t.n - 1) + KernelEntry(AcLayout, t.n, 0, k))

(* Seeded fault: the mirrored outputs of a row start one block too high.   *)
MirrorOffset_High(t, h) == (t.n \div 2) * t.ostride + (t.rows - h) * t.odist

(* yyoffset: where the conjugate outputs of row h start, going down.       *)
MirrorOffset(t, h) == (t.n \div 2 - 1) * t.ostride + (t.rows - h) * t.odist

(* A row of c2c; a row of r2c, of which the first keeps half its outputs,  *)
(* the middle one its lower half, and the others write the upper outputs   *)
(* as the conjugates they are of a mirrored row.                           *)
DitRow(t, h, X) ==
  LET upper == t.n - t.n \div 2
      direct(count) == Sweep(count, LAMBDA k : Cell(h * t.odist + k * t.ostride, X[k]))
  IN  IF t.kind = "c2c" THEN direct(t.n)
      ELSE IF h = 0 THEN direct(t.n \div 2 + 1)
      ELSE IF 2 * h = t.rows THEN direct((t.n + 1) \div 2)
      ELSE Sweep(t.n \div 2, LAMBDA k :
             Cell(MirrorOffset(t, h) - k * t.ostride, Conj(X[upper + k]))) @@ direct(upper)

DitRows(t) == IF t.kind = "c2c" THEN t.rows ELSE HalfHi(t.rows)

(* Input k of row h of a half spectrum: the upper ones are the conjugates  *)
(* of a mirrored row, read downwards from xxoffset.                        *)
DifInput(t, h, k, x, at) ==
  LET lower  == IF h = 0 THEN t.n \div 2 + 1 ELSE t.n - t.n \div 2
      mirror == IF h = 0 THEN ((t.n - 1) \div 2) * t.istride
                         ELSE (t.n \div 2) * t.istride - h * t.idist
  IN  IF k < lower THEN x[at + h * t.idist + k * t.istride]
                   ELSE Conj(x[at + mirror - (k - lower) * t.istride])

(* execute() of ab_twid_direct_plan and of ac_twid_direct_plan.            *)
DirectTwid(name, t, x, at) ==
  LET Tw(h, k) == IF name = "ct_ab" THEN AbTwiddle(t, h, k) ELSE AcTwiddle(t, h, k) IN
  IF t.kind = "c2r"
  THEN Sweep(HalfHi(t.rows), LAMBDA h : Sweep(t.inner, LAMBDA c :
         LET X == Dft(t.n, t.dir, LAMBDA k : DifInput(t, h, k, x, at + c))
         IN  Sweep(t.n, LAMBDA k : Cell(c + h * t.odist + k * t.ostride, Times(X[k], Tw(h, k))))))
  ELSE Sweep(DitRows(t), LAMBDA h : Sweep(t.inner, LAMBDA c :
         LET X == Dft(t.n, t.dir, LAMBDA k :
                        Times(x[at + c + h * t.idist + k * t.istride], Tw(h, k)))
         IN  Shift(DitRow(t, h, X), c)))

-----------------------------------------------------------------------------
(* Convolutions.  The columns of the work array a are neighbours:          *)
(* a[k * columns + h] is element k of column h.                            *)

RECURSIVE Execute(_, _, _)

(* a <- ifft(fft(a) .* fft(b)), with the plans of b, forwards, backwards.  *)
Convolve(subs, columns, a, b) ==
  LET bfft == Execute(subs[1], b, 0)
      afft == Execute(subs[2], a, 0)
      prod == [i \in DOMAIN afft |-> Times(afft[i], bfft[i \div columns])] @@ << >>
  IN  Execute(subs[3], prod, 0)

(* Element k of column h of an array, by its place k * columns + h.        *)
Neighbours(n, columns, f(_, _)) ==
  [i \in 0..(n * columns - 1) |-> f(i % columns, i \div columns)] @@ << >>

(* Outputs of every column of a Rader and of a Bluestein convolution of    *)
(* the columns `in`.                                                       *)
RaderColumns(subs, n, dir, columns, in) ==
  LET m    == n - 1
      perm == RaderPermutation(n)
      a    == Neighbours(m, columns, LAMBDA h, k : in[perm[k] * columns + h])
      y0(h) == Plus(in[h], Sum(m, LAMBDA k : a[k * columns + h]))
      conv == Convolve(subs, columns, a, RaderB(n, dir, perm))
  IN  Neighbours(n, columns, LAMBDA h, k :
        IF k = 0 THEN y0(h)
        ELSE Plus(in[h], conv[PermRevIdx(n, perm, k) * columns + h]))

BluesteinColumns(subs, n, dir, columns, in) ==
  LET pad  == BluesteinConvolutionLength(n)
      a    == Neighbours(pad, columns, LAMBDA h, k :
                IF k < n THEN Times(in[k * columns + h], BluesteinW(n, dir, k)) ELSE Zero)
      conv == Convolve(subs, columns, a, BluesteinB(n, pad, dir))
  IN  Neighbours(n, columns, LAMBDA h, k : Times(conv[k * columns + h], BluesteinW(n, dir, k)))

Columns(s, subs, n, dir, columns, in) ==
  IF s.name \in {"rader", "ct_rader_ab", "ct_rader_ac"}
  THEN RaderColumns(subs, n, dir, columns, in)
  ELSE BluesteinColumns(subs, n, dir, columns, in)

(* Writes of the first count[h] elements of each column h of Y.            *)
WriteColumns(columns, count, odist, ostride, Y) ==
  Sweep(columns, LAMBDA h :
    Sweep(count[h], LAMBDA k : Cell(h * odist + k * ostride, Y[k * columns + h])))

WholeColumns(n, columns) == [h \in 0..(columns - 1) |-> n]

(* execute() of rader_plan, bluestein_plan and their _single_ forms.       *)
ConvolutionPlan(plan, x, at) ==
  LET p  == plan.p
      in(h, k) ==
        LET xh(j) == x[at + h * p.idist + j * p.istride]
        IN  IF p.kind = "c2r" THEN Hermitian(p.n, xh, k) ELSE xh(k)
      Y == Columns(plan.s, plan.subs, p.n, p.dir, p.howmany, Neighbours(p.n, p.howmany, in))
      count == IF p.kind = "r2c" THEN p.n \div 2 + 1 ELSE p.n
  IN  WriteColumns(p.howmany, WholeColumns(count, p.howmany), p.odist, p.ostride,
                   IF p.kind = "c2r" THEN [i \in DOMAIN Y |-> Real(Y[i])] ELSE Y)

(* The twiddle factor of row h and column k; Rader's table for c2c has a   *)
(* row of ones for h = 0, the others start with row 1.                     *)
UsesUnityRow(s, t) == s.name \in {"ct_rader_ab", "ct_rader_ac"} /\ t.kind = "c2c"

ConvolutionTwiddle(s, t, h, k) ==
  IF k = 0 THEN One
  ELSE IF UsesUnityRow(s, t)
  THEN Twiddle(t.dir, t.rows, t.n, Layout(FALSE, 1, TRUE), h * (t.n - 1) + (k - 1))
  ELSE IF h = 0 THEN One
  ELSE Twiddle(t.dir, t.rows, t.n, Layout(FALSE, 1, FALSE), (h - 1) * (t.n - 1) + (k - 1))

(* Element k of row h of the half spectrum of a c2r transform.             *)
HalfSpectrumInput(s, t, h, k, x, at) ==
  IF s.name \in {"ct_bluestein_ab", "ct_bluestein_ac"}
  THEN Hermitian(t.n * t.rows, LAMBDA j : x[at + j * t.idist], k * t.rows + h)
  ELSE IF k < t.n \div 2 + 1 THEN x[at + h * t.idist + k * t.istride]
  ELSE IF h = 0 THEN Conj(x[at + (t.n - k) * t.istride])
  ELSE Conj(x[at + (t.rows - h) * t.idist + (t.n - 1 - k) * t.istride])

(* How many outputs of column h of an r2c stage belong to the half         *)
(* spectrum.                                                               *)
HalfSpectrumCount(s, t, h) ==
  IF s.name \in {"ct_rader_ab", "ct_rader_ac"}
  THEN IF h < HalfHi(t.rows) THEN t.n \div 2 + 1 ELSE t.n \div 2
  ELSE IF h < (IF t.n % 2 = 0 THEN 1 ELSE HalfHi(t.rows)) THEN t.n \div 2 + 1 ELSE t.n \div 2

(* The outputs of the rader_twid_plan or bluestein_twid_plan of a stage:   *)
(* one convolution over its rows.                                          *)
ConvolutionC2c(s, subs, t, x, at) ==
  LET in(h, k) == Times(x[at + h * t.idist + k * t.istride], ConvolutionTwiddle(s, t, h, k))
  IN  WriteColumns(t.rows, WholeColumns(t.n, t.rows), t.odist, t.ostride,
                   Columns(s, subs, t.n, t.dir, t.rows, Neighbours(t.n, t.rows, in)))

(* The rows above the middle are the conjugates of mirrored ones.          *)
ConvolutionR2c(s, subs, t, x, at) ==
  LET row(h, k) == x[at + h * t.idist + k * t.istride]
      in(h, k)  == Times(IF h < HalfHi(t.rows) THEN row(h, k) ELSE Conj(row(t.rows - h, k)),
                         ConvolutionTwiddle(s, t, h, k))
  IN  WriteColumns(t.rows, [h \in 0..(t.rows - 1) |-> HalfSpectrumCount(s, t, h)],
                   t.odist, t.ostride,
                   Columns(s, subs, t.n, t.dir, t.rows, Neighbours(t.n, t.rows, in)))

ConvolutionC2r(s, subs, t, x, at) ==
  LET columns == HalfHi(t.rows)
      in(h, k) == HalfSpectrumInput(s, t, h, k, x, at)
      Y == Columns(s, subs, t.n, t.dir, columns, Neighbours(t.n, columns, in))
      out(h, k) == Times(Y[k * columns + h], ConvolutionTwiddle(s, t, h, k))
  IN  WriteColumns(columns, WholeColumns(t.n, columns), t.odist, t.ostride,
                   Neighbours(t.n, columns, out))

(* The stage for each inner transform in turn.                             *)
ConvolutionTwid(s, subs, t, x, at) ==
  Sweep(t.inner, LAMBDA c :
    Shift(CASE t.kind = "c2c" -> ConvolutionC2c(s, subs, t, x, at + c)
            [] t.kind = "r2c" -> ConvolutionR2c(s, subs, t, x, at + c)
            [] t.kind = "c2r" -> ConvolutionC2r(s, subs, t, x, at + c), c))

-----------------------------------------------------------------------------
(* execute() of every plan.                                                *)

TwiddledStage(plan, t, x, at) ==
  IF plan.s.name \in {"ct_ab", "ct_ac"}
  THEN DirectTwid(plan.s.name, t, x, at)
  ELSE ConvolutionTwid(plan.s, SubSeq(plan.subs, 1, 3), t, x, at)

(* cooley_tukey_plan: stage 1 into a buffer, stage 2 out of it.            *)
CooleyTukeyPlan(plan, x, at) ==
  LET radix == IF IsConvolution(plan.s) THEN SmallestPrimeFactor(plan.p.n) ELSE plan.s.r
      t     == Stage(plan.p, radix)
      sub   == plan.subs[Len(plan.subs)]
  IN  IF IsDit(plan.p)
      THEN LET buffer == Execute(sub, x, at) IN TwiddledStage(plan, t, buffer, 0)
      ELSE LET buffer == TwiddledStage(plan, t, x, at) IN Execute(sub, buffer, 0)

LoopPlan(plan, x, at) ==
  Sweep(plan.p.howmany, LAMBDA i :
    Shift(Execute(plan.subs[1], x, at + i * plan.p.idist), i * plan.p.odist))

Execute(plan, x, at) ==
  CASE plan.s.name \in {"direct", "fft1"}     -> KernelN(plan.p, x, at)
    [] plan.s.name = "loop"                   -> LoopPlan(plan, x, at)
    [] plan.s.name \in {"rader", "bluestein"} -> ConvolutionPlan(plan, x, at)
    [] OTHER                                  -> CooleyTukeyPlan(plan, x, at)

-----------------------------------------------------------------------------
(* A plan the planner may give for a problem.  Any applicable strategy can *)
(* win the measurements; `prefer` orders them.  The strategies are tried   *)
(* in this order and the first that can build its sub-plans is taken.      *)

RECURSIVE PlanFor(_, _, _), SubPlans(_, _, _)

SubPlans(asks, answers, prefer) ==
  IF Len(answers) = Len(asks) THEN answers
  ELSE LET ask == asks[Len(answers) + 1]
       IN  SubPlans(asks, Append(answers, PlanFor(ask.p, ask.policy, prefer)), prefer)

PlanFor(p, policy, prefer) ==
  LET Try[i \in 1..(Len(prefer) + 1)] ==
        IF i > Len(prefer) THEN NoPlan
        ELSE IF ~IsApplicable(prefer[i], p, policy) THEN Try[i + 1]
        ELSE LET subs == SubPlans(Asks(prefer[i], p, policy), << >>, prefer)
             IN  IF \E j \in DOMAIN subs : subs[j] = NoPlan THEN Try[i + 1]
                 ELSE Plan(prefer[i], p, subs)
  IN  Try[1]

=============================================================================
