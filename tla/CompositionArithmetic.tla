------------------------- MODULE CompositionArithmetic -------------------------
(***************************************************************************)
(* What the compositions of the legacy planner compute: how                *)
(* exec_compositor runs the levels of a composition through its two        *)
(* buffers, and what each kind of level (level_ab_n, level_ab_t,           *)
(* level_abx_t, level_ac_t, Rader, Bluestein) does with its pointers,      *)
(* strides, twiddle tables and threads.                                    *)
(*                                                                         *)
(* A composition c is a record of the call of make_1d_plan: kind, dir,     *)
(* howmany, istride, ostride, idist, odist and sme (want_sme); n and the   *)
(* levels; and direct, whether n1 - 1 has a kernel at a level of Rader's.  *)
(***************************************************************************)
EXTENDS Compositor, Kernels, ParallelSplit, AotKernels

CONSTANTS
  ParallelThreshold,   (* fft_parallel_threshold                           *)
  MaxThreads,          (* get_max_threads()                                *)
  Sizes,               (* stand-ins for the factors, see Scaled            *)
  Longest,             (* no stand-in for a composition is longer          *)
  RaderParts,          (* factors of what stands for n1 - 1, by size       *)
  PaddedParts          (* factors of a length to pad to, by size           *)

ASSUME ArithmeticAssumption ==
  /\ ParallelThreshold \in Nat /\ MaxThreads \in Nat \ {0}
  /\ \A s \in Sizes :
       /\ s.even % 2 = 0 /\ s.odd % 2 = 1 /\ s.prime % 2 = 1
       /\ Product(RaderParts[s.prime]) = s.prime - 1
       /\ Product(PaddedParts[s.prime]) >= 2 * s.prime - 1

IsDecimationInTime(c) == c.kind # "c2r"

-----------------------------------------------------------------------------
(* The levels of a composition (composite_init_from_factors).              *)

FactorsBefore(c, i) == FoldLeft(LAMBDA a, l : a * l.n1, 1, SubSeq(c.levels, 1, i - 1))
FactorsAfter(c, i)  == FoldLeft(LAMBDA a, l : a * l.n1, 1, SubSeq(c.levels, i + 1, Len(c.levels)))

IsTwiddled(c, i) == IF IsDecimationInTime(c) THEN i > 1 ELSE i < Len(c.levels)

(* n2.                                                                     *)
RowsOf(c, i) ==
  IF Len(c.levels) = 1 THEN 1
  ELSE IF ~IsTwiddled(c, i) THEN c.levels[IF i = 1 THEN 2 ELSE 1].n1
  ELSE IF IsDecimationInTime(c) THEN FactorsBefore(c, i) ELSE FactorsAfter(c, i)

Strides(hm, istride, ostride, idist, odist) ==
  [hm |-> hm, istride |-> istride, ostride |-> ostride, idist |-> idist, odist |-> odist]

(* get_n_kernel_params.                                                    *)
UntwiddledStrides(c, n1, n2) ==
  LET hm == c.n \div n1
  IN  IF c.n = n1 /\ n2 = 1
      THEN Strides(c.howmany, c.istride, c.ostride, c.idist, c.odist)
      ELSE IF IsDecimationInTime(c)
      THEN Strides(hm, c.istride * hm, hm, c.istride, 1)
      ELSE Strides(hm, hm, c.ostride * hm, 1, c.ostride)

(* get_direct_t_level_params.                                              *)
DirectStrides(c, n1, n2) ==
  LET hm_lev == c.n \div (n1 * n2)
      dit    == IsDecimationInTime(c)
  IN  CASE hm_lev # 1 /\ dit  -> Strides(hm_lev, hm_lev, hm_lev * n2, hm_lev * n1, hm_lev)
        [] hm_lev # 1 /\ ~dit -> Strides(hm_lev, hm_lev * n2, hm_lev, hm_lev, hm_lev * n1)
        [] hm_lev = 1 /\ dit  -> Strides(n2, 1, c.ostride * n2, n1, c.ostride)
        [] hm_lev = 1 /\ ~dit -> Strides(n2 \div 2 + 1, c.istride * n2, 1, c.istride, n1)

(* get_prime_t_level_params.                                               *)
PrimeStrides(c, n1, n2) ==
  LET hm_lev == c.n \div (n1 * n2)
      dit    == IsDecimationInTime(c)
      outer  == IF hm_lev # 1 THEN 1 ELSE IF dit THEN c.ostride ELSE c.istride
  IN  IF dit THEN Strides(n2, hm_lev, outer * hm_lev * n2, hm_lev * n1, hm_lev * outer)
             ELSE Strides(n2, outer * hm_lev * n2, hm_lev, hm_lev * outer, hm_lev * n1)

(* make_level_data and the constructors: level i of c.                     *)
LevelOf(c, i) ==
  LET l   == c.levels[i]
      n2  == RowsOf(c, i)
      twiddled == IsTwiddled(c, i)
      strides == IF ~twiddled THEN UntwiddledStrides(c, l.n1, n2)
                 ELSE IF l.by = "direct" THEN DirectStrides(c, l.n1, n2)
                 ELSE PrimeStrides(c, l.n1, n2)
  IN  [c |-> c, by |-> l.by, n1 |-> l.n1, n2 |-> n2, lanes |-> c.n \div (l.n1 * n2),
       twiddled |-> twiddled, internal |-> i \in 2..(Len(c.levels) - 1)] @@ strides

-----------------------------------------------------------------------------
(* The iterations of a level's parallel loop over its rows: make_parallel_ *)
(* split from fft_parallel_threshold on, else all rows at once.            *)

SplitOf(l, rows, interleave) ==
  MakeParallelSplit(rows, interleave, IF l.c.n >= ParallelThreshold THEN MaxThreads ELSE 1)

(* level_ab_n.                                                             *)
LevelAbN(l, x, at) ==
  LET split == SplitOf(l, l.hm, 1)
      p == [kind |-> l.c.kind, n |-> l.n1, dir |-> l.c.dir, istride |-> l.istride,
            ostride |-> l.ostride, idist |-> l.idist, odist |-> l.odist]
  IN  Sweep(split.threads, LAMBDA t :
        LET start == WorkStart(t, split)
        IN  Shift(KernelN(p @@ [howmany |-> WorkCount(t, split)], x, at + start * l.idist),
                  start * l.odist))

-----------------------------------------------------------------------------
(* Twiddled levels of kernels.                                             *)

(* The kernels of a level for row 0 and for the others.                    *)
PlainKernel(l) == [c2c |-> "n", r2c |-> "nfoh", c2r |-> "nbih"][l.c.kind]

RowKernel(l) ==
  [c2c |-> "t", r2c |-> "tfj", c2r |-> IF l.n1 % 2 = 0 THEN "tbil" ELSE "tbih"][l.c.kind]

HalfRows(l) == (l.n2 + 1) \div 2           (* n2halflo_                    *)

(* Rows 1, 2, ... the row kernel is called for.                            *)
TwiddledRows(l) ==
  [c2c |-> l.n2 - 1, r2c |-> HalfRows(l) - 1, c2r |-> l.n2 \div 2][l.c.kind]

HasMiddleRow(l) == l.c.kind = "r2c" /\ l.n2 % 2 = 0

(* yend_, ireflect_n_ and ireflect_t_.                                     *)
OutputsEnd(l) == (l.n1 \div 2 - 1) * l.ostride + l.n2 * l.odist

InputStep(l) == l.lanes * (IF l.internal THEN 1 ELSE l.c.istride)

ReflectPlain(l) ==
  (IF l.n1 % 2 = 0 THEN l.n1 \div 2 - 1 ELSE l.n1 \div 2) * l.n2 * InputStep(l)

ReflectRows(l) ==
  ReflectPlain(l) + (IF l.n1 % 2 = 0 THEN (l.n2 - 1) * InputStep(l) ELSE -InputStep(l))

(* The arguments of a call for row 0; and the same moved to row h >= 1.    *)
FirstRow(l, order, layout, at) ==
  [n |-> l.n1, dir |-> l.c.dir, order |-> order, rows |-> l.n2, layout |-> layout,
   x |-> at, xx |-> at + ReflectPlain(l), y |-> 0, yy |-> 0, w |-> 0,
   istride |-> l.istride, ostride |-> l.ostride]

Row(l, order, layout, at, h) ==
  [FirstRow(l, order, layout, at) EXCEPT
     !.x  = at + h * l.idist,       !.xx = at + ReflectRows(l) - (h - 1) * l.idist,
     !.y  = h * l.odist,            !.yy = OutputsEnd(l) - h * l.odist,
     !.w  = (h - 1) * PremulFactor(layout) * (l.n1 - 1)]

Once == [howmany |-> 1, idist |-> 0, odist |-> 0]

(* Seeded fault: the middle row is taken for the first of its block.       *)
MiddleRowTwiddles_NoLane(l) ==
  PremulFactor(RowLayout) * ((HalfRows(l) - 1) \div RowLayout.interleave)
    * RowLayout.interleave * (l.idist - 1)

(* offsetw_tfh of level_ab_t for r2c.                                      *)
MiddleRowTwiddles(l) ==
  LET row == HalfRows(l) - 1
      block == row \div RowLayout.interleave
  IN  PremulFactor(RowLayout) *
        (block * RowLayout.interleave * (l.idist - 1) + (row % RowLayout.interleave))

(* level_ab_t: an input or output level.                                   *)
LevelAbT(l, x, at) ==
  LET split == SplitOf(l, TwiddledRows(l), AbLayout.interleave)
      row0  == Kernel(PlainKernel(l), FirstRow(l, "NA", AbLayout, at) @@ Once, x)
      rows  == Sweep(split.threads, LAMBDA t :
                 Kernel(RowKernel(l),
                        Row(l, "AB", AbLayout, at, WorkStart(t, split) + 1)
                          @@ [howmany |-> WorkCount(t, split),
                              idist |-> l.idist, odist |-> l.odist], x))
      middle == [Row(l, "AB", RowLayout, at, HalfRows(l)) EXCEPT !.w = MiddleRowTwiddles(l)]
  IN  (IF HasMiddleRow(l) THEN Kernel("tfol", middle @@ Once, x) ELSE << >>) @@ rows @@ row0

(* level_abx_t, for SME: row 0 has twiddle factors too, all one.           *)
LevelAbxT(l, x, at) ==
  LET layout == Layout(AbLayout.premul, AbLayout.interleave, TRUE)
      split  == SplitOf(l, l.hm, layout.interleave)
      rowAt(start) ==
        [FirstRow(l, "AB", layout, at) EXCEPT
           !.x = at + start * l.idist, !.y = start * l.odist,
           !.w = start * PremulFactor(layout) * (l.n1 - 1)]
  IN  Sweep(split.threads, LAMBDA t :
        Kernel("t", rowAt(WorkStart(t, split))
                      @@ [howmany |-> WorkCount(t, split), idist |-> l.idist, odist |-> l.odist],
               x))

(* level_ac_t: an internal level, whose kernels run over its lanes.        *)
LevelAcT(l, x, at) ==
  LET split == SplitOf(l, TwiddledRows(l), 1)
      lanes == [howmany |-> l.hm, idist |-> 1, odist |-> 1]
      row0  == Kernel(PlainKernel(l), FirstRow(l, "NA", AcLayout, at) @@ lanes, x)
      row(name, h) == Kernel(name, Row(l, "AC", AcLayout, at, h) @@ lanes, x)
      rows  == Sweep(split.threads, LAMBDA t :
                 Sweep(WorkCount(t, split), LAMBDA i :
                   row(RowKernel(l), WorkStart(t, split) + 1 + i)))
  IN  (IF HasMiddleRow(l) THEN row("tfol", HalfRows(l)) ELSE << >>) @@ rows @@ row0

(* The kernels the constructors of a level of kernels ask for: howmany is  *)
(* not given, and twiddled levels give the strides of the composition.     *)
LevelCalls(l, data) ==
  LET t == [kind |-> l.c.kind, data |-> data, sme |-> l.c.sme, n |-> l.n1, rows |-> l.n2,
            istride |-> IF l.twiddled THEN l.c.istride ELSE l.istride,
            ostride |-> IF l.twiddled THEN l.c.ostride ELSE l.ostride,
            idist |-> l.idist, odist |-> l.odist]
      rowsOf == Call("t", Request(t, Unknown, t.idist, t.odist, "AB"))
  IN  IF ~l.twiddled THEN DirectCalls(t, Unknown)
      ELSE IF l.internal THEN AcTwidCalls(t, Unknown)
      ELSE IF l.c.kind # "c2c" THEN AbTwidCalls(t)
      ELSE IF l.c.sme THEN {rowsOf}
      ELSE {Call("n", Request(t, 1, t.idist, t.odist, "NA")), rowsOf}

-----------------------------------------------------------------------------
(* Rader's and Bluestein's levels.                                         *)

ConvolutionTwiddle(l, h, k) ==
  IF ~l.twiddled \/ h = 0 \/ k = 0 THEN One
  ELSE Twiddle(l.c.dir, l.n2, l.n1, Layout(FALSE, 1, FALSE), (l.n1 - 1) * (h - 1) + k - 1)

ConvolutionRows(l) == IF l.twiddled /\ l.c.kind = "c2r" THEN l.n2 \div 2 + 1 ELSE l.hm

(* Only the first half of the rows of r2c are there.                       *)
MirroredRow(l, h) == l.twiddled /\ l.c.kind = "r2c" /\ h >= l.hm \div 2 + 1

(* Element k of row h of an upper half of c2r, as the conjugate of:        *)
UpperInput(l, h, k) ==
  CASE ~l.twiddled \/ (l.by = "rader" /\ h = 0) -> h * l.idist + (l.n1 - k) * l.istride
    [] l.twiddled /\ l.by = "rader" /\ h > 0 ->
         (l.hm - h) * l.idist + (l.n1 - 1 - k) * l.istride
    [] l.twiddled /\ l.by = "bluestein" ->
         (l.n1 \div 2) * l.istride - (k - (l.n1 \div 2 + 1)) * l.istride - h * l.idist

ConvolutionInput(l, x, at, h, k) ==
  IF l.c.kind = "c2r"
  THEN IF k >= l.n1 \div 2 + 1 THEN Conj(x[at + UpperInput(l, h, k)])
                               ELSE x[at + h * l.idist + k * l.istride]
  ELSE Times(ConvolutionTwiddle(l, h, k),
             IF MirroredRow(l, h)
             THEN Conj(x[at + (l.hm - h) * l.idist + k * l.istride])
             ELSE x[at + h * l.idist + k * l.istride])

(* How many outputs of a row are written.                                  *)
ConvolutionOutputs(l, h) ==
  IF l.c.kind # "r2c" THEN l.n1
  ELSE l.n1 \div 2 + (IF ~l.twiddled \/ h <= l.hm \div 2 THEN 1 ELSE 0)

ConvolutionOutput(l, h, k, Y) ==
  IF l.c.kind # "c2r" THEN Y
  ELSE IF l.twiddled THEN Times(Y, ConvolutionTwiddle(l, h, k)) ELSE Real(Y)

RECURSIVE Execute(_, _, _)

(* A sub-plan of create_rader and create_bluestein, in place.              *)
SubPlan(parts, dir) ==
  [kind |-> "c2c", dir |-> dir, n |-> Product(parts), howmany |-> 1, istride |-> 1,
   ostride |-> 1, idist |-> 0, odist |-> 0, sme |-> FALSE, direct |-> FALSE,
   levels |-> [i \in DOMAIN parts |-> [n1 |-> parts[i], by |-> "direct"]]]

(* exec_convolution of one column of length m.                             *)
Convolve(parts, a, b) ==
  LET m == Product(parts)
      spectrum == Execute(SubPlan(parts, "FORWARD"), a, 0)
      bfft == Execute(SubPlan(parts, "FORWARD"), b, 0)
  IN  Execute(SubPlan(parts, "BACKWARD"),
              [j \in 0..(m - 1) |-> Scale(Reciprocal(m), Times(spectrum[j], bfft[j]))] @@ << >>,
              0)

(* work_stride: the rows the level was planned for.                        *)
WorkStride(l) ==
  IF ~l.twiddled THEN IF Len(l.c.levels) = 1 THEN l.c.howmany ELSE l.n2 * l.lanes
  ELSE IF l.c.kind = "c2r" THEN l.n2 \div 2 + 1 ELSE l.n2

(* exec_convolution of all rows at once, by kernels of length m; element j *)
(* of row h is at h + j * work_stride.                                     *)
ConvolveRows(l, m, rows, a, b) ==
  LET p(dir) == [kind |-> "c2c", n |-> m, dir |-> dir, howmany |-> rows,
                 istride |-> WorkStride(l), ostride |-> WorkStride(l), idist |-> 1, odist |-> 1]
      bfft == Execute(SubPlan(<< m >>, "FORWARD"), b, 0)
      spectrum == KernelN(p("FORWARD"), a, 0)
  IN  KernelN(p("BACKWARD"),
              [i \in DOMAIN spectrum |->
                 Scale(Reciprocal(m), Times(spectrum[i], bfft[i \div WorkStride(l)]))] @@ << >>,
              0)

(* gmul_fw_perm and ginvmul_fw_perm.                                       *)
Forwards(n, j) == RaderPermutation(n)[j]
Backwards(n, j)  == RaderPermutation(n)[(n - 1 - j) % (n - 1)]

RaderB(l) ==
  [j \in 0..(l.n1 - 2) |-> Exp(Sign(l.c.dir) * Backwards(l.n1, j), l.n1)] @@ << >>

(* Outputs of the rows of a level of Rader's, row h of them at             *)
(* h * n1 + k.  In is what ConvolutionInput gives, laid out so too.        *)
RaderRows(l, rows, in) ==
  LET n == l.n1
      ws == WorkStride(l)
      conv == IF l.c.direct
              THEN ConvolveRows(l, n - 1, rows,
                     [i \in {h + j * ws : h \in 0..(rows - 1), j \in 0..(n - 2)} |->
                        in[(i % ws) * n + Forwards(n, i \div ws)]] @@ << >>, RaderB(l))
              ELSE Sweep(rows, LAMBDA h :
                     LET Y == Convolve(RaderParts[n],
                                [j \in 0..(n - 2) |-> in[h * n + Forwards(n, j)]] @@ << >>,
                                RaderB(l))
                     IN  Sweep(n - 1, LAMBDA j : Cell(h + j * ws, Y[j])))
  IN  Sweep(rows, LAMBDA h :
        Sweep(n - 1, LAMBDA j :
          Cell(h * n + Backwards(n, j), Plus(conv[h + j * ws], in[h * n])))
        @@ Cell(h * n, Sum(n, LAMBDA k : in[h * n + k])))

Chirp(n, k) == Exp(-((k * k) % (2 * n)), 2 * n)

BluesteinB(n, n_pad) ==
  [k \in 0..(n_pad - 1) |->
     IF k < n THEN Conj(Chirp(n, k))
     ELSE IF n_pad - k < n THEN Conj(Chirp(n, n_pad - k)) ELSE Zero] @@ << >>

(* Backwards, the outputs are the forward ones in reverse.                 *)
BluesteinRows(l, rows, in) ==
  LET n == l.n1
      n_pad == Product(PaddedParts[n])
      place(i) == IF l.c.dir = "BACKWARD" THEN (n - i) % n ELSE i
  IN  Sweep(rows, LAMBDA h :
        LET Y == Convolve(PaddedParts[n],
                   [k \in 0..(n_pad - 1) |->
                      IF k < n THEN Times(Chirp(n, k), in[h * n + k]) ELSE Zero] @@ << >>,
                   BluesteinB(n, n_pad))
        IN  Sweep(n, LAMBDA i : Cell(h * n + place(i), Times(Y[i], Chirp(n, i)))))

(* The rows of one lane.                                                   *)
ConvolutionLane(l, x, at) ==
  LET rows == ConvolutionRows(l)
      in   == [i \in 0..(rows * l.n1 - 1) |->
                 ConvolutionInput(l, x, at, i \div l.n1, i % l.n1)] @@ << >>
      Y    == IF l.by = "rader" THEN RaderRows(l, rows, in) ELSE BluesteinRows(l, rows, in)
  IN  Sweep(rows, LAMBDA h :
        Sweep(ConvolutionOutputs(l, h), LAMBDA k :
          Cell(h * l.odist + k * l.ostride, ConvolutionOutput(l, h, k, Y[h * l.n1 + k]))))

(* level_rader_n, level_bluestein_n; level_rader_t, level_bluestein_t: lane *)
(* by lane.                                                                *)
LevelConvolution(l, x, at) ==
  LET dit == IsDecimationInTime(l.c)
      inStep  == IF dit THEN 1 ELSE l.idist \div l.lanes
      outStep == IF dit THEN l.odist \div l.lanes ELSE 1
  IN  Sweep(IF l.twiddled THEN l.lanes ELSE 1, LAMBDA i :
        Shift(ConvolutionLane(l, x, at + i * inStep), i * outStep))

-----------------------------------------------------------------------------
(* exec_compositor.                                                        *)

ExecuteLevel(l, x, at) ==
  IF l.by # "direct" THEN LevelConvolution(l, x, at)
  ELSE IF ~l.twiddled THEN LevelAbN(l, x, at)
  ELSE IF l.internal THEN LevelAcT(l, x, at)
  ELSE IF l.c.sme /\ l.c.kind = "c2c" THEN LevelAbxT(l, x, at)
  ELSE LevelAbT(l, x, at)

(* A buffer holds n elements: what is written beyond them is lost to the   *)
(* other buffer or to another thread's.                                    *)
Buffered(c, w) == [a \in DOMAIN w \cap (0..(c.n - 1)) |-> w[a]] @@ << >>

ExecuteRow(c, x, at) ==
  FoldLeft(LAMBDA from, i :
             LET w == ExecuteLevel(LevelOf(c, i), from.x, from.at)
             IN  [x |-> IF i < Len(c.levels) THEN Buffered(c, w) ELSE w, at |-> 0],
           [x |-> x, at |-> at], [i \in DOMAIN c.levels |-> i]).x

(* A composition of one level leaves the batch to it.                      *)
Execute(c, x, at) ==
  Sweep(IF Len(c.levels) = 1 THEN 1 ELSE c.howmany, LAMBDA i :
    Shift(ExecuteRow(c, x, at + i * c.idist), i * c.odist))

-----------------------------------------------------------------------------
(* The compositions the planner times, with their factors scaled down.     *)
(* Which kernels a level calls, whether it has a middle row, and where its *)
(* mirrored inputs and outputs lie depends on the parity of n1 and n2, on  *)
(* its algorithm and its place: a kernel of even length is replaced by     *)
(* s.even, of odd length by s.odd, and a prime by s.prime.                 *)
Scaled(levels, s) ==
  [i \in DOMAIN levels |->
     [by |-> levels[i].by,
      n1 |-> IF levels[i].by # "direct" THEN s.prime
             ELSE IF levels[i].n1 % 2 = 0 THEN s.even ELSE s.odd]]

(* One transform; and two, interleaved, with a gap between their outputs.  *)
Single == [howmany |-> 1, istride |-> 1, ostride |-> 1, idist |-> 0, odist |-> 0]
Two    == [howmany |-> 2, istride |-> 2, ostride |-> 3, idist |-> 1, odist |-> 1]

Problems ==
  {[kind |-> "c2c", dir |-> "FORWARD", sme |-> FALSE] @@ Two,
   [kind |-> "c2c", dir |-> "BACKWARD", sme |-> TRUE] @@ Single,
   [kind |-> "r2c", dir |-> "FORWARD", sme |-> FALSE] @@ Two,
   [kind |-> "c2r", dir |-> "BACKWARD", sme |-> FALSE] @@ Two}

Sample(kind, n) ==
  [a \in 0..(2 * n) |->
     <<(((a * a) % Prime) * 7 + 3 * a + 1) % Prime,
       IF kind = "r2c" THEN 0 ELSE (((a * a * a) % Prime) * 5 + a + 2) % Prime>>] @@ << >>

LengthOf(levels) == FoldLeft(LAMBDA a, l : a * l.n1, 1, levels)

ComputesTransform(levels) ==
  \A q \in Problems, direct \in IF Uses(levels, "rader") THEN BOOLEAN ELSE {FALSE} :
    LET c == q @@ [n |-> LengthOf(levels), levels |-> levels, direct |-> direct]
        x == Sample(c.kind, c.n)
    IN  Execute(c, x, 0) = KernelN(c, x, 0)

(* The stand-ins for a composition, of a length that can be computed.      *)
ScaledDown(levels) ==
  {shape \in {Scaled(levels, s) : s \in Sizes} : LengthOf(shape) <= Longest}

(* The orders of the factors of a length, with their algorithms.           *)
CandidatesFor(n) ==
  {[i \in DOMAIN f |-> [n1 |-> f[p[i]], by |-> Algorithm(f[p[i]], timed, raders, TRUE)]] :
     timed \in BOOLEAN, raders \in BOOLEAN,
     <<f, p>> \in UNION {{g} \X Permutations(DOMAIN g) :
                           g \in factorize_square(n) \cup {factorize_descending(n)}}}

ExactShapes ==
  {shape \in UNION {ScaledDown(levels) : levels \in UNION {CandidatesFor(n) : n \in Lengths \ {1}}} :
     ComputesTransform(shape)}

(* The levels themselves, of their real lengths, for every kind of         *)
(* transform and type of data, with SME and without.                       *)
FindsItsKernels(levels) ==
  \A q \in Problems, data \in {"FP16", "FP32", "FP64"}, sme \in BOOLEAN :
    LET c == [q EXCEPT !.sme = sme] @@ [n |-> LengthOf(levels), levels |-> levels, direct |-> TRUE]
    IN  \A i \in DOMAIN levels : levels[i].by = "direct" =>
          \A asked \in LevelCalls(LevelOf(c, i), data), sve \in BOOLEAN : IsServed(asked, sve)

(* Every composition that is timed, and the one that is kept, computes the *)
(* transform of the problem: in whatever order its levels come, by         *)
(* whatever algorithms, for complex and real data, both directions, with   *)
(* the strides of a batch, on one thread or more; and every kernel that a  *)
(* level of it calls exists.  The audition compares times only, and never  *)
(* an output.                                                              *)
CandidatesAreExact ==
  \A levels \in {measured.levels, comp.levels} :
    levels # << >> => /\ ScaledDown(levels) # {} /\ ScaledDown(levels) \subseteq ExactShapes
                      /\ FindsItsKernels(levels)

=============================================================================
