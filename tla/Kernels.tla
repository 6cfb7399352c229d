-------------------------------- MODULE Kernels --------------------------------
(***************************************************************************)
(* What the plans of both planners are made of: tables of twiddle factors  *)
(* and kernels.  An array is a function from indices to complex numbers,   *)
(* and a call gives the writes through the output pointer.  A kernel does  *)
(* what its generator, providers/jit/print_algo.cpp, makes it do with its  *)
(* pointers and strides; that its additions and multiplications are those  *)
(* of a transform is taken from its name.                                  *)
(***************************************************************************)
EXTENDS ExactNumbers

CONSTANTS
  AbLayout,   (* twiddle layout of an ab kernel over several rows          *)
  RowLayout,  (* the same, of the ab kernel for a single row               *)
  AcLayout    (* the same, of an ac kernel, which takes one row at a time  *)

Layout(premul, interleave, unity) ==
  [premul |-> premul, interleave |-> interleave, unity |-> unity]

ASSUME LayoutAssumption ==
  /\ {AbLayout, RowLayout, AcLayout} \subseteq
       [premul : BOOLEAN, interleave : Nat \ {0}, unity : {FALSE}]
  /\ AcLayout.interleave = 1

-----------------------------------------------------------------------------
(* Tables.                                                                 *)

PremulFactor(layout) == IF layout.premul THEN 2 ELSE 1

(* Entry x of generate_twiddles: blocks of `interleave` rows j, in a block *)
(* columns 1..n2 - 1, in a column the rows of the block; each number may   *)
(* be followed by i times it.                                              *)
Twiddle(dir, n1, n2, layout, x) ==
  LET e   == x \div PremulFactor(layout)
      row == layout.interleave * (e \div (layout.interleave * (n2 - 1)))
               + (e % layout.interleave) + (IF layout.unity THEN 0 ELSE 1)
      i   == 1 + ((e \div layout.interleave) % (n2 - 1))
      w   == IF row < n1 THEN Exp(Sign(dir) * i * row, n1 * n2) ELSE Zero
  IN  IF x % PremulFactor(layout) = 0 THEN w ELSE Times(<<0, 1>>, w)

(* The entry a kernel reads for row j and column i of a table it was given *)
(* a pointer into.                                                         *)
KernelEntry(layout, n, j, i) ==
  PremulFactor(layout) *
    ((j \div layout.interleave) * layout.interleave * (n - 1)
       + (i - 1) * layout.interleave + (j % layout.interleave))

(* The first generator of the multiplicative group of a prime n.           *)
FindGroupGenerator(n) ==
  CHOOSE g \in 2..(n - 1) :
    /\ Cardinality({x \in 1..(n - 1) : \E k \in 0..(n - 2) : (g ^ k) % n = x}) = n - 1
    /\ \A c \in 2..(g - 1) :
         Cardinality({x \in 1..(n - 1) : \E k \in 0..(n - 2) : (c ^ k) % n = x}) < n - 1

RaderPermutation(n) ==
  LET g == FindGroupGenerator(n)
  IN  [k \in 0..(n - 2) |-> (g ^ k) % n] @@ << >>

-----------------------------------------------------------------------------
(* Whole transforms by a kernel: `ab_n`, and fft1 for length 1.            *)

(* The outputs of one transform of the kinds the API offers.               *)
Outputs(kind, n, dir, x) ==
  CASE kind = "c2c" -> Dft(n, dir, LAMBDA j : x[j])
    [] kind = "r2c" -> LET X == Dft(n, dir, LAMBDA j : x[j]) IN [k \in 0..(n \div 2) |-> X[k]]
    [] kind = "c2r" -> LET X == Dft(n, dir, LAMBDA k : Hermitian(n, LAMBDA j : x[j], k))
                       IN  [k \in 0..(n - 1) |-> Real(X[k])]

KernelN(p, x, at) ==
  Sweep(p.howmany, LAMBDA h :
    LET X == Outputs(p.kind, p.n, p.dir,
                      [j \in 0..(p.n - 1) |-> x[at + h * p.idist + j * p.istride]])
    IN  Sweep(Cardinality(DOMAIN X), LAMBDA k : Cell(h * p.odist + k * p.ostride, X[k])))

-----------------------------------------------------------------------------
(* Twiddled kernels and the plain ones for a half spectrum.                *)
(*                                                                         *)
(* A call c has the kernel's parameters: pointers x, xx, y, yy and w,      *)
(* strides and distances, howmany; its length n, direction and order; and  *)
(* of the table behind w the layout and the number of rows.                *)

(* Inputs read from xx, backwards, as conjugates: those from this one on.  *)
InputsRead(name, n) ==
  CASE name \in {"nbih", "tbih"} -> n \div 2 + 1
    [] name = "tbil"             -> n \div 2
    [] OTHER                     -> n

(* Outputs written to y; those above go to yy for tfj, and nowhere for the *)
(* others.                                                                 *)
OutputsWritten(name, n) ==
  CASE name = "nfoh" -> n \div 2 + 1
    [] name \in {"tfol", "tfj"} -> (n + 1) \div 2
    [] OTHER -> n

(* xx and yy move against x and y from row to row of an ab kernel.         *)
MirrorStep(c) == IF c.order = "AB" THEN -1 ELSE 1

KernelInput(name, c, x, h, k) ==
  LET direct == InputsRead(name, c.n)
  IN  IF k < direct
      THEN x[c.x + h * c.idist + k * c.istride]
      ELSE Conj(x[c.xx + MirrorStep(c) * h * c.idist - (k - direct) * c.istride])

(* Only an ab kernel moves its twiddle pointer from row to row.            *)
KernelTwiddle(name, c, h, k) ==
  IF k = 0 \/ name \in {"n", "nfoh", "nbih"} THEN One
  ELSE Twiddle(c.dir, c.rows, c.n, c.layout,
               c.w + KernelEntry(c.layout, c.n, IF c.order = "AB" THEN h ELSE 0, k))

KernelOutputs(name, c, h, X) ==
  LET direct == OutputsWritten(name, c.n)
      mirror == IF name = "tfj" THEN c.n - direct ELSE 0
  IN  Sweep(mirror, LAMBDA k :
        Cell(c.yy + MirrorStep(c) * h * c.odist - k * c.ostride, Conj(X[direct + k])))
      @@ Sweep(direct, LAMBDA k : Cell(c.y + h * c.odist + k * c.ostride, X[k]))

(* Decimation in time multiplies the inputs by twiddle factors and         *)
(* decimation in frequency the outputs.                                    *)
IsDif(name) == name \in {"nbih", "tbih", "tbil"}

Kernel(name, c, x) ==
  Sweep(c.howmany, LAMBDA h :
    IF IsDif(name)
    THEN LET X == Dft(c.n, c.dir, LAMBDA k : KernelInput(name, c, x, h, k))
         IN  KernelOutputs(name, c, h,
               [k \in 0..(c.n - 1) |-> Times(X[k], KernelTwiddle(name, c, h, k))])
    ELSE KernelOutputs(name, c, h,
           Dft(c.n, c.dir, LAMBDA k :
             Times(KernelInput(name, c, x, h, k), KernelTwiddle(name, c, h, k)))))

=============================================================================
