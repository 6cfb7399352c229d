----------------------------- MODULE MCTransforms -----------------------------
(***************************************************************************)
(* Small transforms for TLC.  A configuration for one of the longer        *)
(* lengths is used as created; the shorter ones get every batch layout.    *)
(***************************************************************************)
EXTENDS Transforms

CONSTANTS
  FftLengths,      (* of c2c, r2c and c2r configurations                   *)
  R2rLengths,      (* of real-to-real configurations                       *)
  BatchLengths     (* of the configurations that get batches               *)

MCBase == << 2, 3 >>
MCRowLayout == Layout(TRUE, 2, FALSE)
MCAcLayout == Layout(TRUE, 1, FALSE)

MCBuilds ==
  { [openmp |-> FALSE, fixed |-> TRUE, sme |-> "on this CPU", fp16 |-> FALSE],
    [openmp |-> TRUE, fixed |-> FALSE, sme |-> "not on this CPU", fp16 |-> TRUE] }

New(kind, payload, n) == [kind |-> kind, payload |-> payload, n |-> n]

MCCreated ==
  { New("C2C", dir, n) : dir \in Directions, n \in FftLengths }
    \cup { New(kind, "none", n) : kind \in {"R2C", "C2R"}, n \in FftLengths }
    \cup { New("R2R", kind, n) : kind \in R2rKinds, n \in R2rLengths }
    \cup { New("C2C", "SIDEWAYS", 4), New("R2R", "DCT_9", 4), New("C2C", "FORWARD", 0) }

Batch(howmany, istride, idist, ostride, odist) ==
  [howmany |-> howmany, istride |-> istride, idist |-> idist, ostride |-> ostride,
   odist |-> odist]

(* One strided transform; members one after another, the reals of an       *)
(* in-place r2c or c2r padded to its complex numbers; members interleaved, *)
(* three but for the longer executions of an r2r plan; a transposing       *)
(* batch; and two batches that are refused.                                *)
MCBatchesOf(c) ==
  IF c.n \notin BatchLengths THEN {}
  ELSE LET half == c.n \div 2 + 1
       IN  { Batch(1, 2, 0, 3, 0),
             CASE c.kind = "R2C" -> Batch(2, 1, 2 * half, 1, half)
               [] c.kind = "C2R" -> Batch(2, 1, half, 1, 2 * half)
               [] OTHER          -> Batch(2, 1, c.n, 1, c.n),
             IF c.kind = "R2R" THEN Batch(2, 2, 1, 2, 1) ELSE Batch(3, 3, 1, 3, 1),
             Batch(2, 2, 1, 1, c.n),
             Batch(2, 1, c.n, 1, 0), Batch(0, 1, c.n, 1, c.n) }

Setting(field, value) == [field |-> field, value |-> value]

MCSettings ==
  { Setting("alias", "MAY_ALIAS"), Setting("data", "FP16"), Setting("data", "Q15"),
    Setting("sme", "ENABLED"), Setting("rigor", "HASTY") }

Prefer(names) ==
  FoldLeft(LAMBDA order, name : order \o SelectSeq(Strategies, LAMBDA s : s.name = name),
           << >>, names)

(* Kernels first, decimations and Rader first, Bluestein first.            *)
MCPreferences ==
  { Strategies,
    Prefer(<< "ct_rader_ab", "ct_rader_ac", "ct_ab", "ct_ac", "rader", "direct", "loop", "fft1" >>),
    Prefer(<< "ct_bluestein_ab", "ct_bluestein_ac", "bluestein", "loop", "direct",
              "ct_ac", "ct_ab", "fft1" >>) }

MCPlaces ==
  { [in |-> 0, out |-> MemorySize \div 2], [in |-> 0, out |-> 0], [in |-> 0, out |-> 3] }

=============================================================================
