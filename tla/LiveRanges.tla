------------------------------ MODULE LiveRanges ------------------------------
(***************************************************************************)
(* The code a sloejit function holds, and where its registers are live     *)
(* (sloejit/src/ir.cpp, instruction.hpp, block.hpp, interval.hpp).         *)
(*                                                                         *)
(* Register spaces, lane masks and the registers that are never allocated  *)
(* (x29, x30, sp, xzr) are left out: the model has one space of NumRegs    *)
(* physical registers, and every larger number is a virtual register.      *)
(***************************************************************************)
EXTENDS Integers, Sequences, SequencesExt, FiniteSets, FiniteSetsExt

CONSTANTS
  NumRegs,    (* physical registers 1..NumRegs (arch_traits.max_preg_num)  *)
  Preserved,  (* those a function must preserve (pcs_preserve)             *)
  Gap         (* instruction k of a block starts at position k * Gap; the  *)
              (* code has doubles 1.0 apart, this bound has log2(Gap) bits *)

ASSUME RegisterAssumption ==
  /\ NumRegs \in Nat \ {0}
  /\ Preserved \subseteq 1..NumRegs
  /\ Gap \in Nat \ {0} /\ Gap % 4 = 0

PhysRegs == 1..NumRegs
IsVirtual(r) == r > NumRegs

(* An instruction: id (its place in the source, or <<0, n>> when register  *)
(* allocation inserted it), kind, the registers of its output and input    *)
(* operands, the block it branches to, its stack slot and its position.    *)
Kinds == {"op", "mov", "call", "b", "cb", "ret", "str", "ldr", "gone"}

(* What a call leaves undefined (get_pcs_clobbered).                       *)
ClobberedBy(i) == IF i.kind = "call" THEN PhysRegs \ Preserved ELSE {}

Outs(i) == ToSet(i.outs)
Ins(i) == ToSet(i.ins)
Mentions(i) == Outs(i) \cup Ins(i) \cup ClobberedBy(i)

(* The physical registers the operands r may be given: the arguments of a  *)
(* call go to the parameter registers in order (get_pcs_reg_choices_for_   *)
(* args), so a register cannot be two of them.                             *)
HasChoices(i) == i.kind = "call"
ChoicesOf(i, r) == {p \in PhysRegs : \A j \in DOMAIN i.ins : i.ins[j] = r => p = j}

-----------------------------------------------------------------------------
(* Control flow.  layout is the order in which blocks are emitted; a       *)
(* conditional branch falls through to the next one.                       *)

After(layout, b) ==
  LET k == CHOOSE k \in DOMAIN layout : layout[k] = b IN
  IF k < Len(layout) THEN {layout[k + 1]} ELSE {}

Successors(code, layout, b) ==
  LET i == Last(code[b]) IN
  CASE i.kind = "b"   -> {i.target}
    [] i.kind = "cb"  -> {i.target} \cup After(layout, b)
    [] i.kind = "ret" -> {}

(* Seeded fault: outputs are not erased from the live set.                 *)
LiveBefore_KeepOutputs(i, live) == (live \ ClobberedBy(i)) \cup Ins(i)

(* The registers live before i, from those live after it.                  *)
LiveBefore(i, live) == (live \ (Outs(i) \cup ClobberedBy(i))) \cup Ins(i)

LiveAtStart(block, liveAtEnd) == FoldRight(LiveBefore, block, liveAtEnd)

(* One backward sweep over the blocks.  The first sweep visits every       *)
(* block; a later one only those whose outputs grew, and only these can    *)
(* call for another sweep.                                                 *)
SweepBlock(code, layout, first, flow, b) ==
  LET out == flow.out[b] \cup UNION {flow.in[s] : s \in Successors(code, layout, b)}
      in  == flow.in[b] \cup LiveAtStart(code[b], out)
  IN  IF first \/ out # flow.out[b]
      THEN [in |-> [flow.in EXCEPT ![b] = in], out |-> [flow.out EXCEPT ![b] = out],
            changed |-> flow.changed \/ in # flow.in[b]]
      ELSE flow

Sweep(code, layout, first, in, out) ==
  FoldRight(LAMBDA b, flow : SweepBlock(code, layout, first, flow, b),
            layout, [in |-> in, out |-> out, changed |-> FALSE])

-----------------------------------------------------------------------------
(* Positions.  They are even, so that nextafter(pos) is pos + 1.           *)

Renumbered(block) == [k \in DOMAIN block |-> [block[k] EXCEPT !.pos = k * Gap]]

(* block::adopt: an inserted instruction takes the midpoint of its         *)
(* neighbours' positions, or one beyond the last; when no even number lies *)
(* between, the bits of the position have run out and it takes the lower   *)
(* neighbour's.                                                            *)
Midpoint(a, b) == 2 * ((a + b) \div 4)

(* Seeded fault: the position of the instruction before.                   *)
PosBefore_Same(block, k) == IF k = 1 THEN 0 ELSE block[k - 1].pos

PosBefore(block, k) ==
  LET before == IF k = 1 THEN 0 ELSE block[k - 1].pos IN
  IF k > Len(block) THEN before + Gap ELSE Midpoint(before, block[k].pos)

IndexOf(block, id) == CHOOSE k \in DOMAIN block : block[k].id = id

InsertBefore(block, id, i) ==
  LET k == IndexOf(block, id) IN
  InsertAt(block, k, [i EXCEPT !.pos = PosBefore(block, k)])

InsertAfter(block, id, i) ==
  LET k == IndexOf(block, id) + 1 IN
  InsertAt(block, k, [i EXCEPT !.pos = PosBefore(block, k)])

-----------------------------------------------------------------------------
(* Live intervals of a block.  A register is demanded where it is an input *)
(* and, when it is live out of the block, at its end.  An output covers    *)
(* the demands before the next output; the start of the block covers the   *)
(* demands before the first.                                               *)

Interval(b, r, from, to) == [block |-> b, reg |-> r, begin |-> from, end |-> to]

OutPositions(block, r) == {block[k].pos : k \in {j \in DOMAIN block : r \in Outs(block[j])}}
InPositions(block, r) == {block[k].pos : k \in {j \in DOMAIN block : r \in Ins(block[j])}}
ClobberPositions(block, r) ==
  {block[k].pos : k \in {j \in DOMAIN block : r \in ClobberedBy(block[j])}}

Demands(block, r, liveAtEnd) ==
  InPositions(block, r) \cup (IF r \in liveAtEnd THEN {Last(block).pos + Gap} ELSE {})

CoveredBy(block, r, liveAtEnd, from) ==
  {d \in Demands(block, r, liveAtEnd) :
     d > from /\ ~ \E p \in OutPositions(block, r) : from < p /\ p < d}

IntervalsOf(block, b, r, liveAtEnd) ==
  LET covered(p) == CoveredBy(block, r, liveAtEnd, p) IN
    {Interval(b, r, 0, Max(covered(0))) : z \in {x \in {0} : covered(x) # {}}}
      \cup {Interval(b, r, p, IF covered(p) # {} THEN Max(covered(p)) ELSE p + 1) :
              p \in OutPositions(block, r)}
      \cup {Interval(b, r, p, p + 1) : p \in ClobberPositions(block, r)}

BlockIntervals(block, b, liveAtEnd) ==
  UNION {IntervalsOf(block, b, r, liveAtEnd) :
           r \in liveAtEnd \cup UNION {Mentions(block[k]) : k \in DOMAIN block}}

(* intervals_overlap: an input and an output of one instruction do not.    *)
Overlap(i, j) == i.block = j.block /\ j.end > i.begin /\ j.begin < i.end

=============================================================================
