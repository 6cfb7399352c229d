------------------------------- MODULE RegAlloc -------------------------------
(***************************************************************************)
(* The register allocator of sloejit, the assembler the JIT provider emits *)
(* its kernels with (function::finalize and spill_reg of sloejit/src/      *)
(* ir.cpp, finalize_spills and post_regalloc_hook of aarch64.cpp.mako).    *)
(*                                                                         *)
(* Virtual registers are coloured greedily, longest live range first.      *)
(* When none of its registers is free, a victim is spilled: it is renamed, *)
(* stored after its definitions and reloaded before the uses its spill     *)
(* must make room for, and the pieces go back to the queue.  Spilling may  *)
(* spill the pieces again.  Stores and reloads then share stack slots, and *)
(* reloads whose value is still in a register are dropped.                 *)
(*                                                                         *)
(* Consecutive register groups, lane masks and the frame record are left   *)
(* out.                                                                    *)
(***************************************************************************)
EXTENDS LiveRanges, Functions

CONSTANTS
  Programs   (* source functions: [blocks, params, locals], blocks being   *)
             (* sequences of instructions whose registers are params and   *)
             (* locals                                                     *)

VARIABLES
  source,     (* the function as it was written                            *)
  phase,      (* of finalize()                                             *)
  code,       (* instructions of each block, 0 being the prologue          *)
  layout,     (* order of the blocks                                       *)
  flow,       (* [in, out]: registers live into and out of a block         *)
  places,     (* live_positions: <<block, register, instruction id>>       *)
  ranges,     (* live_matrix: the live intervals                           *)
  conflicts,  (* constraints: registers live together, by register         *)
  choices,    (* reg_choices: physical registers allowed, where restricted *)
  queue,      (* regs_to_alloc, from alloc_idx on                          *)
  subs,       (* physical register of each register allocated so far       *)
  spills,     (* spill_details: stores and reloads of a spilled register   *)
  origin,     (* spill_aliases: the register a piece comes from            *)
  slotRanges, (* spill_ranges: what was live where when it was spilled     *)
  fresh       (* [reg, id]: generators of registers and instructions       *)

allocVars == <<source, phase, code, layout, flow, places, ranges, conflicts, choices,
               queue, subs, spills, origin, slotRanges, fresh>>

-----------------------------------------------------------------------------
(* The function to compile.                                                *)

SourceRegs(p) == ToSet(p.params) \cup p.locals

SourceInstr ==
  [id : Nat \X Nat, kind : Kinds \ {"str", "ldr", "gone"}, outs : Seq(Nat), ins : Seq(Nat),
   target : Nat, slot : Nat, pos : Nat]

(* A function is written over virtual registers, and every block ends with *)
(* a branch to a block of its own, or a return.                            *)
ASSUME ProgramsAssumption ==
  \A p \in Programs :
    /\ p.params \in Seq(Nat) /\ p.locals \subseteq Nat /\ IsFiniteSet(p.locals)
    /\ \A r \in SourceRegs(p) : IsVirtual(r)
    /\ p.blocks \in Seq(Seq(SourceInstr) \ {<<>>})
    /\ \A b \in DOMAIN p.blocks :
         /\ \A k \in DOMAIN p.blocks[b] :
              /\ p.blocks[b][k].id = <<b, k>>
              /\ Outs(p.blocks[b][k]) \cup Ins(p.blocks[b][k]) \subseteq SourceRegs(p)
         /\ LET i == Last(p.blocks[b])
            IN  /\ i.kind \in {"b", "cb", "ret"}
                /\ i.kind # "ret" => i.target \in DOMAIN p.blocks
                /\ i.kind = "cb" => b < Len(p.blocks)

Sorted(S, precedes(_, _)) ==
  [k \in 1..Cardinality(S) |->
     CHOOSE x \in S : Cardinality({y \in S : precedes(y, x)}) = k - 1]
Ascending(S) == Sorted(S, <)

(* The part of a sequence at the indices K.                                *)
Part(s, K) == LET ks == Ascending(K) IN [n \in DOMAIN ks |-> s[ks[n]]]

(* Preserved registers become virtual ones, so that other registers may    *)
(* use them at the price of a spill (pcs_vreg_map).                        *)
PreservedSeq == Ascending(Preserved)
FirstPcs(p) == Max(SourceRegs(p) \cup PhysRegs) + 1
PcsRegs(p) == [k \in DOMAIN PreservedSeq |-> FirstPcs(p) + k - 1]
Inputs(p) == PcsRegs(p) \o p.params

(* get_pcs_reg_choices: a preserved register stays where it is at entry    *)
(* and return, and parameter k arrives in register k.                      *)
PcsChoices(p) ==
  [r \in ToSet(Inputs(p)) |->
     IF r >= FirstPcs(p) THEN {PreservedSeq[r - FirstPcs(p) + 1]}
     ELSE {CHOOSE k \in DOMAIN p.params : p.params[k] = r}]

Blocks == DOMAIN code
Returns == {b \in Blocks : Last(code[b]).kind = "ret"}

Empty == [x \in {} |-> {}]

AllocInit ==
  /\ source \in Programs
  /\ phase = "first sweep"
  /\ code = source.blocks
  /\ layout = [b \in DOMAIN source.blocks |-> b]
  /\ flow = [in |-> [b \in Blocks |-> IF b = 1 THEN ToSet(Inputs(source)) ELSE {}],
             out |-> [b \in Blocks |-> IF b \in Returns THEN ToSet(PcsRegs(source)) ELSE {}]]
  /\ places = {} /\ ranges = {} /\ conflicts = Empty /\ choices = Empty
  /\ queue = <<>> /\ subs = Empty
  /\ spills = Empty /\ origin = Empty /\ slotRanges = Empty
  /\ fresh = [reg |-> FirstPcs(source) + Len(PreservedSeq), id |-> 1]

-----------------------------------------------------------------------------
(* Liveness: sweeps until nothing changes.                                 *)

SweepAll ==
  /\ phase \in {"first sweep", "sweep"}
  /\ LET after == Sweep(code, layout, phase = "first sweep", flow.in, flow.out) IN
       /\ flow' = [in |-> after.in, out |-> after.out]
       /\ phase' = IF phase = "first sweep" \/ after.changed THEN "sweep" ELSE "ranges"
  /\ UNCHANGED <<source, code, layout, places, ranges, conflicts, choices, queue, subs,
                 spills, origin, slotRanges, fresh>>

-----------------------------------------------------------------------------
(* Live ranges, interference and the order of allocation.                  *)

PlacesOf(block, b) ==
  UNION {{<<b, r, block[k].id>> : r \in Mentions(block[k])} : k \in DOMAIN block}

Regs(intervals) == {i.reg : i \in intervals}
Of(intervals, r) == {i \in intervals : i.reg = r}

Interference(intervals) ==
  [r \in Regs(intervals) |->
     {j.reg : j \in {j \in intervals : \E i \in Of(intervals, r) : Overlap(i, j)}} \ {r}]

Length(intervals) == FoldSet(LAMBDA i, n : n + i.end - i.begin, 0, intervals)

(* Larger live ranges first, equal ones by number.                         *)
AllocationOrder(intervals) ==
  LET length == [r \in Regs(intervals) |-> Length(Of(intervals, r))] IN
  Sorted({r \in Regs(intervals) : IsVirtual(r)},
         LAMBDA r, s : length[r] > length[s] \/ (length[r] = length[s] /\ r < s))

(* What the convention and the calls that take r as an operand leave it:   *)
(* insert_or_intersect, over all of them.                                  *)
InitialChoices(blocks) ==
  LET calls == {i \in UNION {ToSet(blocks[b]) : b \in DOMAIN blocks} : HasChoices(i)}
      pcs   == PcsChoices(source)
  IN  [r \in DOMAIN pcs \cup UNION {Ins(i) : i \in calls} |->
         {p \in PhysRegs : /\ r \in DOMAIN pcs => p \in pcs[r]
                           /\ \A i \in calls : r \in Ins(i) => p \in ChoicesOf(i, r)}]

Prepare ==
  /\ phase = "ranges"
  /\ code' = [b \in Blocks |-> Renumbered(code[b])]
  /\ places' = UNION {PlacesOf(code'[b], b) : b \in Blocks}
  /\ ranges' = UNION {BlockIntervals(code'[b], b, flow.out[b]) : b \in Blocks}
  /\ conflicts' = Interference(ranges')
  /\ choices' = InitialChoices(code)
  /\ queue' = AllocationOrder(ranges')
  /\ phase' = "allocate"
  /\ UNCHANGED <<source, layout, flow, subs, spills, origin, slotRanges, fresh>>

-----------------------------------------------------------------------------
(* Allocation of the next register of the queue.                           *)

ChoicesFor(r) == IF r \in DOMAIN choices THEN choices[r] ELSE PhysRegs

(* apply_physical_subs: what the interfering registers occupy.             *)
TakenFor(r) ==
  {subs[s] : s \in conflicts[r] \cap DOMAIN subs} \cup {s \in conflicts[r] : ~IsVirtual(s)}

FreeFor(r) == ChoicesFor(r) \ TakenFor(r)

Skip ==
  /\ phase = "allocate" /\ queue # <<>>
  /\ Head(queue) \in DOMAIN subs \/ Head(queue) \notin DOMAIN conflicts
  /\ queue' = Tail(queue)
  /\ UNCHANGED <<source, phase, code, layout, flow, places, ranges, conflicts, choices,
                 subs, spills, origin, slotRanges, fresh>>

Wanted(r) == r \notin DOMAIN subs /\ r \in DOMAIN conflicts

Assign ==
  /\ phase = "allocate" /\ queue # <<>>
  /\ LET r == Head(queue) IN
       /\ Wanted(r) /\ FreeFor(r) # {}
       /\ subs' = [x \in DOMAIN subs \cup {r} |-> IF x = r THEN Min(FreeFor(r)) ELSE subs[x]]
  /\ queue' = Tail(queue)
  /\ UNCHANGED <<source, phase, code, layout, flow, places, ranges, conflicts, choices,
                 spills, origin, slotRanges, fresh>>

-----------------------------------------------------------------------------
(* The victim of a spill: an interfering virtual register that could use   *)
(* one of r's registers, or r itself, of least cost in a block of r.       *)

Candidates(r) ==
  {s \in conflicts[r] :
     IsVirtual(s) /\ (r \in DOMAIN choices => ChoicesFor(s) \cap choices[r] # {})} \cup {r}

(* Occurrences in the block less the length of what overlaps r there.      *)
SpillCost(r, s, b) ==
  Gap * Cardinality({p \in places : p[1] = b /\ p[2] = s})
    - Length({i \in Of(ranges, s) :
                i.block = b /\ \E j \in Of(ranges, r) : Overlap(i, j)})

CostsFor(r) ==
  {[reg |-> i.reg, cost |-> SpillCost(r, i.reg, i.block)] :
     i \in {i \in ranges : i.reg \in Candidates(r) /\
                           \E j \in Of(ranges, r) : j.block = i.block}}

(* Equal costs are told apart by where the live matrix stores the ranges:  *)
(* any of them may be chosen.                                              *)
Victims(r) == {c.reg : c \in {c \in CostsFor(r) : \A d \in CostsFor(r) : c.cost <= d.cost}}

-----------------------------------------------------------------------------
(* Spilling r in one block because of cause: backwards over its places.    *)
(* The state of the walk:                                                  *)
(*   code      of the block                                                *)
(*   piece     the register that takes r's place from here on              *)
(*   last      position of the last use of piece, 0 when it has none       *)
(*   store     whether the next output found must be stored                *)
(*   own       stores and reloads of r's origin                            *)
(*   erased    those of them no longer needed                              *)
(*   live      intervals of the pieces                                     *)
(*   at        places of the pieces                                        *)
(*   allowed   reg_choices                                                 *)
(*   next      generators                                                  *)
(*   done      whether the place needs no piece any more                   *)

StackInstr(kind, r, id) ==
  [id |-> <<0, id>>, kind |-> kind, outs |-> IF kind = "ldr" THEN <<r>> ELSE <<>>,
   ins |-> IF kind = "str" THEN <<r>> ELSE <<>>, target |-> 0, slot |-> 0, pos |-> 0]

InstrOf(block, id) == block[IndexOf(block, id)]
PosOf(block, id) == InstrOf(block, id).pos

NewPiece(w) ==
  IF w.last # 0 THEN w
  ELSE [w EXCEPT !.piece = w.next.reg, !.pieces = @ \cup {w.next.reg}, !.next.reg = @ + 1]

LivesFrom(w, b, from, to) == [w EXCEPT !.live = @ \cup {Interval(b, w.piece, from, to)}]

LastUseOr(w, pos) == IF w.last # 0 THEN w.last ELSE pos

(* The instruction i writes r.                                             *)
AtOutput(w, b, i) ==
  LET id == <<0, w.next.id>>
      stored == InsertAfter(w.code, i.id, StackInstr("str", w.piece, w.next.id))
      written ==
        CASE ~w.store -> LivesFrom(w, b, i.pos, w.last)
          [] w.store /\ i.id \in w.own -> LivesFrom(w, b, i.pos, w.last)
          [] OTHER ->
             [LivesFrom(w, b, i.pos, LastUseOr(w, PosOf(stored, id)))
                EXCEPT !.code = stored, !.own = @ \cup {id}, !.next.id = @ + 1,
                       !.at = @ \cup {<<b, w.piece, id>>}]
  IN  IF w.store /\ i.id \in w.own /\ w.last = 0
      THEN [w EXCEPT !.own = @ \ {i.id}, !.erased = @ \cup {<<b, i.id>>},
                     !.store = FALSE, !.done = TRUE]
      ELSE [written EXCEPT !.last = 0, !.store = FALSE]

(* Whether cause is live between the place of r before pos and pos.        *)
PlaceBefore(block, r, pos) ==
  LET earlier == {k \in DOMAIN block : r \in Mentions(block[k]) /\ block[k].pos < pos} IN
  IF earlier = {} THEN 0
  ELSE LET i == block[Max(earlier)] IN IF r \in Ins(i) THEN i.pos - 1 ELSE i.pos

(* Seeded fault: a value live into the block is expected in its register.  *)
ReloadWanted_NotAtStart(block, b, r, cause, pos) ==
  \E i \in Of(ranges, cause) : Overlap(i, Interval(b, r, PlaceBefore(block, r, pos), pos))

ReloadWanted(block, b, r, cause, pos) ==
  LET from == PlaceBefore(block, r, pos) IN
  from = 0 \/ \E i \in Of(ranges, cause) : Overlap(i, Interval(b, r, from, pos))

(* The instruction i reads r.                                              *)
AtInput(w, b, r, cause, i) ==
  LET reload == ReloadWanted(code[b], b, r, cause, i.pos)
      mine == i.id \in w.own
      u == [w EXCEPT !.store = @ \/ reload,
                     !.own = IF reload THEN @ \ {i.id} ELSE @,
                     !.erased = IF reload /\ mine THEN @ \cup {<<b, i.id>>} ELSE @]
      id == <<0, w.next.id>>
      loaded == InsertBefore(w.code, i.id, StackInstr("ldr", w.piece, w.next.id))
  IN  CASE ~reload -> [u EXCEPT !.last = IF @ = 0 THEN i.pos ELSE @]
        [] reload /\ mine /\ w.last = 0 -> [u EXCEPT !.done = TRUE]
        [] OTHER ->
           [LivesFrom(u, b, PosOf(loaded, id), LastUseOr(w, i.pos))
              EXCEPT !.code = loaded, !.own = @ \cup {id}, !.next.id = @ + 1,
                     !.at = @ \cup {<<b, w.piece, id>>}, !.last = 0]

(* insert_or_intersect for one register.                                   *)
Restricted(allowed, r, S) ==
  [x \in DOMAIN allowed \cup {r} |->
     IF x # r THEN allowed[x] ELSE IF r \in DOMAIN allowed THEN allowed[r] \cap S ELSE S]

RenamedIn(i, r, s) == [i EXCEPT !.outs = ReplaceAll(@, r, s), !.ins = ReplaceAll(@, r, s)]

RenameAt(w, b, r, i) ==
  [w EXCEPT !.code[IndexOf(w.code, i.id)] = RenamedIn(@, r, w.piece),
            !.at = @ \cup {<<b, w.piece, i.id>>},
            !.allowed = IF HasChoices(i) /\ r \in Ins(i)
                        THEN Restricted(@, w.piece, ChoicesOf(i, r)) ELSE @]

IfWritten(w, b, r, i) == IF r \in Outs(i) THEN AtOutput(w, b, i) ELSE w

IfRead(w, b, r, cause, i) ==
  IF r \in Ins(i) /\ ~w.done THEN AtInput(w, b, r, cause, i) ELSE w

IfKept(w, b, r, i) == IF w.done THEN w ELSE RenameAt(w, b, r, i)

SpillAt(w, b, r, cause, i) ==
  LET piece == NewPiece([w EXCEPT !.done = FALSE])
  IN  IfKept(IfRead(IfWritten(piece, b, r, i), b, r, cause, i), b, r, i)

WithBlock(w, b) == [w EXCEPT !.blocks = [@ EXCEPT ![b] = w.code]]

SpillInBlock(w, b, r, cause) ==
  LET here == Part(code[b], {k \in DOMAIN code[b] : <<b, r, code[b][k].id>> \in places})
      start == [w EXCEPT !.code = code[b], !.store = r \in flow.out[b], !.last = 0]
  IN  WithBlock(FoldRight(LAMBDA i, x : SpillAt(x, b, r, cause, i), here, start), b)

-----------------------------------------------------------------------------
(* A spilled parameter or preserved register is stored in the prologue, a  *)
(* preserved one reloaded before each return; there it keeps its name.     *)

Prologue == << [id |-> <<0, 0>>, kind |-> "b", outs |-> <<>>, ins |-> <<>>,
                target |-> 1, slot |-> 0, pos |-> Gap] >>

WithPrologue(blocks) ==
  [b \in DOMAIN blocks \cup {0} |-> IF b \in DOMAIN blocks THEN blocks[b] ELSE Prologue]

StackPlace(w, b, r, kind, before) ==
  LET id == <<0, w.next.id>>
      block == InsertBefore(w.blocks[b], before.id, StackInstr(kind, r, w.next.id))
      pos == PosOf(block, id)
      held == IF kind = "str" THEN Interval(b, r, 0, pos) ELSE Interval(b, r, pos, before.pos)
  IN  [w EXCEPT !.blocks = [@ EXCEPT ![b] = block], !.own = @ \cup {id}, !.next.id = @ + 1,
                !.at = @ \cup {<<b, r, id>>}, !.live = @ \cup {held}]

SaveAtEntry(w, r) ==
  LET v == [w EXCEPT !.blocks = WithPrologue(@)] IN
  StackPlace(v, 0, r, "str", Head(v.blocks[0]))

RestoreAtReturn(w, r, b) ==
  StackPlace(w, b, r, "ldr", Last(w.blocks[b]))

(* Seeded fault: preserved registers are saved and not restored.           *)
SpillAtBoundary_SaveOnly(w, r) ==
  IF r \in ToSet(Inputs(source)) /\ r \notin DOMAIN slotRanges THEN SaveAtEntry(w, r) ELSE w

SpillAtBoundary(w, r) ==
  LET again == r \in DOMAIN slotRanges
      saved == IF r \in ToSet(Inputs(source)) /\ ~again THEN SaveAtEntry(w, r) ELSE w
  IN  IF r \in ToSet(PcsRegs(source)) /\ ~again
      THEN FoldSet(LAMBDA b, x : RestoreAtReturn(x, r, b), saved, Returns)
      ELSE saved

Root(r) == IF r \in DOMAIN origin THEN origin[r] ELSE r

Spilled(v, cause) ==
  LET start == [code |-> <<>>, blocks |-> code, piece |-> 0, pieces |-> {}, last |-> 0,
                store |-> FALSE, own |-> IF Root(v) \in DOMAIN spills THEN spills[Root(v)] ELSE {},
                erased |-> {}, live |-> {}, at |-> {}, allowed |-> choices, next |-> fresh,
                done |-> FALSE]
      here == {p[1] : p \in {p \in places : p[2] = v}}
      walked == FoldLeft(LAMBDA w, b : SpillInBlock(w, b, v, cause), start, Ascending(here))
  IN  SpillAtBoundary(walked, v)

(* Seeded fault: the new intervals meet no register but each other.        *)
WithInterference_NewOnly(v, new) ==
  LET pairs == Interference(new) IN
  [r \in (DOMAIN conflicts \cup DOMAIN pairs) \ ({v} \ DOMAIN pairs) |->
     (IF r \in DOMAIN conflicts /\ r # v THEN conflicts[r] \ {v} ELSE {})
       \cup (IF r \in DOMAIN pairs THEN pairs[r] ELSE {})]

(* apply_lr_edits: v's interference goes, that of the new intervals comes. *)
WithInterference(v, new) ==
  LET all == {i \in ranges : i.reg # v} \cup new
      meets == {<<p[1].reg, p[2].reg>> : p \in {q \in new \X all : Overlap(q[1], q[2])}}
      pairs == {p \in meets \cup {<<q[2], q[1]>> : q \in meets} : p[1] # p[2]}
  IN  [r \in (DOMAIN conflicts \ {v}) \cup Regs(new) |->
         (IF r \in DOMAIN conflicts /\ r # v THEN conflicts[r] \ {v} ELSE {})
           \cup {p[2] : p \in {p \in pairs : p[1] = r}}]

(* Seeded fault: the pieces are not allocated.                             *)
Requeued_CauseOnly(w, cause) == Append(Tail(queue), cause)

Requeued(w, cause) ==
  Tail(queue) \o Ascending(Regs(w.live) \cup {p[2] : p \in w.at} \cup {cause})

Increasing(block) == \A k \in 1..(Len(block) - 1) : block[k].pos < block[k + 1].pos

SpillFor(v, cause, w) ==
  LET kept(b) == Part(w.blocks[b], {k \in DOMAIN w.blocks[b] :
                                      <<b, w.blocks[b][k].id>> \notin w.erased})
      root == Root(v)
  IN  /\ code' = [b \in DOMAIN w.blocks |-> kept(b)]
      /\ layout' = IF 0 \in DOMAIN code' \ DOMAIN code THEN <<0>> \o layout ELSE layout
      /\ places' = {p \in places \cup w.at : <<p[1], p[3]>> \notin w.erased}
      /\ ranges' = {i \in ranges : i.reg # v} \cup w.live
      /\ conflicts' = WithInterference(v, w.live)
      /\ choices' = w.allowed
      /\ queue' = Requeued(w, cause)
      /\ subs' = RestrictDomain(subs, LAMBDA r : r # v)
      /\ spills' = [r \in DOMAIN spills \cup {root} |-> IF r = root THEN w.own ELSE spills[r]]
      /\ origin' = [r \in DOMAIN origin \cup w.pieces |->
                      IF r \in w.pieces THEN root ELSE origin[r]]
      /\ slotRanges' = [r \in DOMAIN slotRanges \cup {v} |->
                          IF r \in DOMAIN slotRanges THEN slotRanges[r] ELSE Of(ranges, v)]
      /\ fresh' = w.next
      /\ phase' = IF \A b \in DOMAIN w.blocks : Increasing(w.blocks[b])
                  THEN "allocate" ELSE "positions exhausted"
      /\ UNCHANGED <<source, flow>>

Spill ==
  /\ phase = "allocate" /\ queue # <<>>
  /\ LET r == Head(queue) IN
       /\ Wanted(r) /\ FreeFor(r) = {}
       /\ \E v \in Victims(r) : SpillFor(v, r, Spilled(v, r))

-----------------------------------------------------------------------------
(* finalize_spills: a slot is reused when nothing it holds was live where  *)
(* the spilled register was.                                               *)

SlotFor(slots, r) ==
  {k \in DOMAIN slots : \A i \in slots[k].holds, j \in slotRanges[r] : ~Overlap(i, j)}

PlaceInSlot(slots, r) ==
  LET usable == SlotFor(slots, r) IN
  IF usable = {} THEN Append(slots, [holds |-> slotRanges[r], of |-> {r}])
  ELSE [slots EXCEPT ![Min(usable)] = [holds |-> @.holds \cup slotRanges[r], of |-> @.of \cup {r}]]

Slots == FoldLeft(PlaceInSlot, <<>>, Ascending(DOMAIN spills))

SlotOf(slots, i) ==
  CHOOSE k \in DOMAIN slots : \E r \in slots[k].of : i.id \in spills[r]

ColourSlots ==
  /\ phase = "allocate" /\ queue = <<>>
  /\ LET slots == Slots
         spill(i) == i.kind \in {"str", "ldr"} IN
       code' = [b \in Blocks |-> [k \in DOMAIN code[b] |->
                  IF spill(code[b][k]) THEN [code[b][k] EXCEPT !.slot = SlotOf(slots, code[b][k])]
                  ELSE code[b][k]]]
  /\ phase' = "substitute"
  /\ UNCHANGED <<source, layout, flow, places, ranges, conflicts, choices, queue, subs,
                 spills, origin, slotRanges, fresh>>

Substituted(i) ==
  LET of(r) == IF r \in DOMAIN subs THEN subs[r] ELSE r IN
  [i EXCEPT !.outs = [k \in DOMAIN @ |-> of(@[k])], !.ins = [k \in DOMAIN @ |-> of(@[k])]]

Substitute ==
  /\ phase = "substitute"
  /\ code' = [b \in Blocks |-> [k \in DOMAIN code[b] |-> Substituted(code[b][k])]]
  /\ phase' = "peephole"
  /\ UNCHANGED <<source, layout, flow, places, ranges, conflicts, choices, queue, subs,
                 spills, origin, slotRanges, fresh>>

-----------------------------------------------------------------------------
(* post_regalloc_hook: drops moves of a register to itself and reloads     *)
(* whose value the register already has.  written is the last instruction  *)
(* to write each register (a store counts as one), stored the last store   *)
(* to each slot.  A dropped instruction stays in the model as "gone".      *)

NoInstr == [id |-> <<0, -1>>, kind |-> "gone", outs |-> <<>>, ins |-> <<>>,
            target |-> 0, slot |-> 0, pos |-> 0]

(* The register was last written by the same reload, and the slot not      *)
(* since; or by the store that put its value there.                        *)
SameReload(w, s, i) ==
  \/ w.kind = "ldr" /\ w.outs = i.outs /\ w.slot = i.slot /\ s.pos < w.pos
  \/ w.kind = "str" /\ w.id = s.id /\ w.ins = i.outs

Redundant(i, written, stored) ==
  \/ i.kind = "mov" /\ i.outs = i.ins
  \/ i.kind = "ldr" /\ SameReload(written[Head(i.outs)], stored[i.slot], i)

SlotIds == 0..Cardinality(DOMAIN spills)

Peephole(state, i) ==
  IF Redundant(i, state.written, state.stored)
  THEN [state EXCEPT !.code = Append(@, [i EXCEPT !.kind = "gone"])]
  ELSE [code |-> Append(state.code, i),
        written |-> [r \in PhysRegs |->
                       IF r \in Outs(i) \/ (i.kind = "str" /\ r \in Ins(i)) THEN i
                       ELSE state.written[r]],
        stored |-> [k \in SlotIds |-> IF i.kind = "str" /\ k = i.slot THEN i ELSE state.stored[k]]]

Tidied(block) ==
  FoldLeft(Peephole, [code |-> <<>>, written |-> [r \in PhysRegs |-> NoInstr],
                      stored |-> [k \in SlotIds |-> NoInstr]], block).code

PostRegalloc ==
  /\ phase = "peephole"
  /\ code' = [b \in Blocks |-> Tidied(code[b])]
  /\ phase' = "done"
  /\ UNCHANGED <<source, layout, flow, places, ranges, conflicts, choices, queue, subs,
                 spills, origin, slotRanges, fresh>>

AllocNext ==
  \/ SweepAll \/ Prepare
  \/ Skip \/ Assign \/ Spill
  \/ ColourSlots \/ Substitute \/ PostRegalloc

=============================================================================
