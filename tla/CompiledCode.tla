----------------------------- MODULE CompiledCode -----------------------------
(***************************************************************************)
(* A function compiled by the register allocator, and then run beside its  *)
(* source: every step executes one instruction of the compiled code on     *)
(* physical registers and stack slots, and the instruction of the source   *)
(* it stands for, if any, on the registers of the source.  What a value is *)
(* does not matter, only which execution of which instruction produced it. *)
(***************************************************************************)
EXTENDS RegAlloc

VARIABLES
  at,      (* <<block, index>> of the next instruction                     *)
  regfile, (* values of the physical registers                             *)
  frame,   (* values of the stack slots                                    *)
  env,     (* values of the source's registers                             *)
  age      (* parity of the executions of each source instruction so far   *)

machine == <<at, regfile, frame, env, age>>
vars == <<allocVars, machine>>

Value(id, arg, parity) == [by |-> id, arg |-> arg, age |-> parity]
Passed(k) == Value(<<-1, k>>, 1, 0)     (* parameter k                     *)
Caller(r) == Value(<<-2, r>>, 1, 0)     (* what the caller left in r       *)
Junk(r) == Value(<<-3, r>>, 1, 0)       (* what a call left in r           *)

SourceIds == UNION {{<<b, k>> : k \in DOMAIN source.blocks[b]} : b \in DOMAIN source.blocks}
Original(i) == source.blocks[i.id[1]][i.id[2]]
FromSource(i) == i.id[1] > 0

Init ==
  /\ AllocInit
  /\ at = <<0, 0>> /\ regfile = <<>> /\ frame = <<>> /\ env = <<>> /\ age = <<>>

Compile == AllocNext /\ UNCHANGED machine

Call ==
  /\ phase = "done"
  /\ phase' = "running"
  /\ at' = <<Head(layout), 1>>
  /\ regfile' = [r \in PhysRegs |-> IF r \in DOMAIN source.params THEN Passed(r) ELSE Caller(r)]
  /\ frame' = [k \in SlotIds |-> Junk(0)]
  /\ env' = [r \in SourceRegs(source) |->
               IF r \in ToSet(source.params)
               THEN Passed(CHOOSE k \in DOMAIN source.params : source.params[k] = r)
               ELSE Junk(0)]
  /\ age' = [id \in SourceIds |-> 0]
  /\ UNCHANGED <<source, code, layout, flow, places, ranges, conflicts, choices, queue,
                 subs, spills, origin, slotRanges, fresh>>

-----------------------------------------------------------------------------
Current == code[at[1]][at[2]]

(* What operand k of i is after i.                                         *)
Result(i, k) ==
  IF i.kind \in {"mov", "gone"} THEN env[Original(i).ins[1]]
  ELSE Value(i.id, k, 1 - age[i.id])

Written(store, regs, i, unknown) ==
  [r \in DOMAIN store |->
     IF r \in ToSet(regs) THEN Result(i, CHOOSE k \in DOMAIN regs : regs[k] = r)
     ELSE IF r \in unknown THEN Junk(r) ELSE store[r]]

StepSource(i) ==
  /\ regfile' = Written(regfile, i.outs, i, ClobberedBy(i))
  /\ env' = Written(env, Original(i).outs, i, {})
  /\ age' = [age EXCEPT ![i.id] = 1 - @]
  /\ frame' = frame

StepStack(i) ==
  /\ regfile' = IF i.kind = "ldr" THEN [regfile EXCEPT ![Head(i.outs)] = frame[i.slot]] ELSE regfile
  /\ frame' = IF i.kind = "str" THEN [frame EXCEPT ![i.slot] = regfile[Head(i.ins)]] ELSE frame
  /\ UNCHANGED <<env, age>>

FollowedBy(i) ==
  CASE i.kind = "b"   -> {<<i.target, 1>>}
    [] i.kind = "cb"  -> {<<i.target, 1>>} \cup {<<b, 1>> : b \in After(layout, at[1])}
    [] OTHER          -> {<<at[1], at[2] + 1>>}

Execute ==
  /\ phase = "running" /\ Current.kind # "ret"
  /\ IF FromSource(Current) THEN StepSource(Current) ELSE StepStack(Current)
  /\ at' \in FollowedBy(Current)
  /\ UNCHANGED allocVars

Return ==
  /\ phase = "running" /\ Current.kind = "ret"
  /\ phase' = "returned"
  /\ UNCHANGED <<source, code, layout, flow, places, ranges, conflicts, choices, queue,
                 subs, spills, origin, slotRanges, fresh, machine>>

Finished == phase \in {"returned", "positions exhausted"} /\ UNCHANGED vars

Next == Compile \/ Call \/ Execute \/ Return \/ Finished

Spec == Init /\ [][Next]_vars

-----------------------------------------------------------------------------
(* Type invariant of the allocator: its partial functions speak of the     *)
(* registers made so far, allocation keeps to physical registers, and once *)
(* substituted the code mentions no others.                                *)
TypeOK ==
  /\ phase \in {"first sweep", "sweep", "ranges", "allocate", "positions exhausted",
                "substitute", "peephole", "done", "running", "returned"}
  /\ DOMAIN subs \subseteq 1..(fresh.reg - 1) /\ \A r \in DOMAIN subs : subs[r] \in PhysRegs
  /\ \A r \in DOMAIN conflicts : r < fresh.reg /\ conflicts[r] \subseteq 1..(fresh.reg - 1)
  /\ \A b \in Blocks : \A k \in DOMAIN code[b] :
       /\ code[b][k].kind \in Kinds
       /\ Mentions(code[b][k]) \subseteq
            IF phase \in {"peephole", "done", "running", "returned"} THEN PhysRegs
            ELSE 1..(fresh.reg - 1)

(* An instruction finds in its operands what the source finds there, on    *)
(* every path, whatever was renamed, spilled, reloaded, moved to a shared  *)
(* slot or dropped on the way.                                             *)
ReadsTheSourceValues ==
  phase = "running" /\ FromSource(Current) =>
    \A k \in DOMAIN Current.ins : regfile[Current.ins[k]] = env[Original(Current).ins[k]]

(* The caller finds its preserved registers unchanged, although finalize() *)
(* hands them out like any other.                                          *)
PreservesRegisters ==
  phase = "returned" => \A r \in Preserved : regfile[r] = Caller(r)

(* No two registers live at once share a physical register, at any point   *)
(* of allocation: spilling adds live ranges to an assignment made before.  *)
LiveTogetherApart ==
  phase \in {"allocate", "substitute", "peephole", "done"} =>
    \A i, j \in ranges :
      (/\ Overlap(i, j) /\ i.reg # j.reg
       /\ i.reg \in DOMAIN subs /\ (j.reg \in DOMAIN subs \/ ~IsVirtual(j.reg)))
        => subs[i.reg] # (IF IsVirtual(j.reg) THEN subs[j.reg] ELSE j.reg)

(* The sweeps stop at the live sets and not before or beyond: a register   *)
(* is live into a block when some path from there reads it before any      *)
(* instruction writes it.  The entry counts as a reader of the parameters. *)
UsedFirst(block) ==
  {r \in UNION {Ins(block[k]) : k \in DOMAIN block} :
     \E k \in DOMAIN block :
       r \in Ins(block[k]) /\ \A j \in 1..(k - 1) : r \notin Outs(block[j])}

PassesThrough(block, r) == \A k \in DOMAIN block : r \notin Outs(block[k])

EdgesOf(blocks) ==
  {e \in (DOMAIN blocks) \X (DOMAIN blocks) :
     e[2] \in Successors(blocks, [k \in DOMAIN blocks |-> k], e[1])}

Reaches(blocks, b, r, ends) ==
  \E n \in 1..Len(blocks) : \E path \in [1..n -> DOMAIN blocks] :
    /\ path[1] = b /\ path[n] \in ends
    /\ \A k \in 1..(n - 1) :
         PassesThrough(blocks[path[k]], r) /\ <<path[k], path[k + 1]>> \in EdgesOf(blocks)

Users(blocks, r) == {b \in DOMAIN blocks : r \in UsedFirst(blocks[b])}

LiveSetsAreExact ==
  phase = "ranges" =>
    \A b \in DOMAIN source.blocks : \A r \in SourceRegs(source) :
      r \in flow.in[b] <=>
        Reaches(source.blocks, b, r,
                Users(source.blocks, r) \cup (IF r \in ToSet(source.params) THEN {1} ELSE {}))

(* Every spill leaves room between the instructions it was inserted at.    *)
PositionsSuffice == phase # "positions exhausted"

=============================================================================
