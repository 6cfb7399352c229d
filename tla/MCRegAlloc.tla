------------------------------ MODULE MCRegAlloc ------------------------------
(* Functions of one to five blocks over a parameter and its locals, for  *)
(* three registers, one of them preserved.                                 *)
EXTENDS CompiledCode

P == 4                      (* the parameter *)
A == 5  B == 6  C == 7  D == 8  E == 9  F == 10  G == 11  H == 12

Instr(kind, outs, ins, target) ==
  [id |-> <<0, 0>>, kind |-> kind, outs |-> outs, ins |-> ins, target |-> target,
   slot |-> 0, pos |-> 0]

Set(r) == Instr("op", <<r>>, <<>>, 0)
Use(r) == Instr("op", <<>>, <<r>>, 0)
Add(r, s, t) == Instr("op", <<r>>, <<s, t>>, 0)
Move(r, s) == Instr("mov", <<r>>, <<s>>, 0)
CallOn(args) == Instr("call", <<>>, args, 0)
Jump(b) == Instr("b", <<>>, <<>>, b)
Branch(b) == Instr("cb", <<>>, <<>>, b)
Ret == Instr("ret", <<>>, <<>>, 0)

Function(blocks) ==
  [blocks |-> [b \in DOMAIN blocks |->
                 [k \in DOMAIN blocks[b] |-> [blocks[b][k] EXCEPT !.id = <<b, k>>]]],
   params |-> <<P>>, locals |-> {A, B, C, D, E, F, G, H}]

SetAll == <<Set(A), Set(B), Set(C), Set(D)>>

Step ==
  {<<>>} \cup {<<i>> : i \in {Add(A, B, P), Add(A, A, C), Add(B, P, D), Add(C, C, D),
                              Move(B, A), Move(A, C), Use(D), Use(P)}}

Straight ==
  {<<SetAll \o s \o t \o <<Add(D, A, B), Add(P, P, D), Use(P), Use(C), Ret>> >> :
     s \in Step, t \in Step}

(* Values that are never live together, whose slots can be shared.         *)
Phased ==
  {<<SetAll \o s \o <<Add(A, A, B), Add(C, C, D), Use(A), Use(C),
     Set(E), Set(F), Set(G), Set(H), Add(E, E, F), Add(G, G, H), Use(E)>> \o t
       \o <<Use(G), Use(P), Ret>> >> : s \in Step, t \in {<<>>, <<Add(G, G, E)>>}}

Loop ==
  {<<SetAll \o <<Jump(2)>>, s \o <<Add(B, B, C)>> \o t \o <<Branch(2)>>,
     <<Add(A, A, D), Add(A, A, B), Use(A), Ret>> >> : s \in Step, t \in Step}

Diamond ==
  {<<SetAll \o <<Branch(3)>>, s \o <<Add(A, A, B), Jump(3)>>,
     t \o <<Add(A, C, D), Add(A, A, P), Use(A), Use(B), Ret>> >> : s \in Step, t \in Step}

(* A loop around a diamond.                                                *)
Nested ==
  {<<SetAll \o <<Jump(2)>>, s \o <<Branch(4)>>, t \o <<Add(B, B, C), Jump(4)>>,
     <<Add(A, A, B), Branch(2)>>, <<Use(A), Use(D), Ret>> >> : s \in Step, t \in Step}

(* A loop back to the entry, through which the parameter stays live.       *)
Restarting ==
  {<<SetAll \o s \o <<Branch(1)>>, <<Add(A, A, B), Add(A, A, C), Use(A), Use(D), Ret>> >> :
     s \in Step}

(* A call in a block of its own, so that no register is stored or reloaded *)
(* both before and after it for the peephole to confuse.                   *)
Calling ==
  {<<SetAll \o s \o <<Jump(2)>>, <<CallOn(<<A>>), Set(A), Jump(3)>>,
     t \o <<Add(B, A, B), Add(B, B, C), Use(B), Use(P), Use(D), Ret>> >> : s \in Step, t \in Step}

(* Every definition has a use: the emitters write no value nobody reads.   *)
NeededAfter(blocks, b, k, r) ==
  LET rest == SubSeq(blocks[b], k + 1, Len(blocks[b])) IN
  \/ r \in UsedFirst(rest)
  \/ /\ PassesThrough(rest, r)
     /\ \E e \in EdgesOf(blocks) : e[1] = b /\ Reaches(blocks, e[2], r, Users(blocks, r))

WellDefined(p) ==
  /\ \A r \in p.locals : ~Reaches(p.blocks, 1, r, Users(p.blocks, r))
  /\ \A b \in DOMAIN p.blocks : \A k \in DOMAIN p.blocks[b] :
       \A r \in Outs(p.blocks[b][k]) : NeededAfter(p.blocks, b, k, r)

(* The same value before and after a call.                                 *)
CallPrograms ==
  {Function(<< SetAll \o <<Use(A), CallOn(<<>>), Add(C, A, C), Use(C), Use(B), Use(D), Use(P), Ret>> >>)}

(* More values in the middle of a block than registers, each read and      *)
(* written in place.                                                       *)
Update(r, args) == Instr("op", <<r>>, <<r>> \o args, 0)

DensePrograms ==
  {Function(<< SetAll \o <<Instr("op", <<>>, <<B, D>>, 0), Update(B, <<P, A>>), Update(D, <<A>>),
                          Update(D, <<A, B>>), Instr("op", <<>>, <<C, D>>, 0), Ret>> >>)}

MCPrograms ==
  {p \in {Function(q) : q \in Straight \cup Phased \cup Loop \cup Diamond \cup Nested \cup Calling
                              \cup Restarting} : WellDefined(p)}
===============================================================================
