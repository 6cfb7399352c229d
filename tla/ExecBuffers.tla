------------------------------ MODULE ExecBuffers ------------------------------
(***************************************************************************)
(* Execution of PLFFT plans and the temporary buffers they share.          *)
(*                                                                         *)
(* A plan is a tree; executing it is a recursion over the tree             *)
(* (fft_plan::execute).  Plans own no scratch memory: they borrow it from  *)
(* buffers of the executing thread, which outlive the call and are         *)
(* replaced when a later plan needs more (fft_buffers.cpp, and the buffer  *)
(* stack of cooley_tukey.hpp).  Nothing but the discipline of the plans    *)
(* keeps two active plans of one thread from using the same buffer.        *)
(*                                                                         *)
(* What a plan computes is abstracted to the sequence of operations        *)
(* applied to its data: a buffer overwritten too early, or read too late,  *)
(* shows up as a wrong sequence.                                           *)
(***************************************************************************)
EXTENDS Integers, Sequences, SequencesExt, FiniteSets

CONSTANTS
  Threads,    (* threads of the application                                *)
  Node,       (* plan nodes: a sequence of [kind, subs, size, columns],    *)
              (* subs being indices of earlier nodes                       *)
  PlansOf,    (* the nodes that are whole plans, by executing thread       *)
  MaxDepth,   (* bound: nesting of cooleytukey nodes in the table          *)
  Nesting     (* buffers of each kind that a node and its sub-plans have   *)
              (* in use at once                                            *)

(* leaf:        a kernel, with or without twiddles (direct, fft1, the      *)
(*              direct twiddle stages)                                     *)
(* loop:        one sub-plan, once per batch                               *)
(* cooleytukey: two stages through one buffer of the stack                 *)
(* composition: two levels or more through the halves of a compositor      *)
(*              buffer, a row at a time                                    *)
(* rader, bluestein: a convolution, forward and backward sub-plan, of all  *)
(*              batches at once or a column at a time (columns)            *)
Kinds == {"leaf", "loop", "cooleytukey", "composition", "rader", "bluestein"}

Stacked == {"cooleytukey", "composition"}
Buffered == Stacked \cup {"rader", "bluestein"}

NodeType == [kind : Kinds, subs : Seq(Nat), size : Nat, columns : BOOLEAN]

ASSUME NodeAssumption ==
  /\ MaxDepth \in Nat
  /\ Node \in Seq(NodeType)
  /\ PlansOf \in [Threads -> SUBSET DOMAIN Node]
  /\ \A i \in DOMAIN Node :
       /\ \A j \in DOMAIN Node[i].subs : Node[i].subs[j] \in 1..(i - 1)
       /\ Node[i].columns => Node[i].kind \in {"rader", "bluestein"}
       /\ Node[i].kind = "loop" => Len(Node[i].subs) = 1
       /\ Node[i].kind = "composition" => Len(Node[i].subs) >= 2
       /\ Node[i].kind \in Buffered \ {"composition"} => Len(Node[i].subs) = 2

(* Compositions nest once at most, and convolutions never: a plan made     *)
(* for the inside of a convolution may not use one (planner.cpp:174).      *)
Room(kind) ==
  IF kind = "cooleytukey" THEN MaxDepth ELSE IF kind = "composition" THEN 2 ELSE 1

Own(kind, i) == IF Node[i].kind = kind THEN 1 ELSE 0

ASSUME NestingAssumption ==
  /\ Nesting \in [Buffered -> [DOMAIN Node -> Nat]]
  /\ \A kind \in Buffered, i \in DOMAIN Node :
       /\ Own(kind, i) <= Nesting[kind][i] /\ Nesting[kind][i] <= Room(kind)
       /\ \A j \in DOMAIN Node[i].subs :
            Nesting[kind][Node[i].subs[j]] + Own(kind, i) <= Nesting[kind][i]

VARIABLES
  stack,    (* active execute() calls of each thread, outermost first      *)
  pool,     (* size of each buffer of a thread; 0 when it has none         *)
  active,   (* cooley_tukey_active_buffer and comp_buf_active, by thread   *)
  mem       (* what the live memory blocks hold                            *)

vars == <<stack, pool, active, mem>>

-----------------------------------------------------------------------------
(* Memory.  The data of a transform is a pair of batches.                  *)

Batches == {1, 2}
Same(value) == [b \in Batches |-> value]

(* Buffers of a thread.  A block is named by its buffer and its size: a    *)
(* buffer is only ever replaced by a larger block.                         *)
CtDepth == 0..(MaxDepth - 1)
BufferIds ==
  {<<"cooleytukey", k>> : k \in CtDepth} \cup {<<"composition", k>> : k \in {0, 1}}
    \cup {<<"rader", 0>>, <<"bluestein", 0>>}

(* Seeded fault: the buffers are not thread_local.                         *)
OwnerOf_Shared(t) == CHOOSE u \in Threads : TRUE

OwnerOf(t) == t

Region(t, id, size, part) == [owner |-> t, id |-> id, size |-> size, part |-> part]
UserArray(t, name) == Region(t, <<name, 0>>, 0, 1)
Parts(t, id, size) == {Region(t, id, size, part) : part \in {1, 2}}

Live(region) == region \in DOMAIN mem

Unset == Same(<< [op |-> "unset", node |-> 0] >>)

(* A freed block holds nothing, and what is written to it is lost.         *)
Contents(region) == IF Live(region) THEN mem[region] ELSE Unset

(* The operations a plan stands for.                                       *)
OpNames == {"unset", "kernel", "pack", "multiply", "unpack"}
Op(name, i) == << [op |-> name, node |-> i] >>

meaning[i \in DOMAIN Node] ==
  LET nd == Node[i]
      subs == [j \in DOMAIN nd.subs |-> meaning[nd.subs[j]]]
  IN  IF nd.kind = "leaf" THEN Op("kernel", i)
      ELSE IF nd.kind \in {"rader", "bluestein"}
      THEN Op("pack", i) \o subs[1] \o Op("multiply", i) \o subs[2] \o Op("unpack", i)
      ELSE FlattenSeq(subs)

-----------------------------------------------------------------------------
(* Frames.                                                                 *)

IsConvolution(nd) == nd.kind \in {"rader", "bluestein"}

(* The batches a node works on one after the other.                        *)
Rounds(nd, bs) ==
  IF bs = Batches /\ (nd.kind \in {"loop", "composition"} \/ nd.columns)
  THEN << {1}, {2} >> ELSE << bs >>

NewFrame(i, in, out, bs) ==
  [node |-> i, in |-> in, out |-> out, rounds |-> Rounds(Node[i], bs),
   step |-> 0, half |-> 2, buffer |-> in, hasBuffer |-> FALSE]

Top(t) == Last(stack[t])
NodeOf(t) == Node[Top(t).node]
Running(t, kinds) == stack[t] # << >> /\ NodeOf(t).kind \in kinds
Become(t, f) == [stack EXCEPT ![t] = Append(Front(@), f)]
Returned(t) == [stack EXCEPT ![t] = Front(@)]
Called(t, f, sub, in, out) ==
  [stack EXCEPT ![t] = Front(@) \o << f, NewFrame(sub, in, out, Head(f.rounds)) >>]

Half(f, part) == [f.buffer EXCEPT !.part = part]

(* dest := op applied to source, for the batches of the current round.     *)
Apply(source, dest, bs, op) ==
  mem' = [mem EXCEPT ![dest] = [b \in Batches |-> IF b \in bs
                                                  THEN Contents(source)[b] \o op
                                                  ELSE @[b]]]

Init ==
  /\ stack = [t \in Threads |-> << >>]
  /\ pool = [t \in Threads |-> [id \in BufferIds |-> 0]]
  /\ active = [t \in Threads |-> [cooleytukey |-> -1, composition |-> -1]]
  /\ mem = << >>

(* plfft_plan_execute, out of place or in place.                           *)
Execute(t, root, inplace) ==
  LET in  == UserArray(t, "in")
      out == IF inplace THEN in ELSE UserArray(t, "out")
  IN  /\ stack[t] = << >>
      /\ stack' = [stack EXCEPT ![t] = << NewFrame(root, in, out, Batches) >>]
      /\ mem' = [r \in DOMAIN mem \cup {in, UserArray(t, "out")} |->
                   IF r = in THEN Same(<< >>)
                   ELSE IF r = UserArray(t, "out") THEN Unset ELSE mem[r]]
      /\ UNCHANGED <<pool, active>>

(* The buffer a frame that begins will use, and the counter it moves.      *)
DepthAfterGet(t, kind) == active[OwnerOf(t)][kind] + 1
BufferIdFor(t, nd) ==
  <<nd.kind, IF nd.kind \in Stacked THEN DepthAfterGet(t, nd.kind) ELSE 0>>

(* Seeded fault: a thread that has a block keeps it, whatever its size.    *)
BlockSize_Any(held, needed) == IF held > 0 THEN held ELSE needed

BlockSize(held, needed) == IF held < needed THEN needed ELSE held

(* Seeded fault: nested plans of a thread get the same stacked buffer.     *)
Begin_NoPush(t) ==
  LET o  == OwnerOf(t)
      nd == NodeOf(t)
      id == <<nd.kind, 0>>
      size == BlockSize(pool[o][id], nd.size)
      old == IF size = pool[o][id] THEN {} ELSE Parts(o, id, pool[o][id])
  IN  /\ Running(t, Buffered) /\ ~Top(t).hasBuffer
      /\ pool' = [pool EXCEPT ![o][id] = size]
      /\ mem' = [r \in (DOMAIN mem \ old) \cup Parts(o, id, size) |->
                   IF r \in DOMAIN mem THEN mem[r] ELSE Unset]
      /\ stack' = Become(t, [Top(t) EXCEPT !.buffer = Region(o, id, size, 1),
                                           !.hasBuffer = TRUE])
      /\ UNCHANGED active

(* get_cooley_tukey_buffer, get_memory: push, and replace a block that is  *)
(* too small.  The buffer vector may grow, which moves its blocks' owners  *)
(* and not the blocks.                                                     *)
Begin(t) ==
  LET o  == OwnerOf(t)
      nd == NodeOf(t)
      id == BufferIdFor(t, nd)
      size == BlockSize(pool[o][id], nd.size)
      old == IF size = pool[o][id] THEN {} ELSE Parts(o, id, pool[o][id])
  IN  /\ Running(t, Buffered) /\ ~Top(t).hasBuffer
      /\ active' = IF nd.kind \in Stacked
                   THEN [active EXCEPT ![o][nd.kind] = @ + 1] ELSE active
      /\ pool' = [pool EXCEPT ![o][id] = size]
      /\ mem' = [r \in (DOMAIN mem \ old) \cup Parts(o, id, size) |->
                   IF r \in DOMAIN mem THEN mem[r] ELSE Unset]
      /\ stack' = Become(t, [Top(t) EXCEPT !.buffer = Region(o, id, size, 1),
                                           !.hasBuffer = TRUE])

(* A kernel: reads everything, writes everything.                          *)
RunLeaf(t) ==
  LET f == Top(t)
  IN  /\ Running(t, {"leaf"})
      /\ Apply(f.in, f.out, Head(f.rounds), Op("kernel", f.node))
      /\ stack' = Returned(t)
      /\ UNCHANGED <<pool, active>>

NextRound(f) == [f EXCEPT !.rounds = Tail(@), !.step = 0]

(* loop_plan: the inner plan on one batch after the other.                 *)
RunLoop(t) ==
  LET f == Top(t)
  IN  /\ Running(t, {"loop"})
      /\ stack' = IF f.rounds = << >> THEN Returned(t)
                  ELSE [Called(t, f, NodeOf(t).subs[1], f.in, f.out)
                          EXCEPT ![t][Len(stack[t])] = NextRound(f)]
      /\ UNCHANGED <<pool, active, mem>>

(* cooley_tukey_plan: in to buffer, buffer to out.                         *)
RunStage(t) ==
  LET f == Top(t)
  IN  /\ Running(t, {"cooleytukey"}) /\ f.hasBuffer /\ f.step < 2
      /\ stack' = IF f.step = 0
                  THEN Called(t, [f EXCEPT !.step = 1], NodeOf(t).subs[1], f.in, f.buffer)
                  ELSE Called(t, [f EXCEPT !.step = 2], NodeOf(t).subs[2], f.buffer, f.out)
      /\ UNCHANGED <<pool, active, mem>>

(* A composition runs the levels of a row: the first level writes the half *)
(* y_ptr, and the halves are swapped after each level but the last.        *)
RunLevel(t) ==
  LET f == Top(t)
      nd == NodeOf(t)
      last == f.step = Len(nd.subs) - 1
      from == IF f.step = 0 THEN f.in ELSE Half(f, 3 - f.half)
      to   == IF last THEN f.out ELSE Half(f, f.half)
      after == IF last THEN NextRound(f)
               ELSE [f EXCEPT !.step = @ + 1, !.half = 3 - @]
  IN  /\ Running(t, {"composition"}) /\ f.hasBuffer /\ f.rounds # << >>
      /\ stack' = [Called(t, f, nd.subs[f.step + 1], from, to)
                     EXCEPT ![t][Len(stack[t])] = after]
      /\ UNCHANGED <<pool, active, mem>>

(* What a plan leaves behind in its buffer is of no use to the next.       *)
Forget(t) ==
  mem' = [r \in DOMAIN mem |-> IF \E part \in {1, 2} : r = Half(Top(t), part)
                              THEN Unset ELSE mem[r]]

(* Seeded fault: the buffer is never released.                             *)
Release_Keeps(t) ==
  LET f == Top(t)
  IN  /\ Running(t, Stacked) /\ f.hasBuffer
      /\ IF NodeOf(t).kind = "cooleytukey" THEN f.step = 2 ELSE f.rounds = << >>
      /\ stack' = Returned(t)
      /\ UNCHANGED <<pool, active, mem>>

(* release_cooley_tukey_buffer, release_compositor_buf: pop.               *)
Release(t) ==
  LET f == Top(t)
  IN  /\ Running(t, Stacked) /\ f.hasBuffer
      /\ IF NodeOf(t).kind = "cooleytukey" THEN f.step = 2 ELSE f.rounds = << >>
      /\ active' = [active EXCEPT ![OwnerOf(t)][NodeOf(t).kind] = @ - 1]
      /\ stack' = Returned(t) /\ Forget(t)
      /\ UNCHANGED pool

(* A convolution: pack the input into the buffer, transform it in place,   *)
(* multiply by the constant table, transform it back, unpack.              *)
Convolve(t) ==
  LET f == Top(t)
      nd == NodeOf(t)
      next == [f EXCEPT !.step = @ + 1]
  IN  /\ Running(t, {"rader", "bluestein"}) /\ f.hasBuffer /\ f.rounds # << >>
      /\ \/ /\ f.step = 0
            /\ Apply(f.in, f.buffer, Head(f.rounds), Op("pack", f.node))
            /\ stack' = Become(t, next)
         \/ /\ f.step \in {1, 3} /\ UNCHANGED mem
            /\ stack' = Called(t, next, nd.subs[IF f.step = 1 THEN 1 ELSE 2],
                               f.buffer, f.buffer)
         \/ /\ f.step = 2
            /\ Apply(f.buffer, f.buffer, Head(f.rounds), Op("multiply", f.node))
            /\ stack' = Become(t, next)
         \/ /\ f.step = 4
            /\ Apply(f.buffer, f.out, Head(f.rounds), Op("unpack", f.node))
            /\ stack' = Become(t, NextRound(f))
      /\ UNCHANGED <<pool, active>>

(* Every column is done: the buffer is not given back, only left.          *)
FinishConvolution(t) ==
  /\ Running(t, {"rader", "bluestein"}) /\ Top(t).rounds = << >>
  /\ stack' = Returned(t) /\ Forget(t)
  /\ UNCHANGED <<pool, active>>

Next ==
  \E t \in Threads :
    \/ \E root \in PlansOf[t], inplace \in BOOLEAN : Execute(t, root, inplace)
    \/ Begin(t) \/ RunLeaf(t) \/ RunLoop(t) \/ RunStage(t) \/ RunLevel(t)
    \/ Release(t) \/ Convolve(t) \/ FinishConvolution(t)

Spec == Init /\ [][Next]_vars
-----------------------------------------------------------------------------
Frames == UNION {{t} \X DOMAIN stack[t] : t \in Threads}
FrameAt(p) == stack[p[1]][p[2]]

(* Types.  A composition never nests deeper than the two buffers it has    *)
(* ("we may need 2 active buffers, but no more", asserted by get_memory).  *)
TypeOK ==
  /\ \A t \in Threads :
       /\ active[t].cooleytukey \in -1..(MaxDepth - 1)
       /\ active[t].composition \in {-1, 0, 1}
       /\ \A id \in BufferIds : pool[t][id] \in Nat
  /\ \A p \in Frames : FrameAt(p).node \in DOMAIN Node
  /\ \A r \in DOMAIN mem : mem[r] \in [Batches -> Seq([op : OpNames, node : Nat])]

(* No two active plans, of one thread or of two, borrow the same buffer:   *)
(* what one leaves in its buffer while its sub-plan runs is its own.       *)
BuffersArePrivate ==
  \A p, q \in Frames :
    p # q /\ FrameAt(p).hasBuffer /\ FrameAt(q).hasBuffer
      => \/ FrameAt(p).buffer.owner # FrameAt(q).buffer.owner
         \/ FrameAt(p).buffer.id # FrameAt(q).buffer.id

(* A plan holds a raw pointer to the block it borrowed.  The block is not  *)
(* replaced under it by a later request for a larger one, and it has the   *)
(* room the plan asked for although an earlier plan allocated it.          *)
BuffersOutliveTheirUse ==
  \A p \in Frames :
    LET f == FrameAt(p)
    IN  f.hasBuffer => /\ Live(f.buffer)
                       /\ f.buffer.size >= Node[f.node].size
                       /\ pool[f.buffer.owner][f.buffer.id] = f.buffer.size

(* The two counters, which outlive the call, count the active plans that   *)
(* use the stacked buffers, so that an idle thread starts from the bottom  *)
(* again (free_buffer asserts it of the compositor's).                     *)
CountersMatchFrames ==
  \A t \in Threads, kind \in Stacked :
    active[t][kind] + 1 =
      Cardinality({k \in DOMAIN stack[t] :
                     stack[t][k].hasBuffer /\ Node[stack[t][k].node].kind = kind})

(* An execution that returns leaves in its output, for every batch, what   *)
(* the tree of the plan stands for: no intermediate result was overwritten *)
(* before it was read, or read from a block another plan left behind.      *)
ExecutionComputesItsPlan ==
  [][\A t \in Threads :
       Len(stack[t]) = 1 /\ stack'[t] = << >>
         => mem'[stack[t][1].out] = Same(meaning[stack[t][1].node])]_vars

=============================================================================
