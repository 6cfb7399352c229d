--------------------------- MODULE ExecBuffersProofs ---------------------------
(***************************************************************************)
(* Proofs about ExecBuffers for every table of plans and any number of     *)
(* threads: no two active plans borrow one buffer, no buffer is replaced   *)
(* while a plan uses it, the two counters of the stacked buffers count the *)
(* plans that use them, and a call that returns has computed its plan.     *)
(***************************************************************************)
EXTENDS ExecBuffers, FiniteSetTheorems, SequenceTheorems, InductionLemmas, TLAPS

-----------------------------------------------------------------------------
(* The inductive invariant.                                                *)

RegionIds == BufferIds \cup {<<"in", 0>>, <<"out", 0>>}
RegionType == [owner : Threads, id : RegionIds, size : Nat, part : {1, 2}]
FrameType ==
  [node : DOMAIN Node, in : RegionType, out : RegionType, rounds : Seq(SUBSET Batches),
   step : Nat, half : {1, 2}, buffer : RegionType, hasBuffer : BOOLEAN]
OpType == [op : OpNames, node : Nat]
ValueType == [Batches -> Seq(OpType)]

KindAt(t, k) == Node[stack[t][k].node].kind
(* Which of the buffers of its kind a frame has borrowed.                  *)
DepthAt(t, k) == stack[t][k].buffer.id[2]
Holds(t, k, kind) == stack[t][k].hasBuffer /\ KindAt(t, k) = kind

Typed ==
  /\ stack \in [Threads -> Seq(FrameType)]
  /\ pool \in [Threads -> [BufferIds -> Nat]]
  /\ active \in [Threads -> [Stacked -> Int]]
  /\ mem = [r \in DOMAIN mem |-> mem[r]]
  /\ \A r \in DOMAIN mem : mem[r] \in ValueType

(* A frame is where its execute() can be.                                  *)
FrameOK(f) ==
  /\ Node[f.node].kind \in {"leaf", "cooleytukey"} => f.rounds # << >>
  /\ Node[f.node].kind = "composition" => f.step < Len(Node[f.node].subs)

(* What a frame has borrowed is the block of its kind at its depth, as     *)
(* large as the plan asked for, and still there.                           *)
BufferOK(t, k) ==
  LET f    == stack[t][k]
      kind == KindAt(t, k)
      id   == <<kind, DepthAt(t, k)>>
  IN  f.hasBuffer =>
        /\ kind \in Buffered /\ id \in BufferIds
        /\ f.buffer = Region(t, id, pool[t][id], 1) /\ Live(f.buffer)
        /\ Node[f.node].size <= pool[t][id]
        /\ kind \in Stacked =>
             /\ DepthAt(t, k) \in 0..active[t][kind]
             /\ DepthAt(t, k) + Nesting[kind][f.node] <= Room(kind)
        /\ kind \notin Stacked => DepthAt(t, k) = 0

(* A plan is a tree: below a node there is less room for its kind.         *)
Nested(t) ==
  \A k, l \in DOMAIN stack[t] : \A kind \in Buffered :
    k < l => Nesting[kind][stack[t][l].node] + Own(kind, stack[t][k].node)
               <= Nesting[kind][stack[t][k].node]

(* Frames borrow stacked buffers in the order of the stack, and every      *)
(* buffer up to the counter is borrowed.                                   *)
StackedInOrder(t) ==
  \A kind \in Stacked :
    /\ active[t][kind] >= -1
    /\ \A k, l \in DOMAIN stack[t] :
         k < l /\ Holds(t, k, kind) /\ Holds(t, l, kind) => DepthAt(t, k) < DepthAt(t, l)
    /\ \A d \in 0..active[t][kind] :
         \E k \in DOMAIN stack[t] : Holds(t, k, kind) /\ DepthAt(t, k) = d

Holders(t, kind) == {k \in DOMAIN stack[t] : Holds(t, k, kind)}

Counted(t) ==
  \A kind \in Stacked : active[t][kind] + 1 = Cardinality(Holders(t, kind))

ThreadOK(t) ==
  /\ \A k \in DOMAIN stack[t] : FrameOK(stack[t][k]) /\ BufferOK(t, k)
  /\ Nested(t) /\ StackedInOrder(t) /\ Counted(t)

IInv == Typed /\ \A t \in Threads : ThreadOK(t)

-----------------------------------------------------------------------------
(* Stacks as sequences.                                                    *)

LEMMA PopSeq ==
  ASSUME NEW S, NEW s \in Seq(S), s # << >>
  PROVE  /\ Front(s) \in Seq(S) /\ Len(s) \in Nat \ {0} /\ Len(Front(s)) = Len(s) - 1
         /\ DOMAIN Front(s) = 1..(Len(s) - 1) /\ DOMAIN s = 1..Len(s)
         /\ \A k \in 1..(Len(s) - 1) : Front(s)[k] = s[k]
         /\ Last(s) = s[Len(s)] /\ Last(s) \in S
<1>1. Len(s) \in Nat \ {0} /\ DOMAIN s = 1..Len(s) /\ \A k \in 1..Len(s) : s[k] \in S
  OBVIOUS
<1>2. /\ SubSeq(s, 1, Len(s) - 1) \in Seq(S)
      /\ Len(SubSeq(s, 1, Len(s) - 1)) = Len(s) - 1
      /\ \A k \in 1..(Len(s) - 1) : SubSeq(s, 1, Len(s) - 1)[k] = s[k]
  BY <1>1, SubSeqProperties
<1>3. DOMAIN SubSeq(s, 1, Len(s) - 1) = 1..(Len(s) - 1)
  BY <1>2
<1> QED
  BY <1>1, <1>2, <1>3 DEF Front, Last

LEMMA ReplaceSeq ==
  ASSUME NEW S, NEW s \in Seq(S), s # << >>, NEW a \in S
  PROVE  /\ Append(Front(s), a) \in Seq(S)
         /\ DOMAIN Append(Front(s), a) = DOMAIN s
         /\ Append(Front(s), a)[Len(s)] = a
         /\ \A k \in 1..(Len(s) - 1) : Append(Front(s), a)[k] = s[k]
BY PopSeq

LEMMA PushSeq ==
  ASSUME NEW S, NEW s \in Seq(S), s # << >>, NEW a \in S, NEW b \in S
  PROVE  /\ (Front(s) \o << a, b >>) \in Seq(S)
         /\ DOMAIN (Front(s) \o << a, b >>) = 1..(Len(s) + 1)
         /\ (Front(s) \o << a, b >>)[Len(s)] = a
         /\ (Front(s) \o << a, b >>)[Len(s) + 1] = b
         /\ \A k \in 1..(Len(s) - 1) : (Front(s) \o << a, b >>)[k] = s[k]
BY PopSeq

-----------------------------------------------------------------------------
(* Values and frames.                                                      *)

LEMMA OpTyped ==
  ASSUME NEW name \in OpNames, NEW i \in Nat
  PROVE  Op(name, i) \in Seq(OpType)
<1>1. [op |-> name, node |-> i] \in OpType
  BY DEF OpType
<1> HIDE DEF OpType
<1> QED
  BY <1>1 DEF Op

LEMMA UnsetType == Unset \in ValueType /\ Same(<< >>) \in ValueType
<1>1. << [op |-> "unset", node |-> 0] >> \in Seq(OpType)
  <2>1. 0 \in Nat
    OBVIOUS
  <2>2. "unset" \in OpNames
    BY DEF OpNames
  <2>3. Op("unset", 0) \in Seq(OpType)
    BY <2>1, <2>2, OpTyped
  <2> QED
    BY <2>3 DEF Op
<1>2. << >> \in Seq(OpType)
  OBVIOUS
<1> QED
  BY <1>1, <1>2 DEF Unset, Same, ValueType

(* Memory keeps its blocks, and only the destination is written.           *)
MemoryKept ==
  /\ mem' = [r \in DOMAIN mem' |-> mem'[r]]
  /\ DOMAIN mem' = DOMAIN mem
  /\ \A r \in DOMAIN mem : mem'[r] \in ValueType

LEMMA ApplyKeeps ==
  ASSUME Typed, NEW source, NEW dest, NEW bs, NEW op \in Seq(OpType),
         Apply(source, dest, bs, op)
  PROVE  MemoryKept
<1> DEFINE value == [b \in Batches |-> IF b \in bs THEN Contents(source)[b] \o op
                                                   ELSE mem[dest][b]]
<1>1. mem = [r \in DOMAIN mem |-> mem[r]] /\ \A r \in DOMAIN mem : mem[r] \in ValueType
  BY DEF Typed
<1>2. Contents(source) \in ValueType
  BY <1>1, UnsetType DEF Contents, Live
<1>3. dest \in DOMAIN mem => value \in ValueType
  <2>1. SUFFICES ASSUME dest \in DOMAIN mem,  NEW b \in Batches
                 PROVE  /\ (Contents(source)[b] \o op) \in Seq(OpType)
                        /\ mem[dest][b] \in Seq(OpType)
    BY DEF ValueType
  <2>2. Contents(source)[b] \in Seq(OpType) /\ mem[dest][b] \in Seq(OpType)
    BY <1>1, <1>2, <2>1 DEF ValueType
  <2> QED
    BY <2>2, ConcatProperties
<1>4. mem' = [mem EXCEPT ![dest] = value]
  BY DEF Apply
<1> HIDE DEF value
<1> QED
  BY <1>1, <1>3, <1>4 DEF MemoryKept

LEMMA ForgetKeeps ==
  ASSUME Typed, NEW t, Forget(t)
  PROVE  MemoryKept
BY UnsetType DEF Typed, Forget, MemoryKept

LEMMA SameKeeps ==
  ASSUME Typed, mem' = mem
  PROVE  MemoryKept
BY DEF Typed, MemoryKept

-----------------------------------------------------------------------------
(* Steps that leave the buffers of a thread as they are.                   *)

Unchanged(t, k) ==
  /\ stack'[t][k].node = stack[t][k].node
  /\ stack'[t][k].buffer = stack[t][k].buffer
  /\ stack'[t][k].hasBuffer = stack[t][k].hasBuffer

LEMMA UnchangedFrame ==
  ASSUME NEW t \in Threads, NEW k, Unchanged(t, k)
  PROVE  /\ KindAt(t, k)' = KindAt(t, k) /\ DepthAt(t, k)' = DepthAt(t, k)
         /\ \A kind : Holds(t, k, kind)' <=> Holds(t, k, kind)
BY DEF Unchanged, KindAt, DepthAt, Holds

LEMMA UnchangedBuffer ==
  ASSUME NEW t \in Threads, NEW k \in DOMAIN stack[t], Unchanged(t, k), BufferOK(t, k),
         pool'[t] = pool[t], active'[t] = active[t],
         \A r \in DOMAIN mem : r.owner = t => r \in DOMAIN mem'
  PROVE  BufferOK(t, k)'
<1>1. /\ KindAt(t, k)' = KindAt(t, k) /\ DepthAt(t, k)' = DepthAt(t, k)
  BY UnchangedFrame
<1>2. /\ stack'[t][k].node = stack[t][k].node
      /\ stack'[t][k].buffer = stack[t][k].buffer
      /\ stack'[t][k].hasBuffer = stack[t][k].hasBuffer
  BY DEF Unchanged
<1>3. SUFFICES ASSUME stack[t][k].hasBuffer PROVE BufferOK(t, k)'
  BY <1>2 DEF BufferOK
<1>4. stack'[t][k].buffer \in DOMAIN mem'
  <2>1. stack[t][k].buffer.owner = t /\ stack[t][k].buffer \in DOMAIN mem
    BY <1>3 DEF BufferOK, Region, Live
  <2> QED
    BY <1>2, <2>1
<1> QED
  BY <1>1, <1>2, <1>3, <1>4 DEF BufferOK, Live

(* Every frame keeps its buffer.                                           *)
LEMMA SameFrames ==
  ASSUME NEW t \in Threads, ThreadOK(t), DOMAIN stack'[t] = DOMAIN stack[t],
         \A k \in DOMAIN stack[t] : Unchanged(t, k) /\ FrameOK(stack'[t][k]),
         pool'[t] = pool[t], active'[t] = active[t],
         \A r \in DOMAIN mem : r.owner = t => r \in DOMAIN mem'
  PROVE  ThreadOK(t)'
<1>1. \A k \in DOMAIN stack[t] :
        /\ KindAt(t, k)' = KindAt(t, k) /\ DepthAt(t, k)' = DepthAt(t, k)
        /\ stack'[t][k].node = stack[t][k].node
        /\ \A kind : Holds(t, k, kind)' <=> Holds(t, k, kind)
  BY UnchangedFrame DEF Unchanged
<1>2. \A k \in DOMAIN stack[t] : BufferOK(t, k)'
  BY UnchangedBuffer DEF ThreadOK
<1>3. Nested(t)'
  BY <1>1 DEF ThreadOK, Nested, Own
<1>4. StackedInOrder(t)'
  <2>1. StackedInOrder(t)
    BY DEF ThreadOK
  <2>2. ASSUME NEW kind \in Stacked
        PROVE  /\ active'[t][kind] >= -1
               /\ \A k, l \in DOMAIN stack'[t] :
                    k < l /\ Holds(t, k, kind)' /\ Holds(t, l, kind)'
                      => DepthAt(t, k)' < DepthAt(t, l)'
               /\ \A d \in 0..active'[t][kind] :
                    \E k \in DOMAIN stack'[t] : Holds(t, k, kind)' /\ DepthAt(t, k)' = d
    BY <1>1, <2>1 DEF StackedInOrder
  <2> QED
    BY <2>2 DEF StackedInOrder
<1>5. Counted(t)'
  <2>1. \A kind \in Stacked : Holders(t, kind)' = Holders(t, kind)
    BY <1>1 DEF Holders
  <2> QED
    BY <2>1 DEF ThreadOK, Counted
<1> QED
  BY <1>2, <1>3, <1>4, <1>5 DEF ThreadOK

(* A thread that takes no step.                                            *)
LEMMA OtherThread ==
  ASSUME NEW t \in Threads, ThreadOK(t), stack'[t] = stack[t],
         pool'[t] = pool[t], active'[t] = active[t],
         \A r \in DOMAIN mem : r.owner = t => r \in DOMAIN mem'
  PROVE  ThreadOK(t)'
<1>1. \A k \in DOMAIN stack[t] : Unchanged(t, k) /\ FrameOK(stack'[t][k])
  BY DEF Unchanged, ThreadOK
<1> QED
  BY <1>1, SameFrames

(* What the assumptions on the table say of a node on the stack.           *)
LEMMA NodeFacts ==
  ASSUME NEW i \in DOMAIN Node
  PROVE  /\ Node[i] \in NodeType /\ Node[i].kind \in Kinds /\ Node[i].size \in Nat
         /\ i \in Nat
         /\ \A j \in 1..Len(Node[i].subs) : Node[i].subs[j] \in DOMAIN Node
         /\ Len(Node[i].subs) \in Nat
         /\ Node[i].kind = "loop" => 1 \in 1..Len(Node[i].subs)
         /\ Node[i].kind \in Buffered => 1 \in 1..Len(Node[i].subs) /\ 2 \in 1..Len(Node[i].subs)
         /\ Node[i].kind \in Buffered \ {"composition"} => Len(Node[i].subs) = 2
         /\ Node[i].columns \in BOOLEAN
         /\ Node[i].columns => Node[i].kind \in {"rader", "bluestein"}
<1>1. Node[i] \in NodeType /\ DOMAIN Node = 1..Len(Node) /\ Len(Node) \in Nat
  BY NodeAssumption
<1>2. /\ Node[i].kind \in Kinds /\ Node[i].size \in Nat /\ Node[i].subs \in Seq(Nat)
      /\ i \in 1..Len(Node) /\ i \in Nat
  BY <1>1 DEF NodeType
<1>3. /\ \A j \in DOMAIN Node[i].subs : Node[i].subs[j] \in 1..(i - 1)
      /\ Node[i].kind = "loop" => Len(Node[i].subs) = 1
      /\ Node[i].kind = "composition" => Len(Node[i].subs) >= 2
      /\ Node[i].kind \in Buffered \ {"composition"} => Len(Node[i].subs) = 2
      /\ Node[i].columns => Node[i].kind \in {"rader", "bluestein"}
  BY NodeAssumption
<1>4. Len(Node[i].subs) \in Nat /\ DOMAIN Node[i].subs = 1..Len(Node[i].subs)
  BY <1>2
<1>5. 1..(i - 1) \subseteq DOMAIN Node
  BY <1>1, <1>2
<1>6. \A j \in 1..Len(Node[i].subs) : Node[i].subs[j] \in DOMAIN Node
  BY <1>3, <1>4, <1>5
<1>7. /\ Node[i].kind = "loop" => 1 \in 1..Len(Node[i].subs)
      /\ Node[i].kind \in Buffered => 1 \in 1..Len(Node[i].subs) /\ 2 \in 1..Len(Node[i].subs)
  <2> DEFINE n == Len(Node[i].subs)
  <2> HIDE DEF n
  <2>1. n \in Nat /\ (Node[i].kind = "loop" => n = 1) /\ (Node[i].kind \in Buffered => n >= 2)
    BY <1>3, <1>4 DEF n
  <2>2. (n = 1 => 1 \in 1..n) /\ (n >= 2 => 1 \in 1..n /\ 2 \in 1..n)
    BY <2>1
  <2> QED
    BY <2>1, <2>2 DEF n
<1>8. Node[i].columns \in BOOLEAN
  BY <1>1 DEF NodeType
<1> QED
  BY <1>1, <1>2, <1>3, <1>4, <1>6, <1>7, <1>8

LEMMA RoomBelow ==
  ASSUME NEW low \in Nat, NEW own \in Nat, NEW mid \in Nat, NEW above \in Nat, NEW high \in Nat,
         low + own <= mid, mid + above <= high
  PROVE  low + above <= high
OBVIOUS

LEMMA RoomAtNext ==
  ASSUME NEW depth \in Int, NEW low \in Nat, NEW high \in Nat, NEW room \in Nat,
         low + 1 <= high, depth + high <= room
  PROVE  (depth + 1) + low <= room
OBVIOUS

LEMMA NestingFacts ==
  ASSUME NEW kind \in Buffered, NEW i \in DOMAIN Node
  PROVE  /\ Nesting[kind][i] \in Nat /\ Room(kind) \in Nat /\ Own(kind, i) \in Nat
         /\ Own(kind, i) <= Nesting[kind][i] /\ Nesting[kind][i] <= Room(kind)
         /\ \A j \in 1..Len(Node[i].subs) :
              /\ Nesting[kind][Node[i].subs[j]] \in Nat
              /\ Nesting[kind][Node[i].subs[j]] + Own(kind, i) <= Nesting[kind][i]
<1>1. DOMAIN Node[i].subs = 1..Len(Node[i].subs)
  BY NodeFacts DEF NodeType
<1>2. Nesting \in [Buffered -> [DOMAIN Node -> Nat]]
  BY NestingAssumption
<1>3. \A j \in 1..Len(Node[i].subs) : Nesting[kind][Node[i].subs[j]] \in Nat
  BY <1>2, NodeFacts
<1>4. Room(kind) \in Nat /\ Own(kind, i) \in Nat
  BY NodeAssumption DEF Room, Own
<1> QED
  BY <1>1, <1>2, <1>3, <1>4, NestingAssumption

LEMMA ShortSeq ==
  ASSUME NEW S, NEW a \in S, NEW b \in S
  PROVE  /\ << a >> \in Seq(S) /\ << a >> # << >>
         /\ << a, b >> \in Seq(S) /\ << a, b >> # << >>
OBVIOUS

LEMMA NewFrameOK ==
  ASSUME NEW i \in DOMAIN Node, NEW in \in RegionType, NEW out \in RegionType,
         NEW bs \in SUBSET Batches
  PROVE  /\ NewFrame(i, in, out, bs) \in FrameType
         /\ FrameOK(NewFrame(i, in, out, bs))
         /\ NewFrame(i, in, out, bs).node = i /\ ~NewFrame(i, in, out, bs).hasBuffer
<1> DEFINE r == Rounds(Node[i], bs)
<1>1. r \in Seq(SUBSET Batches) /\ r # << >>
  <2>1. {1} \in SUBSET Batches /\ {2} \in SUBSET Batches
    BY DEF Batches
  <2>2. r = << {1}, {2} >> \/ r = << bs >>
    BY DEF Rounds
  <2> HIDE DEF r
  <2> QED
    BY <2>1, <2>2, ShortSeq
<1> HIDE DEF r
<1>2. NewFrame(i, in, out, bs) \in FrameType
  BY <1>1 DEF NewFrame, FrameType, r
<1>3. /\ NewFrame(i, in, out, bs).node = i /\ NewFrame(i, in, out, bs).rounds = r
      /\ NewFrame(i, in, out, bs).step = 0 /\ ~NewFrame(i, in, out, bs).hasBuffer
  BY DEF NewFrame, r
<1>4. Node[i].kind = "composition" => 0 < Len(Node[i].subs)
  <2>1. Node[i].kind = "composition" => 1 \in 1..Len(Node[i].subs)
    BY NodeFacts DEF Buffered, Stacked
  <2> QED
    BY <2>1, NodeFacts
<1> QED
  BY <1>1, <1>2, <1>3, <1>4 DEF FrameOK

-----------------------------------------------------------------------------
(* The top frame becomes f, and calls a sub-plan in a new frame g.         *)
LEMMA CallOK ==
  ASSUME IInv, NEW t \in Threads, stack[t] # << >>,
         NEW f \in FrameType, NEW g \in FrameType, FrameOK(f), FrameOK(g),
         f.node = Top(t).node, f.buffer = Top(t).buffer, f.hasBuffer = Top(t).hasBuffer,
         ~g.hasBuffer, NEW j \in 1..Len(Node[f.node].subs), g.node = Node[f.node].subs[j],
         stack' = [stack EXCEPT ![t] = Front(@) \o << f, g >>],
         UNCHANGED <<pool, active, mem>>
  PROVE  IInv'
<1> PICK n, m, D : n = Len(stack[t]) /\ m = Len(stack[t]) + 1 /\ D = DOMAIN stack[t]
  OBVIOUS
<1>1. stack \in [Threads -> Seq(FrameType)] /\ stack[t] \in Seq(FrameType)
  BY DEF IInv, Typed
<1>2. /\ n \in D /\ m \notin D /\ \A k \in D : k < m /\ (k # n => k < n /\ ~(n < k))
      /\ D \subseteq Nat /\ m \in Nat
      /\ \A k \in D : stack[t][k] \in FrameType
      /\ Top(t) = stack[t][n]
      /\ stack'[t] \in Seq(FrameType) /\ DOMAIN stack'[t] = D \cup {m}
      /\ stack'[t][n] = f /\ stack'[t][m] = g
      /\ \A k \in D : k # n => stack'[t][k] = stack[t][k]
  <2>1. stack'[t] = Front(stack[t]) \o << f, g >>
    BY <1>1
  <2>2. /\ n \in Nat \ {0} /\ D = 1..n /\ Last(stack[t]) = stack[t][n]
        /\ \A k \in 1..n : stack[t][k] \in FrameType
    BY <1>1, PopSeq, ElementOfSeq
  <2>3. /\ stack'[t] \in Seq(FrameType) /\ DOMAIN stack'[t] = 1..(n + 1)
        /\ stack'[t][n] = f /\ stack'[t][n + 1] = g
        /\ \A k \in 1..(n - 1) : stack'[t][k] = stack[t][k]
    BY <1>1, <2>1, PushSeq
  <2>4. /\ n \in D /\ n + 1 \notin D /\ \A k \in D : k < n + 1 /\ (k # n => k < n /\ ~(n < k))
        /\ D \subseteq Nat /\ n + 1 \in Nat /\ 1..(n + 1) = D \cup {n + 1}
    BY <2>2
  <2>5. \A k \in D : k # n => k \in 1..(n - 1)
    BY <2>2
  <2>6. m = n + 1
    OBVIOUS
  <2> QED
    BY <2>2, <2>3, <2>4, <2>5, <2>6 DEF Top
<1>3. Typed'
  BY <1>1, <1>2 DEF IInv, Typed
<1>4. ThreadOK(t)
  BY DEF IInv
<1>5. ASSUME NEW k \in D
      PROVE  Unchanged(t, k) /\ FrameOK(stack'[t][k]) /\ BufferOK(t, k)'
  <2>1. Unchanged(t, k) /\ FrameOK(stack'[t][k])
    <3>1. CASE k = n
      BY <1>2, <3>1 DEF Unchanged
    <3>2. CASE k # n
      <4>1. stack'[t][k] = stack[t][k] /\ FrameOK(stack[t][k])
        BY <1>2, <1>4, <3>2 DEF ThreadOK
      <4> QED
        BY <4>1 DEF Unchanged
    <3> QED
      BY <3>1, <3>2
  <2>2. BufferOK(t, k)'
    BY <1>4, <2>1, UnchangedBuffer DEF ThreadOK
  <2> QED
    BY <2>1, <2>2
<1>6. FrameOK(stack'[t][m]) /\ BufferOK(t, m)'
  <2>1. stack'[t][m] = g
    BY <1>2
  <2>2. ~stack'[t][m].hasBuffer
    BY <2>1
  <2>3. BufferOK(t, m)'
    BY <2>2 DEF BufferOK
  <2> QED
    BY <2>1, <2>3
<1>7. ASSUME NEW k \in D
      PROVE  /\ DepthAt(t, k)' = DepthAt(t, k)
             /\ stack'[t][k].node = stack[t][k].node
             /\ \A kind : Holds(t, k, kind)' <=> Holds(t, k, kind)
  BY <1>5, UnchangedFrame DEF Unchanged
<1>8. \A kind : ~Holds(t, m, kind)'
  <2>1. ~stack'[t][m].hasBuffer
    BY <1>2
  <2> QED
    BY <2>1 DEF Holds
<1>9. Nested(t)'
  <2> SUFFICES ASSUME NEW k \in D \cup {m}, NEW l \in D \cup {m}, NEW kind \in Buffered,
                      k < l
               PROVE  Nesting[kind][stack'[t][l].node] + Own(kind, stack'[t][k].node)
                        <= Nesting[kind][stack'[t][k].node]
    BY <1>2 DEF Nested, Own
  <2>1. k \in D /\ stack[t][k].node \in DOMAIN Node /\ stack[t][n].node \in DOMAIN Node
    <3>1. \A e \in FrameType : e.node \in DOMAIN Node
      BY DEF FrameType
    <3>2. k \in D
      <4>1. m \in Nat /\ ~(m < m) /\ \A a \in D : ~(m < a)
        BY <1>2
      <4> QED
        BY <4>1
    <3> QED
      BY <1>2, <3>1, <3>2
  <2>2. stack'[t][k].node = stack[t][k].node
    BY <1>7, <2>1
  <2>3. \A a, b \in D : a < b => Nesting[kind][stack[t][b].node] + Own(kind, stack[t][a].node)
                                   <= Nesting[kind][stack[t][a].node]
    BY <1>4 DEF ThreadOK, Nested
  <2>4. CASE l \in D
    BY <1>7, <2>1, <2>2, <2>3, <2>4
  <2>5. CASE l = m
    <3> DEFINE sub == Nesting[kind][stack'[t][l].node]
               top == Nesting[kind][stack[t][n].node]
               own == Own(kind, stack[t][n].node)
    <3>1. stack'[t][l].node = Node[f.node].subs[j] /\ f.node = stack[t][n].node
      BY <1>2, <2>5
    <3>2. sub + own <= top /\ sub \in Nat /\ own \in Nat /\ top \in Nat
      BY <2>1, <3>1, NestingFacts
    <3>3. CASE k = n
      BY <2>2, <3>2, <3>3
    <3>4. CASE k # n
      <4>1. /\ top + Own(kind, stack[t][k].node) <= Nesting[kind][stack[t][k].node]
            /\ Nesting[kind][stack[t][k].node] \in Nat /\ Own(kind, stack[t][k].node) \in Nat
        BY <1>2, <2>1, <2>3, <3>4, NestingFacts
      <4> HIDE DEF sub, top, own
      <4>2. sub + Own(kind, stack[t][k].node) <= Nesting[kind][stack[t][k].node]
        BY <3>2, <4>1, RoomBelow
      <4> QED
        BY <2>2, <4>2 DEF sub
    <3> QED
      BY <3>3, <3>4
  <2> QED
    BY <2>4, <2>5
<1>10. StackedInOrder(t)'
  <2>0. DOMAIN stack'[t] = D \cup {m}
    BY <1>2
  <2> SUFFICES ASSUME NEW kind \in Stacked
        PROVE  /\ active'[t][kind] >= -1
               /\ \A k, l \in D \cup {m} :
                    k < l /\ Holds(t, k, kind)' /\ Holds(t, l, kind)'
                      => DepthAt(t, k)' < DepthAt(t, l)'
               /\ \A d \in 0..active'[t][kind] :
                    \E k \in D \cup {m} : Holds(t, k, kind)' /\ DepthAt(t, k)' = d
    BY <2>0 DEF StackedInOrder
  <2>1. /\ active[t][kind] >= -1
        /\ \A k, l \in D :
             k < l /\ Holds(t, k, kind) /\ Holds(t, l, kind) => DepthAt(t, k) < DepthAt(t, l)
        /\ \A d \in 0..active[t][kind] : \E k \in D : Holds(t, k, kind) /\ DepthAt(t, k) = d
    BY <1>4 DEF ThreadOK, StackedInOrder
  <2>2. active'[t][kind] = active[t][kind]
    OBVIOUS
  <2>3. ASSUME NEW k \in D \cup {m}, NEW l \in D \cup {m}, k < l,
               Holds(t, k, kind)', Holds(t, l, kind)'
        PROVE  DepthAt(t, k)' < DepthAt(t, l)'
    BY <1>7, <1>8, <2>1, <2>3
  <2>4. ASSUME NEW d \in 0..active'[t][kind]
        PROVE  \E k \in D \cup {m} : Holds(t, k, kind)' /\ DepthAt(t, k)' = d
    <3>1. PICK k \in D : Holds(t, k, kind) /\ DepthAt(t, k) = d
      BY <2>1, <2>2
    <3> QED
      BY <1>7, <3>1
  <2> QED
    BY <2>1, <2>2, <2>3, <2>4
<1>11. Counted(t)'
  <2>1. ASSUME NEW kind \in Stacked PROVE Holders(t, kind)' = Holders(t, kind)
    <3>1. Holders(t, kind)' = {k \in D \cup {m} : Holds(t, k, kind)'}
      BY <1>2 DEF Holders
    <3>2. Holders(t, kind) = {k \in D : Holds(t, k, kind)}
      BY DEF Holders
    <3> QED
      BY <1>7, <1>8, <3>1, <3>2
  <2> QED
    BY <1>4, <2>1 DEF ThreadOK, Counted
<1>12. ThreadOK(t)'
  <2>1. \A k \in DOMAIN stack'[t] : FrameOK(stack'[t][k]) /\ BufferOK(t, k)'
    <3>1. DOMAIN stack'[t] = D \cup {m}
      BY <1>2
    <3> QED
      BY <1>5, <1>6, <3>1
  <2> QED
    BY <1>9, <1>10, <1>11, <2>1 DEF ThreadOK, FrameOK
<1>13. \A u \in Threads : u # t => ThreadOK(u)'
  BY <1>1, OtherThread DEF IInv
<1> QED
  BY <1>3, <1>12, <1>13 DEF IInv

(* The top frame becomes f, which keeps its buffer.                        *)
LEMMA BecomeOK ==
  ASSUME IInv, NEW t \in Threads, stack[t] # << >>,
         NEW f \in FrameType, FrameOK(f),
         f.node = Top(t).node, f.buffer = Top(t).buffer, f.hasBuffer = Top(t).hasBuffer,
         stack' = Become(t, f), UNCHANGED <<pool, active>>,
         mem' = [r \in DOMAIN mem' |-> mem'[r]],
         DOMAIN mem' = DOMAIN mem, \A r \in DOMAIN mem : mem'[r] \in ValueType
  PROVE  IInv'
<1> PICK n, D : n = Len(stack[t]) /\ D = DOMAIN stack[t]
  OBVIOUS
<1>1. stack \in [Threads -> Seq(FrameType)] /\ stack[t] \in Seq(FrameType)
  BY DEF IInv, Typed
<1>2. /\ n \in D /\ Top(t) = stack[t][n]
      /\ stack'[t] \in Seq(FrameType) /\ DOMAIN stack'[t] = D
      /\ stack'[t][n] = f
      /\ \A k \in D : k # n => stack'[t][k] = stack[t][k]
  <2>1. stack'[t] = Append(Front(stack[t]), f)
    BY <1>1 DEF Become
  <2>2. /\ n \in Nat \ {0} /\ D = 1..n /\ Last(stack[t]) = stack[t][n]
    BY <1>1, PopSeq
  <2>3. /\ stack'[t] \in Seq(FrameType) /\ DOMAIN stack'[t] = D
        /\ stack'[t][n] = f
        /\ \A k \in 1..(n - 1) : stack'[t][k] = stack[t][k]
    BY <1>1, <2>1, ReplaceSeq
  <2>4. n \in D /\ \A k \in D : k # n => k \in 1..(n - 1)
    BY <2>2
  <2> QED
    BY <2>2, <2>3, <2>4 DEF Top
<1>3. Typed'
  BY <1>1, <1>2 DEF IInv, Typed, Become
<1>4. ThreadOK(t)
  BY DEF IInv
<1>5. ASSUME NEW k \in D PROVE Unchanged(t, k) /\ FrameOK(stack'[t][k])
  <2>1. CASE k = n
    BY <1>2, <2>1 DEF Unchanged
  <2>2. CASE k # n
    <3>1. stack'[t][k] = stack[t][k] /\ FrameOK(stack[t][k])
      BY <1>2, <1>4, <2>2 DEF ThreadOK
    <3> QED
      BY <3>1 DEF Unchanged
  <2> QED
    BY <2>1, <2>2
<1>6. ThreadOK(t)'
  BY <1>2, <1>4, <1>5, SameFrames
<1>7. \A u \in Threads : u # t => ThreadOK(u)'
  BY <1>1, OtherThread DEF IInv, Become
<1> QED
  BY <1>3, <1>6, <1>7 DEF IInv

-----------------------------------------------------------------------------
(* Steps that borrow and give back.                                        *)

LEMMA HoldersFinite ==
  ASSUME Typed, NEW t \in Threads, NEW kind
  PROVE  IsFiniteSet(Holders(t, kind))
<1>1. DOMAIN stack[t] = 1..Len(stack[t]) /\ Len(stack[t]) \in Nat
  BY DEF Typed
<1>2. IsFiniteSet(1..Len(stack[t]))
  BY <1>1, FS_Interval
<1>3. Holders(t, kind) \subseteq 1..Len(stack[t])
  BY <1>1 DEF Holders
<1> QED
  BY <1>2, <1>3, FS_Subset

(* The frame on top, when it holds a stacked buffer, holds the last one.   *)
LEMMA TopHoldsLast ==
  ASSUME IInv, NEW t \in Threads, stack[t] # << >>, NEW kind \in Stacked,
         Holds(t, Len(stack[t]), kind)
  PROVE  /\ DepthAt(t, Len(stack[t])) = active[t][kind]
         /\ active[t][kind] \in Nat
<1> PICK n, D : n = Len(stack[t]) /\ D = DOMAIN stack[t]
  OBVIOUS
<1>1. /\ n \in D /\ \A k \in D : k # n => k < n
  <2>1. stack[t] \in Seq(FrameType)
    BY DEF IInv, Typed
  <2>2. n \in Nat \ {0} /\ D = 1..n
    BY <2>1, PopSeq
  <2> QED
    BY <2>2
<1>2. /\ BufferOK(t, n) /\ StackedInOrder(t) /\ Holds(t, n, kind)
  BY <1>1 DEF IInv, ThreadOK
<1>3. active[t][kind] \in Int
  BY DEF IInv, Typed
<1>4. DepthAt(t, n) \in 0..active[t][kind]
  BY <1>2 DEF BufferOK, Holds
<1>5. active[t][kind] \in 0..active[t][kind]
  BY <1>3, <1>4
<1>6. PICK k \in D : Holds(t, k, kind) /\ DepthAt(t, k) = active[t][kind]
  BY <1>2, <1>5 DEF StackedInOrder
<1>7. CASE k = n
  BY <1>3, <1>5, <1>6, <1>7
<1>8. CASE k # n
  <2>1. DepthAt(t, k) < DepthAt(t, n)
    BY <1>1, <1>2, <1>6, <1>8 DEF StackedInOrder
  <2> QED
    BY <1>3, <1>4, <1>6, <2>1
<1> QED
  BY <1>7, <1>8

(* The top frame returns; a stacked buffer it held is given back.          *)
LEMMA PopOK ==
  ASSUME IInv, NEW t \in Threads, stack[t] # << >>, stack' = Returned(t),
         pool' = pool, active' \in [Threads -> [Stacked -> Int]],
         \A u \in Threads \ {t} : active'[u] = active[u],
         \A kind \in Stacked :
           active'[t][kind] = IF Holds(t, Len(stack[t]), kind)
                              THEN active[t][kind] - 1 ELSE active[t][kind],
         mem' = [r \in DOMAIN mem' |-> mem'[r]],
         DOMAIN mem' = DOMAIN mem, \A r \in DOMAIN mem : mem'[r] \in ValueType
  PROVE  IInv'
<1> PICK n, D, E : /\ n = Len(stack[t]) /\ D = DOMAIN stack[t]
                   /\ E = DOMAIN stack'[t]
  OBVIOUS
<1>1. stack \in [Threads -> Seq(FrameType)] /\ stack[t] \in Seq(FrameType)
  BY DEF IInv, Typed
<1>2. /\ n \in D /\ D = E \cup {n} /\ n \notin E /\ \A k \in E : k < n
      /\ stack'[t] \in Seq(FrameType)
      /\ \A k \in E : stack'[t][k] = stack[t][k]
  <2>1. stack'[t] = Front(stack[t])
    BY <1>1 DEF Returned
  <2>2. /\ n \in Nat \ {0} /\ D = 1..n /\ E = 1..(n - 1) /\ stack'[t] \in Seq(FrameType)
        /\ \A k \in 1..(n - 1) : stack'[t][k] = stack[t][k]
    <3>1. /\ Front(stack[t]) \in Seq(FrameType) /\ Len(stack[t]) \in Nat \ {0}
          /\ DOMAIN Front(stack[t]) = 1..(Len(stack[t]) - 1)
          /\ DOMAIN stack[t] = 1..Len(stack[t])
          /\ \A k \in 1..(Len(stack[t]) - 1) : Front(stack[t])[k] = stack[t][k]
      BY <1>1, PopSeq
    <3> QED
      BY <2>1, <3>1
  <2>3. n \in 1..n /\ 1..n = 1..(n - 1) \cup {n} /\ n \notin 1..(n - 1)
        /\ \A k \in 1..(n - 1) : k < n
    BY <2>2
  <2> QED
    BY <2>2, <2>3
<1>3. Typed'
  BY <1>1, <1>2 DEF IInv, Typed, Returned
<1>4. ThreadOK(t) /\ StackedInOrder(t)
  BY DEF IInv, ThreadOK
<1>5. ASSUME NEW k \in E
      PROVE  /\ Unchanged(t, k) /\ FrameOK(stack'[t][k]) /\ BufferOK(t, k)
             /\ KindAt(t, k)' = KindAt(t, k) /\ DepthAt(t, k)' = DepthAt(t, k)
             /\ stack'[t][k].node = stack[t][k].node
             /\ \A kind : Holds(t, k, kind)' <=> Holds(t, k, kind)
  <2>1. stack'[t][k] = stack[t][k] /\ FrameOK(stack[t][k]) /\ BufferOK(t, k)
    BY <1>2, <1>4 DEF ThreadOK
  <2>2. Unchanged(t, k)
    BY <2>1 DEF Unchanged
  <2> QED
    BY <2>1, <2>2, UnchangedFrame
<1>6. ASSUME NEW kind \in Stacked, Holds(t, n, kind)
      PROVE  /\ DepthAt(t, n) = active[t][kind] /\ active[t][kind] \in Nat
             /\ \A k \in E : Holds(t, k, kind) =>
                  DepthAt(t, k) \in 0..(active[t][kind] - 1)
  <2>1. DepthAt(t, n) = active[t][kind] /\ active[t][kind] \in Nat
    BY <1>6, TopHoldsLast
  <2>2. ASSUME NEW k \in E, Holds(t, k, kind)
        PROVE  DepthAt(t, k) \in 0..(active[t][kind] - 1)
    <3>1. DepthAt(t, k) \in 0..active[t][kind]
      BY <1>5, <2>2 DEF BufferOK, Holds
    <3>2. DepthAt(t, k) < DepthAt(t, n)
      BY <1>2, <1>4, <1>6, <2>2 DEF StackedInOrder
    <3> QED
      BY <2>1, <3>1, <3>2
  <2> QED
    BY <2>1, <2>2
<1>7. ASSUME NEW k \in E PROVE BufferOK(t, k)'
  <2>1. SUFFICES ASSUME stack[t][k].hasBuffer PROVE BufferOK(t, k)'
    BY <1>5 DEF BufferOK, Unchanged
  <2>2. /\ stack'[t][k] = stack[t][k] /\ DOMAIN mem' = DOMAIN mem
    BY <1>2
  <2>3. ASSUME KindAt(t, k) \in Stacked
        PROVE  DepthAt(t, k) \in 0..active'[t][KindAt(t, k)]
    <3>1. Holds(t, k, KindAt(t, k))
      BY <2>1 DEF Holds
    <3>2. DepthAt(t, k) \in 0..active[t][KindAt(t, k)]
      BY <1>5, <2>1, <2>3 DEF BufferOK
    <3> QED
      BY <1>6, <2>3, <3>1, <3>2
  <2> QED
    BY <1>5, <2>1, <2>2, <2>3 DEF BufferOK, Live
<1>8. Nested(t)'
  <2>1. \A k, l \in E : \A kind \in Buffered :
          k < l => Nesting[kind][stack'[t][l].node] + Own(kind, stack'[t][k].node)
                     <= Nesting[kind][stack'[t][k].node]
    <3> SUFFICES ASSUME NEW k \in E, NEW l \in E, NEW kind \in Buffered, k < l
                 PROVE  Nesting[kind][stack'[t][l].node] + Own(kind, stack'[t][k].node)
                          <= Nesting[kind][stack'[t][k].node]
      OBVIOUS
    <3>1. Nested(t) /\ k \in D /\ l \in D
      BY <1>2, <1>4 DEF ThreadOK
    <3>2. stack'[t][k].node = stack[t][k].node /\ stack'[t][l].node = stack[t][l].node
      BY <1>5
    <3> QED
      BY <3>1, <3>2 DEF Nested
  <2> QED
    BY <2>1 DEF Nested, Own
<1>9. StackedInOrder(t)'
  <2>1. SUFFICES ASSUME NEW kind \in Stacked
        PROVE  /\ active'[t][kind] >= -1
               /\ \A k, l \in E :
                    k < l /\ Holds(t, k, kind)' /\ Holds(t, l, kind)'
                      => DepthAt(t, k)' < DepthAt(t, l)'
               /\ \A d \in 0..active'[t][kind] :
                    \E k \in E : Holds(t, k, kind)' /\ DepthAt(t, k)' = d
    BY DEF StackedInOrder
  <2>2. /\ active[t][kind] >= -1 /\ active[t][kind] \in Int
        /\ \A k, l \in D :
             k < l /\ Holds(t, k, kind) /\ Holds(t, l, kind) => DepthAt(t, k) < DepthAt(t, l)
        /\ \A d \in 0..active[t][kind] : \E k \in D : Holds(t, k, kind) /\ DepthAt(t, k) = d
    BY <1>4 DEF StackedInOrder, IInv, Typed
  <2>3. active'[t][kind] >= -1
    BY <1>6, <2>2
  <2>4. ASSUME NEW k \in E, NEW l \in E, k < l, Holds(t, k, kind)', Holds(t, l, kind)'
        PROVE  DepthAt(t, k)' < DepthAt(t, l)'
    BY <1>2, <1>5, <2>2, <2>4
  <2>5. ASSUME NEW d \in 0..active'[t][kind]
        PROVE  \E k \in E : Holds(t, k, kind)' /\ DepthAt(t, k)' = d
    <3>1. d \in 0..active[t][kind]
      <4>1. active'[t][kind] = active[t][kind] - 1 \/ active'[t][kind] = active[t][kind]
        OBVIOUS
      <4> QED
        BY <2>2, <4>1
    <3>2. PICK k \in D : Holds(t, k, kind) /\ DepthAt(t, k) = d
      BY <2>2, <3>1
    <3>3. k # n
      <4>1. SUFFICES ASSUME k = n PROVE FALSE
        OBVIOUS
      <4>2. Holds(t, n, kind)
        BY <3>2, <4>1
      <4>3. DepthAt(t, n) = active[t][kind] /\ active'[t][kind] = active[t][kind] - 1
        BY <1>6, <4>2
      <4> QED
        BY <2>2, <3>2, <4>1, <4>3
    <3> QED
      BY <1>2, <1>5, <3>2, <3>3
  <2> QED
    BY <2>3, <2>4, <2>5
<1>10. Counted(t)'
  <2>1. ASSUME NEW kind \in Stacked
        PROVE  active'[t][kind] + 1 = Cardinality(Holders(t, kind)')
    <3>1. /\ active[t][kind] + 1 = Cardinality(Holders(t, kind))
          /\ active[t][kind] \in Int
      BY <1>4 DEF ThreadOK, Counted, IInv, Typed
    <3>2. Holders(t, kind)' = {k \in E : Holds(t, k, kind)'}
      BY DEF Holders
    <3>3. Holders(t, kind) = {k \in D : Holds(t, k, kind)}
      BY DEF Holders
    <3>4. Holders(t, kind)' = Holders(t, kind) \ {n}
      BY <1>2, <1>5, <3>2, <3>3
    <3>5. n \in Holders(t, kind) <=> Holds(t, n, kind)
      BY <1>2, <3>3
    <3>6. IsFiniteSet(Holders(t, kind))
      BY HoldersFinite DEF IInv
    <3>7. Cardinality(Holders(t, kind) \ {n})
            = IF n \in Holders(t, kind) THEN Cardinality(Holders(t, kind)) - 1
                                        ELSE Cardinality(Holders(t, kind))
      BY <3>6, FS_RemoveElement
    <3> QED
      BY <3>1, <3>4, <3>5, <3>7
  <2> QED
    BY <2>1 DEF Counted
<1>11. ThreadOK(t)'
  <2>1. \A k \in DOMAIN stack'[t] : FrameOK(stack'[t][k]) /\ BufferOK(t, k)'
    BY <1>5, <1>7
  <2> QED
    BY <1>8, <1>9, <1>10, <2>1 DEF ThreadOK, FrameOK
<1>12. \A u \in Threads : u # t => ThreadOK(u)'
  <2> SUFFICES ASSUME NEW u \in Threads, u # t PROVE ThreadOK(u)'
    OBVIOUS
  <2>1. stack'[u] = stack[u] /\ pool'[u] = pool[u] /\ active'[u] = active[u]
    BY <1>1 DEF Returned
  <2> QED
    BY <2>1, OtherThread DEF IInv
<1> QED
  BY <1>3, <1>11, <1>12 DEF IInv

(* The buffer a frame gets is one it may have, and no other frame of its   *)
(* thread has it.                                                          *)
LEMMA NextBufferIsFree ==
  ASSUME IInv, NEW t \in Threads, stack[t] # << >>, NodeOf(t).kind \in Buffered,
         ~Top(t).hasBuffer
  PROVE  LET kind == NodeOf(t).kind
             id   == BufferIdFor(t, NodeOf(t))
             d    == id[2]
         IN  /\ id = <<kind, d>> /\ id \in BufferIds
             /\ kind \in Stacked => /\ d = active[t][kind] + 1 /\ d \in Nat
                                    /\ d + Nesting[kind][Top(t).node] <= Room(kind)
             /\ kind \notin Stacked => d = 0
             /\ \A k \in DOMAIN stack[t] :
                  stack[t][k].hasBuffer /\ KindAt(t, k) = kind =>
                    DepthAt(t, k) # d /\ (kind \in Stacked => DepthAt(t, k) < d)
<1> PICK n, D, kind, id, d :
      /\ n = Len(stack[t]) /\ D = DOMAIN stack[t] /\ kind = NodeOf(t).kind
      /\ id = BufferIdFor(t, NodeOf(t)) /\ d = id[2]
  OBVIOUS
<1>1. /\ n \in D /\ (\A k \in D : k # n => k < n) /\ Top(t) = stack[t][n]
      /\ \A k \in D : stack[t][k].node \in DOMAIN Node
  <2>1. stack[t] \in Seq(FrameType)
    BY DEF IInv, Typed
  <2>2. n \in Nat \ {0} /\ D = 1..n /\ Last(stack[t]) = stack[t][n]
    BY <2>1, PopSeq
  <2>3. \A k \in D : stack[t][k] \in FrameType
    BY <2>1, <2>2, ElementOfSeq
  <2>4. n \in D /\ \A k \in D : k # n => k < n
    BY <2>2
  <2> QED
    BY <2>2, <2>3, <2>4 DEF Top, FrameType
<1> DEFINE top == stack[t][n].node
<1>2. /\ kind \in Buffered /\ KindAt(t, n) = kind /\ ~stack[t][n].hasBuffer
      /\ top \in DOMAIN Node /\ Node[top].kind = kind
  BY <1>1 DEF NodeOf, KindAt
<1>3. /\ Nesting[kind][top] \in Nat /\ 1 <= Nesting[kind][top]
      /\ Nesting[kind][top] <= Room(kind)
  BY <1>2, NestingFacts DEF Own
<1>4. id = <<kind, d>> /\ (kind \in Stacked => d = active[t][kind] + 1)
        /\ (kind \notin Stacked => d = 0)
  BY DEF BufferIdFor, DepthAfterGet, OwnerOf
<1>5. /\ StackedInOrder(t) /\ Nested(t) /\ \A k \in D : BufferOK(t, k)
      /\ kind \in Stacked => active[t][kind] \in Int /\ active[t][kind] >= -1
  BY DEF IInv, ThreadOK, StackedInOrder, Typed
<1>6. ASSUME NEW k \in D, stack[t][k].hasBuffer, KindAt(t, k) = kind
      PROVE  /\ k # n
             /\ Nesting[kind][top] + 1 <= Nesting[kind][stack[t][k].node]
             /\ Nesting[kind][stack[t][k].node] \in Nat
             /\ Nesting[kind][stack[t][k].node] <= Room(kind)
  <2>1. k # n /\ k < n
    BY <1>1, <1>2, <1>6
  <2>2. Own(kind, stack[t][k].node) = 1
    BY <1>6 DEF Own, KindAt
  <2>3. Nesting[kind][top] + Own(kind, stack[t][k].node) <= Nesting[kind][stack[t][k].node]
    BY <1>1, <1>2, <1>5, <2>1 DEF Nested
  <2> QED
    BY <1>1, <1>2, <2>1, <2>2, <2>3, NestingFacts
<1> HIDE DEF top
<1>7. CASE kind \in Stacked
  <2>1. d \in Nat /\ d = active[t][kind] + 1
    BY <1>4, <1>5, <1>7
  <2>2. ASSUME NEW k \in D, stack[t][k].hasBuffer, KindAt(t, k) = kind
        PROVE  DepthAt(t, k) < d /\ DepthAt(t, k) # d
    <3>1. DepthAt(t, k) \in 0..active[t][kind]
      BY <1>5, <1>7, <2>2 DEF BufferOK
    <3> QED
      BY <1>5, <1>7, <2>1, <3>1
  <2>3. d + Nesting[kind][top] <= Room(kind)
    <3>1. CASE active[t][kind] = -1
      BY <1>3, <2>1, <3>1
    <3>2. CASE active[t][kind] # -1
      <4>1. active[t][kind] \in 0..active[t][kind]
        BY <1>5, <1>7, <3>2
      <4>2. PICK k \in D : Holds(t, k, kind) /\ DepthAt(t, k) = active[t][kind]
        BY <1>5, <1>7, <4>1 DEF StackedInOrder
      <4>3. DepthAt(t, k) + Nesting[kind][stack[t][k].node] <= Room(kind)
        BY <1>5, <1>7, <4>2 DEF BufferOK, Holds
      <4>4. Nesting[kind][top] + 1 <= Nesting[kind][stack[t][k].node]
              /\ Nesting[kind][stack[t][k].node] \in Nat
        BY <1>6, <4>2 DEF Holds
      <4>5. Room(kind) \in Nat
        BY <1>2, NestingFacts
      <4>6. /\ active[t][kind] + Nesting[kind][stack[t][k].node] <= Room(kind)
            /\ active[t][kind] \in Int /\ d = active[t][kind] + 1
            /\ Nesting[kind][top] \in Nat
        BY <1>3, <1>5, <1>7, <2>1, <4>2, <4>3
      <4>7. (active[t][kind] + 1) + Nesting[kind][top] <= Room(kind)
        <5>1. PICK depth, low, high, room :
                /\ depth = active[t][kind] /\ low = Nesting[kind][top]
                /\ high = Nesting[kind][stack[t][k].node] /\ room = Room(kind)
          OBVIOUS
        <5>2. /\ depth \in Int /\ low \in Nat /\ high \in Nat /\ room \in Nat
              /\ low + 1 <= high /\ depth + high <= room
          BY <4>4, <4>5, <4>6, <5>1
        <5>3. (depth + 1) + low <= room
          BY ONLY <5>2
        <5> QED
          BY <5>1, <5>3
      <4> QED
        BY <4>6, <4>7
    <3> QED
      BY <3>1, <3>2
  <2>4. id \in BufferIds
    <3>1. CASE kind = "cooleytukey"
      <4>1. d \in 0..(MaxDepth - 1)
        BY <1>3, <2>1, <2>3, <3>1, NodeAssumption DEF Room
      <4> QED
        BY <1>4, <3>1, <4>1 DEF BufferIds, CtDepth
    <3>2. CASE kind = "composition"
      <4>1. d \in {0, 1}
        BY <1>3, <2>1, <2>3, <3>2 DEF Room
      <4> QED
        BY <1>4, <3>2, <4>1 DEF BufferIds
    <3> QED
      BY <1>7, <3>1, <3>2 DEF Stacked
  <2> QED
    BY <1>1, <1>4, <1>7, <2>1, <2>2, <2>3, <2>4 DEF top
<1>8. CASE kind \notin Stacked
  <2>1. ASSUME NEW k \in D, stack[t][k].hasBuffer, KindAt(t, k) = kind PROVE FALSE
    <3>1. Room(kind) = 1
      BY <1>8 DEF Room, Stacked
    <3> QED
      BY <1>3, <1>6, <2>1, <3>1
  <2>2. id \in BufferIds
    BY <1>2, <1>4, <1>8 DEF BufferIds, Buffered
  <2> QED
    BY <1>4, <1>8, <2>1, <2>2
<1> QED
  BY <1>7, <1>8

LEMMA BeginOK ==
  ASSUME IInv, NEW t \in Threads, Begin(t)
  PROVE  IInv'
<1> PICK n, D, kind, d, size :
      /\ n = Len(stack[t]) /\ D = DOMAIN stack[t] /\ kind = NodeOf(t).kind
      /\ d = BufferIdFor(t, NodeOf(t))[2]
      /\ size = BlockSize(pool[t][BufferIdFor(t, NodeOf(t))], NodeOf(t).size)
  OBVIOUS
<1> DEFINE id == <<kind, d>>
           old == IF size = pool[t][id] THEN {} ELSE Parts(t, id, pool[t][id])
           buffer == Region(t, id, size, 1)
           f == [Top(t) EXCEPT !.buffer = buffer, !.hasBuffer = TRUE]
<1>1. stack[t] # << >> /\ kind \in Buffered /\ ~Top(t).hasBuffer
  BY DEF Begin, Running
<1>2. /\ BufferIdFor(t, NodeOf(t)) = id /\ id \in BufferIds
      /\ kind \in Stacked => /\ d = active[t][kind] + 1 /\ d \in Nat
                             /\ d + Nesting[kind][Top(t).node] <= Room(kind)
      /\ kind \notin Stacked => d = 0
      /\ \A k \in D : stack[t][k].hasBuffer /\ KindAt(t, k) = kind =>
           DepthAt(t, k) # d /\ (kind \in Stacked => DepthAt(t, k) < d)
  BY <1>1, NextBufferIsFree
<1>3. /\ stack \in [Threads -> Seq(FrameType)] /\ stack[t] \in Seq(FrameType)
      /\ pool \in [Threads -> [BufferIds -> Nat]]
      /\ active \in [Threads -> [Stacked -> Int]]
      /\ mem = [r \in DOMAIN mem |-> mem[r]] /\ \A r \in DOMAIN mem : mem[r] \in ValueType
      /\ ThreadOK(t)
  BY DEF IInv, Typed
<1>4. /\ active' = IF kind \in Stacked THEN [active EXCEPT ![t][kind] = @ + 1] ELSE active
      /\ pool' = [pool EXCEPT ![t][id] = size]
      /\ mem' = [r \in (DOMAIN mem \ old) \cup Parts(t, id, size) |->
                   IF r \in DOMAIN mem THEN mem[r] ELSE Unset]
      /\ stack' = Become(t, f)
      /\ size = BlockSize(pool[t][id], NodeOf(t).size)
  BY <1>2 DEF Begin, OwnerOf
<1>5. /\ n \in D /\ Top(t) = stack[t][n] /\ Top(t) \in FrameType
      /\ \A k \in D : k # n => k < n /\ ~(n < k)
      /\ \A k \in D : stack[t][k] \in FrameType
  <2>1. n \in Nat \ {0} /\ D = 1..n /\ Last(stack[t]) = stack[t][n]
    BY <1>1, <1>3, PopSeq
  <2>2. n \in D /\ \A k \in D : k # n => k < n /\ ~(n < k)
    BY <2>1
  <2>3. \A k \in D : stack[t][k] \in FrameType
    BY <1>3, <2>1, ElementOfSeq
  <2> QED
    BY <2>1, <2>2, <2>3 DEF Top
<1>6. /\ Top(t).node \in DOMAIN Node /\ Node[Top(t).node].kind = kind
      /\ NodeOf(t).size = Node[Top(t).node].size /\ Node[Top(t).node].size \in Nat
      /\ KindAt(t, n) = kind
  BY <1>5, NodeFacts DEF FrameType, NodeOf, KindAt
<1>7. size \in Nat /\ Node[Top(t).node].size <= size
  <2>1. pool[t][id] \in Nat
    BY <1>2, <1>3
  <2> QED
    BY <1>4, <1>6, <2>1 DEF BlockSize
<1>8. buffer \in RegionType
  BY <1>2, <1>7 DEF RegionType, RegionIds, Region
<1>9. /\ f \in FrameType /\ f.node = Top(t).node /\ f.buffer = buffer /\ f.hasBuffer
      /\ FrameOK(f)
  <2>1. /\ f \in FrameType /\ f.node = Top(t).node /\ f.buffer = buffer /\ f.hasBuffer
        /\ f.rounds = Top(t).rounds /\ f.step = Top(t).step
    <3> HIDE DEF buffer
    <3> QED
      BY <1>5, <1>8 DEF FrameType
  <2>2. FrameOK(Top(t))
    BY <1>3, <1>5 DEF ThreadOK
  <2> HIDE DEF f
  <2> QED
    BY <2>1, <2>2 DEF FrameOK
<1> HIDE DEF f
<1>10. /\ stack'[t] \in Seq(FrameType) /\ DOMAIN stack'[t] = D
       /\ stack'[t][n] = f
       /\ \A k \in D : k # n => stack'[t][k] = stack[t][k]
  <2>1. stack'[t] = Append(Front(stack[t]), f)
    BY <1>3, <1>4 DEF Become
  <2>2. n \in Nat \ {0} /\ D = 1..n
    BY <1>1, <1>3, PopSeq
  <2>3. /\ stack'[t] \in Seq(FrameType) /\ DOMAIN stack'[t] = D
        /\ stack'[t][n] = f
        /\ \A k \in 1..(n - 1) : stack'[t][k] = stack[t][k]
    BY <1>1, <1>3, <1>9, <2>1, ReplaceSeq
  <2>4. \A k \in D : k # n => k \in 1..(n - 1)
    BY <2>2
  <2> QED
    BY <2>3, <2>4
<1>11. /\ pool'[t] = [pool[t] EXCEPT ![id] = size] /\ pool'[t][id] = size
       /\ \A i \in BufferIds : i # id => pool'[t][i] = pool[t][i]
       /\ \A u \in Threads : u # t => pool'[u] = pool[u] /\ active'[u] = active[u]
                                      /\ stack'[u] = stack[u]
       /\ DOMAIN mem' = (DOMAIN mem \ old) \cup Parts(t, id, size)
       /\ buffer \in DOMAIN mem'
  <2>1. buffer \in Parts(t, id, size)
    BY DEF Parts
  <2> HIDE DEF id, old, buffer
  <2> QED
    BY <1>2, <1>3, <1>4, <2>1 DEF Become
<1>12. \A r \in DOMAIN mem : (r.owner # t \/ r.id # id) => r \in DOMAIN mem'
  BY <1>11 DEF Parts, Region
<1>13. /\ kind \in Stacked => active'[t][kind] = active[t][kind] + 1
       /\ \A other \in Stacked : other # kind => active'[t][other] = active[t][other]
  BY <1>3, <1>4
<1>14. Typed'
  <2>1. stack' \in [Threads -> Seq(FrameType)]
    BY <1>3, <1>4, <1>10 DEF Become
  <2>2. pool' \in [Threads -> [BufferIds -> Nat]]
    BY <1>3, <1>4, <1>7
  <2>3. active' \in [Threads -> [Stacked -> Int]]
    BY <1>3, <1>4
  <2>4. mem' = [r \in DOMAIN mem' |-> mem'[r]] /\ \A r \in DOMAIN mem' : mem'[r] \in ValueType
    <3>1. Unset \in ValueType
      BY UnsetType
    <3>2. \A r \in DOMAIN mem' : mem'[r] = IF r \in DOMAIN mem THEN mem[r] ELSE Unset
      BY <1>4
    <3>3. mem' = [r \in DOMAIN mem' |-> mem'[r]]
      BY <1>4
    <3> QED
      BY <1>3, <3>1, <3>2, <3>3
  <2> QED
    BY <2>1, <2>2, <2>3, <2>4 DEF Typed
<1> HIDE DEF buffer, old
(* The other frames of the thread.                                         *)
<1>15. ASSUME NEW k \in D, k # n
       PROVE  /\ Unchanged(t, k) /\ FrameOK(stack'[t][k]) /\ BufferOK(t, k)
              /\ KindAt(t, k)' = KindAt(t, k) /\ DepthAt(t, k)' = DepthAt(t, k)
              /\ \A other : Holds(t, k, other)' <=> Holds(t, k, other)
              /\ BufferOK(t, k)'
  <2>1. stack'[t][k] = stack[t][k] /\ FrameOK(stack[t][k]) /\ BufferOK(t, k)
    BY <1>3, <1>10, <1>15 DEF ThreadOK
  <2>2. Unchanged(t, k)
    BY <2>1 DEF Unchanged
  <2>3. /\ KindAt(t, k)' = KindAt(t, k) /\ DepthAt(t, k)' = DepthAt(t, k)
        /\ \A other : Holds(t, k, other)' <=> Holds(t, k, other)
    BY <2>2, UnchangedFrame
  <2>4. BufferOK(t, k)'
    <3>1. SUFFICES ASSUME stack[t][k].hasBuffer PROVE BufferOK(t, k)'
      BY <2>1 DEF BufferOK
    <3> DEFINE own == <<KindAt(t, k), DepthAt(t, k)>>
    <3>2. own # id /\ own \in BufferIds
      BY <1>2, <2>1, <3>1 DEF BufferOK
    <3>3. pool'[t][own] = pool[t][own]
      BY <1>11, <3>2
    <3>4. stack'[t][k].buffer \in DOMAIN mem'
      <4>1. /\ stack[t][k].buffer \in DOMAIN mem /\ stack[t][k].buffer.id = own
        BY <2>1, <3>1 DEF BufferOK, Live, Region
      <4> QED
        BY <1>12, <2>1, <3>2, <4>1
    <3>5. KindAt(t, k) \in Stacked =>
            DepthAt(t, k) \in 0..active[t][KindAt(t, k)]
            /\ DepthAt(t, k) \in 0..active'[t][KindAt(t, k)]
      <4>1. SUFFICES ASSUME KindAt(t, k) \in Stacked
                     PROVE  DepthAt(t, k) \in 0..active[t][KindAt(t, k)]
                            /\ DepthAt(t, k) \in 0..active'[t][KindAt(t, k)]
        OBVIOUS
      <4>2. /\ DepthAt(t, k) \in 0..active[t][KindAt(t, k)]
            /\ active[t][KindAt(t, k)] \in Int
        BY <1>3, <2>1, <3>1, <4>1 DEF BufferOK
      <4>3. active'[t][KindAt(t, k)] = active[t][KindAt(t, k)]
              \/ active'[t][KindAt(t, k)] = active[t][KindAt(t, k)] + 1
        BY <1>13, <4>1
      <4> QED
        BY <4>2, <4>3
    <3> QED
      BY <2>1, <2>3, <3>1, <3>2, <3>3, <3>4, <3>5 DEF BufferOK, Live
  <2> QED
    BY <2>1, <2>2, <2>3, <2>4
(* The frame on top.                                                       *)
<1>16. /\ stack'[t][n].buffer = Region(t, id, size, 1) /\ stack'[t][n].hasBuffer
       /\ stack'[t][n].node = Top(t).node
       /\ KindAt(t, n)' = kind /\ DepthAt(t, n)' = d
       /\ \A other : Holds(t, n, other)' <=> other = kind
       /\ FrameOK(stack'[t][n])
  <2>1. /\ stack'[t][n].buffer = Region(t, id, size, 1) /\ stack'[t][n].hasBuffer
        /\ stack'[t][n].node = Top(t).node /\ FrameOK(stack'[t][n])
    BY <1>9, <1>10 DEF buffer
  <2>2. KindAt(t, n)' = kind /\ DepthAt(t, n)' = d
    BY <1>6, <2>1 DEF KindAt, DepthAt, Region
  <2> QED
    BY <2>1, <2>2 DEF Holds
<1>17. BufferOK(t, n)'
  <2>1. <<KindAt(t, n)', DepthAt(t, n)'>> = id /\ pool'[t][id] = size
    BY <1>11, <1>16
  <2>2. stack'[t][n].buffer \in DOMAIN mem'
    BY <1>11, <1>16 DEF buffer
  <2>3. kind \in Stacked => d \in 0..active'[t][kind]
    BY <1>2, <1>13
  <2> QED
    BY <1>1, <1>2, <1>7, <1>16, <2>1, <2>2, <2>3 DEF BufferOK, Live
<1>18. ~stack[t][n].hasBuffer /\ \A other : ~Holds(t, n, other)
  BY <1>1, <1>5 DEF Holds
<1>19. Nested(t)'
  <2>1. \A k \in D : stack'[t][k].node = stack[t][k].node
    BY <1>5, <1>10, <1>16
  <2> QED
    BY <1>3, <1>10, <2>1 DEF ThreadOK, Nested, Own
<1>20. StackedInOrder(t)'
  <2>1. SUFFICES ASSUME NEW other \in Stacked
        PROVE  /\ active'[t][other] >= -1
               /\ \A k, l \in D :
                    k < l /\ Holds(t, k, other)' /\ Holds(t, l, other)'
                      => DepthAt(t, k)' < DepthAt(t, l)'
               /\ \A e \in 0..active'[t][other] :
                    \E k \in D : Holds(t, k, other)' /\ DepthAt(t, k)' = e
    BY <1>10 DEF StackedInOrder
  <2>2. /\ active[t][other] >= -1 /\ active[t][other] \in Int
        /\ \A k, l \in D :
             k < l /\ Holds(t, k, other) /\ Holds(t, l, other) => DepthAt(t, k) < DepthAt(t, l)
        /\ \A e \in 0..active[t][other] : \E k \in D : Holds(t, k, other) /\ DepthAt(t, k) = e
    BY <1>3 DEF ThreadOK, StackedInOrder
  <2>3. active'[t][other] >= -1
    BY <1>13, <2>2
  <2>4. ASSUME NEW k \in D, NEW l \in D, k < l, Holds(t, k, other)', Holds(t, l, other)'
        PROVE  DepthAt(t, k)' < DepthAt(t, l)'
    <3>1. k # n
      BY <1>5, <2>4
    <3>2. CASE l = n
      <4>1. other = kind /\ Holds(t, k, kind)
        BY <1>15, <1>16, <2>4, <3>1, <3>2
      <4>2. DepthAt(t, k) < d
        BY <1>2, <4>1 DEF Holds
      <4> QED
        BY <1>15, <1>16, <3>1, <3>2, <4>2
    <3>3. CASE l # n
      BY <1>15, <2>2, <2>4, <3>1, <3>3
    <3> QED
      BY <3>2, <3>3
  <2>5. ASSUME NEW e \in 0..active'[t][other]
        PROVE  \E k \in D : Holds(t, k, other)' /\ DepthAt(t, k)' = e
    <3>1. CASE e \in 0..active[t][other]
      <4>1. PICK k \in D : Holds(t, k, other) /\ DepthAt(t, k) = e
        BY <2>2, <3>1
      <4>2. k # n
        BY <1>18, <4>1
      <4> QED
        BY <1>15, <4>1, <4>2
    <3>2. CASE e \notin 0..active[t][other]
      <4>1. other = kind /\ e = active[t][kind] + 1
        BY <1>13, <2>2, <3>2
      <4> QED
        BY <1>2, <1>5, <1>16, <4>1
    <3> QED
      BY <3>1, <3>2
  <2> QED
    BY <2>3, <2>4, <2>5
<1>21. Counted(t)'
  <2>1. ASSUME NEW other \in Stacked
        PROVE  active'[t][other] + 1 = Cardinality(Holders(t, other)')
    <3>1. active[t][other] + 1 = Cardinality(Holders(t, other)) /\ active[t][other] \in Int
      BY <1>3 DEF ThreadOK, Counted
    <3>2. Holders(t, other)' = {k \in D : Holds(t, k, other)'}
      BY <1>10 DEF Holders
    <3>3. Holders(t, other) = {k \in D : Holds(t, k, other)}
      BY DEF Holders
    <3>4. IsFiniteSet(Holders(t, other))
      BY HoldersFinite DEF IInv
    <3>5. CASE other = kind
      <4>1. Holders(t, other)' = Holders(t, other) \cup {n}
        BY <1>5, <1>15, <1>16, <3>2, <3>3, <3>5
      <4>2. n \notin Holders(t, other)
        BY <1>18, <3>3
      <4>3. Cardinality(Holders(t, other) \cup {n}) = Cardinality(Holders(t, other)) + 1
        BY <3>4, <4>2, FS_AddElement
      <4> QED
        BY <1>13, <3>1, <3>5, <4>1, <4>3
    <3>6. CASE other # kind
      <4>1. Holders(t, other)' = Holders(t, other)
        BY <1>15, <1>16, <1>18, <3>2, <3>3, <3>6
      <4> QED
        BY <1>13, <3>1, <3>6, <4>1
    <3> QED
      BY <3>5, <3>6
  <2> QED
    BY <2>1 DEF Counted
<1>22. ThreadOK(t)'
  <2>1. \A k \in DOMAIN stack'[t] : FrameOK(stack'[t][k]) /\ BufferOK(t, k)'
    BY <1>10, <1>15, <1>16, <1>17
  <2> QED
    BY <1>19, <1>20, <1>21, <2>1 DEF ThreadOK, FrameOK
<1>23. \A u \in Threads : u # t => ThreadOK(u)'
  <2> SUFFICES ASSUME NEW u \in Threads, u # t PROVE ThreadOK(u)'
    OBVIOUS
  <2> QED
    BY <1>11, <1>12, OtherThread DEF IInv
<1> QED
  BY <1>14, <1>22, <1>23 DEF IInv

LEMMA ExecuteOK ==
  ASSUME IInv, NEW t \in Threads, NEW root \in PlansOf[t], NEW inplace \in BOOLEAN,
         Execute(t, root, inplace)
  PROVE  IInv'
<1> DEFINE in  == UserArray(t, "in")
           out == IF inplace THEN in ELSE UserArray(t, "out")
           g   == NewFrame(root, in, out, Batches)
<1>1. /\ stack \in [Threads -> Seq(FrameType)] /\ stack[t] = << >>
      /\ pool \in [Threads -> [BufferIds -> Nat]]
      /\ active \in [Threads -> [Stacked -> Int]]
      /\ mem = [r \in DOMAIN mem |-> mem[r]] /\ \A r \in DOMAIN mem : mem[r] \in ValueType
      /\ ThreadOK(t)
  BY DEF IInv, Typed, Execute
<1>2. g \in FrameType /\ FrameOK(g) /\ ~g.hasBuffer
  <2>1. in \in RegionType /\ out \in RegionType
    BY DEF UserArray, Region, RegionType, RegionIds
  <2>2. root \in DOMAIN Node
    BY NodeAssumption
  <2>3. Batches \in SUBSET Batches
    OBVIOUS
  <2> HIDE DEF in, out
  <2> QED
    BY <2>1, <2>2, <2>3, NewFrameOK
<1>3. /\ stack' = [stack EXCEPT ![t] = << g >>]
      /\ pool' = pool /\ active' = active
      /\ DOMAIN mem' = DOMAIN mem \cup {in, UserArray(t, "out")}
      /\ mem' = [r \in DOMAIN mem' |-> mem'[r]]
      /\ \A r \in DOMAIN mem' : \/ mem'[r] = Same(<< >>) \/ mem'[r] = Unset
                                \/ r \in DOMAIN mem /\ mem'[r] = mem[r]
  BY DEF Execute
<1> HIDE DEF in, out, g
<1>4. stack'[t] = << g >> /\ << g >> \in Seq(FrameType) /\ DOMAIN << g >> = {1} /\ << g >>[1] = g
  BY <1>1, <1>2, <1>3
<1>5. Typed'
  BY <1>1, <1>3, <1>4, UnsetType DEF Typed
<1>6. ASSUME NEW kind \in Stacked
      PROVE  /\ active'[t][kind] = -1 /\ active[t][kind] + 1 = Cardinality(Holders(t, kind))
             /\ Holders(t, kind) = {}
  <2>1. /\ active[t][kind] >= -1 /\ active[t][kind] \in Int
        /\ \A d \in 0..active[t][kind] :
             \E k \in DOMAIN stack[t] : Holds(t, k, kind) /\ DepthAt(t, k) = d
    BY <1>1 DEF ThreadOK, StackedInOrder
  <2>2. DOMAIN stack[t] = {}
    BY <1>1
  <2>3. active[t][kind] \notin 0..active[t][kind]
    BY <2>1, <2>2
  <2>4. active[t][kind] = -1
    BY <2>1, <2>3
  <2> QED
    BY <1>1, <1>3, <2>2, <2>4 DEF ThreadOK, Counted, Holders
<1>7. ThreadOK(t)'
  <2>1. DOMAIN stack'[t] = {1} /\ stack'[t][1] = g
    BY <1>4
  <2>2. \A k \in DOMAIN stack'[t] : FrameOK(stack'[t][k]) /\ BufferOK(t, k)'
    BY <1>2, <2>1 DEF BufferOK
  <2>3. Nested(t)'
    BY <2>1 DEF Nested
  <2>4. StackedInOrder(t)'
    BY <1>6, <2>1 DEF StackedInOrder
  <2>5. \A kind \in Stacked : Holders(t, kind)' = {}
    BY <1>2, <2>1 DEF Holders, Holds
  <2>6. Counted(t)'
    BY <1>3, <1>6, <2>5 DEF Counted
  <2> QED
    BY <2>2, <2>3, <2>4, <2>6 DEF ThreadOK, FrameOK
<1>8. \A u \in Threads : u # t => ThreadOK(u)'
  <2> SUFFICES ASSUME NEW u \in Threads, u # t PROVE ThreadOK(u)'
    OBVIOUS
  <2>1. /\ ThreadOK(u) /\ stack'[u] = stack[u] /\ pool'[u] = pool[u]
        /\ active'[u] = active[u] /\ \A r \in DOMAIN mem : r.owner = u => r \in DOMAIN mem'
    BY <1>1, <1>3 DEF IInv
  <2> QED
    BY <2>1, OtherThread
<1> QED
  BY <1>5, <1>7, <1>8 DEF IInv

-----------------------------------------------------------------------------
(* Steps of a running plan.                                                *)

(* A call replaces the top frame by f, and afterwards by c.                *)
LEMMA CallReplace ==
  ASSUME NEW S, NEW s \in Seq(S), s # << >>, NEW a \in S, NEW b \in S, NEW c \in S
  PROVE  [(Front(s) \o << a, b >>) EXCEPT ![Len(s)] = c] = Front(s) \o << c, b >>
<1> DEFINE x == Front(s) \o << a, b >>
           y == Front(s) \o << c, b >>
           n == Len(s)
<1>1. /\ n \in Nat /\ DOMAIN x = 1..(n + 1) /\ DOMAIN y = 1..(n + 1)
      /\ x[n + 1] = b /\ y[n + 1] = b /\ y[n] = c
      /\ \A k \in 1..(n - 1) : x[k] = y[k]
      /\ x \in Seq(S) /\ y \in Seq(S)
  BY PushSeq
<1>2. x = [k \in DOMAIN x |-> x[k]] /\ y = [k \in DOMAIN y |-> y[k]]
  <2> HIDE DEF x, y
  <2> QED
    BY <1>1
<1> HIDE DEF x, y, n
<1>3. \A k \in 1..(n + 1) : [x EXCEPT ![n] = c][k] = y[k]
  <2> SUFFICES ASSUME NEW k \in 1..(n + 1) PROVE [x EXCEPT ![n] = c][k] = y[k]
    OBVIOUS
  <2>1. k = n \/ k = n + 1 \/ k \in 1..(n - 1)
    BY <1>1
  <2>2. [x EXCEPT ![n] = c][k] = IF k = n THEN c ELSE x[k]
    BY <1>1
  <2>3. n # n + 1 /\ ~(n \in 1..(n - 1))
    BY <1>1
  <2> QED
    BY <1>1, <2>1, <2>2, <2>3
<1>4. [x EXCEPT ![n] = c] = [k \in 1..(n + 1) |-> [x EXCEPT ![n] = c][k]]
  BY <1>1
<1> QED
  BY <1>1, <1>2, <1>3, <1>4 DEF x, y, n

(* The frame on top.                                                       *)
LEMMA TopFacts ==
  ASSUME IInv, NEW t \in Threads, stack[t] # << >>
  PROVE  /\ Top(t) \in FrameType /\ FrameOK(Top(t)) /\ BufferOK(t, Len(stack[t]))
         /\ Top(t) = stack[t][Len(stack[t])]
         /\ Top(t).node \in DOMAIN Node /\ NodeOf(t) = Node[Top(t).node]
         /\ stack \in [Threads -> Seq(FrameType)] /\ stack[t] \in Seq(FrameType)
         /\ active \in [Threads -> [Stacked -> Int]]
         /\ \A kind : Holds(t, Len(stack[t]), kind)
                        <=> Top(t).hasBuffer /\ NodeOf(t).kind = kind
<1>1. /\ stack \in [Threads -> Seq(FrameType)] /\ stack[t] \in Seq(FrameType)
      /\ active \in [Threads -> [Stacked -> Int]]
  BY DEF IInv, Typed
<1>2. /\ Top(t) = stack[t][Len(stack[t])] /\ Len(stack[t]) \in DOMAIN stack[t]
      /\ Top(t) \in FrameType
  <2>1. /\ Len(stack[t]) \in Nat \ {0} /\ DOMAIN stack[t] = 1..Len(stack[t])
        /\ Last(stack[t]) = stack[t][Len(stack[t])] /\ Last(stack[t]) \in FrameType
    BY <1>1, PopSeq
  <2> QED
    BY <2>1 DEF Top
<1>3. FrameOK(Top(t)) /\ BufferOK(t, Len(stack[t]))
  BY <1>2 DEF IInv, ThreadOK
<1>4. Top(t).node \in DOMAIN Node
  BY <1>2 DEF FrameType
<1> QED
  BY <1>1, <1>2, <1>3, <1>4 DEF NodeOf, Holds, KindAt

(* A frame g for the sub-plan j of the top frame, which becomes f.         *)
LEMMA CalledOK ==
  ASSUME IInv, NEW t \in Threads, stack[t] # << >>, UNCHANGED <<pool, active, mem>>,
         NEW f \in FrameType, FrameOK(f),
         f.node = Top(t).node, f.buffer = Top(t).buffer, f.hasBuffer = Top(t).hasBuffer,
         NEW j \in 1..Len(NodeOf(t).subs), NEW in \in RegionType, NEW out \in RegionType,
         NEW bs \in SUBSET Batches,
         stack' = [stack EXCEPT ![t] =
                     Front(@) \o << f, NewFrame(NodeOf(t).subs[j], in, out, bs) >>]
  PROVE  IInv'
<1> DEFINE g == NewFrame(NodeOf(t).subs[j], in, out, bs)
<1>1. Top(t).node \in DOMAIN Node /\ NodeOf(t) = Node[Top(t).node]
  BY TopFacts
<1>2. NodeOf(t).subs[j] \in DOMAIN Node
  BY <1>1, NodeFacts
<1>3. g \in FrameType /\ FrameOK(g) /\ g.node = NodeOf(t).subs[j] /\ ~g.hasBuffer
  BY <1>2, NewFrameOK
<1> HIDE DEF g
<1>4. stack' = [stack EXCEPT ![t] = Front(@) \o << f, g >>]
  BY DEF g
<1>5. j \in 1..Len(Node[f.node].subs) /\ g.node = Node[f.node].subs[j]
  BY <1>1, <1>3
<1>6. g \in FrameType /\ FrameOK(g) /\ ~g.hasBuffer
  BY <1>3
<1> QED
  BY <1>4, <1>5, <1>6, CallOK, ZenonT(60)

(* A frame without a stacked buffer returns.                               *)
LEMMA ReturnOK ==
  ASSUME IInv, NEW t \in Threads, stack[t] # << >>, stack' = Returned(t),
         UNCHANGED <<pool, active>>, MemoryKept, NodeOf(t).kind \notin Stacked
  PROVE  IInv'
<1>1. active' \in [Threads -> [Stacked -> Int]] /\ \A kind \in Stacked :
        ~Holds(t, Len(stack[t]), kind)
  BY TopFacts
<1>2. \A kind \in Stacked :
        active'[t][kind] = IF Holds(t, Len(stack[t]), kind)
                           THEN active[t][kind] - 1 ELSE active[t][kind]
  BY <1>1
<1>3. /\ pool' = pool /\ \A u \in Threads \ {t} : active'[u] = active[u]
      /\ mem' = [r \in DOMAIN mem' |-> mem'[r]]
      /\ DOMAIN mem' = DOMAIN mem /\ \A r \in DOMAIN mem : mem'[r] \in ValueType
  BY DEF MemoryKept
<1> QED
  BY <1>1, <1>2, <1>3, PopOK

LEMMA NextRoundOK ==
  ASSUME NEW f \in FrameType, FrameOK(f), f.rounds # << >>,
         Node[f.node].kind \notin {"leaf", "cooleytukey"}
  PROVE  /\ NextRound(f) \in FrameType /\ FrameOK(NextRound(f))
         /\ NextRound(f).node = f.node /\ NextRound(f).buffer = f.buffer
         /\ NextRound(f).hasBuffer = f.hasBuffer
         /\ Head(f.rounds) \in SUBSET Batches
<1>1. f.rounds \in Seq(SUBSET Batches) /\ f.node \in DOMAIN Node
  BY DEF FrameType
<1> DEFINE S == SUBSET Batches
           rounds == f.rounds
<1>2. Tail(rounds) \in Seq(S) /\ Head(rounds) \in S
  <2>1. rounds \in Seq(S) /\ rounds # << >>
    BY <1>1
  <2> HIDE DEF S, rounds
  <2> QED
    BY <2>1
<1>3. NextRound(f) \in FrameType
  BY <1>2 DEF NextRound, FrameType
<1>4. /\ NextRound(f).node = f.node /\ NextRound(f).buffer = f.buffer
      /\ NextRound(f).hasBuffer = f.hasBuffer /\ NextRound(f).step = 0
  BY DEF NextRound, FrameType
<1>5. Node[f.node].kind = "composition" => 0 < Len(Node[f.node].subs)
  <2>1. Node[f.node].kind = "composition" => 1 \in 1..Len(Node[f.node].subs)
    BY <1>1, NodeFacts DEF Buffered, Stacked
  <2> QED
    BY <1>1, <2>1, NodeFacts
<1> QED
  BY <1>2, <1>3, <1>4, <1>5 DEF FrameOK

LEMMA StepToOK ==
  ASSUME NEW f \in FrameType, FrameOK(f), Node[f.node].kind # "composition", NEW i \in Nat
  PROVE  LET c == [f EXCEPT !.step = i]
         IN  /\ c \in FrameType /\ FrameOK(c) /\ c.node = f.node
             /\ c.buffer = f.buffer /\ c.hasBuffer = f.hasBuffer
             /\ c.rounds = f.rounds
<1> DEFINE c == [f EXCEPT !.step = i]
<1>1. c \in FrameType
  BY DEF FrameType
<1>2. /\ c.node = f.node /\ c.rounds = f.rounds
      /\ c.buffer = f.buffer /\ c.hasBuffer = f.hasBuffer
  BY DEF FrameType
<1> HIDE DEF c
<1>3. FrameOK(c)
  BY <1>2 DEF FrameOK
<1> QED
  BY <1>1, <1>2, <1>3 DEF c

(* What a buffered frame may read and write.                               *)
LEMMA FrameRegions ==
  ASSUME NEW f \in FrameType
  PROVE  /\ f.in \in RegionType /\ f.out \in RegionType /\ f.buffer \in RegionType
         /\ Half(f, f.half) \in RegionType /\ Half(f, 3 - f.half) \in RegionType
<1>1. /\ f.in \in RegionType /\ f.out \in RegionType /\ f.buffer \in RegionType
      /\ f.half \in {1, 2}
  BY DEF FrameType
<1>2. 3 - f.half \in {1, 2}
  BY <1>1
<1>3. \A part \in {1, 2} : Half(f, part) \in RegionType
  BY <1>1 DEF Half, RegionType
<1> QED
  BY <1>1, <1>2, <1>3

LEMMA RunLeafOK ==
  ASSUME IInv, NEW t \in Threads, RunLeaf(t)
  PROVE  IInv'
<1> DEFINE f == Top(t)
<1>1. stack[t] # << >> /\ NodeOf(t).kind = "leaf" /\ f.node \in DOMAIN Node
  BY TopFacts DEF RunLeaf, Running
<1>2. Op("kernel", f.node) \in Seq(OpType)
  <2>1. f.node \in Nat /\ "kernel" \in OpNames
    BY <1>1, NodeFacts DEF OpNames
  <2> QED
    BY <2>1, OpTyped
<1>3. MemoryKept
  BY <1>2, ApplyKeeps DEF RunLeaf, IInv
<1> QED
  BY <1>1, <1>3, ReturnOK DEF RunLeaf, Stacked

LEMMA RunLoopOK ==
  ASSUME IInv, NEW t \in Threads, RunLoop(t)
  PROVE  IInv'
<1>1. PICK f : f = Top(t)
  OBVIOUS
<1>2. /\ stack[t] # << >> /\ NodeOf(t).kind = "loop" /\ f \in FrameType /\ FrameOK(f)
      /\ f.node \in DOMAIN Node /\ NodeOf(t) = Node[f.node]
      /\ stack \in [Threads -> Seq(FrameType)] /\ stack[t] \in Seq(FrameType)
  BY <1>1, TopFacts DEF RunLoop, Running
<1>3. CASE f.rounds = << >>
  <2>1. MemoryKept
    BY SameKeeps DEF RunLoop, IInv
  <2> QED
    BY <1>1, <1>2, <1>3, <2>1, ReturnOK DEF RunLoop, Stacked
<1>4. CASE f.rounds # << >>
  <2> DEFINE c == NextRound(f)
             g == NewFrame(NodeOf(t).subs[1], f.in, f.out, Head(f.rounds))
  <2>1. /\ c \in FrameType /\ FrameOK(c) /\ c.node = f.node /\ c.buffer = f.buffer
        /\ c.hasBuffer = f.hasBuffer /\ Head(f.rounds) \in SUBSET Batches
    BY <1>2, <1>4, NextRoundOK
  <2>2. 1 \in 1..Len(NodeOf(t).subs) /\ NodeOf(t).subs[1] \in DOMAIN Node
    BY <1>2, NodeFacts
  <2>3. f.in \in RegionType /\ f.out \in RegionType
    BY <1>2, FrameRegions
  <2>4. g \in FrameType
    BY <2>1, <2>2, <2>3, NewFrameOK
  <2>5. stack' = [stack EXCEPT ![t] = Front(@) \o << c, g >>]
    <3>1. stack' = [[stack EXCEPT ![t] = Front(@) \o << f, g >>]
                      EXCEPT ![t][Len(stack[t])] = c]
      BY <1>1, <1>4 DEF RunLoop, Called
    <3> HIDE DEF c, g
    <3>2. [(Front(stack[t]) \o << f, g >>) EXCEPT ![Len(stack[t])] = c]
            = Front(stack[t]) \o << c, g >>
      BY <1>2, <2>1, <2>4, CallReplace
    <3> QED
      BY <1>2, <3>1, <3>2
  <2>6. UNCHANGED <<pool, active, mem>>
    BY DEF RunLoop
  <2> HIDE DEF c
  <2> QED
    BY <1>1, <1>2, <2>1, <2>2, <2>3, <2>5, <2>6, CalledOK
<1> QED
  BY <1>3, <1>4

LEMMA RunStageOK ==
  ASSUME IInv, NEW t \in Threads, RunStage(t)
  PROVE  IInv'
<1>1. PICK f : f = Top(t)
  OBVIOUS
<1>2. /\ stack[t] # << >> /\ NodeOf(t).kind = "cooleytukey" /\ f \in FrameType /\ FrameOK(f)
      /\ f.node \in DOMAIN Node /\ NodeOf(t) = Node[f.node]
      /\ stack \in [Threads -> Seq(FrameType)] /\ stack[t] \in Seq(FrameType)
  BY <1>1, TopFacts DEF RunStage, Running
<1>3. /\ 1 \in 1..Len(NodeOf(t).subs) /\ 2 \in 1..Len(NodeOf(t).subs)
  BY <1>2, NodeFacts DEF Buffered, Stacked
<1>4. /\ f.in \in RegionType /\ f.out \in RegionType /\ f.buffer \in RegionType
  BY <1>2, FrameRegions
<1>5. Head(f.rounds) \in SUBSET Batches
  <2>1. f.rounds \in Seq(SUBSET Batches) /\ f.rounds # << >>
    BY <1>2 DEF FrameOK, FrameType
  <2> DEFINE S == SUBSET Batches
  <2>2. f.rounds \in Seq(S)
    BY <2>1
  <2> HIDE DEF S
  <2>3. Head(f.rounds) \in S
    BY <2>1, <2>2
  <2> QED
    BY <2>3 DEF S
<1>6. ASSUME NEW i \in {1, 2}
      PROVE  LET c == [f EXCEPT !.step = i]
             IN  /\ c \in FrameType /\ FrameOK(c) /\ c.node = f.node
                 /\ c.buffer = f.buffer /\ c.hasBuffer = f.hasBuffer
                 /\ c.rounds = f.rounds
  <2>1. i \in Nat /\ Node[f.node].kind # "composition"
    BY <1>2
  <2> QED
    BY <1>2, <2>1, StepToOK
<1>7. UNCHANGED <<pool, active, mem>>
  BY DEF RunStage
<1>8. CASE f.step = 0
  <2> DEFINE c == [f EXCEPT !.step = 1]
  <2>1. /\ c \in FrameType /\ FrameOK(c) /\ c.node = f.node
        /\ c.buffer = f.buffer /\ c.hasBuffer = f.hasBuffer /\ c.rounds = f.rounds
    BY <1>6
  <2>2. stack' = [stack EXCEPT ![t] = Front(@) \o
                    << c, NewFrame(NodeOf(t).subs[1], f.in, f.buffer, Head(f.rounds)) >>]
    BY <1>1, <1>8, <2>1 DEF RunStage, Called
  <2> HIDE DEF c
  <2> QED
    BY <1>1, <1>2, <1>3, <1>4, <1>5, <1>7, <2>1, <2>2, CalledOK
<1>9. CASE f.step # 0
  <2> DEFINE c == [f EXCEPT !.step = 2]
  <2>1. /\ c \in FrameType /\ FrameOK(c) /\ c.node = f.node
        /\ c.buffer = f.buffer /\ c.hasBuffer = f.hasBuffer /\ c.rounds = f.rounds
    BY <1>6
  <2>2. stack' = [stack EXCEPT ![t] = Front(@) \o
                    << c, NewFrame(NodeOf(t).subs[2], f.buffer, f.out, Head(f.rounds)) >>]
    BY <1>1, <1>9, <2>1 DEF RunStage, Called
  <2> HIDE DEF c
  <2> QED
    BY <1>1, <1>2, <1>3, <1>4, <1>5, <1>7, <2>1, <2>2, CalledOK
<1> QED
  BY <1>8, <1>9

LEMMA RunLevelOK ==
  ASSUME IInv, NEW t \in Threads, RunLevel(t)
  PROVE  IInv'
<1>1. PICK f, n : f = Top(t) /\ n = Len(NodeOf(t).subs)
  OBVIOUS
<1>2. /\ stack[t] # << >> /\ NodeOf(t).kind = "composition" /\ f \in FrameType /\ FrameOK(f)
      /\ f.node \in DOMAIN Node /\ NodeOf(t) = Node[f.node] /\ f.rounds # << >>
      /\ stack \in [Threads -> Seq(FrameType)] /\ stack[t] \in Seq(FrameType)
  BY <1>1, TopFacts DEF RunLevel, Running
<1>3. /\ f.step \in Nat /\ n \in Nat /\ f.step < n /\ f.step + 1 \in 1..n
      /\ f.step # n - 1 => f.step + 1 < n
  <2>1. f.step \in Nat /\ n \in Nat /\ f.step < n
    BY <1>1, <1>2, NodeFacts DEF FrameType, FrameOK
  <2> QED
    BY <2>1
<1>4. PICK from, to, c :
        /\ from = IF f.step = 0 THEN f.in ELSE Half(f, 3 - f.half)
        /\ to   = IF f.step = n - 1 THEN f.out ELSE Half(f, f.half)
        /\ c    = IF f.step = n - 1 THEN NextRound(f)
                  ELSE [f EXCEPT !.step = @ + 1, !.half = 3 - @]
  OBVIOUS
<1>5. from \in RegionType /\ to \in RegionType
  BY <1>2, <1>4, FrameRegions
<1>6. /\ c \in FrameType /\ FrameOK(c) /\ c.node = f.node /\ c.buffer = f.buffer
      /\ c.hasBuffer = f.hasBuffer /\ Head(f.rounds) \in SUBSET Batches
  <2>1. /\ NextRound(f) \in FrameType /\ FrameOK(NextRound(f))
        /\ NextRound(f).node = f.node /\ NextRound(f).buffer = f.buffer
        /\ NextRound(f).hasBuffer = f.hasBuffer /\ Head(f.rounds) \in SUBSET Batches
    BY <1>2, NextRoundOK
  <2>2. CASE f.step = n - 1
    BY <1>4, <2>1, <2>2
  <2>3. CASE f.step # n - 1
    <3>1. c = [f EXCEPT !.step = f.step + 1, !.half = 3 - f.half]
      BY <1>4, <2>3
    <3>2. f.step + 1 \in Nat /\ 3 - f.half \in {1, 2}
      <4>1. f.half \in {1, 2}
        BY <1>2 DEF FrameType
      <4> QED
        BY <1>3, <4>1
    <3>3. c \in FrameType
      BY <1>2, <3>1, <3>2 DEF FrameType
    <3>4. /\ c.node = f.node /\ c.buffer = f.buffer /\ c.hasBuffer = f.hasBuffer
          /\ c.step = f.step + 1
      BY <1>2, <3>1 DEF FrameType
    <3>5. FrameOK(c)
      BY <1>1, <1>2, <1>3, <2>3, <3>4 DEF FrameOK
    <3> QED
      BY <2>1, <3>3, <3>4, <3>5
  <2> QED
    BY <2>2, <2>3
<1> DEFINE g == NewFrame(NodeOf(t).subs[f.step + 1], from, to, Head(f.rounds))
<1>7. g \in FrameType
  <2>1. NodeOf(t).subs[f.step + 1] \in DOMAIN Node
    BY <1>1, <1>2, <1>3, NodeFacts
  <2> QED
    BY <1>5, <1>6, <2>1, NewFrameOK
<1>8. stack' = [stack EXCEPT ![t] = Front(@) \o << c, g >>]
  <2>1. stack' = [[stack EXCEPT ![t] = Front(@) \o << f, g >>]
                    EXCEPT ![t][Len(stack[t])] = c]
    BY <1>1, <1>4 DEF RunLevel, Called
  <2> HIDE DEF g
  <2>2. [(Front(stack[t]) \o << f, g >>) EXCEPT ![Len(stack[t])] = c]
          = Front(stack[t]) \o << c, g >>
    BY <1>2, <1>6, <1>7, CallReplace
  <2> QED
    BY <1>2, <2>1, <2>2
<1>9. UNCHANGED <<pool, active, mem>>
  BY DEF RunLevel
<1> QED
  BY <1>1, <1>2, <1>3, <1>5, <1>6, <1>8, <1>9, CalledOK

LEMMA ReleaseOK ==
  ASSUME IInv, NEW t \in Threads, Release(t)
  PROVE  IInv'
<1>1. PICK kind : kind = NodeOf(t).kind
  OBVIOUS
<1>2. /\ stack[t] # << >> /\ kind \in Stacked /\ Top(t).hasBuffer
      /\ active' = [active EXCEPT ![t][kind] = @ - 1]
      /\ stack' = Returned(t) /\ Forget(t) /\ pool' = pool
  BY <1>1 DEF Release, Running, OwnerOf
<1>3. /\ active \in [Threads -> [Stacked -> Int]]
      /\ \A other : Holds(t, Len(stack[t]), other) <=> other = kind
  BY <1>1, <1>2, TopFacts
<1>4. MemoryKept
  BY <1>2, ForgetKeeps DEF IInv
<1>5. /\ active' \in [Threads -> [Stacked -> Int]]
      /\ \A u \in Threads \ {t} : active'[u] = active[u]
      /\ \A other \in Stacked :
           active'[t][other] = IF other = kind THEN active[t][other] - 1 ELSE active[t][other]
  BY <1>2, <1>3
<1>6. \A other \in Stacked :
        active'[t][other] = IF Holds(t, Len(stack[t]), other)
                            THEN active[t][other] - 1 ELSE active[t][other]
  BY <1>3, <1>5
<1> QED
  BY <1>2, <1>4, <1>5, <1>6, PopOK DEF MemoryKept

(* The top frame goes on by itself.                                        *)
LEMMA GoOnOK ==
  ASSUME IInv, NEW t \in Threads, stack[t] # << >>,
         NEW f \in FrameType, FrameOK(f),
         f.node = Top(t).node, f.buffer = Top(t).buffer, f.hasBuffer = Top(t).hasBuffer,
         stack' = Become(t, f), UNCHANGED <<pool, active>>, MemoryKept
  PROVE  IInv'
<1>1. mem' = [r \in DOMAIN mem' |-> mem'[r]] /\ DOMAIN mem' = DOMAIN mem
        /\ \A r \in DOMAIN mem : mem'[r] \in ValueType
  BY DEF MemoryKept
<1> QED
  BY <1>1, BecomeOK

LEMMA ConvolveOK ==
  ASSUME IInv, NEW t \in Threads, Convolve(t)
  PROVE  IInv'
<1>1. PICK f : f = Top(t)
  OBVIOUS
<1>2. /\ stack[t] # << >> /\ NodeOf(t).kind \in {"rader", "bluestein"}
      /\ f \in FrameType /\ FrameOK(f) /\ f.rounds # << >>
      /\ f.node \in DOMAIN Node /\ NodeOf(t) = Node[f.node]
  BY <1>1, TopFacts DEF Convolve, Running
<1>3. /\ 1 \in 1..Len(NodeOf(t).subs) /\ 2 \in 1..Len(NodeOf(t).subs) /\ f.node \in Nat
  BY <1>2, NodeFacts DEF Buffered
<1>4. \A name \in OpNames : Op(name, f.node) \in Seq(OpType)
  BY <1>3, OpTyped
<1>5. /\ NextRound(f) \in FrameType /\ FrameOK(NextRound(f))
      /\ NextRound(f).node = f.node /\ NextRound(f).buffer = f.buffer
      /\ NextRound(f).hasBuffer = f.hasBuffer /\ Head(f.rounds) \in SUBSET Batches
  BY <1>2, NextRoundOK
<1> PICK c : c = [f EXCEPT !.step = @ + 1]
  OBVIOUS
<1>6. /\ c \in FrameType /\ FrameOK(c) /\ c.node = f.node
      /\ c.buffer = f.buffer /\ c.hasBuffer = f.hasBuffer /\ c.rounds = f.rounds
  <2>1. f.step + 1 \in Nat
    BY <1>2 DEF FrameType
  <2>2. c = [f EXCEPT !.step = f.step + 1]
    OBVIOUS
  <2> QED
    BY <1>2, <2>1, <2>2, StepToOK
<1>7. UNCHANGED <<pool, active>>
  BY DEF Convolve
<1>8. ASSUME f.step \in {0, 2}, stack' = Become(t, c),
             \E source, dest : \E name \in OpNames :
               Apply(source, dest, Head(f.rounds), Op(name, f.node))
      PROVE  IInv'
  <2>1. MemoryKept
    BY <1>4, <1>8, ApplyKeeps DEF IInv
  <2> QED
    BY <1>1, <1>2, <1>6, <1>7, <1>8, <2>1, GoOnOK
<1>9. CASE /\ f.step = 0
           /\ Apply(f.in, f.buffer, Head(f.rounds), Op("pack", f.node))
           /\ stack' = Become(t, c)
  BY <1>8, <1>9 DEF OpNames
<1>10. CASE /\ f.step \in {1, 3} /\ UNCHANGED mem
            /\ stack' = Called(t, c, NodeOf(t).subs[IF f.step = 1 THEN 1 ELSE 2],
                               f.buffer, f.buffer)
  <2>1. PICK j \in 1..Len(NodeOf(t).subs) : j = IF f.step = 1 THEN 1 ELSE 2
    BY <1>3
  <2>2. stack' = [stack EXCEPT ![t] = Front(@) \o
                    << c, NewFrame(NodeOf(t).subs[j], f.buffer, f.buffer, Head(f.rounds)) >>]
    BY <1>6, <1>10, <2>1 DEF Called
  <2>3. f.buffer \in RegionType
    BY <1>2, FrameRegions
  <2>4. UNCHANGED <<pool, active, mem>>
    BY <1>7, <1>10
  <2>5. c.node = Top(t).node /\ c.buffer = Top(t).buffer /\ c.hasBuffer = Top(t).hasBuffer
    BY <1>1, <1>6
  <2> QED
    BY <1>2, <1>5, <1>6, <2>2, <2>3, <2>4, <2>5, CalledOK
<1>11. CASE /\ f.step = 2
            /\ Apply(f.buffer, f.buffer, Head(f.rounds), Op("multiply", f.node))
            /\ stack' = Become(t, c)
  BY <1>8, <1>11 DEF OpNames
<1>12. CASE /\ f.step = 4
            /\ Apply(f.buffer, f.out, Head(f.rounds), Op("unpack", f.node))
            /\ stack' = Become(t, NextRound(f))
  <2>1. "unpack" \in OpNames
    BY DEF OpNames
  <2>2. MemoryKept
    BY <1>4, <1>12, <2>1, ApplyKeeps DEF IInv
  <2> QED
    BY <1>1, <1>2, <1>5, <1>7, <1>12, <2>2, GoOnOK
<1> QED
  BY <1>1, <1>9, <1>10, <1>11, <1>12 DEF Convolve

LEMMA FinishConvolutionOK ==
  ASSUME IInv, NEW t \in Threads, FinishConvolution(t)
  PROVE  IInv'
<1>1. MemoryKept
  BY ForgetKeeps DEF FinishConvolution, IInv
<1> QED
  BY <1>1, ReturnOK DEF FinishConvolution, Running, Stacked

-----------------------------------------------------------------------------
(* IInv is inductive, and stronger than what a reader asks of the buffers. *)

LEMMA InitOK == Init => IInv
<1> SUFFICES ASSUME Init PROVE IInv
  OBVIOUS
<1>1. << >> \in Seq(FrameType)
  OBVIOUS
<1>2. Typed
  <2>1. DOMAIN mem = {} /\ mem = [r \in DOMAIN mem |-> mem[r]]
    BY DEF Init
  <2>2. stack \in [Threads -> Seq(FrameType)]
    BY <1>1 DEF Init
  <2>3. pool \in [Threads -> [BufferIds -> Nat]]
    BY DEF Init
  <2>4. active \in [Threads -> [Stacked -> Int]]
    BY DEF Init, Stacked
  <2> QED
    BY <2>1, <2>2, <2>3, <2>4 DEF Typed
<1>3. ASSUME NEW t \in Threads PROVE ThreadOK(t)
  <2>1. DOMAIN stack[t] = {}
    BY DEF Init
  <2>2. \A kind \in Stacked : active[t][kind] = -1
    BY DEF Init, Stacked
  <2>3. \A kind \in Stacked : Holders(t, kind) = {}
    BY <2>1 DEF Holders
  <2>4. Counted(t)
    BY <2>2, <2>3, FS_EmptySet DEF Counted
  <2>5. StackedInOrder(t)
    BY <2>1, <2>2 DEF StackedInOrder
  <2> QED
    BY <2>1, <2>4, <2>5 DEF ThreadOK, Nested
<1> QED
  BY <1>2, <1>3 DEF IInv

LEMMA StepOK == IInv /\ [Next]_vars => IInv'
<1> SUFFICES ASSUME IInv, [Next]_vars PROVE IInv'
  OBVIOUS
<1>1. CASE UNCHANGED vars
  <2>1. Typed'
    BY <1>1 DEF vars, Typed, IInv
  <2>2. \A t \in Threads : ThreadOK(t)'
    BY <1>1, OtherThread DEF vars, IInv
  <2> QED
    BY <2>1, <2>2 DEF IInv
<1>2. ASSUME NEW t \in Threads, NEW root \in PlansOf[t], NEW inplace \in BOOLEAN,
             Execute(t, root, inplace)
      PROVE  IInv'
  BY <1>2, ExecuteOK
<1>3. ASSUME NEW t \in Threads,
             \/ Begin(t) \/ RunLeaf(t) \/ RunLoop(t) \/ RunStage(t) \/ RunLevel(t)
             \/ Release(t) \/ Convolve(t) \/ FinishConvolution(t)
      PROVE  IInv'
  BY <1>3, BeginOK, RunLeafOK, RunLoopOK, RunStageOK, RunLevelOK, ReleaseOK,
     ConvolveOK, FinishConvolutionOK
<1> QED
  BY <1>1, <1>2, <1>3 DEF Next

LEMMA Invariance == Spec => []IInv
BY InitOK, StepOK, PTL DEF Spec

LEMMA InFrames ==
  ASSUME NEW p \in Frames
  PROVE  /\ p[1] \in Threads /\ p[2] \in DOMAIN stack[p[1]] /\ p = <<p[1], p[2]>>
         /\ FrameAt(p) = stack[p[1]][p[2]]
<1>1. PICK t \in Threads : p \in {t} \X DOMAIN stack[t]
  BY DEF Frames
<1>2. p[1] = t /\ p[2] \in DOMAIN stack[t] /\ p = <<p[1], p[2]>>
  BY <1>1
<1> QED
  BY <1>2 DEF FrameAt

(* The counters stay within the buffers there are: compositions nest twice *)
(* at most, and cooleytukey nodes no deeper than the table does.           *)
LEMMA TypesFollow == IInv => TypeOK
<1> SUFFICES ASSUME IInv PROVE TypeOK
  OBVIOUS
<1>1. ASSUME NEW t \in Threads
      PROVE  /\ active[t].cooleytukey \in -1..(MaxDepth - 1)
             /\ active[t].composition \in {-1, 0, 1}
             /\ \A id \in BufferIds : pool[t][id] \in Nat
  <2>1. ASSUME NEW kind \in Stacked, active[t][kind] # -1
        PROVE  /\ active[t][kind] \in Nat /\ <<kind, active[t][kind]>> \in BufferIds
    <3>1. active[t][kind] >= -1 /\ active[t][kind] \in Int /\ StackedInOrder(t)
      BY DEF IInv, Typed, ThreadOK, StackedInOrder
    <3>2. active[t][kind] \in 0..active[t][kind]
      BY <2>1, <3>1
    <3>3. PICK k \in DOMAIN stack[t] : Holds(t, k, kind) /\ DepthAt(t, k) = active[t][kind]
      BY <3>1, <3>2 DEF StackedInOrder
    <3> QED
      BY <3>2, <3>3 DEF IInv, ThreadOK, BufferOK, Holds
  <2>2. active[t]["cooleytukey"] = -1 \/ active[t]["cooleytukey"] \in CtDepth
    BY <2>1 DEF BufferIds, Stacked
  <2>3. active[t]["composition"] = -1 \/ active[t]["composition"] \in {0, 1}
    BY <2>1 DEF BufferIds, Stacked
  <2>4. active[t].cooleytukey \in -1..(MaxDepth - 1)
    BY <2>2, NodeAssumption DEF CtDepth
  <2>5. \A id \in BufferIds : pool[t][id] \in Nat
    BY DEF IInv, Typed
  <2> QED
    BY <2>3, <2>4, <2>5
<1>2. \A p \in Frames : FrameAt(p).node \in DOMAIN Node
  <2> SUFFICES ASSUME NEW t \in Threads, NEW k \in DOMAIN stack[t]
               PROVE  stack[t][k].node \in DOMAIN Node
    BY InFrames
  <2>1. stack[t] \in Seq(FrameType)
    BY DEF IInv, Typed
  <2>2. stack[t][k] \in FrameType
    BY <2>1
  <2> QED
    BY <2>2 DEF FrameType
<1>3. \A r \in DOMAIN mem : mem[r] \in [Batches -> Seq([op : OpNames, node : Nat])]
  BY DEF IInv, Typed, ValueType, OpType
<1> QED
  BY <1>1, <1>2, <1>3 DEF TypeOK

LEMMA PairsEqual ==
  ASSUME NEW a, NEW b, NEW c, NEW d, <<a, b>> = <<c, d>>
  PROVE  a = c /\ b = d
OBVIOUS

(* The block a frame has borrowed.                                         *)
LEMMA BorrowedBlock ==
  ASSUME IInv, NEW t \in Threads, NEW k \in DOMAIN stack[t], stack[t][k].hasBuffer
  PROVE  LET id == <<KindAt(t, k), DepthAt(t, k)>>
         IN  /\ id \in BufferIds /\ Live(stack[t][k].buffer)
             /\ stack[t][k].buffer.owner = t /\ stack[t][k].buffer.id = id
             /\ stack[t][k].buffer.size = pool[t][id]
             /\ Node[stack[t][k].node].size <= pool[t][id]
<1> DEFINE id == <<KindAt(t, k), DepthAt(t, k)>>
           size == pool[t][id]
<1>1. BufferOK(t, k)
  BY DEF IInv, ThreadOK
<1>2. /\ Live(stack[t][k].buffer) /\ id \in BufferIds
      /\ stack[t][k].buffer = Region(t, id, size, 1)
      /\ Node[stack[t][k].node].size <= size
  BY <1>1 DEF BufferOK
<1>3. /\ stack[t][k].buffer.owner = t /\ stack[t][k].buffer.id = id
      /\ stack[t][k].buffer.size = size
  <2> HIDE DEF id, size
  <2> QED
    BY <1>2 DEF Region
<1> QED
  BY <1>2, <1>3

(* Two frames of a thread with the same kind of buffer have different ones. *)
LEMMA DepthsDiffer ==
  ASSUME IInv, NEW t \in Threads, NEW k \in DOMAIN stack[t], NEW l \in DOMAIN stack[t],
         k < l, stack[t][k].hasBuffer, stack[t][l].hasBuffer
  PROVE  stack[t][k].buffer.id # stack[t][l].buffer.id
<1>1. SUFFICES ASSUME stack[t][k].buffer.id = stack[t][l].buffer.id PROVE FALSE
  OBVIOUS
<1>2. PICK kind : kind = KindAt(t, k)
  OBVIOUS
<1>3. /\ BufferOK(t, k) /\ BufferOK(t, l) /\ Nested(t) /\ StackedInOrder(t)
  BY DEF IInv, ThreadOK
<1>4. /\ kind \in Buffered /\ KindAt(t, l) = kind /\ DepthAt(t, k) = DepthAt(t, l)
      /\ kind \in Stacked => DepthAt(t, l) \in 0..active[t][kind]
  <2>1. /\ stack[t][k].buffer.id = <<KindAt(t, k), DepthAt(t, k)>>
        /\ stack[t][l].buffer.id = <<KindAt(t, l), DepthAt(t, l)>>
        /\ kind \in Buffered
    BY <1>2, <1>3 DEF BufferOK, Region
  <2>2. KindAt(t, l) = kind /\ DepthAt(t, k) = DepthAt(t, l)
    <3>1. <<KindAt(t, k), DepthAt(t, k)>> = <<KindAt(t, l), DepthAt(t, l)>>
      BY <1>1, <2>1
    <3> QED
      BY <1>2, <3>1, PairsEqual
  <2> QED
    BY <1>3, <2>1, <2>2 DEF BufferOK
<1>5. CASE kind \in Stacked
  <2>1. DepthAt(t, k) < DepthAt(t, l)
    BY <1>2, <1>3, <1>4, <1>5 DEF StackedInOrder, Holds
  <2>2. active[t][kind] \in Int
    BY <1>5 DEF IInv, Typed
  <2> QED
    BY <1>4, <1>5, <2>1, <2>2
<1>6. CASE kind \notin Stacked
  <2> DEFINE i == stack[t][k].node
             j == stack[t][l].node
  <2>1. i \in DOMAIN Node /\ j \in DOMAIN Node
    <3>1. stack[t] \in Seq(FrameType)
      BY DEF IInv, Typed
    <3>2. stack[t][k] \in FrameType /\ stack[t][l] \in FrameType
      BY <3>1
    <3> QED
      BY <3>2 DEF FrameType
  <2>2. Own(kind, i) = 1 /\ Own(kind, j) = 1
    BY <1>2, <1>4 DEF Own, KindAt
  <2>3. Room(kind) = 1
    BY <1>6 DEF Room, Stacked
  <2>4. Nesting[kind][j] + Own(kind, i) <= Nesting[kind][i]
    BY <1>3, <1>4 DEF Nested
  <2>5. /\ Nesting[kind][i] \in Nat /\ Nesting[kind][j] \in Nat
        /\ Own(kind, j) <= Nesting[kind][j] /\ Nesting[kind][i] <= Room(kind)
    BY <1>4, <2>1, NestingFacts
  <2> HIDE DEF i, j
  <2> QED
    BY <2>2, <2>3, <2>4, <2>5
<1> QED
  BY <1>5, <1>6

(* Types, for every table of plans that obeys NestingAssumption: the two   *)
(* counters never leave the buffers a thread has.                          *)
THEOREM TypeCorrect == Spec => []TypeOK
BY Invariance, TypesFollow, PTL

(* No two active plans borrow one buffer, whatever the tree of plans and   *)
(* however many threads execute.                                           *)
THEOREM BuffersStayPrivate == Spec => []BuffersArePrivate
<1>1. IInv => BuffersArePrivate
  <2> SUFFICES ASSUME IInv,
                      NEW t \in Threads, NEW k \in DOMAIN stack[t],
                      NEW u \in Threads, NEW l \in DOMAIN stack[u],
                      t # u \/ k # l, stack[t][k].hasBuffer, stack[u][l].hasBuffer
               PROVE  \/ stack[t][k].buffer.owner # stack[u][l].buffer.owner
                      \/ stack[t][k].buffer.id # stack[u][l].buffer.id
    <3>1. ASSUME NEW p \in Frames, NEW q \in Frames, p # q
          PROVE  \E t, u \in Threads : \E k \in DOMAIN stack[t], l \in DOMAIN stack[u] :
                   (t # u \/ k # l) /\ FrameAt(p) = stack[t][k] /\ FrameAt(q) = stack[u][l]
      <4>1. /\ p[1] \in Threads /\ p[2] \in DOMAIN stack[p[1]] /\ p = <<p[1], p[2]>>
            /\ FrameAt(p) = stack[p[1]][p[2]]
        BY InFrames
      <4>2. /\ q[1] \in Threads /\ q[2] \in DOMAIN stack[q[1]] /\ q = <<q[1], q[2]>>
            /\ FrameAt(q) = stack[q[1]][q[2]]
        BY InFrames
      <4>3. p[1] # q[1] \/ p[2] # q[2]
        BY <3>1, <4>1, <4>2
      <4> QED
        BY <4>1, <4>2, <4>3
    <3> QED
      BY <3>1 DEF BuffersArePrivate
  <2>1. stack[t][k].buffer.owner = t /\ stack[u][l].buffer.owner = u
    BY BorrowedBlock
  <2>2. CASE t = u
    <3>1. k < l \/ l < k
      <4>1. stack[t] \in Seq(FrameType)
        BY DEF IInv, Typed
      <4>2. k \in Nat /\ l \in Nat /\ k # l
        BY <2>2, <4>1
      <4> QED
        BY <4>2
    <3> QED
      BY <2>2, <3>1, DepthsDiffer
  <2> QED
    BY <2>1, <2>2
<1> QED
  BY <1>1, Invariance, PTL

(* The block a plan points to is there, and large enough, as long as the   *)
(* plan runs: no later request replaces it.                                *)
THEOREM BuffersOutliveThem == Spec => []BuffersOutliveTheirUse
<1>1. IInv => BuffersOutliveTheirUse
  <2> SUFFICES ASSUME IInv, NEW t \in Threads, NEW k \in DOMAIN stack[t],
                      stack[t][k].hasBuffer
               PROVE  /\ Live(stack[t][k].buffer)
                      /\ stack[t][k].buffer.size >= Node[stack[t][k].node].size
                      /\ pool[stack[t][k].buffer.owner][stack[t][k].buffer.id]
                           = stack[t][k].buffer.size
    <3>1. \A p \in Frames : \E t \in Threads : \E k \in DOMAIN stack[t] :
            FrameAt(p) = stack[t][k]
      BY InFrames
    <3> QED
      BY <3>1 DEF BuffersOutliveTheirUse
  <2> DEFINE id == <<KindAt(t, k), DepthAt(t, k)>>
             size == pool[t][id]
  <2>1. /\ Live(stack[t][k].buffer) /\ id \in BufferIds
        /\ stack[t][k].buffer.owner = t /\ stack[t][k].buffer.id = id
        /\ stack[t][k].buffer.size = size
        /\ Node[stack[t][k].node].size <= size
    BY BorrowedBlock
  <2>3. size \in Nat /\ Node[stack[t][k].node].size \in Nat
    <3>1. stack[t] \in Seq(FrameType) /\ pool \in [Threads -> [BufferIds -> Nat]]
      BY DEF IInv, Typed
    <3>2. stack[t][k] \in FrameType
      BY <3>1
    <3>3. stack[t][k].node \in DOMAIN Node
      BY <3>2 DEF FrameType
    <3> QED
      BY <2>1, <3>1, <3>3, NodeFacts
  <2>4. size >= Node[stack[t][k].node].size
    <3> HIDE DEF size
    <3> QED
      BY <2>1, <2>3
  <2> QED
    BY <2>1, <2>4
<1> QED
  BY <1>1, Invariance, PTL

(* The counters of the stacked buffers, which outlive the calls, count the *)
(* active plans that hold one: an idle thread starts from the bottom.      *)
THEOREM CountersCountFrames == Spec => []CountersMatchFrames
<1>1. IInv => CountersMatchFrames
  BY DEF IInv, ThreadOK, Counted, Holders, Holds, KindAt, CountersMatchFrames
<1> QED
  BY <1>1, Invariance, PTL

-----------------------------------------------------------------------------
(* What a plan stands for.                                                 *)

(* The first n sequences of seqs, one after the other.                     *)
Levels(S, seqs) ==
  CHOOSE l \in [0..Len(seqs) -> Seq(S)] :
    /\ l[0] = << >>
    /\ \A n \in 1..Len(seqs) : l[n] = l[n - 1] \o seqs[n]

LEMMA LevelsExist ==
  ASSUME NEW S, NEW seqs \in Seq(Seq(S))
  PROVE  /\ Levels(S, seqs) \in [0..Len(seqs) -> Seq(S)]
         /\ Levels(S, seqs)[0] = << >>
         /\ \A n \in 1..Len(seqs) : Levels(S, seqs)[n] = Levels(S, seqs)[n - 1] \o seqs[n]
<1> DEFINE N == Len(seqs)
           At(n) == IF n \in 1..N THEN seqs[n] ELSE << >>
           step == [p \in Seq(S) \X Nat |-> p[1] \o At(p[2])]
<1>1. N \in Nat /\ \A n : At(n) \in Seq(S)
  OBVIOUS
<1> HIDE DEF At
<1>2. step \in [Seq(S) \X Nat -> Seq(S)]
  <2>1. ASSUME NEW p \in Seq(S) \X Nat PROVE p[1] \o At(p[2]) \in Seq(S)
    BY <1>1, ConcatProperties
  <2> QED
    BY <2>1
<1>3. \A v \in Seq(S), n \in Nat : step[<<v, n>>] = v \o At(n)
  <2> TAKE v \in Seq(S), n \in Nat
  <2>1. <<v, n>> \in Seq(S) \X Nat
    OBVIOUS
  <2> QED
    BY <2>1
<1>4. << >> \in Seq(S)
  OBVIOUS
<1> HIDE DEF step
<1>5. PICK f \in [0..N -> Seq(S)] : Recurs(f, << >>, step, N)
  <2>1. \A n \in Nat : \E f \in [0..n -> Seq(S)] : Recurs(f, << >>, step, n)
    BY <1>2, <1>4, RecursionExists
  <2> QED
    BY <1>1, <2>1
<1>6. f[0] = << >> /\ \A n \in 1..N : f[n] = f[n - 1] \o seqs[n]
  <2>1. \A n \in 0..N : f[n] = IF n = 0 THEN << >> ELSE step[<<f[n - 1], n>>]
    BY <1>5 DEF Recurs
  <2>2. f[0] = << >>
    <3>1. 0 \in 0..N
      BY <1>1
    <3> QED
      BY <2>1, <3>1
  <2>3. ASSUME NEW n \in 1..N PROVE f[n] = f[n - 1] \o seqs[n]
    <3>1. n \in 0..N /\ n # 0 /\ n - 1 \in 0..N /\ n \in Nat
      BY <1>1
    <3>2. f[n] = step[<<f[n - 1], n>>] /\ f[n - 1] \in Seq(S)
      BY <2>1, <3>1
    <3> QED
      BY <1>3, <3>1, <3>2 DEF At
  <2> QED
    BY <2>2, <2>3
<1>7. \E l \in [0..Len(seqs) -> Seq(S)] :
        /\ l[0] = << >>
        /\ \A n \in 1..Len(seqs) : l[n] = l[n - 1] \o seqs[n]
  BY <1>6
<1> QED
  BY <1>7 DEF Levels

(* FlattenSeq, which is a recursive function, is the last of them.         *)
LEMMA FlattenLevels ==
  ASSUME NEW S, NEW seqs \in Seq(Seq(S)), Len(seqs) # 0
  PROVE  FlattenSeq(seqs) = Levels(S, seqs)[Len(seqs)]
<1> DEFINE N == Len(seqs)
           l == Levels(S, seqs)
           Is(f) == f = [i \in 1..N |-> IF i = 1 THEN seqs[i] ELSE f[i - 1] \o seqs[i]]
           flatten == CHOOSE f : Is(f)
<1>1. N \in Nat /\ N # 0 /\ 1 \in 1..N /\ N \in 1..N
  OBVIOUS
<1>2. /\ l \in [0..N -> Seq(S)] /\ l[0] = << >>
      /\ \A n \in 1..N : l[n] = l[n - 1] \o seqs[n]
  BY LevelsExist
<1>3. FlattenSeq(seqs) = flatten[N]
  BY DEF FlattenSeq
<1> HIDE DEF l
<1>4. l[1] = seqs[1]
  <2>1. l[1] = << >> \o seqs[1]
    <3>1. 1 - 1 = 0
      OBVIOUS
    <3> QED
      BY <1>1, <1>2, <3>1
  <2>2. seqs[1] \in Seq(S)
    BY <1>1
  <2> QED
    BY <2>1, <2>2, ConcatEmptySeq
<1>5. Is([i \in 1..N |-> l[i]])
  <2> DEFINE g == [i \in 1..N |-> l[i]]
  <2>1. ASSUME NEW i \in 1..N PROVE l[i] = IF i = 1 THEN seqs[i] ELSE g[i - 1] \o seqs[i]
    <3>1. CASE i = 1
      BY <1>4, <3>1
    <3>2. CASE i # 1
      <4>1. i - 1 \in 1..N
        BY <3>2
      <4>2. g[i - 1] = l[i - 1]
        BY <4>1
      <4> QED
        BY <1>2, <3>2, <4>2
    <3> QED
      BY <3>1, <3>2
  <2> QED
    BY <2>1
<1>6. Is(flatten)
  BY <1>5
<1> HIDE DEF flatten
<1>7. \A i \in 1..N : flatten[i] = IF i = 1 THEN seqs[i] ELSE flatten[i - 1] \o seqs[i]
  BY <1>6
<1> HIDE DEF Is
<1>8. {n \in Nat : n + 1 \in 1..N => flatten[n + 1] = l[n + 1]} = Nat
  <2> DEFINE Good == {n \in Nat : n + 1 \in 1..N => flatten[n + 1] = l[n + 1]}
  <2>1. 0 \in Good
    BY <1>1, <1>4, <1>7
  <2>2. ASSUME NEW n \in Good PROVE n + 1 \in Good
    <3> DEFINE a == n + 1
               b == n + 1 + 1
    <3>1. /\ a \in Nat /\ b \in Nat /\ b - 1 = a /\ b # 1
          /\ b \in 1..N => a \in 1..N
      BY <1>1
    <3>2. a \in 1..N => flatten[a] = l[a]
      OBVIOUS
    <3>3. b \in 1..N => flatten[b] = flatten[b - 1] \o seqs[b] /\ l[b] = l[b - 1] \o seqs[b]
      BY <1>2, <1>7, <3>1
    <3>4. b \in 1..N => flatten[b] = l[b]
      BY <3>1, <3>2, <3>3
    <3> QED
      BY <3>1, <3>4
  <2>3. Good \in SUBSET Nat
    OBVIOUS
  <2> HIDE DEF Good
  <2>4. Good = Nat
    BY <2>1, <2>2, <2>3, SetInduction
  <2> QED
    BY <2>4 DEF Good
<1>9. flatten[N] = l[N]
  <2>1. N - 1 \in Nat /\ N - 1 + 1 = N
    BY <1>1
  <2> QED
    BY <1>1, <1>8, <2>1
<1> QED
  BY <1>3, <1>9 DEF l, flatten, Is

(* The operations of a node, given those of its sub-plans.                 *)
SubMeanings(m, i) == [j \in DOMAIN Node[i].subs |-> m[Node[i].subs[j]]]

Stands(m, i) ==
  LET subs == SubMeanings(m, i)
  IN  IF Node[i].kind = "leaf" THEN Op("kernel", i)
      ELSE IF Node[i].kind \in {"rader", "bluestein"}
      THEN Op("pack", i) \o subs[1] \o Op("multiply", i) \o subs[2] \o Op("unpack", i)
      ELSE FlattenSeq(subs)

LEMMA SubMeaningsTyped ==
  ASSUME NEW i \in DOMAIN Node, NEW m \in [DOMAIN Node -> Seq(OpType)]
  PROVE  /\ SubMeanings(m, i) \in Seq(Seq(OpType))
         /\ Len(SubMeanings(m, i)) = Len(Node[i].subs)
         /\ \A j \in 1..Len(Node[i].subs) :
              SubMeanings(m, i)[j] = m[Node[i].subs[j]] /\ SubMeanings(m, i)[j] \in Seq(OpType)
<1> DEFINE N == Len(Node[i].subs)
<1>1. N \in Nat /\ Node[i].subs \in Seq(Nat) /\ \A j \in 1..N : Node[i].subs[j] \in DOMAIN Node
  BY NodeFacts DEF NodeType
<1>2. DOMAIN Node[i].subs = 1..N
  BY <1>1
<1> HIDE DEF N
<1>3. SubMeanings(m, i) = [j \in 1..N |-> m[Node[i].subs[j]]]
  BY <1>2 DEF SubMeanings
<1>4. SubMeanings(m, i) \in [1..N -> Seq(OpType)]
  BY <1>1, <1>3
<1>5. ASSUME NEW T, NEW x \in [1..N -> T] PROVE x \in Seq(T) /\ Len(x) = N
  <2>1. N \in Nat
    BY <1>1
  <2> QED
    BY ONLY <2>1, x \in [1..N -> T], SMTT(30)
<1>6. SubMeanings(m, i) \in Seq(Seq(OpType)) /\ Len(SubMeanings(m, i)) = N
  BY <1>4, <1>5
<1>7. ASSUME NEW j \in 1..N
      PROVE  SubMeanings(m, i)[j] = m[Node[i].subs[j]] /\ SubMeanings(m, i)[j] \in Seq(OpType)
  BY <1>3, <1>4
<1> QED
  BY <1>6, <1>7 DEF N

LEMMA StandsTyped ==
  ASSUME NEW i \in DOMAIN Node, NEW m \in [DOMAIN Node -> Seq(OpType)]
  PROVE  Stands(m, i) \in Seq(OpType)
<1> DEFINE subs == SubMeanings(m, i)
<1>1. /\ subs \in Seq(Seq(OpType)) /\ Len(subs) = Len(Node[i].subs) /\ i \in Nat
      /\ \A j \in 1..Len(Node[i].subs) : subs[j] \in Seq(OpType)
  BY SubMeaningsTyped, NodeFacts
<1>2. \A name \in OpNames : Op(name, i) \in Seq(OpType)
  BY <1>1, OpTyped
<1>3. CASE Node[i].kind = "leaf"
  BY <1>2, <1>3 DEF Stands, OpNames
<1>4. CASE Node[i].kind \in {"rader", "bluestein"}
  <2>1. subs[1] \in Seq(OpType) /\ subs[2] \in Seq(OpType)
    BY <1>1, <1>4, NodeFacts DEF Buffered
  <2>2. /\ Op("pack", i) \in Seq(OpType) /\ Op("multiply", i) \in Seq(OpType)
        /\ Op("unpack", i) \in Seq(OpType)
    BY <1>2 DEF OpNames
  <2>3. Stands(m, i) = Op("pack", i) \o subs[1] \o Op("multiply", i) \o subs[2] \o Op("unpack", i)
    BY <1>4 DEF Stands
  <2> HIDE DEF subs
  <2>4. \A u, v \in Seq(OpType) : (u \o v) \in Seq(OpType)
    BY ConcatProperties
  <2> QED
    BY <2>1, <2>2, <2>3, <2>4
<1>5. CASE Node[i].kind \notin {"leaf", "rader", "bluestein"}
  <2>1. Stands(m, i) = FlattenSeq(subs)
    BY <1>5 DEF Stands
  <2>2. Len(subs) # 0
    <3>1. Node[i].kind = "loop" \/ Node[i].kind \in Buffered
      BY <1>5, NodeFacts DEF Buffered, Stacked, Kinds
    <3> QED
      BY <1>1, <3>1, NodeFacts
  <2> HIDE DEF subs
  <2>3. FlattenSeq(subs) = Levels(OpType, subs)[Len(subs)]
    BY <1>1, <2>2, FlattenLevels
  <2>4. Levels(OpType, subs) \in [0..Len(subs) -> Seq(OpType)]
    BY <1>1, LevelsExist
  <2>5. Len(subs) \in 0..Len(subs)
    BY <1>1
  <2> QED
    BY <2>1, <2>3, <2>4, <2>5
<1> QED
  BY <1>3, <1>4, <1>5

(* A node stands for what its sub-plans, which come before it, stand for.  *)
LEMMA StandsOnEarlier ==
  ASSUME NEW i \in DOMAIN Node, NEW m, NEW n, \A j \in 1..(i - 1) : m[j] = n[j]
  PROVE  Stands(m, i) = Stands(n, i)
<1>1. \A j \in DOMAIN Node[i].subs : m[Node[i].subs[j]] = n[Node[i].subs[j]]
  BY NodeAssumption
<1>2. SubMeanings(m, i) = SubMeanings(n, i)
  BY <1>1 DEF SubMeanings
<1> QED
  BY <1>2 DEF Stands

LEMMA MeaningEquation ==
  /\ meaning \in [DOMAIN Node -> Seq(OpType)]
  /\ \A i \in DOMAIN Node : meaning[i] = Stands(meaning, i)
<1> DEFINE N == Len(Node)
           S == [DOMAIN Node -> Seq(OpType)]
           first == [i \in DOMAIN Node |-> << >>]
           step == [p \in S \X Nat |->
                      IF p[2] \in DOMAIN Node
                      THEN [p[1] EXCEPT ![p[2]] = Stands(p[1], p[2])] ELSE p[1]]
           Is(f) == f = [i \in DOMAIN Node |-> Stands(f, i)]
<1>1. N \in Nat /\ DOMAIN Node = 1..N /\ DOMAIN Node \subseteq Nat
  BY NodeAssumption
<1>2. first \in S
  <2>1. << >> \in Seq(OpType)
    OBVIOUS
  <2> QED
    BY <2>1
<1>3. step \in [S \X Nat -> S]
  <2>1. ASSUME NEW p \in S \X Nat
        PROVE  IF p[2] \in DOMAIN Node
               THEN [p[1] EXCEPT ![p[2]] = Stands(p[1], p[2])] \in S ELSE p[1] \in S
    BY StandsTyped
  <2> HIDE DEF S
  <2> QED
    BY <2>1
<1>4. ASSUME NEW m \in S, NEW k \in DOMAIN Node
      PROVE  /\ step[<<m, k>>][k] = Stands(m, k)
             /\ \A j \in DOMAIN Node : j # k => step[<<m, k>>][j] = m[j]
  <2>1. <<m, k>> \in S \X Nat
    BY <1>1
  <2>2. step[<<m, k>>] = [m EXCEPT ![k] = Stands(m, k)]
    BY <2>1
  <2>3. m \in [DOMAIN Node -> Seq(OpType)]
    OBVIOUS
  <2> HIDE DEF step
  <2> QED
    BY <2>2, <2>3
<1> HIDE DEF step, first
<1>5. PICK f \in [0..N -> S] : Recurs(f, first, step, N)
  <2>1. \A n \in Nat : \E f \in [0..n -> S] : Recurs(f, first, step, n)
    <3> HIDE DEF S
    <3> QED
      BY <1>2, <1>3, RecursionExists
  <2> QED
    BY <1>1, <2>1
<1>6. \A n \in 1..N : f[n] = step[<<f[n - 1], n>>] /\ f[n] \in S /\ f[n - 1] \in S
  <2>1. \A n \in 0..N : f[n] = IF n = 0 THEN first ELSE step[<<f[n - 1], n>>]
    BY <1>5 DEF Recurs
  <2>2. \A n \in 1..N : n \in 0..N /\ n - 1 \in 0..N /\ n # 0
    BY <1>1
  <2> HIDE DEF S
  <2> QED
    BY <2>1, <2>2
<1> HIDE DEF S
<1> DEFINE Upto(n) == \A i \in 1..n : f[n][i] = Stands(f[n], i)
           Good == {n \in Nat : n <= N => Upto(n)}
<1>7. Good = Nat
  <2>1. 0 \in Good
    OBVIOUS
  <2>2. ASSUME NEW n \in Good PROVE n + 1 \in Good
    <3>1. n \in Nat
      OBVIOUS
    <3> SUFFICES ASSUME n + 1 <= N PROVE Upto(n + 1)
      BY <3>1
    <3>2. Upto(n) /\ n + 1 \in 1..N /\ n + 1 - 1 = n /\ n + 1 \in DOMAIN Node
      BY <1>1, <3>1
    <3>3. f[n + 1] = step[<<f[n], n + 1>>] /\ f[n + 1] \in S /\ f[n] \in S
      BY <1>6, <3>2
    <3>4. /\ f[n + 1][n + 1] = Stands(f[n], n + 1)
          /\ \A j \in DOMAIN Node : j # n + 1 => f[n + 1][j] = f[n][j]
      BY <1>4, <3>2, <3>3
    <3>5. \A j \in 1..n : f[n + 1][j] = f[n][j]
      <4>1. \A j \in 1..n : j \in DOMAIN Node /\ j # n + 1
        BY <1>1, <3>1, <3>2
      <4> QED
        BY <3>4, <4>1
    <3>6. \A i \in 1..(n + 1) : Stands(f[n + 1], i) = Stands(f[n], i)
      <4> SUFFICES ASSUME NEW i \in 1..(n + 1)
                   PROVE  Stands(f[n + 1], i) = Stands(f[n], i)
        OBVIOUS
      <4>1. i \in DOMAIN Node /\ \A j \in 1..(i - 1) : j \in 1..n
        BY <1>1, <3>1, <3>2
      <4>2. \A j \in 1..(i - 1) : f[n + 1][j] = f[n][j]
        BY <3>5, <4>1
      <4> QED
        BY <4>1, <4>2, StandsOnEarlier
    <3>7. \A i \in 1..(n + 1) : i = n + 1 \/ i \in 1..n
      BY <3>1
    <3> QED
      BY <3>2, <3>4, <3>5, <3>6, <3>7
  <2>3. Good \in SUBSET Nat
    OBVIOUS
  <2> HIDE DEF Good
  <2> QED
    BY <2>1, <2>2, <2>3, SetInduction
<1>8. Is(f[N])
  <2>1. CASE N = 0
    <3>1. f[N] \in S /\ DOMAIN Node = {}
      BY <1>1, <2>1
    <3> QED
      BY <3>1 DEF S
  <2>2. CASE N # 0
    <3>1. Upto(N) /\ N \in 1..N
      BY <1>1, <1>7, <2>2
    <3>2. f[N] \in S
      BY <1>6, <3>1
    <3> QED
      BY <1>1, <3>1, <3>2 DEF S
  <2> QED
    BY <2>1, <2>2
<1>9. Is(meaning)
  <2>1. meaning = CHOOSE f_1 : Is(f_1)
    BY Zenon DEF meaning, Stands, SubMeanings
  <2> HIDE DEF Is
  <2> QED
    BY <1>8, <2>1
<1> DEFINE Agree == {n \in Nat : \A i \in 1..n : i <= N => meaning[i] = f[N][i]}
<1>10. Agree = Nat
  <2>1. 0 \in Agree
    OBVIOUS
  <2>2. ASSUME NEW n \in Agree PROVE n + 1 \in Agree
    <3>1. n \in Nat
      OBVIOUS
    <3> SUFFICES ASSUME NEW i \in 1..(n + 1), i <= N PROVE meaning[i] = f[N][i]
      BY <3>1
    <3>2. i \in DOMAIN Node /\ \A j \in 1..(i - 1) : j \in 1..n /\ j <= N
      BY <1>1, <3>1
    <3>3. \A j \in 1..(i - 1) : meaning[j] = f[N][j]
      BY <3>2
    <3>4. Stands(meaning, i) = Stands(f[N], i)
      BY <3>2, <3>3, StandsOnEarlier
    <3>5. meaning[i] = Stands(meaning, i) /\ f[N][i] = Stands(f[N], i)
      BY <1>8, <1>9, <3>2
    <3> QED
      BY <3>4, <3>5
  <2>3. Agree \in SUBSET Nat
    OBVIOUS
  <2> HIDE DEF Agree
  <2> QED
    BY <2>1, <2>2, <2>3, SetInduction
<1>11. meaning = f[N]
  <2>1. \A i \in DOMAIN Node : meaning[i] = f[N][i]
    <3>1. \A i \in DOMAIN Node : i \in 1..N /\ i <= N /\ N \in Agree
      BY <1>1, <1>10
    <3> QED
      BY <3>1
  <2>2. \A i \in DOMAIN Node : Stands(meaning, i) = Stands(f[N], i)
    BY <1>8, <1>9, <2>1
  <2> QED
    BY <1>8, <1>9, <2>2
<1>12. f[N] \in S
  <2>1. CASE N = 0
    <3>1. 0 \in 0..N
      BY <1>1
    <3> QED
      BY <1>5, <2>1, <3>1
  <2>2. CASE N # 0
    <3>1. N \in 1..N
      BY <1>1, <2>2
    <3> QED
      BY <1>6, <3>1
  <2> QED
    BY <2>1, <2>2
<1>13. \A i \in DOMAIN Node : meaning[i] = Stands(meaning, i)
  BY <1>9
<1> QED
  BY <1>11, <1>12, <1>13 DEF S

(* A node works in steps: the operation of each, and what is done of a     *)
(* batch after the first n of them.                                        *)
Steps(i) ==
  IF Node[i].kind = "leaf" THEN 1
  ELSE IF IsConvolution(Node[i]) THEN 5 ELSE Len(Node[i].subs)

NextOp(i, n) ==
  IF Node[i].kind = "leaf" THEN Op("kernel", i)
  ELSE IF ~IsConvolution(Node[i]) THEN meaning[Node[i].subs[n + 1]]
  ELSE CASE n = 0 -> Op("pack", i)
         [] n = 1 -> meaning[Node[i].subs[1]]
         [] n = 2 -> Op("multiply", i)
         [] n = 3 -> meaning[Node[i].subs[2]]
         [] n = 4 -> Op("unpack", i)

ConvolutionDone(i, n) ==
  LET one == Op("pack", i)
      two == one \o meaning[Node[i].subs[1]]
      three == two \o Op("multiply", i)
      four == three \o meaning[Node[i].subs[2]]
  IN  IF n = 0 THEN << >>
      ELSE IF n = 1 THEN one
      ELSE IF n = 2 THEN two
      ELSE IF n = 3 THEN three
      ELSE IF n = 4 THEN four ELSE four \o Op("unpack", i)

Done(i, n) ==
  IF Node[i].kind = "leaf" THEN (IF n = 0 THEN << >> ELSE Op("kernel", i))
  ELSE IF IsConvolution(Node[i]) THEN ConvolutionDone(i, n)
  ELSE Levels(OpType, SubMeanings(meaning, i))[n]

LEMMA DoneFacts ==
  ASSUME NEW i \in DOMAIN Node
  PROVE  /\ Steps(i) \in Nat \ {0}
         /\ Done(i, 0) = << >> /\ Done(i, Steps(i)) = meaning[i]
         /\ \A n \in 0..Steps(i) : Done(i, n) \in Seq(OpType)
         /\ \A n \in 0..(Steps(i) - 1) : /\ NextOp(i, n) \in Seq(OpType)
                                         /\ Done(i, n) \o NextOp(i, n) = Done(i, n + 1)
<1> DEFINE subs == SubMeanings(meaning, i)
<1>1. /\ i \in Nat /\ Node[i].kind \in Kinds /\ Len(Node[i].subs) \in Nat
      /\ \A j \in 1..Len(Node[i].subs) : Node[i].subs[j] \in DOMAIN Node
      /\ \A name \in OpNames : Op(name, i) \in Seq(OpType)
      /\ subs \in Seq(Seq(OpType)) /\ Len(subs) = Len(Node[i].subs)
      /\ \A j \in 1..Len(Node[i].subs) :
           subs[j] = meaning[Node[i].subs[j]] /\ subs[j] \in Seq(OpType)
      /\ meaning[i] = Stands(meaning, i)
  <2>1. meaning \in [DOMAIN Node -> Seq(OpType)] /\ meaning[i] = Stands(meaning, i)
    BY MeaningEquation
  <2>2. i \in Nat /\ \A name \in OpNames : Op(name, i) \in Seq(OpType)
    BY NodeFacts, OpTyped
  <2> QED
    BY <2>1, <2>2, NodeFacts, SubMeaningsTyped
<1>2. \A u, v \in Seq(OpType) : (u \o v) \in Seq(OpType)
  BY ConcatProperties
<1>3. \A u \in Seq(OpType) : << >> \o u = u
  BY ConcatEmptySeq
<1> HIDE DEF subs
<1>4. CASE Node[i].kind = "leaf"
  <2>1. /\ Steps(i) = 1 /\ Done(i, 0) = << >> /\ Done(i, 1) = Op("kernel", i)
        /\ NextOp(i, 0) = Op("kernel", i) /\ meaning[i] = Op("kernel", i)
    BY <1>1, <1>4 DEF Steps, Done, NextOp, Stands
  <2>2. Op("kernel", i) \in Seq(OpType)
    BY <1>1 DEF OpNames
  <2>3. << >> \o Op("kernel", i) = Op("kernel", i) /\ << >> \in Seq(OpType)
    BY <1>3, <2>2
  <2>4. 0..Steps(i) = {0, 1} /\ 0..(Steps(i) - 1) = {0} /\ 0 + 1 = 1 /\ 1 \in Nat \ {0}
    BY <2>1
  <2>5. \A n \in 0..Steps(i) : Done(i, n) \in Seq(OpType)
    BY <2>1, <2>2, <2>3, <2>4
  <2>6. ASSUME NEW n \in 0..(Steps(i) - 1)
        PROVE  NextOp(i, n) \in Seq(OpType) /\ Done(i, n) \o NextOp(i, n) = Done(i, n + 1)
    <3>1. n = 0
      BY <2>4
    <3> QED
      BY <2>1, <2>2, <2>3, <2>4, <3>1
  <2> QED
    BY <2>1, <2>4, <2>5, <2>6
<1>5. CASE IsConvolution(Node[i])
  <2> DEFINE a == meaning[Node[i].subs[1]]
             b == meaning[Node[i].subs[2]]
             one == Op("pack", i)
             two == one \o a
             three == two \o Op("multiply", i)
             four == three \o b
             five == four \o Op("unpack", i)
  <2> HIDE DEF a, b, one, two, three, four, five
  <2>1. /\ a \in Seq(OpType) /\ b \in Seq(OpType) /\ subs[1] = a /\ subs[2] = b
        /\ one \in Seq(OpType) /\ Op("multiply", i) \in Seq(OpType)
        /\ Op("unpack", i) \in Seq(OpType) /\ << >> \in Seq(OpType)
    BY <1>1, <1>5, NodeFacts DEF IsConvolution, Buffered, OpNames, a, b, one
  <2>2. two \in Seq(OpType)
    BY <1>2, <2>1 DEF two
  <2>3. three \in Seq(OpType)
    BY <1>2, <2>1, <2>2 DEF three
  <2>4. four \in Seq(OpType)
    BY <1>2, <2>1, <2>3 DEF four
  <2>5. five \in Seq(OpType)
    BY <1>2, <2>1, <2>4 DEF five
  <2>6. Node[i].kind # "leaf" /\ Steps(i) = 5
    BY <1>5 DEF IsConvolution, Steps
  <2>7. /\ Done(i, 0) = << >> /\ Done(i, 1) = one /\ Done(i, 2) = two
        /\ Done(i, 3) = three /\ Done(i, 4) = four /\ Done(i, 5) = five
    <3>1. \A n : Done(i, n) = IF n = 0 THEN << >>
                             ELSE IF n = 1 THEN one
                             ELSE IF n = 2 THEN two
                             ELSE IF n = 3 THEN three
                             ELSE IF n = 4 THEN four ELSE five
      BY <1>5, <2>6 DEF Done, ConvolutionDone, a, b, one, two, three, four, five
    <3> QED
      BY ONLY <3>1
  <2>8. /\ NextOp(i, 0) = one /\ NextOp(i, 1) = a /\ NextOp(i, 2) = Op("multiply", i)
        /\ NextOp(i, 3) = b /\ NextOp(i, 4) = Op("unpack", i)
    BY <1>5, <2>6 DEF NextOp, a, b, one
  <2>9. meaning[i] = five
    BY <1>1, <1>5, <2>1, <2>6 DEF Stands, subs, IsConvolution, one, two, three, four, five
  <2>10. 0..Steps(i) = {0, 1, 2, 3, 4, 5} /\ 0..(Steps(i) - 1) = {0, 1, 2, 3, 4}
    BY ONLY <2>6
  <2>11. \A n \in 0..Steps(i) : Done(i, n) \in Seq(OpType)
    BY <2>1, <2>2, <2>3, <2>4, <2>5, <2>7, <2>10
  <2>12. /\ Done(i, 0) \o NextOp(i, 0) = Done(i, 1)
         /\ Done(i, 1) \o NextOp(i, 1) = Done(i, 2)
         /\ Done(i, 2) \o NextOp(i, 2) = Done(i, 3)
         /\ Done(i, 3) \o NextOp(i, 3) = Done(i, 4)
         /\ Done(i, 4) \o NextOp(i, 4) = Done(i, 5)
    <3>1. << >> \o one = one
      BY <1>3, <2>1
    <3> QED
      BY <2>7, <2>8, <3>1 DEF two, three, four, five
  <2>13. ASSUME NEW n \in 0..(Steps(i) - 1)
         PROVE  NextOp(i, n) \in Seq(OpType) /\ Done(i, n) \o NextOp(i, n) = Done(i, n + 1)
    <3>1. n = 0 \/ n = 1 \/ n = 2 \/ n = 3 \/ n = 4
      BY <2>10
    <3>2. n + 1 = IF n = 0 THEN 1 ELSE IF n = 1 THEN 2 ELSE IF n = 2 THEN 3
                  ELSE IF n = 3 THEN 4 ELSE 5
      BY ONLY <3>1
    <3>3. NextOp(i, n) \in Seq(OpType)
      BY <2>1, <2>8, <3>1
    <3>4. Done(i, n) \o NextOp(i, n) = Done(i, n + 1)
      BY ONLY <2>12, <3>1, <3>2
    <3> QED
      BY <3>3, <3>4
  <2>14. 5 \in Nat \ {0}
    OBVIOUS
  <2> QED
    BY <2>6, <2>7, <2>9, <2>11, <2>13, <2>14
<1>6. CASE Node[i].kind # "leaf" /\ ~IsConvolution(Node[i])
  <2> DEFINE l == Levels(OpType, subs)
             N == Len(Node[i].subs)
  <2>1. /\ l \in [0..N -> Seq(OpType)] /\ l[0] = << >>
        /\ \A n \in 1..N : l[n] = l[n - 1] \o subs[n]
    <3>1. subs \in Seq(Seq(OpType)) /\ Len(subs) = N
      BY <1>1
    <3>2. /\ Levels(OpType, subs) \in [0..Len(subs) -> Seq(OpType)]
          /\ Levels(OpType, subs)[0] = << >>
          /\ \A n \in 1..Len(subs) :
               Levels(OpType, subs)[n] = Levels(OpType, subs)[n - 1] \o subs[n]
      BY <3>1, LevelsExist
    <3> QED
      BY <3>1, <3>2
  <2>2. N # 0
    <3>1. Node[i].kind = "loop" \/ Node[i].kind \in Buffered
      BY <1>1, <1>6 DEF Buffered, Stacked, Kinds, IsConvolution
    <3> QED
      BY <1>1, <3>1, NodeFacts
  <2>3. meaning[i] = l[N]
    <3>1. meaning[i] = FlattenSeq(subs)
      BY <1>1, <1>6 DEF Stands, IsConvolution, subs
    <3> QED
      BY <1>1, <2>2, <3>1, FlattenLevels
  <2>4. Steps(i) = N
    BY <1>6 DEF Steps
  <2>5. \A n : Done(i, n) = l[n]
    BY <1>6 DEF Done, subs
  <2>6. \A n : NextOp(i, n) = meaning[Node[i].subs[n + 1]]
    BY <1>6 DEF NextOp
  <2> HIDE DEF l, N
  <2>7. N \in Nat \ {0} /\ \A j \in 1..N : subs[j] = meaning[Node[i].subs[j]] /\ subs[j] \in Seq(OpType)
    BY <1>1, <2>2 DEF N
  <2>8. ASSUME NEW n \in 0..(N - 1)
        PROVE  NextOp(i, n) \in Seq(OpType) /\ Done(i, n) \o NextOp(i, n) = Done(i, n + 1)
    <3>1. n + 1 \in 1..N /\ n + 1 - 1 = n
      BY <2>7
    <3>2. l[n + 1] = l[n] \o subs[n + 1]
      <4> PICK m : m = n + 1
        OBVIOUS
      <4>1. m \in 1..N /\ m - 1 = n
        BY <3>1
      <4>2. l[m] = l[m - 1] \o subs[m]
        BY <2>1, <4>1
      <4> QED
        BY <4>1, <4>2
    <3>3. NextOp(i, n) = subs[n + 1] /\ subs[n + 1] \in Seq(OpType)
      BY <2>6, <2>7, <3>1
    <3> QED
      BY <2>5, <3>2, <3>3
  <2>9. \A n \in 0..N : Done(i, n) \in Seq(OpType)
    BY <2>1, <2>5
  <2> QED
    BY <2>1, <2>3, <2>4, <2>5, <2>7, <2>8, <2>9
<1> QED
  BY <1>4, <1>5, <1>6

-----------------------------------------------------------------------------
(* What a frame has made of the batches it was called for.                 *)

Undone(rounds) == {b \in Batches : \E n \in DOMAIN rounds : b \in rounds[n]}

(* The rounds that can be left of a call for the batches bs.               *)
RoundsOf(bs) ==
  {<< >>, << bs >>} \cup IF bs = Batches THEN {<< {1}, {2} >>, << {2} >>} ELSE {}

(* Where the batches of the current round are after a step.                *)
Holding(f) ==
  IF Node[f.node].kind = "composition" THEN Half(f, 3 - f.half)
  ELSE IF Node[f.node].kind = "cooleytukey" /\ f.step = 2 THEN f.out ELSE f.buffer

(* A batch is in the output when its round is over, in the input when it   *)
(* is not begun, and in between where the last step has left it.           *)
Begun(f, b) == f.step # 0 /\ f.rounds # << >> /\ b \in Head(f.rounds)

Place(f, b) ==
  IF b \notin Undone(f.rounds) THEN f.out ELSE IF Begun(f, b) THEN Holding(f) ELSE f.in

SoFar(f, b) ==
  IF b \notin Undone(f.rounds) THEN meaning[f.node]
  ELSE IF Begun(f, b) THEN Done(f.node, f.step) ELSE << >>

Shape(f, bs) ==
  /\ f.rounds \in RoundsOf(bs)
  /\ Node[f.node].kind \in {"leaf", "cooleytukey"} => f.rounds \in {<< >>, << bs >>}
  /\ f.step \in 0..Steps(f.node)
  /\ f.step = Steps(f.node) => Node[f.node].kind = "cooleytukey"
  /\ f.step # 0 => f.hasBuffer /\ f.rounds # << >>
  /\ IsConvolution(Node[f.node]) /\ f.rounds = << >> => f.hasBuffer

SameCall(f, c) ==
  /\ c.node = f.node /\ c.in = f.in /\ c.out = f.out
  /\ c.buffer = f.buffer /\ c.hasBuffer = f.hasBuffer

(* From f to c the batches of the round go from source to dest, through op. *)
Moves(f, c, bs, source, dest, op) ==
  /\ \A b \in Head(f.rounds) :
       Place(f, b) = source /\ Place(c, b) = dest /\ SoFar(c, b) = SoFar(f, b) \o op
  /\ \A b \in bs \ Head(f.rounds) : Place(c, b) = Place(f, b) /\ SoFar(c, b) = SoFar(f, b)

Finished(f, bs) == \A b \in bs : Place(f, b) = f.out /\ SoFar(f, b) = meaning[f.node]

Source(f) == IF f.step = 0 THEN f.in ELSE Holding(f)

LEMMA RoundFacts ==
  ASSUME NEW bs \in SUBSET Batches, NEW r \in RoundsOf(bs)
  PROVE  /\ r = << >> => Undone(r) = {}
         /\ r = << bs >> => Undone(r) = bs /\ Head(r) = bs
         /\ r # << >> => /\ Head(r) \in SUBSET bs /\ Tail(r) \in RoundsOf(bs)
                         /\ Undone(r) = Head(r) \cup Undone(Tail(r))
                         /\ Head(r) \cap Undone(Tail(r)) = {}
                         /\ r = << bs >> => Tail(r) = << >>
<1>1. \A a \in SUBSET Batches : /\ Undone(<< a >>) = a /\ Head(<< a >>) = a
                                /\ Tail(<< a >>) = << >>
  BY DEF Undone
<1>2. Undone(<< >>) = {}
  BY DEF Undone
<1>3. CASE r = << >>
  <2>1. r # << bs >>
    BY <1>3
  <2> QED
    BY <1>2, <1>3, <2>1
<1>4. CASE r = << bs >>
  BY <1>1, <1>2, <1>4 DEF RoundsOf
<1>5. CASE bs = Batches /\ r = << {2} >>
  <2>1. {2} \in SUBSET Batches
    BY DEF Batches
  <2>2. r # << bs >> /\ << >> \in RoundsOf(bs)
    BY <1>5 DEF Batches, RoundsOf
  <2> QED
    BY <1>1, <1>2, <1>5, <2>1, <2>2
<1>6. CASE bs = Batches /\ r = << {1}, {2} >>
  <2>1. Head(r) = {1} /\ Tail(r) = << {2} >>
    BY <1>6
  <2>2. {1} \in SUBSET Batches /\ {2} \in SUBSET Batches /\ {1} \cap {2} = {}
    BY DEF Batches
  <2>3. Undone(r) = {1, 2}
    <3>1. DOMAIN r = {1, 2} /\ r[1] = {1} /\ r[2] = {2}
      BY <1>6
    <3> QED
      BY <3>1 DEF Undone, Batches
  <2>4. << {2} >> \in RoundsOf(bs)
    BY <1>6 DEF RoundsOf
  <2>5. r # << bs >> /\ r # << >>
    BY <1>6
  <2>6. Undone(<< {2} >>) = {2}
    BY <1>1, <2>2
  <2> QED
    BY <1>6, <2>1, <2>2, <2>3, <2>4, <2>5, <2>6
<1>7. r = << >> \/ r = << bs >> \/ (bs = Batches /\ (r = << {1}, {2} >> \/ r = << {2} >>))
  BY DEF RoundsOf
<1> QED
  BY <1>3, <1>4, <1>5, <1>6, <1>7

LEMMA NewFrameShape ==
  ASSUME NEW i \in DOMAIN Node, NEW in, NEW out, NEW bs \in SUBSET Batches
  PROVE  LET f == NewFrame(i, in, out, bs)
         IN  /\ Shape(f, bs) /\ f.node = i /\ f.in = in /\ f.out = out /\ ~f.hasBuffer
             /\ \A b \in bs : Place(f, b) = in /\ SoFar(f, b) = << >>
<1> DEFINE r == Rounds(Node[i], bs)
           f == NewFrame(i, in, out, bs)
<1>1. r = << bs >> \/ (bs = Batches /\ r = << {1}, {2} >>)
  BY DEF Rounds
<1>2. Node[i].kind \in {"leaf", "cooleytukey"} => r = << bs >>
  BY NodeFacts DEF Rounds
<1>3. Undone(r) = bs /\ r \in RoundsOf(bs) /\ r # << >>
  <2>1. r \in RoundsOf(bs)
    BY <1>1 DEF RoundsOf
  <2>2. CASE r = << bs >>
    BY <2>1, <2>2, RoundFacts
  <2>3. CASE bs = Batches /\ r = << {1}, {2} >>
    <3> HIDE DEF r
    <3>1. DOMAIN r = {1, 2} /\ r[1] = {1} /\ r[2] = {2}
      BY <2>3
    <3> QED
      BY <2>1, <2>3, <3>1 DEF Undone, Batches
  <2> QED
    BY <1>1, <2>1, <2>2, <2>3
<1>4. /\ f.node = i /\ f.in = in /\ f.out = out /\ f.step = 0 /\ f.rounds = r /\ ~f.hasBuffer
  BY DEF NewFrame
<1> HIDE DEF r, f
<1>5. Shape(f, bs)
  <2>1. 0 \in 0..Steps(i) /\ Steps(i) # 0
    BY DoneFacts
  <2> QED
    BY <1>2, <1>3, <1>4, <2>1 DEF Shape
<1>6. \A b \in bs : Place(f, b) = in /\ SoFar(f, b) = << >>
  BY <1>3, <1>4 DEF Place, SoFar, Begun
<1> QED
  BY <1>4, <1>5, <1>6 DEF f

(* A step that is not the last of its round.                               *)
LEMMA StepMoves ==
  ASSUME NEW f \in FrameType, NEW c \in FrameType, NEW bs \in SUBSET Batches,
         Shape(f, bs), f.rounds # << >>, f.hasBuffer, SameCall(f, c),
         c.rounds = f.rounds, c.step = f.step + 1,
         \/ c.step < Steps(f.node)
         \/ c.step = Steps(f.node) /\ Node[f.node].kind = "cooleytukey"
  PROVE  /\ Shape(c, bs)
         /\ Moves(f, c, bs, Source(f), Holding(c), NextOp(f.node, f.step))
<1> DEFINE i == f.node
           op == NextOp(i, f.step)
<1>1. /\ i \in DOMAIN Node /\ f.step \in Nat /\ c.step \in Nat
      /\ f.rounds \in RoundsOf(bs) /\ Steps(i) \in Nat \ {0}
  BY DoneFacts DEF FrameType, Shape
<1>2. /\ c.step \in 0..Steps(i) /\ f.step \in 0..(Steps(i) - 1) /\ c.step # 0
  BY <1>1
<1>3. /\ c.node = i /\ c.in = f.in /\ c.out = f.out /\ c.hasBuffer
  BY DEF SameCall
<1>4. Shape(c, bs)
  BY <1>1, <1>2, <1>3 DEF Shape
<1>5. /\ Head(f.rounds) \in SUBSET bs
      /\ Head(f.rounds) \subseteq Undone(f.rounds)
  BY <1>1, RoundFacts
<1>6. Done(i, f.step) \o op = Done(i, c.step) /\ Done(i, 0) = << >>
  BY <1>1, <1>2, DoneFacts
<1> HIDE DEF i, op
<1>7. ASSUME NEW b \in Head(f.rounds)
      PROVE  Place(f, b) = Source(f) /\ Place(c, b) = Holding(c) /\ SoFar(c, b) = SoFar(f, b) \o op
  <2>1. b \in Undone(f.rounds) /\ b \in Undone(c.rounds)
    BY <1>5
  <2>2. Begun(c, b) /\ (Begun(f, b) <=> f.step # 0)
    BY <1>2 DEF Begun
  <2>3. Place(f, b) = Source(f) /\ Place(c, b) = Holding(c)
    BY <2>1, <2>2 DEF Place, Source
  <2>4. SoFar(c, b) = Done(i, c.step)
    BY <1>3, <2>1, <2>2 DEF SoFar
  <2>5. SoFar(f, b) = Done(i, f.step)
    BY <1>6, <2>1, <2>2 DEF SoFar, i
  <2> QED
    BY <1>6, <2>3, <2>4, <2>5
<1>8. ASSUME NEW b \in bs \ Head(f.rounds)
      PROVE  Place(c, b) = Place(f, b) /\ SoFar(c, b) = SoFar(f, b)
  <2>1. ~Begun(c, b) /\ ~Begun(f, b)
    BY DEF Begun
  <2> QED
    BY <1>3, <2>1 DEF Place, SoFar, i
<1>9. Moves(f, c, bs, Source(f), Holding(c), op)
  BY <1>7, <1>8 DEF Moves
<1> QED
  BY <1>4, <1>9 DEF op, i

(* The last step of a round.                                               *)
LEMMA RoundMoves ==
  ASSUME NEW f \in FrameType, NEW bs \in SUBSET Batches,
         Shape(f, bs), f.rounds # << >>, f.step + 1 = Steps(f.node)
  PROVE  /\ Shape(NextRound(f), bs) /\ SameCall(f, NextRound(f))
         /\ Moves(f, NextRound(f), bs, Source(f), f.out, NextOp(f.node, f.step))
         /\ f.rounds = << bs >> => NextRound(f).rounds = << >>
<1> DEFINE i == f.node
           c == NextRound(f)
           op == NextOp(i, f.step)
<1>1. /\ i \in DOMAIN Node /\ f.step \in Nat
      /\ f.rounds \in RoundsOf(bs) /\ Steps(i) \in Nat \ {0}
  BY DoneFacts DEF FrameType, Shape
<1>2. /\ c.node = i /\ c.in = f.in /\ c.out = f.out /\ c.step = 0 /\ c.rounds = Tail(f.rounds)
      /\ SameCall(f, c)
  BY DEF NextRound, SameCall, FrameType
<1> HIDE DEF c
<1>3. /\ Head(f.rounds) \in SUBSET bs /\ Tail(f.rounds) \in RoundsOf(bs)
      /\ Undone(f.rounds) = Head(f.rounds) \cup Undone(c.rounds)
      /\ Head(f.rounds) \cap Undone(c.rounds) = {}
      /\ f.rounds = << bs >> => c.rounds = << >>
  <2> PICK r : r = f.rounds
    OBVIOUS
  <2>1. r \in RoundsOf(bs) /\ r # << >> /\ c.rounds = Tail(r)
    BY <1>1, <1>2
  <2>2. Head(r) \in SUBSET bs /\ Tail(r) \in RoundsOf(bs)
    BY <2>1, RoundFacts
  <2>3. Undone(r) = Head(r) \cup Undone(Tail(r))
    BY <2>1, RoundFacts
  <2>4. Head(r) \cap Undone(Tail(r)) = {}
    BY <2>1, RoundFacts
  <2>5. r = << bs >> => Tail(r) = << >>
    BY <2>1, RoundFacts
  <2> QED
    BY <2>1, <2>2, <2>3, <2>4, <2>5
<1>4. Shape(c, bs)
  <2>1. 0 \in 0..Steps(i) /\ Steps(i) # 0
    BY <1>1
  <2>2. Node[i].kind \in {"leaf", "cooleytukey"} => f.rounds = << bs >>
    BY DEF Shape
  <2>3. IsConvolution(Node[i]) => c.hasBuffer
    <3>1. IsConvolution(Node[i]) => f.step = 4
      BY <1>1 DEF IsConvolution, Steps
    <3> QED
      BY <1>2, <3>1 DEF Shape, SameCall
  <2> QED
    BY <1>2, <1>3, <2>1, <2>2, <2>3 DEF Shape
<1>5. Done(i, f.step) \o op = meaning[i] /\ Done(i, 0) = << >>
  <2>1. f.step \in 0..(Steps(i) - 1)
    BY <1>1
  <2> QED
    BY <1>1, <2>1, DoneFacts
<1> HIDE DEF i, op
<1>6. ASSUME NEW b \in Head(f.rounds)
      PROVE  Place(f, b) = Source(f) /\ Place(c, b) = f.out /\ SoFar(c, b) = SoFar(f, b) \o op
  <2>1. b \in Undone(f.rounds) /\ b \notin Undone(c.rounds)
    BY <1>3
  <2>2. Begun(f, b) <=> f.step # 0
    BY DEF Begun
  <2>3. Place(f, b) = Source(f) /\ Place(c, b) = f.out
    BY <1>2, <2>1, <2>2 DEF Place, Source
  <2>4. SoFar(c, b) = meaning[i]
    BY <1>2, <2>1 DEF SoFar
  <2>5. SoFar(f, b) = Done(i, f.step)
    BY <1>5, <2>1, <2>2 DEF SoFar, i
  <2> QED
    BY <1>5, <2>3, <2>4, <2>5
<1>7. ASSUME NEW b \in bs \ Head(f.rounds)
      PROVE  Place(c, b) = Place(f, b) /\ SoFar(c, b) = SoFar(f, b)
  <2>1. ~Begun(c, b) /\ ~Begun(f, b) /\ (b \in Undone(f.rounds) <=> b \in Undone(c.rounds))
    BY <1>2, <1>3 DEF Begun
  <2> QED
    BY <1>2, <2>1 DEF Place, SoFar, i
<1>8. Moves(f, c, bs, Source(f), f.out, op)
  BY <1>6, <1>7 DEF Moves
<1> QED
  BY <1>2, <1>3, <1>4, <1>8 DEF op, i, c

(* Every round is over, or both stages of a cooleytukey node are.          *)
LEMMA FinishedFacts ==
  ASSUME NEW f \in FrameType, NEW bs \in SUBSET Batches, Shape(f, bs),
         \/ f.rounds = << >>
         \/ Node[f.node].kind = "cooleytukey" /\ f.step = 2
  PROVE  Finished(f, bs)
<1>1. f.node \in DOMAIN Node /\ f.rounds \in RoundsOf(bs)
  BY DEF FrameType, Shape
<1>2. CASE f.rounds = << >>
  BY <1>1, <1>2, RoundFacts DEF Finished, Place, SoFar
<1>3. CASE Node[f.node].kind = "cooleytukey" /\ f.step = 2 /\ f.rounds # << >>
  <2>1. f.rounds = << bs >>
    BY <1>3 DEF Shape
  <2>2. Undone(f.rounds) = bs /\ Head(f.rounds) = bs
    BY <1>1, <2>1, RoundFacts
  <2>3. Steps(f.node) = 2
    BY <1>1, <1>3, NodeFacts DEF Steps, IsConvolution, Buffered, Stacked
  <2>4. Done(f.node, 2) = meaning[f.node]
    BY <1>1, <2>3, DoneFacts
  <2>5. Holding(f) = f.out
    BY <1>3 DEF Holding
  <2>6. \A b \in bs : Begun(f, b)
    BY <1>3, <2>2 DEF Begun
  <2> QED
    BY <1>3, <2>2, <2>4, <2>5, <2>6 DEF Finished, Place, SoFar
<1> QED
  BY <1>2, <1>3

(* What a frame lends to the plans it calls: the halves of its buffer.     *)
Lends(f) == IF f.hasBuffer THEN {Half(f, 1), Half(f, 2)} ELSE {}

LEMMA PlaceFacts ==
  ASSUME NEW f \in FrameType, NEW bs, Shape(f, bs), f.hasBuffer => f.buffer.part = 1
  PROVE  /\ f.hasBuffer => f.buffer \in Lends(f)
         /\ f.hasBuffer => Holding(f) \in Lends(f) \cup {f.out}
         /\ \A b : Place(f, b) \in {f.in, f.out} \cup Lends(f)
         /\ Source(f) \in {f.in, f.out} \cup Lends(f)
<1>1. f.hasBuffer => f.buffer = Half(f, 1)
  BY DEF FrameType, RegionType, Half
<1>2. f.hasBuffer => f.buffer \in Lends(f)
  BY <1>1 DEF Lends
<1>3. 3 - f.half \in {1, 2}
  BY DEF FrameType
<1>4. f.hasBuffer => Holding(f) \in Lends(f) \cup {f.out}
  BY <1>2, <1>3 DEF Holding, Lends
<1>5. \A b : Begun(f, b) => f.hasBuffer
  BY DEF Begun, Shape
<1>6. f.step # 0 => f.hasBuffer
  BY DEF Shape
<1> QED
  BY <1>2, <1>4, <1>5, <1>6 DEF Place, Source

-----------------------------------------------------------------------------
(* What a stack has made of the batches it was called for.                 *)

(* The memory the frame at k was given to read and write: the arrays of    *)
(* the caller, and what the frames below it lend.                          *)
Reach(t, s, k) ==
  {UserArray(t, "in"), UserArray(t, "out")} \cup UNION {Lends(s[j]) : j \in 1..(k - 1)}

(* A call: the value its batches had at the start, and which batches.      *)
GhostType == [start : ValueType, batches : SUBSET Batches]

Value(f, g, b) == g.start[b] \o SoFar(f, b)

(* A frame waits for the frame above it, which works on some batches ...   *)
Linked(f, g, c, h) ==
  \A b \in h.batches :
    /\ b \in g.batches /\ Place(f, b) = c.out
    /\ Value(f, g, b) = h.start[b] \o meaning[c.node]

(* ... and the others are where the frame left them.                       *)
Settled(f, g, m, bs) == \A b \in g.batches \ bs : m[Place(f, b)][b] = Value(f, g, b)

Lower(t, s, m, g, n) ==
  \A k \in 1..(n - 1) :
    /\ Shape(s[k], g[k].batches) /\ {s[k].in, s[k].out} \subseteq Reach(t, s, k)
    /\ \A l \in (k + 1)..n : g[l].batches \subseteq g[k].batches
    /\ Linked(s[k], g[k], s[k + 1], g[k + 1]) /\ Settled(s[k], g[k], m, g[k + 1].batches)

AtTop(t, s, m, g, n) ==
  /\ Shape(s[n], g[n].batches) /\ {s[n].in, s[n].out} \subseteq Reach(t, s, n)
  /\ Settled(s[n], g[n], m, {})
  /\ Reach(t, s, n + 1) \subseteq DOMAIN m

WholeCall == [start |-> Same(<< >>), batches |-> Batches]

Traced(t, s, m, g) ==
  /\ g \in Seq(GhostType) /\ Len(g) = Len(s)
  /\ s # << >> => /\ Lower(t, s, m, g, Len(s)) /\ AtTop(t, s, m, g, Len(s))
                  /\ g[1] = WholeCall

(* The buffers of a stack are its thread's own, and no two the same.       *)
Borrows(t, s) ==
  /\ s \in Seq(FrameType)
  /\ \A k \in DOMAIN s :
       /\ s[k].buffer.part = 1 \/ ~s[k].hasBuffer
       /\ s[k].hasBuffer => s[k].buffer.owner = t /\ s[k].buffer.id \in BufferIds
  /\ \A k, l \in DOMAIN s :
       k < l /\ s[k].hasBuffer /\ s[l].hasBuffer => s[k].buffer.id # s[l].buffer.id

(* What a step does to the frames below the top, to the values in reach    *)
(* that are not of the batches bs, and to the memory when the batches bs   *)
(* go from source to dest through op.                                      *)
SameBelow(s, s2, n) == \A k \in 1..(n - 1) : s2[k] = s[k]

Untouched(m, m2, regions, bs) ==
  \A r \in regions : \A b \in Batches \ bs : m2[r][b] = m[r][b]

Computed(m, out, i) == out \in DOMAIN m /\ \A b \in Batches : m[out][b] = meaning[i]

Kept(m, m2, regions) ==
  DOMAIN m2 = DOMAIN m /\ \A r \in regions : m2[r] = m[r]

Applied(m, m2, source, dest, bs, op) ==
  /\ DOMAIN m2 = DOMAIN m
  /\ \A r \in DOMAIN m : \A b \in Batches :
       m2[r][b] = IF r = dest /\ b \in bs THEN m[source][b] \o op ELSE m[r][b]

LEMMA ReachFacts ==
  ASSUME NEW t, NEW s, NEW n \in Nat \ {0}
  PROVE  /\ Reach(t, s, n + 1) = Reach(t, s, n) \cup Lends(s[n])
         /\ \A k \in 1..n : Reach(t, s, k) \cup Lends(s[k]) \subseteq Reach(t, s, n + 1)
         /\ \A k \in 1..(n - 1) : Reach(t, s, k) \cup Lends(s[k]) \subseteq Reach(t, s, n)
<1>1. /\ 1..(n + 1 - 1) = 1..(n - 1) \cup {n}
      /\ \A k \in 1..n : 1..(k - 1) \subseteq 1..(n + 1 - 1) /\ k \in 1..(n + 1 - 1)
      /\ \A k \in 1..(n - 1) : 1..(k - 1) \subseteq 1..(n - 1)
  OBVIOUS
<1>2. Reach(t, s, n + 1) = Reach(t, s, n) \cup Lends(s[n])
  BY <1>1 DEF Reach
<1>3. ASSUME NEW k \in 1..n
      PROVE  Reach(t, s, k) \cup Lends(s[k]) \subseteq Reach(t, s, n + 1)
  BY <1>1 DEF Reach
<1>4. ASSUME NEW k \in 1..(n - 1)
      PROVE  Reach(t, s, k) \cup Lends(s[k]) \subseteq Reach(t, s, n)
  BY <1>1 DEF Reach
<1> QED
  BY <1>2, <1>3, <1>4

LEMMA ReachSame ==
  ASSUME NEW t, NEW s, NEW s2, NEW k, \A j \in 1..(k - 1) : Lends(s2[j]) = Lends(s[j])
  PROVE  Reach(t, s2, k) = Reach(t, s, k)
BY DEF Reach

(* Everything in reach of a stack belongs to its thread.                   *)
LEMMA ReachOwner ==
  ASSUME NEW t, NEW s, Borrows(t, s), NEW k \in 1..(Len(s) + 1), NEW r \in Reach(t, s, k)
  PROVE  r.owner = t
<1>1. CASE r \in {UserArray(t, "in"), UserArray(t, "out")}
  BY <1>1 DEF UserArray, Region
<1>2. CASE r \notin {UserArray(t, "in"), UserArray(t, "out")}
  <2>1. PICK j \in 1..(k - 1) : r \in Lends(s[j])
    BY <1>2 DEF Reach
  <2>2. j \in DOMAIN s /\ s[j] \in FrameType
    <3>1. s \in Seq(FrameType)
      BY DEF Borrows
    <3> QED
      BY <2>1, <3>1
  <2>3. s[j].hasBuffer /\ s[j].buffer.owner = t /\ s[j].buffer \in RegionType
    BY <2>1, <2>2 DEF Lends, Borrows, FrameType
  <2>4. \E part \in {1, 2} : r = [s[j].buffer EXCEPT !.part = part]
    BY <2>1, <2>3 DEF Lends, Half
  <2> QED
    BY <2>3, <2>4 DEF RegionType
<1> QED
  BY <1>1, <1>2

(* What a frame lends is not what was lent to it.                          *)
LEMMA LendsAreNew ==
  ASSUME NEW t, NEW s, Borrows(t, s), NEW n \in 1..Len(s), NEW id, NEW r, r.id = id,
         id \in BufferIds,
         \A k \in 1..(n - 1) : s[k].hasBuffer => s[k].buffer.id # id
  PROVE  r \notin Reach(t, s, n)
<1>1. SUFFICES ASSUME r \in Reach(t, s, n) PROVE FALSE
  OBVIOUS
<1>2. CASE r \in {UserArray(t, "in"), UserArray(t, "out")}
  <2>1. id \in {<<"in", 0>>, <<"out", 0>>}
    BY <1>2 DEF UserArray, Region
  <2>2. \A p \in BufferIds : p[1] \in Buffered
    BY DEF BufferIds, Buffered, Stacked
  <2> QED
    BY <2>1, <2>2 DEF Buffered, Stacked
<1>3. CASE r \notin {UserArray(t, "in"), UserArray(t, "out")}
  <2>1. PICK j \in 1..(n - 1) : r \in Lends(s[j])
    BY <1>1, <1>3 DEF Reach
  <2>2. j \in DOMAIN s /\ s[j] \in FrameType
    <3>1. s \in Seq(FrameType)
      BY DEF Borrows
    <3> QED
      BY <2>1, <3>1
  <2>3. s[j].hasBuffer /\ s[j].buffer \in RegionType
    BY <2>1, <2>2 DEF Lends, FrameType
  <2>4. \E part \in {1, 2} : r = [s[j].buffer EXCEPT !.part = part]
    BY <2>1, <2>3 DEF Lends, Half
  <2>5. r.id = s[j].buffer.id
    BY <2>3, <2>4 DEF RegionType
  <2> QED
    BY <2>1, <2>3, <2>5
<1> QED
  BY <1>2, <1>3

(* The frames below the top do not care what the top does to its batches.  *)
LEMMA LowerKept ==
  ASSUME NEW t, NEW s, Borrows(t, s), NEW n \in 1..Len(s), NEW g \in Seq(GhostType),
         Len(g) = Len(s), NEW m, Lower(t, s, m, g, n),
         NEW s2, SameBelow(s, s2, n),
         s2[n].out = s[n].out, s2[n].node = s[n].node,
         NEW g2, SameBelow(g, g2, n + 1),
         NEW m2, Untouched(m, m2, Reach(t, s, n), g[n].batches)
  PROVE  Lower(t, s2, m2, g2, n)
<1>1. /\ s \in Seq(FrameType) /\ Len(s) \in Nat
      /\ \A k \in 1..(n - 1) : s2[k] = s[k]
      /\ \A k \in 1..n : g2[k] = g[k]
  BY DEF Borrows, SameBelow
<1>2. ASSUME NEW k \in 1..(n - 1)
      PROVE  /\ Shape(s2[k], g2[k].batches) /\ {s2[k].in, s2[k].out} \subseteq Reach(t, s2, k)
             /\ \A l \in (k + 1)..n : g2[l].batches \subseteq g2[k].batches
             /\ Linked(s2[k], g2[k], s2[k + 1], g2[k + 1])
             /\ Settled(s2[k], g2[k], m2, g2[k + 1].batches)
  <2>1. /\ k \in 1..n /\ k + 1 \in 1..n /\ (k + 1 # n => k + 1 \in 1..(n - 1))
        /\ \A l \in (k + 1)..n : l \in 1..n
        /\ k \in DOMAIN s /\ s[k] \in FrameType /\ n \in (k + 1)..n /\ k \in DOMAIN g
        /\ n \in (k + 1 + 1)..n \/ n = k + 1
        /\ n \in Nat \ {0}
    BY <1>1
  <2>2. /\ Shape(s[k], g[k].batches) /\ {s[k].in, s[k].out} \subseteq Reach(t, s, k)
        /\ \A l \in (k + 1)..n : g[l].batches \subseteq g[k].batches
        /\ Linked(s[k], g[k], s[k + 1], g[k + 1]) /\ Settled(s[k], g[k], m, g[k + 1].batches)
    BY DEF Lower
  <2>3. Reach(t, s2, k) = Reach(t, s, k)
    <3>1. \A j \in 1..(k - 1) : j \in 1..(n - 1)
      BY <2>1
    <3>2. \A j \in 1..(k - 1) : Lends(s2[j]) = Lends(s[j])
      BY <1>1, <3>1
    <3> QED
      BY <3>2, ReachSame
  <2>4. /\ g2[k] = g[k] /\ g2[k + 1] = g[k + 1] /\ s2[k] = s[k]
        /\ s2[k + 1].out = s[k + 1].out /\ s2[k + 1].node = s[k + 1].node
    BY <1>1, <2>1
  <2>5. Linked(s2[k], g2[k], s2[k + 1], g2[k + 1])
    BY <2>2, <2>4 DEF Linked
  <2>6. g[n].batches \subseteq g[k + 1].batches
    <3>1. CASE k + 1 = n
      BY <3>1
    <3>2. CASE k + 1 # n
      <4> PICK a : a = k + 1
        OBVIOUS
      <4>1. a \in 1..(n - 1) /\ n \in (a + 1)..n
        BY <2>1, <3>2
      <4> QED
        BY <4>1 DEF Lower
    <3> QED
      BY <3>1, <3>2
  <2>7. Settled(s2[k], g2[k], m2, g2[k + 1].batches)
    <3> SUFFICES ASSUME NEW b \in g[k].batches \ g[k + 1].batches
                 PROVE  m2[Place(s[k], b)][b] = Value(s[k], g[k], b)
      BY <2>4 DEF Settled
    <3>1. m[Place(s[k], b)][b] = Value(s[k], g[k], b)
      BY <2>2 DEF Settled
    <3>2. b \in Batches \ g[n].batches
      <4>1. g[k] \in GhostType
        BY <2>1
      <4> QED
        BY <2>6, <4>1 DEF GhostType
    <3>3. Place(s[k], b) \in {s[k].in, s[k].out} \cup Lends(s[k])
      BY <2>1, <2>2, PlaceFacts DEF Borrows
    <3>4. Place(s[k], b) \in Reach(t, s, n)
      <4>1. Reach(t, s, k) \cup Lends(s[k]) \subseteq Reach(t, s, n)
        BY <2>1, ReachFacts
      <4> QED
        BY <2>2, <3>3, <4>1
    <3> QED
      BY <3>1, <3>2, <3>4 DEF Untouched
  <2>8. \A l \in (k + 1)..n : g2[l].batches \subseteq g2[k].batches
    BY <1>1, <2>1, <2>2
  <2> QED
    BY <2>2, <2>3, <2>4, <2>5, <2>7, <2>8
<1> QED
  BY <1>2 DEF Lower

LEMMA TracedFacts ==
  ASSUME NEW t, NEW s, Borrows(t, s), s # << >>, NEW m, NEW g, Traced(t, s, m, g)
  PROVE  /\ s \in Seq(FrameType) /\ Len(s) \in Nat \ {0} /\ Len(s) \in 1..Len(s)
         /\ DOMAIN s = 1..Len(s) /\ s[Len(s)] \in FrameType /\ Last(s) = s[Len(s)]
         /\ g \in Seq(GhostType) /\ Len(g) = Len(s) /\ g # << >>
         /\ g[Len(s)] \in GhostType
         /\ g[Len(s)].start \in ValueType /\ g[Len(s)].batches \in SUBSET Batches
         /\ Lower(t, s, m, g, Len(s)) /\ AtTop(t, s, m, g, Len(s)) /\ g[1] = WholeCall
<1>1. s \in Seq(FrameType) /\ g \in Seq(GhostType) /\ Len(g) = Len(s)
  BY DEF Borrows, Traced
<1>2. Len(s) \in Nat \ {0} /\ DOMAIN s = 1..Len(s) /\ Last(s) = s[Len(s)]
  BY <1>1, PopSeq
<1>3. Len(s) \in 1..Len(s) /\ g # << >>
  BY <1>1, <1>2
<1>4. s[Len(s)] \in FrameType /\ g[Len(s)] \in GhostType
  BY <1>1, <1>2, <1>3
<1>5. g[Len(s)].start \in ValueType /\ g[Len(s)].batches \in SUBSET Batches
  BY <1>4 DEF GhostType
<1> QED
  BY <1>1, <1>2, <1>3, <1>4, <1>5 DEF Traced

(* The top frame goes on, and touches its own batches only.                *)
LEMMA TopTraced ==
  ASSUME NEW t, NEW s, Borrows(t, s), s # << >>, NEW m, NEW g, Traced(t, s, m, g),
         NEW n, n = Len(s), NEW c \in FrameType, c.node = s[n].node,
         c.in = s[n].in, c.out = s[n].out, Shape(c, g[n].batches),
         NEW s2 \in Seq(FrameType), Len(s2) = n, s2[n] = c, SameBelow(s, s2, n),
         NEW m2, Untouched(m, m2, Reach(t, s, n), g[n].batches),
         Settled(c, g[n], m2, {}), Reach(t, s2, n + 1) \subseteq DOMAIN m2
  PROVE  Traced(t, s2, m2, g)
<1>1. /\ s \in Seq(FrameType) /\ n \in Nat \ {0} /\ n \in 1..Len(s)
      /\ g \in Seq(GhostType) /\ Len(g) = Len(s)
      /\ Lower(t, s, m, g, n) /\ AtTop(t, s, m, g, n) /\ g[1] = WholeCall
  BY TracedFacts
<1>4. Lower(t, s2, m2, g, n)
  <2>1. s2[n].out = s[n].out /\ s2[n].node = s[n].node
    OBVIOUS
  <2>2. SameBelow(g, g, n + 1)
    BY DEF SameBelow
  <2> QED
    BY <1>1, <2>1, <2>2, LowerKept
<1>5. Reach(t, s2, n) = Reach(t, s, n)
  BY ReachSame DEF SameBelow
<1>6. AtTop(t, s2, m2, g, n)
  BY <1>1, <1>5 DEF AtTop
<1> QED
  BY <1>1, <1>4, <1>6 DEF Traced

(* Values are sequences of operations, and joining them is associative.    *)
LEMMA ValueMoves ==
  ASSUME NEW f \in FrameType, NEW c \in FrameType, NEW g \in GhostType,
         NEW b \in g.batches, SoFar(f, b) \in Seq(OpType), NEW op \in Seq(OpType),
         SoFar(c, b) = SoFar(f, b) \o op
  PROVE  Value(c, g, b) = Value(f, g, b) \o op
<1> PICK u, v : u = g.start[b] /\ v = SoFar(f, b)
  OBVIOUS
<1>1. u \in Seq(OpType) /\ v \in Seq(OpType) /\ op \in Seq(OpType)
  BY DEF GhostType, ValueType
<1>2. (u \o v) \o op = u \o (v \o op)
  BY ONLY <1>1, ConcatAssociative
<1>3. Value(c, g, b) = u \o (v \o op) /\ Value(f, g, b) = u \o v
  BY DEF Value
<1> QED
  BY <1>2, <1>3

LEMMA SoTyped ==
  ASSUME NEW f \in FrameType, NEW bs, Shape(f, bs), NEW b
  PROVE  SoFar(f, b) \in Seq(OpType)
<1>1. f.node \in DOMAIN Node /\ f.step \in 0..Steps(f.node)
  BY DEF FrameType, Shape
<1>2. Done(f.node, f.step) \in Seq(OpType) /\ meaning[f.node] \in Seq(OpType)
  BY <1>1, DoneFacts, MeaningEquation
<1>3. << >> \in Seq(OpType)
  OBVIOUS
<1> QED
  BY <1>2, <1>3 DEF SoFar

(* The top frame moves the batches of its round through an operation.      *)
LEMMA ApplyTraced ==
  ASSUME NEW t, NEW s, Borrows(t, s), s # << >>, NEW m, NEW g, Traced(t, s, m, g),
         NEW n, n = Len(s), NEW f, f = s[n], NEW bs, bs = Head(f.rounds),
         f.rounds # << >>, NEW c \in FrameType, SameCall(f, c), Shape(c, g[n].batches),
         NEW source, NEW dest \in DOMAIN m, NEW op \in Seq(OpType),
         Moves(f, c, g[n].batches, source, dest, op),
         NEW s2 \in Seq(FrameType), Len(s2) = n, s2[n] = c, SameBelow(s, s2, n),
         NEW m2, Applied(m, m2, source, dest, bs, op)
  PROVE  Traced(t, s2, m2, g)
<1>1. /\ s \in Seq(FrameType) /\ n \in Nat \ {0} /\ n \in 1..Len(s) /\ f \in FrameType
      /\ g[n] \in GhostType /\ g[n].batches \in SUBSET Batches
      /\ AtTop(t, s, m, g, n)
  BY TracedFacts
<1>2. /\ Shape(f, g[n].batches) /\ Settled(f, g[n], m, {})
      /\ Reach(t, s, n + 1) \subseteq DOMAIN m
      /\ {f.in, f.out} \subseteq Reach(t, s, n)
  BY <1>1 DEF AtTop
<1>3. bs \in SUBSET g[n].batches
  BY <1>1, <1>2, RoundFacts DEF Shape
<1>5. /\ Reach(t, s2, n + 1) = Reach(t, s, n + 1)
      /\ Reach(t, s, n) \cup Lends(f) \subseteq Reach(t, s, n + 1)
  <2>1. Lends(c) = Lends(f)
    BY DEF SameCall, Lends, Half
  <2>2. /\ Reach(t, s, n + 1) = Reach(t, s, n) \cup Lends(s[n])
        /\ Reach(t, s2, n + 1) = Reach(t, s2, n) \cup Lends(s2[n])
    BY <1>1, ReachFacts
  <2>3. Reach(t, s2, n) = Reach(t, s, n)
    BY ReachSame DEF SameBelow
  <2> QED
    BY <2>1, <2>2, <2>3
<1>6. Untouched(m, m2, Reach(t, s, n), g[n].batches)
  BY <1>2, <1>3, <1>5 DEF Untouched, Applied
<1>7. Settled(c, g[n], m2, {})
  <2> SUFFICES ASSUME NEW b \in g[n].batches
               PROVE  m2[Place(c, b)][b] = Value(c, g[n], b)
    BY DEF Settled
  <2>1. m[Place(f, b)][b] = Value(f, g[n], b) /\ b \in Batches
    BY <1>1, <1>2 DEF Settled
  <2>2. CASE b \in bs
    <3>1. Place(f, b) = source /\ Place(c, b) = dest
      BY <2>2 DEF Moves
    <3>2. SoFar(c, b) = SoFar(f, b) \o op
      BY <2>2 DEF Moves
    <3>3. m2[dest][b] = m[source][b] \o op
      BY <2>1, <2>2 DEF Applied
    <3>4. SoFar(f, b) \in Seq(OpType)
      BY <1>1, <1>2, SoTyped
    <3>5. Value(c, g[n], b) = Value(f, g[n], b) \o op
      <4>1. f \in FrameType /\ g[n] \in GhostType
        BY <1>1
      <4> QED
        BY ONLY <4>1, <3>2, <3>4, ValueMoves, b \in g[n].batches, c \in FrameType,
                op \in Seq(OpType)
    <3> QED
      BY ONLY <2>1, <3>1, <3>3, <3>5
  <2>3. CASE b \notin bs
    <3>1. Place(c, b) = Place(f, b) /\ SoFar(c, b) = SoFar(f, b)
      BY <2>3 DEF Moves
    <3>2. Place(f, b) \in DOMAIN m
      <4>1. n \in DOMAIN s
        BY <1>1
      <4>2. Place(f, b) \in {f.in, f.out} \cup Lends(f)
        BY <1>1, <1>2, <4>1, PlaceFacts DEF Borrows
      <4> QED
        BY <1>2, <1>5, <4>2
    <3> QED
      BY <2>1, <2>3, <3>1, <3>2 DEF Value, Applied
  <2> QED
    BY <2>2, <2>3
<1>8. c.node = s[n].node /\ c.in = s[n].in /\ c.out = s[n].out
  BY DEF SameCall
<1>9. Reach(t, s2, n + 1) \subseteq DOMAIN m2
  BY <1>2, <1>5 DEF Applied
<1> QED
  BY <1>6, <1>7, <1>8, <1>9, TopTraced

(* One frame more.                                                         *)
LEMMA LowerGrows ==
  ASSUME NEW t, NEW s, NEW m, NEW g, NEW n \in Nat \ {0}, Lower(t, s, m, g, n),
         Shape(s[n], g[n].batches), {s[n].in, s[n].out} \subseteq Reach(t, s, n),
         g[n + 1].batches \subseteq g[n].batches,
         Linked(s[n], g[n], s[n + 1], g[n + 1]), Settled(s[n], g[n], m, g[n + 1].batches)
  PROVE  Lower(t, s, m, g, n + 1)
<1> PICK a : a = n + 1
  OBVIOUS
<1>1. ASSUME NEW k \in 1..(a - 1)
      PROVE  /\ Shape(s[k], g[k].batches) /\ {s[k].in, s[k].out} \subseteq Reach(t, s, k)
             /\ \A l \in (k + 1)..a : g[l].batches \subseteq g[k].batches
             /\ Linked(s[k], g[k], s[k + 1], g[k + 1])
             /\ Settled(s[k], g[k], m, g[k + 1].batches)
  <2>1. CASE k = n
    <3>1. \A l \in (k + 1)..a : l = a
      BY <2>1
    <3> QED
      BY <2>1, <3>1
  <2>2. CASE k # n
    <3>1. k \in 1..(n - 1) /\ n \in (k + 1)..n /\ \A l \in (k + 1)..a : l = a \/ l \in (k + 1)..n
      BY <2>2
    <3>2. /\ Shape(s[k], g[k].batches) /\ {s[k].in, s[k].out} \subseteq Reach(t, s, k)
          /\ \A l \in (k + 1)..n : g[l].batches \subseteq g[k].batches
          /\ Linked(s[k], g[k], s[k + 1], g[k + 1])
          /\ Settled(s[k], g[k], m, g[k + 1].batches)
      BY <3>1 DEF Lower
    <3>3. g[a].batches \subseteq g[k].batches
      BY <3>1, <3>2
    <3> QED
      BY <3>1, <3>2, <3>3
  <2> QED
    BY <2>1, <2>2
<1>2. Lower(t, s, m, g, a)
  BY <1>1 DEF Lower
<1> QED
  BY <1>2

(* One frame less.                                                         *)
LEMMA LowerShrinks ==
  ASSUME NEW t, NEW s, NEW m, NEW g, NEW n \in Nat \ {0}, Lower(t, s, m, g, n + 1)
  PROVE  /\ Lower(t, s, m, g, n)
         /\ Shape(s[n], g[n].batches) /\ {s[n].in, s[n].out} \subseteq Reach(t, s, n)
         /\ g[n + 1].batches \subseteq g[n].batches
         /\ Linked(s[n], g[n], s[n + 1], g[n + 1]) /\ Settled(s[n], g[n], m, g[n + 1].batches)
<1> PICK a : a = n + 1
  OBVIOUS
<1>1. /\ n \in 1..(a - 1) /\ a \in (n + 1)..a
      /\ \A k \in 1..(n - 1) : k \in 1..(a - 1) /\ \A l \in (k + 1)..n : l \in (k + 1)..a
  OBVIOUS
<1>2. Lower(t, s, m, g, a)
  OBVIOUS
<1>3. \A k \in 1..(a - 1) :
        /\ Shape(s[k], g[k].batches) /\ {s[k].in, s[k].out} \subseteq Reach(t, s, k)
        /\ \A l \in (k + 1)..a : g[l].batches \subseteq g[k].batches
        /\ Linked(s[k], g[k], s[k + 1], g[k + 1]) /\ Settled(s[k], g[k], m, g[k + 1].batches)
  BY <1>2 DEF Lower
<1>4. Lower(t, s, m, g, n)
  BY <1>1, <1>3 DEF Lower
<1> QED
  BY <1>1, <1>3, <1>4

(* The top frame moves on to c and calls a sub-plan, which takes the       *)
(* batches of the round from source to dest.                               *)
LEMMA CallTraced ==
  ASSUME NEW t, NEW s, Borrows(t, s), s # << >>, NEW m, NEW g, Traced(t, s, m, g),
         NEW n, n = Len(s), NEW f, f = s[n], NEW bs, bs = Head(f.rounds),
         f.rounds # << >>, NEW c \in FrameType, SameCall(f, c), Shape(c, g[n].batches),
         NEW source, NEW dest, {source, dest} \subseteq Reach(t, s, n + 1),
         m[source] \in ValueType, NEW i \in DOMAIN Node,
         Moves(f, c, g[n].batches, source, dest, meaning[i]),
         NEW s2 \in Seq(FrameType), Len(s2) = n + 1, s2[n] = c, SameBelow(s, s2, n),
         s2[n + 1] = NewFrame(i, source, dest, bs)
  PROVE  \E g2 : Traced(t, s2, m, g2)
<1> DEFINE bt == g[n].batches
           h == [start |-> m[source], batches |-> bs]
<1> PICK g2 : g2 = Append(g, h)
  OBVIOUS
<1> PICK a : a = n + 1
  OBVIOUS
<1>1. /\ s \in Seq(FrameType) /\ n \in Nat \ {0} /\ n \in 1..Len(s) /\ f \in FrameType
      /\ g \in Seq(GhostType) /\ Len(g) = Len(s) /\ g[n] \in GhostType /\ bt \in SUBSET Batches
      /\ Lower(t, s, m, g, n) /\ AtTop(t, s, m, g, n) /\ g[1] = WholeCall
  BY TracedFacts
<1>2. /\ Shape(f, bt) /\ Settled(f, g[n], m, {})
      /\ Reach(t, s, a) \subseteq DOMAIN m
      /\ {f.in, f.out} \subseteq Reach(t, s, n)
  BY <1>1 DEF AtTop
<1>3. bs \in SUBSET bt
  BY <1>1, <1>2, RoundFacts DEF Shape
<1>4. h \in GhostType /\ h.start = m[source] /\ h.batches = bs
  BY <1>1, <1>3 DEF GhostType
<1> HIDE DEF h
<1>5. /\ g2 \in Seq(GhostType) /\ Len(g2) = a /\ g2[a] = h /\ SameBelow(g, g2, a)
      /\ g2[n] = g[n] /\ g2[1] = WholeCall
  <2>1. g2 \in Seq(GhostType) /\ Len(g2) = a /\ g2[a] = h /\ \A k \in 1..n : g2[k] = g[k]
    BY <1>1, <1>4
  <2>2. 1..(a - 1) = 1..n /\ 1 \in 1..n /\ n \in 1..n
    BY <1>1
  <2> QED
    BY <1>1, <2>1, <2>2 DEF SameBelow
<1>6. /\ Reach(t, s2, n) = Reach(t, s, n) /\ Reach(t, s2, a) = Reach(t, s, a)
      /\ Reach(t, s2, a + 1) = Reach(t, s, a)
      /\ Shape(s2[a], bs) /\ s2[a].in = source /\ s2[a].out = dest /\ s2[a].node = i
      /\ \A b \in bs : Place(s2[a], b) = source /\ SoFar(s2[a], b) = << >>
  <2>1. /\ Shape(s2[a], bs) /\ s2[a].node = i /\ s2[a].in = source /\ s2[a].out = dest
        /\ ~s2[a].hasBuffer
        /\ \A b \in bs : Place(s2[a], b) = source /\ SoFar(s2[a], b) = << >>
    <3> PICK e : e = NewFrame(i, source, dest, bs)
      OBVIOUS
    <3>1. bs \in SUBSET Batches
      BY <1>1, <1>3
    <3>2. /\ Shape(e, bs) /\ e.node = i /\ e.in = source /\ e.out = dest /\ ~e.hasBuffer
          /\ \A b \in bs : Place(e, b) = source /\ SoFar(e, b) = << >>
      BY <3>1, NewFrameShape
    <3> QED
      BY <3>2
  <2>2. Reach(t, s2, n) = Reach(t, s, n)
    BY ReachSame DEF SameBelow
  <2>3. Reach(t, s, a) = Reach(t, s, n) \cup Lends(s[n])
    BY <1>1, ReachFacts
  <2>4. Reach(t, s2, a) = Reach(t, s2, n) \cup Lends(s2[n])
    BY <1>1, ReachFacts
  <2>5. Reach(t, s2, a + 1) = Reach(t, s2, a) \cup Lends(s2[a])
    <3>1. a \in Nat \ {0}
      BY <1>1
    <3> QED
      BY <3>1, ReachFacts
  <2>6. Lends(s2[n]) = Lends(s[n]) /\ Lends(s2[a]) = {}
    BY <2>1 DEF SameCall, Lends, Half
  <2> QED
    BY <2>1, <2>2, <2>3, <2>4, <2>5, <2>6
<1>7. ASSUME NEW b \in bs
      PROVE  /\ Place(c, b) = dest /\ m[source][b] = Value(f, g[n], b)
             /\ Value(c, g[n], b) = h.start[b] \o meaning[i]
  <2>1. Place(f, b) = source /\ Place(c, b) = dest /\ SoFar(c, b) = SoFar(f, b) \o meaning[i]
    BY DEF Moves
  <2>2. m[source][b] = Value(f, g[n], b)
    BY ONLY <1>2, <1>3, <2>1, b \in bs DEF Settled
  <2>3. /\ SoFar(f, b) \in Seq(OpType) /\ meaning[i] \in Seq(OpType)
        /\ b \in g[n].batches /\ f \in FrameType /\ g[n] \in GhostType
    BY <1>1, <1>2, <1>3, SoTyped, MeaningEquation
  <2>4. Value(c, g[n], b) = Value(f, g[n], b) \o meaning[i]
    BY ONLY <2>1, <2>3, ValueMoves, c \in FrameType
  <2> QED
    BY ONLY <1>4, <2>1, <2>2, <2>4
<1>8. ASSUME NEW b \in bt \ bs
      PROVE  m[Place(c, b)][b] = Value(c, g[n], b)
  <2>1. Place(c, b) = Place(f, b) /\ SoFar(c, b) = SoFar(f, b)
    BY DEF Moves
  <2>2. m[Place(f, b)][b] = Value(f, g[n], b)
    BY <1>2 DEF Settled
  <2> QED
    BY <2>1, <2>2 DEF Value
<1>9. Lower(t, s2, m, g2, a)
  <2>1. Lower(t, s2, m, g2, n)
    <3>1. s2[n].out = s[n].out /\ s2[n].node = s[n].node
      BY DEF SameCall
    <3>2. Untouched(m, m, Reach(t, s, n), g[n].batches)
      BY DEF Untouched
    <3> QED
      BY <1>1, <1>5, <3>1, <3>2, LowerKept
  <2>2. Shape(s2[n], g2[n].batches) /\ {s2[n].in, s2[n].out} \subseteq Reach(t, s2, n)
    BY <1>2, <1>5, <1>6 DEF SameCall
  <2>3. g2[a].batches \subseteq g2[n].batches
    BY <1>3, <1>4, <1>5
  <2>4. Linked(s2[n], g2[n], s2[a], g2[a])
    <3>1. Linked(c, g[n], s2[a], h)
      BY <1>3, <1>4, <1>6, <1>7 DEF Linked
    <3> QED
      BY <1>5, <3>1
  <2>5. Settled(s2[n], g2[n], m, g2[a].batches)
    BY <1>4, <1>5, <1>8 DEF Settled
  <2> QED
    BY <1>1, <2>1, <2>2, <2>3, <2>4, <2>5, LowerGrows
<1>10. AtTop(t, s2, m, g2, a)
  <2>1. Settled(s2[a], h, m, {})
    <3> SUFFICES ASSUME NEW b \in bs PROVE m[Place(s2[a], b)][b] = Value(s2[a], h, b)
      BY <1>4 DEF Settled
    <3>1. Place(s2[a], b) = source /\ SoFar(s2[a], b) = << >>
      BY <1>6
    <3>2. m[source][b] \in Seq(OpType)
      BY <1>1, <1>3 DEF ValueType
    <3>3. m[source][b] \o << >> = m[source][b]
      BY ONLY <3>2, ConcatEmptySeq
    <3> QED
      BY ONLY <1>4, <3>1, <3>3 DEF Value
  <2> QED
    BY <1>2, <1>4, <1>5, <1>6, <2>1 DEF AtTop
<1>11. Len(s2) = a
  OBVIOUS
<1> QED
  BY <1>5, <1>9, <1>10, <1>11 DEF Traced

(* The top frame is done: it returns its outputs to the frame below, or to *)
(* the caller.                                                             *)
LEMMA PopTraced ==
  ASSUME NEW t, NEW s, Borrows(t, s), s # << >>, NEW m, NEW g, Traced(t, s, m, g),
         NEW n, n = Len(s), Finished(s[n], g[n].batches),
         NEW s2 \in Seq(FrameType), Len(s2) = n - 1, SameBelow(s, s2, n),
         NEW m2, Kept(m, m2, Reach(t, s, n))
  PROVE  /\ \E g2 : Traced(t, s2, m2, g2)
         /\ n = 1 => Computed(m2, s[1].out, s[1].node)
<1>6. DOMAIN m2 = DOMAIN m /\ \A r \in Reach(t, s, n) : m2[r] = m[r]
  BY DEF Kept
<1>1. /\ s \in Seq(FrameType) /\ n \in Nat \ {0} /\ n \in 1..Len(s) /\ s[n] \in FrameType
      /\ g \in Seq(GhostType) /\ Len(g) = Len(s) /\ g[n] \in GhostType
      /\ g[n].batches \in SUBSET Batches
      /\ Lower(t, s, m, g, n) /\ AtTop(t, s, m, g, n) /\ g[1] = WholeCall
      /\ s[n].node \in DOMAIN Node
  BY TracedFacts DEF FrameType
<1>2. /\ s[n].out \in Reach(t, s, n) /\ Settled(s[n], g[n], m, {})
      /\ Reach(t, s, n + 1) \subseteq DOMAIN m
  BY <1>1 DEF AtTop
<1>3. \A b \in g[n].batches :
        /\ m2[s[n].out][b] = Value(s[n], g[n], b)
        /\ Value(s[n], g[n], b) = g[n].start[b] \o meaning[s[n].node]
  <2> SUFFICES ASSUME NEW b \in g[n].batches
               PROVE  /\ m2[s[n].out][b] = Value(s[n], g[n], b)
                      /\ Value(s[n], g[n], b) = g[n].start[b] \o meaning[s[n].node]
    OBVIOUS
  <2>1. Place(s[n], b) = s[n].out /\ SoFar(s[n], b) = meaning[s[n].node]
    BY DEF Finished
  <2>2. m[Place(s[n], b)][b] = Value(s[n], g[n], b)
    BY <1>2 DEF Settled
  <2>3. m2[s[n].out] = m[s[n].out]
    BY <1>2, <1>6
  <2> QED
    BY <2>1, <2>2, <2>3 DEF Value
<1>4. n = 1 => Computed(m2, s[1].out, s[1].node)
  <2> SUFFICES ASSUME n = 1, NEW b \in Batches
               PROVE  m2[s[1].out][b] = meaning[s[1].node]
    <3>1. n = 1 => s[1].out \in DOMAIN m2
      <4>1. Reach(t, s, n + 1) = Reach(t, s, n) \cup Lends(s[n])
        BY <1>1, ReachFacts
      <4> QED
        BY <1>2, <1>6, <4>1
    <3> QED
      BY <3>1 DEF Computed
  <2>1. g[n].batches = Batches /\ g[n].start[b] = << >>
    BY <1>1 DEF WholeCall, Same
  <2>2. meaning[s[n].node] \in Seq(OpType)
    BY <1>1, MeaningEquation
  <2>3. << >> \o meaning[s[n].node] = meaning[s[n].node]
    BY ONLY <2>2, ConcatEmptySeq
  <2>4. m2[s[n].out][b] = << >> \o meaning[s[n].node]
    BY <1>3, <2>1
  <2> QED
    BY <2>3, <2>4
<1>5. \E g2 : Traced(t, s2, m2, g2)
  <2>1. CASE n = 1
    <3>1. s2 = << >>
      BY <2>1
    <3>2. << >> \in Seq(GhostType) /\ Len(<< >>) = 0
      OBVIOUS
    <3>3. Traced(t, s2, m2, << >>)
      BY <2>1, <3>1, <3>2 DEF Traced
    <3> QED
      BY <3>3
  <2>2. CASE n # 1
    <3> PICK p : p = n - 1
      OBVIOUS
    <3> PICK g2 : g2 = Front(g)
      OBVIOUS
    <3>1. p \in Nat \ {0} /\ n = p + 1 /\ p \in 1..Len(s) /\ p \in 1..(n - 1) /\ p + 1 = n
      BY <1>1, <2>2
    <3>2. /\ g2 \in Seq(GhostType) /\ Len(g2) = p /\ SameBelow(g, g2, n)
          /\ g2[p] = g[p] /\ g2[1] = WholeCall
      <4>1. g # << >>
        BY <1>1
      <4>2. /\ g2 \in Seq(GhostType) /\ Len(g2) = Len(g) - 1
            /\ \A k \in 1..(Len(g) - 1) : g2[k] = g[k]
        BY <1>1, <4>1, PopSeq
      <4>3. 1 \in 1..(n - 1)
        BY <3>1
      <4> QED
        BY <1>1, <3>1, <4>2, <4>3 DEF SameBelow
    <3>3. /\ Lower(t, s, m, g, p)
          /\ Shape(s[p], g[p].batches) /\ {s[p].in, s[p].out} \subseteq Reach(t, s, p)
          /\ Linked(s[p], g[p], s[n], g[n]) /\ Settled(s[p], g[p], m, g[n].batches)
      <4>1. Lower(t, s, m, g, p + 1)
        BY <1>1, <3>1
      <4>2. Lower(t, s, m, g, p)
        BY <3>1, <4>1, LowerShrinks
      <4>5. Shape(s[p], g[p].batches)
        BY <3>1, <4>1, LowerShrinks
      <4>6. {s[p].in, s[p].out} \subseteq Reach(t, s, p)
        BY <1>1, <3>1 DEF Lower
      <4>3. Linked(s[p], g[p], s[p + 1], g[p + 1])
        BY <3>1, <4>1, LowerShrinks
      <4>4. Settled(s[p], g[p], m, g[p + 1].batches)
        BY <3>1, <4>1, LowerShrinks
      <4> QED
        BY <3>1, <4>2, <4>3, <4>4, <4>5, <4>6
    <3>4. s2[p] = s[p] /\ SameBelow(s, s2, p)
      <4>1. \A k \in 1..(p - 1) : k \in 1..(n - 1)
        BY <3>1
      <4> QED
        BY <3>1, <4>1 DEF SameBelow
    <3>5. /\ Reach(t, s, p) \cup Lends(s[p]) \subseteq Reach(t, s, n)
          /\ Reach(t, s2, p) = Reach(t, s, p) /\ Reach(t, s2, n) = Reach(t, s, n)
      <4>1. Reach(t, s, p) \cup Lends(s[p]) \subseteq Reach(t, s, n)
        BY <1>1, <3>1, ReachFacts
      <4>2. Reach(t, s2, p) = Reach(t, s, p)
        BY <3>4, ReachSame DEF SameBelow
      <4>3. Reach(t, s2, n) = Reach(t, s, n)
        BY ReachSame DEF SameBelow
      <4> QED
        BY <4>1, <4>2, <4>3
    <3>6. Lower(t, s2, m2, g2, p)
      <4>1. Untouched(m, m2, Reach(t, s, p), g[p].batches)
        BY <1>6, <3>5 DEF Untouched
      <4>2. SameBelow(g, g2, p + 1)
        BY <3>1, <3>2
      <4>3. s2[p].out = s[p].out /\ s2[p].node = s[p].node
        BY <3>4
      <4> QED
        BY <1>1, <3>1, <3>3, <3>4, <4>1, <4>2, <4>3, LowerKept
    <3>7. Settled(s[p], g[p], m2, {})
      <4> SUFFICES ASSUME NEW b \in g[p].batches
                   PROVE  m2[Place(s[p], b)][b] = Value(s[p], g[p], b)
        BY DEF Settled
      <4>1. CASE b \in g[n].batches
        <5>1. /\ Place(s[p], b) = s[n].out
              /\ Value(s[p], g[p], b) = g[n].start[b] \o meaning[s[n].node]
          BY <3>3, <4>1 DEF Linked
        <5> QED
          BY <1>3, <4>1, <5>1
      <4>2. CASE b \notin g[n].batches
        <5>1. m[Place(s[p], b)][b] = Value(s[p], g[p], b)
          BY <3>3, <4>2 DEF Settled
        <5>2. Place(s[p], b) \in {s[p].in, s[p].out} \cup Lends(s[p])
          <6>1. p \in DOMAIN s /\ s[p] \in FrameType
            BY <1>1, <3>1
          <6> QED
            BY <3>3, <6>1, PlaceFacts DEF Borrows
        <5>3. Place(s[p], b) \in Reach(t, s, n)
          BY <3>3, <3>5, <5>2
        <5> QED
          BY <1>6, <5>1, <5>3
      <4> QED
        BY <4>1, <4>2
    <3>8. AtTop(t, s2, m2, g2, p)
      <4>1. Reach(t, s, n) \subseteq DOMAIN m2
        BY <1>1, <1>2, <1>6, ReachFacts
      <4> QED
        BY <3>1, <3>2, <3>3, <3>4, <3>5, <3>7, <4>1 DEF AtTop
    <3>9. Len(s2) = p /\ Len(g2) = Len(s2)
      BY <3>1, <3>2
    <3> QED
      BY <3>2, <3>6, <3>8, <3>9 DEF Traced
  <2> QED
    BY <2>1, <2>2
<1> QED
  BY <1>4, <1>5

(* A stack whose memory stays as it is.                                    *)
LEMMA OtherTraced ==
  ASSUME NEW t, NEW s, Borrows(t, s), NEW m, NEW g, Traced(t, s, m, g),
         NEW m2,
         \A r \in DOMAIN m : r.owner = t => r \in DOMAIN m2 /\ m2[r] = m[r]
  PROVE  Traced(t, s, m2, g)
<1>1. CASE s = << >>
  BY <1>1 DEF Traced
<1>2. CASE s # << >>
  <2> PICK n : n = Len(s)
    OBVIOUS
  <2>1. /\ s \in Seq(FrameType) /\ n \in Nat \ {0} /\ n \in 1..Len(s) /\ s[n] \in FrameType
        /\ n \in DOMAIN s
        /\ g \in Seq(GhostType) /\ Len(g) = Len(s)
        /\ Lower(t, s, m, g, n) /\ AtTop(t, s, m, g, n) /\ g[1] = WholeCall
    BY <1>2, TracedFacts
  <2>2. \A r \in Reach(t, s, n + 1) : r \in DOMAIN m2 /\ m2[r] = m[r]
    <3>1. Reach(t, s, n + 1) \subseteq DOMAIN m
      BY <2>1 DEF AtTop
    <3>2. n + 1 \in 1..(Len(s) + 1)
      BY <2>1
    <3>3. \A r \in Reach(t, s, n + 1) : r.owner = t
      BY <3>2, ReachOwner
    <3> QED
      BY <3>1, <3>3
  <2>3. Reach(t, s, n) \cup Lends(s[n]) \subseteq Reach(t, s, n + 1)
    BY <2>1, ReachFacts
  <2>4. Lower(t, s, m2, g, n)
    <3>1. Untouched(m, m2, Reach(t, s, n), g[n].batches)
      BY <2>2, <2>3 DEF Untouched
    <3>2. SameBelow(s, s, n) /\ SameBelow(g, g, n + 1)
      BY DEF SameBelow
    <3> QED
      BY <2>1, <3>1, <3>2, LowerKept
  <2>5. /\ Shape(s[n], g[n].batches) /\ {s[n].in, s[n].out} \subseteq Reach(t, s, n)
        /\ Settled(s[n], g[n], m, {})
    BY <2>1 DEF AtTop
  <2>6. Settled(s[n], g[n], m2, {})
    <3>1. \A b : Place(s[n], b) \in {s[n].in, s[n].out} \cup Lends(s[n])
      BY <2>1, <2>5, PlaceFacts DEF Borrows
    <3>2. \A b : Place(s[n], b) \in Reach(t, s, n + 1)
      BY <2>3, <2>5, <3>1
    <3> QED
      BY <2>2, <2>5, <3>2 DEF Settled
  <2>7. AtTop(t, s, m2, g, n)
    BY <2>2, <2>5, <2>6 DEF AtTop
  <2> QED
    BY <2>1, <2>4, <2>7 DEF Traced
<1> QED
  BY <1>1, <1>2

-----------------------------------------------------------------------------
(* Steps of a thread, and what its stack has made of its batches.          *)

LEMMA BorrowsFollow ==
  ASSUME IInv, NEW t \in Threads
  PROVE  Borrows(t, stack[t])
<1>1. stack[t] \in Seq(FrameType)
  BY DEF IInv, Typed
<1>2. ASSUME NEW k \in DOMAIN stack[t], stack[t][k].hasBuffer
      PROVE  /\ stack[t][k].buffer.part = 1 /\ stack[t][k].buffer.owner = t
             /\ stack[t][k].buffer.id \in BufferIds
  <2> DEFINE id == <<KindAt(t, k), DepthAt(t, k)>>
             size == pool[t][id]
  <2>1. BufferOK(t, k)
    BY DEF IInv, ThreadOK
  <2>2. id \in BufferIds /\ stack[t][k].buffer = Region(t, id, size, 1)
    BY <1>2, <2>1 DEF BufferOK
  <2> HIDE DEF id, size
  <2> QED
    BY <2>2 DEF Region
<1>3. ASSUME NEW k \in DOMAIN stack[t], NEW l \in DOMAIN stack[t], k < l,
             stack[t][k].hasBuffer, stack[t][l].hasBuffer
      PROVE  stack[t][k].buffer.id # stack[t][l].buffer.id
  BY <1>3, DepthsDiffer
<1> QED
  BY <1>1, <1>2, <1>3 DEF Borrows

Pushed(t, c, e) == [stack EXCEPT ![t] = Front(@) \o << c, e >>]

LEMMA StackPushed ==
  ASSUME IInv, NEW t \in Threads, stack[t] # << >>, NEW c \in FrameType, NEW e \in FrameType,
         stack' = Pushed(t, c, e)
  PROVE  /\ stack'[t] \in Seq(FrameType) /\ Len(stack'[t]) = Len(stack[t]) + 1
         /\ stack'[t][Len(stack[t])] = c /\ stack'[t][Len(stack[t]) + 1] = e
         /\ SameBelow(stack[t], stack'[t], Len(stack[t]))
         /\ \A u \in Threads \ {t} : stack'[u] = stack[u]
<1>1. stack \in [Threads -> Seq(FrameType)] /\ stack[t] \in Seq(FrameType)
  BY DEF IInv, Typed
<1>2. stack'[t] = Front(stack[t]) \o << c, e >>
  BY <1>1 DEF Pushed
<1>3. /\ (Front(stack[t]) \o << c, e >>) \in Seq(FrameType)
      /\ DOMAIN (Front(stack[t]) \o << c, e >>) = 1..(Len(stack[t]) + 1)
      /\ (Front(stack[t]) \o << c, e >>)[Len(stack[t])] = c
      /\ (Front(stack[t]) \o << c, e >>)[Len(stack[t]) + 1] = e
      /\ \A k \in 1..(Len(stack[t]) - 1) : (Front(stack[t]) \o << c, e >>)[k] = stack[t][k]
  BY <1>1, PushSeq
<1>4. Len(stack[t]) \in Nat
  BY <1>1
<1>5. Len(stack'[t]) = Len(stack[t]) + 1
  BY <1>2, <1>3, <1>4
<1>6. \A u \in Threads \ {t} : stack'[u] = stack[u]
  BY <1>1 DEF Pushed
<1> QED
  BY <1>2, <1>3, <1>5, <1>6 DEF SameBelow

LEMMA StackBecome ==
  ASSUME IInv, NEW t \in Threads, stack[t] # << >>, NEW c \in FrameType,
         stack' = Become(t, c)
  PROVE  /\ stack'[t] \in Seq(FrameType) /\ Len(stack'[t]) = Len(stack[t])
         /\ stack'[t][Len(stack[t])] = c
         /\ SameBelow(stack[t], stack'[t], Len(stack[t]))
         /\ \A u \in Threads \ {t} : stack'[u] = stack[u]
<1>1. stack \in [Threads -> Seq(FrameType)] /\ stack[t] \in Seq(FrameType)
  BY DEF IInv, Typed
<1>2. stack'[t] = Append(Front(stack[t]), c)
  BY <1>1 DEF Become
<1>3. /\ stack'[t] \in Seq(FrameType) /\ DOMAIN stack'[t] = DOMAIN stack[t]
      /\ stack'[t][Len(stack[t])] = c
      /\ \A k \in 1..(Len(stack[t]) - 1) : stack'[t][k] = stack[t][k]
  BY <1>1, <1>2, ReplaceSeq
<1>4. Len(stack'[t]) = Len(stack[t])
  BY <1>1, <1>3
<1>5. \A u \in Threads \ {t} : stack'[u] = stack[u]
  BY <1>1 DEF Become
<1> QED
  BY <1>3, <1>4, <1>5 DEF SameBelow

LEMMA StackReturned ==
  ASSUME IInv, NEW t \in Threads, stack[t] # << >>, stack' = Returned(t)
  PROVE  /\ stack'[t] \in Seq(FrameType) /\ Len(stack'[t]) = Len(stack[t]) - 1
         /\ SameBelow(stack[t], stack'[t], Len(stack[t]))
         /\ \A u \in Threads \ {t} : stack'[u] = stack[u]
<1>1. stack \in [Threads -> Seq(FrameType)] /\ stack[t] \in Seq(FrameType)
  BY DEF IInv, Typed
<1>2. stack'[t] = Front(stack[t])
  BY <1>1 DEF Returned
<1>3. /\ stack'[t] \in Seq(FrameType) /\ Len(stack'[t]) = Len(stack[t]) - 1
      /\ \A k \in 1..(Len(stack[t]) - 1) : stack'[t][k] = stack[t][k]
  <2> PICK s : s = stack[t]
    OBVIOUS
  <2>1. s \in Seq(FrameType) /\ s # << >> /\ stack'[t] = Front(s)
    BY <1>1, <1>2
  <2>2. /\ Front(s) \in Seq(FrameType) /\ Len(Front(s)) = Len(s) - 1
        /\ \A k \in 1..(Len(s) - 1) : Front(s)[k] = s[k]
    BY ONLY <2>1, PopSeq
  <2> QED
    BY <2>1, <2>2
<1>4. \A u \in Threads \ {t} : stack'[u] = stack[u]
  BY <1>1 DEF Returned
<1> QED
  BY <1>3, <1>4 DEF SameBelow

(* What a step of thread t comes to: its own stack is traced, what the     *)
(* others can reach is as it was, and a call that returns has computed its *)
(* plan.                                                                   *)
StepTraced(t) ==
  /\ \A u \in Threads \ {t} : stack'[u] = stack[u]
  /\ \A r \in DOMAIN mem : r.owner # t => r \in DOMAIN mem' /\ mem'[r] = mem[r]
  /\ \E g : Traced(t, stack'[t], mem', g)
  /\ Len(stack[t]) = 1 /\ stack'[t] = << >> =>
       Computed(mem', stack[t][1].out, stack[t][1].node)

LEMMA ApplyApplied ==
  ASSUME IInv, NEW source \in DOMAIN mem, NEW dest \in DOMAIN mem, NEW bs, NEW op,
         Apply(source, dest, bs, op)
  PROVE  /\ Applied(mem, mem', source, dest, bs, op)
         /\ \A r \in DOMAIN mem : r # dest => mem'[r] = mem[r]
<1>1. mem = [r \in DOMAIN mem |-> mem[r]]
  BY DEF IInv, Typed
<1>2. Contents(source) = mem[source]
  BY DEF Contents, Live
<1> DEFINE value == [b \in Batches |-> IF b \in bs THEN Contents(source)[b] \o op
                                                   ELSE mem[dest][b]]
<1>3. mem' = [mem EXCEPT ![dest] = value]
  BY DEF Apply
<1>4. \A b \in Batches : value[b] = IF b \in bs THEN mem[source][b] \o op ELSE mem[dest][b]
  BY <1>2
<1> HIDE DEF value
<1>5. DOMAIN mem' = DOMAIN mem /\ mem'[dest] = value
      /\ \A r \in DOMAIN mem : r # dest => mem'[r] = mem[r]
  BY <1>1, <1>3
<1>6. ASSUME NEW r \in DOMAIN mem, NEW b \in Batches
      PROVE  mem'[r][b] = IF r = dest /\ b \in bs THEN mem[source][b] \o op ELSE mem[r][b]
  <2>1. CASE r = dest
    BY ONLY <1>4, <1>5, <2>1, b \in Batches
  <2>2. CASE r # dest
    BY ONLY <1>5, <2>2, r \in DOMAIN mem
  <2> QED
    BY ONLY <2>1, <2>2
<1> QED
  BY ONLY <1>5, <1>6 DEF Applied

(* The trace of a running thread, and where its top frame may look.        *)
LEMMA TraceTop ==
  ASSUME IInv, NEW t \in Threads, stack[t] # << >>, NEW g, Traced(t, stack[t], mem, g),
         NEW n, n = Len(stack[t]), NEW f, f = Top(t)
  PROVE  /\ f = stack[t][n] /\ f \in FrameType /\ FrameOK(f) /\ f.node \in DOMAIN Node
         /\ NodeOf(t) = Node[f.node] /\ n \in Nat \ {0}
         /\ Borrows(t, stack[t]) /\ g[n].batches \in SUBSET Batches
         /\ Shape(f, g[n].batches) /\ f.rounds \in RoundsOf(g[n].batches)
         /\ f.hasBuffer => {f.buffer, Holding(f), Half(f, 1), Half(f, 2)}
                             \subseteq Reach(t, stack[t], n + 1)
         /\ {f.in, f.out} \subseteq Reach(t, stack[t], n)
         /\ {f.in, f.out, Source(f)} \subseteq Reach(t, stack[t], n + 1)
         /\ \A r \in Reach(t, stack[t], n + 1) :
              r \in DOMAIN mem /\ r.owner = t /\ mem[r] \in ValueType
<1> DEFINE s == stack[t]
<1>1. /\ Top(t) \in FrameType /\ FrameOK(Top(t)) /\ Top(t) = s[Len(s)]
      /\ Top(t).node \in DOMAIN Node /\ NodeOf(t) = Node[Top(t).node]
      /\ Borrows(t, s)
  BY TopFacts, BorrowsFollow
<1>2. /\ n \in Nat \ {0} /\ n \in DOMAIN s /\ g[n].batches \in SUBSET Batches
      /\ AtTop(t, s, mem, g, n)
  <2> HIDE DEF s
  <2>1. Borrows(t, s) /\ s # << >> /\ Traced(t, s, mem, g) /\ n = Len(s)
    BY <1>1 DEF s
  <2> QED
    BY <2>1, TracedFacts
<1>3. /\ Shape(f, g[n].batches) /\ {f.in, f.out} \subseteq Reach(t, s, n)
      /\ Reach(t, s, n + 1) \subseteq DOMAIN mem /\ f.rounds \in RoundsOf(g[n].batches)
  BY <1>1, <1>2 DEF AtTop, Shape
<1>4. f.hasBuffer => f.buffer.part = 1
  BY <1>1, <1>2 DEF Borrows
<1>5. Reach(t, s, n + 1) = Reach(t, s, n) \cup Lends(f)
  BY <1>1, <1>2, ReachFacts
<1>6. /\ f.hasBuffer => f.buffer \in Lends(f) /\ Holding(f) \in Lends(f) \cup {f.out}
      /\ Source(f) \in {f.in, f.out} \cup Lends(f)
  BY <1>1, <1>3, <1>4, PlaceFacts
<1>7. f.hasBuffer => {Half(f, 1), Half(f, 2)} \subseteq Lends(f)
  BY DEF Lends
<1>8. \A r \in Reach(t, s, n + 1) : r \in DOMAIN mem /\ r.owner = t /\ mem[r] \in ValueType
  <2>1. n + 1 \in 1..(Len(s) + 1)
    BY <1>2
  <2>2. \A r \in Reach(t, s, n + 1) : r.owner = t
    BY <1>1, <2>1, ReachOwner
  <2> QED
    BY <1>3, <2>2 DEF IInv, Typed
<1> QED
  BY <1>1, <1>2, <1>3, <1>5, <1>6, <1>7, <1>8

-----------------------------------------------------------------------------
(* The three things a step does to the top frame: call a sub-plan, write   *)
(* to memory, or return.                                                   *)

LEMMA CallStep ==
  ASSUME IInv, NEW t \in Threads, stack[t] # << >>, NEW g, Traced(t, stack[t], mem, g),
         NEW n, n = Len(stack[t]), NEW f, f = Top(t), f.rounds # << >>,
         NEW c \in FrameType, SameCall(f, c), Shape(c, g[n].batches),
         NEW source \in RegionType, NEW dest \in RegionType,
         {source, dest} \subseteq Reach(t, stack[t], n + 1),
         NEW i \in DOMAIN Node, Moves(f, c, g[n].batches, source, dest, meaning[i]),
         stack' = Pushed(t, c, NewFrame(i, source, dest, Head(f.rounds))), mem' = mem
  PROVE  StepTraced(t)
<1> PICK s, bs : s = stack[t] /\ bs = Head(f.rounds)
  OBVIOUS
<1> PICK e : e = NewFrame(i, source, dest, bs)
  OBVIOUS
<1>1. /\ f = s[n] /\ f \in FrameType /\ n \in Nat \ {0} /\ Borrows(t, s)
      /\ g[n].batches \in SUBSET Batches /\ f.rounds \in RoundsOf(g[n].batches)
      /\ mem[source] \in ValueType
  BY TraceTop
<1>2. bs \in SUBSET Batches
  BY <1>1, RoundFacts
<1>3. e \in FrameType
  BY <1>2, NewFrameOK
<1>4. /\ stack'[t] \in Seq(FrameType) /\ Len(stack'[t]) = n + 1
      /\ stack'[t][n] = c /\ stack'[t][n + 1] = e
      /\ SameBelow(s, stack'[t], n)
      /\ \A u \in Threads \ {t} : stack'[u] = stack[u]
  BY <1>3, StackPushed
<1> PICK s2 : s2 = stack'[t]
  OBVIOUS
<1>5. \E g2 : Traced(t, s2, mem, g2)
  <2>1. /\ Traced(t, s, mem, g) /\ s # << >> /\ n = Len(s) /\ f = s[n] /\ bs = Head(f.rounds)
        /\ {source, dest} \subseteq Reach(t, s, n + 1) /\ s2 \in Seq(FrameType)
        /\ Len(s2) = n + 1 /\ s2[n] = c /\ SameBelow(s, s2, n)
        /\ s2[n + 1] = NewFrame(i, source, dest, bs)
    BY <1>1, <1>4
  <2> QED
    BY ONLY <1>1, <2>1, CallTraced, f.rounds # << >>, c \in FrameType, SameCall(f, c),
            Shape(c, g[n].batches), i \in DOMAIN Node,
            Moves(f, c, g[n].batches, source, dest, meaning[i])
<1>6. stack'[t] # << >>
  BY ONLY <1>1, <1>4
<1>7. \A r \in DOMAIN mem : r.owner # t => r \in DOMAIN mem' /\ mem'[r] = mem[r]
  OBVIOUS
<1> QED
  BY <1>4, <1>5, <1>6, <1>7 DEF StepTraced

LEMMA ApplyStep ==
  ASSUME IInv, NEW t \in Threads, stack[t] # << >>, NEW g, Traced(t, stack[t], mem, g),
         NEW n, n = Len(stack[t]), NEW f, f = Top(t), f.rounds # << >>,
         NEW c \in FrameType, SameCall(f, c), Shape(c, g[n].batches),
         NEW source, NEW dest, {source, dest} \subseteq Reach(t, stack[t], n + 1),
         NEW op \in Seq(OpType), Moves(f, c, g[n].batches, source, dest, op),
         stack' = Become(t, c), Apply(source, dest, Head(f.rounds), op)
  PROVE  StepTraced(t)
<1> PICK s, bs : s = stack[t] /\ bs = Head(f.rounds)
  OBVIOUS
<1>1. /\ f = s[n] /\ f \in FrameType /\ n \in Nat \ {0} /\ Borrows(t, s)
      /\ source \in DOMAIN mem /\ dest \in DOMAIN mem /\ dest.owner = t
  BY TraceTop
<1>2. /\ Applied(mem, mem', source, dest, bs, op)
      /\ \A r \in DOMAIN mem : r # dest => mem'[r] = mem[r]
  BY <1>1, ApplyApplied
<1>3. /\ stack'[t] \in Seq(FrameType) /\ Len(stack'[t]) = n /\ stack'[t][n] = c
      /\ SameBelow(s, stack'[t], n)
      /\ \A u \in Threads \ {t} : stack'[u] = stack[u]
  BY StackBecome
<1> PICK s2, m2 : s2 = stack'[t] /\ m2 = mem'
  OBVIOUS
<1>4. Traced(t, s2, m2, g)
  <2>1. /\ Traced(t, s, mem, g) /\ s # << >> /\ n = Len(s) /\ f = s[n] /\ bs = Head(f.rounds)
        /\ s2 \in Seq(FrameType) /\ Len(s2) = n /\ s2[n] = c /\ SameBelow(s, s2, n)
        /\ Applied(mem, m2, source, dest, bs, op)
    BY <1>1, <1>2, <1>3
  <2> QED
    BY <1>1, <2>1, ApplyTraced
<1>5. stack'[t] # << >>
  BY <1>1, <1>3
<1>6. \A r \in DOMAIN mem : r.owner # t => r \in DOMAIN mem' /\ mem'[r] = mem[r]
  BY <1>1, <1>2 DEF Applied
<1> QED
  BY <1>3, <1>4, <1>5, <1>6 DEF StepTraced

(* A plan that returns may leave anything in its own buffer.               *)
LEMMA PopStep ==
  ASSUME IInv, NEW t \in Threads, stack[t] # << >>, NEW g, Traced(t, stack[t], mem, g),
         NEW n, n = Len(stack[t]), Finished(Top(t), g[n].batches), stack' = Returned(t),
         \/ mem' = mem
         \/ Forget(t) /\ Top(t).hasBuffer
  PROVE  StepTraced(t)
<1> PICK s, f : s = stack[t] /\ f = Top(t)
  OBVIOUS
<1>1. /\ f = s[n] /\ f \in FrameType /\ n \in Nat \ {0} /\ Borrows(t, s)
      /\ \A r \in Reach(t, s, n + 1) : r \in DOMAIN mem
  BY TraceTop
<1>2. n \in DOMAIN s /\ n \in 1..Len(s) /\ DOMAIN s = 1..Len(s)
  <2>1. s \in Seq(FrameType)
    BY <1>1 DEF Borrows
  <2> QED
    BY <1>1, <2>1
<1>3. /\ DOMAIN mem' = DOMAIN mem
      /\ \A r \in Reach(t, s, n) : mem'[r] = mem[r]
      /\ \A r \in DOMAIN mem : r.owner # t => r \in DOMAIN mem' /\ mem'[r] = mem[r]
  <2>1. CASE mem' = mem
    BY <2>1
  <2>2. CASE Forget(t) /\ f.hasBuffer
    <3>1. /\ f.buffer.owner = t /\ f.buffer.id \in BufferIds /\ f.buffer \in RegionType
          /\ \A k \in 1..(n - 1) : s[k].hasBuffer => s[k].buffer.id # f.buffer.id
      <4>1. \A k \in 1..(n - 1) : k \in DOMAIN s /\ k < n
        BY <1>1, <1>2
      <4>2. f.buffer.owner = t /\ f.buffer.id \in BufferIds
        BY <1>1, <1>2, <2>2 DEF Borrows
      <4>3. f.buffer \in RegionType
        BY <1>1 DEF FrameType
      <4>4. ASSUME NEW k \in 1..(n - 1), s[k].hasBuffer
            PROVE  s[k].buffer.id # f.buffer.id
        <5>1. k \in DOMAIN s /\ n \in DOMAIN s /\ k < n /\ s[n].hasBuffer
          BY <1>1, <1>2, <2>2, <4>1
        <5> QED
          BY <1>1, <4>4, <5>1 DEF Borrows
      <4> QED
        BY <4>2, <4>3, <4>4
    <3>2. \A part \in {1, 2} : Half(f, part).id = f.buffer.id /\ Half(f, part).owner = t
      BY <3>1 DEF Half, RegionType
    <3>3. \A part \in {1, 2} : Half(f, part) \notin Reach(t, s, n)
      BY <1>1, <1>2, <3>1, <3>2, LendsAreNew
    <3>4. mem' = [r \in DOMAIN mem |-> IF \E part \in {1, 2} : r = Half(f, part)
                                       THEN Unset ELSE mem[r]]
      BY <2>2 DEF Forget
    <3>5. Reach(t, s, n) \subseteq DOMAIN mem
      BY <1>1, ReachFacts
    <3>6. DOMAIN mem' = DOMAIN mem
      BY <3>4
    <3>7. \A r \in DOMAIN mem : (\A part \in {1, 2} : r # Half(f, part)) => mem'[r] = mem[r]
      BY <3>4
    <3> QED
      BY <3>2, <3>3, <3>5, <3>6, <3>7
  <2> QED
    BY <2>1, <2>2
<1>4. /\ stack'[t] \in Seq(FrameType) /\ Len(stack'[t]) = n - 1
      /\ SameBelow(s, stack'[t], n)
      /\ \A u \in Threads \ {t} : stack'[u] = stack[u]
  BY StackReturned
<1> PICK s2, m2 : s2 = stack'[t] /\ m2 = mem'
  OBVIOUS
<1>5. /\ \E g2 : Traced(t, s2, m2, g2)
      /\ n = 1 => Computed(m2, s[1].out, s[1].node)
  <2>1. /\ Traced(t, s, mem, g) /\ s # << >> /\ n = Len(s)
        /\ Finished(s[n], g[n].batches)
        /\ s2 \in Seq(FrameType) /\ Len(s2) = n - 1 /\ SameBelow(s, s2, n)
        /\ Kept(mem, m2, Reach(t, s, n))
    BY <1>1, <1>3, <1>4 DEF Kept
  <2>2. \E g2 : Traced(t, s2, m2, g2)
    BY <1>1, <2>1, PopTraced
  <2>3. n = 1 => Computed(m2, s[1].out, s[1].node)
    BY <1>1, <2>1, PopTraced
  <2> QED
    BY <2>2, <2>3
<1> QED
  BY <1>3, <1>4, <1>5 DEF StepTraced

-----------------------------------------------------------------------------
(* The actions.                                                            *)

LEMMA NextRoundType ==
  ASSUME NEW f \in FrameType, f.rounds # << >>
  PROVE  NextRound(f) \in FrameType
<1> DEFINE S == SUBSET Batches
           rounds == f.rounds
<1>1. Tail(rounds) \in Seq(S)
  <2>1. rounds \in Seq(S) /\ rounds # << >>
    BY DEF FrameType
  <2> HIDE DEF S, rounds
  <2> QED
    BY <2>1
<1> QED
  BY <1>1 DEF NextRound, FrameType

(* Where the top frame of a running thread stands.                         *)
LEMMA TopSteps ==
  ASSUME IInv, NEW t \in Threads, stack[t] # << >>, NEW g, Traced(t, stack[t], mem, g),
         NEW f, f = Top(t)
  PROVE  /\ f.step \in Nat /\ Steps(f.node) \in Nat /\ f.step <= Steps(f.node)
         /\ Node[f.node].kind # "cooleytukey" => f.step < Steps(f.node)
         /\ f.step # 0 => f.hasBuffer
         /\ f.step < Steps(f.node) => NextOp(f.node, f.step) \in Seq(OpType)
<1> PICK n : n = Len(stack[t])
  OBVIOUS
<1>1. f \in FrameType /\ Shape(f, g[n].batches) /\ f.node \in DOMAIN Node
  BY TraceTop
<1>2. Steps(f.node) \in Nat \ {0}
  BY <1>1, DoneFacts
<1>3. /\ f.step \in 0..Steps(f.node)
      /\ f.step = Steps(f.node) => Node[f.node].kind = "cooleytukey"
      /\ f.step # 0 => f.hasBuffer
  BY <1>1 DEF Shape
<1>4. f.step < Steps(f.node) => f.step \in 0..(Steps(f.node) - 1)
  BY <1>2, <1>3
<1>5. f.step < Steps(f.node) => NextOp(f.node, f.step) \in Seq(OpType)
  BY <1>1, <1>4, DoneFacts
<1> QED
  BY <1>2, <1>3, <1>5

LEMMA CalledPushes ==
  ASSUME IInv, NEW t \in Threads, stack[t] # << >>, NEW f \in FrameType, NEW c \in FrameType,
         NEW i \in DOMAIN Node, NEW in \in RegionType, NEW out \in RegionType,
         Head(f.rounds) \in SUBSET Batches, NEW e, e = NewFrame(i, in, out, Head(f.rounds))
  PROVE  /\ Called(t, f, i, in, out) = Pushed(t, f, e)
         /\ [Called(t, f, i, in, out) EXCEPT ![t][Len(stack[t])] = c] = Pushed(t, c, e)
<1>1. e \in FrameType
  BY NewFrameOK
<1>2. Called(t, f, i, in, out) = Pushed(t, f, e)
  BY DEF Called, Pushed
<1>3. [Pushed(t, f, e) EXCEPT ![t][Len(stack[t])] = c] = Pushed(t, c, e)
  <2>1. stack \in [Threads -> Seq(FrameType)] /\ stack[t] \in Seq(FrameType)
    BY DEF IInv, Typed
  <2>2. [(Front(stack[t]) \o << f, e >>) EXCEPT ![Len(stack[t])] = c]
          = Front(stack[t]) \o << c, e >>
    BY <1>1, <2>1, CallReplace
  <2> QED
    BY <2>1, <2>2 DEF Pushed
<1> QED
  BY <1>2, <1>3

(* A kernel reads its input, writes its output, and returns.               *)
LEMMA RunLeafTraced ==
  ASSUME IInv, NEW t \in Threads, NEW g, Traced(t, stack[t], mem, g), RunLeaf(t)
  PROVE  StepTraced(t)
<1> PICK f, n, s, bt : f = Top(t) /\ n = Len(stack[t]) /\ s = stack[t] /\ bt = g[n].batches
  OBVIOUS
<1> PICK c, op : c = NextRound(f) /\ op = Op("kernel", f.node)
  OBVIOUS
<1> PICK s1, s2, m2 : s1 = Append(Front(s), c) /\ s2 = stack'[t] /\ m2 = mem'
  OBVIOUS
<1> PICK bs : bs = Head(f.rounds)
  OBVIOUS
<1>1. /\ s # << >> /\ Node[f.node].kind = "leaf" /\ stack' = Returned(t)
      /\ Apply(f.in, f.out, Head(f.rounds), op)
  BY DEF RunLeaf, Running, NodeOf
<1>2. /\ f = s[n] /\ f \in FrameType /\ FrameOK(f) /\ f.node \in DOMAIN Node
      /\ n \in Nat \ {0} /\ Borrows(t, s) /\ bt \in SUBSET Batches /\ Shape(f, bt)
      /\ f.in \in DOMAIN mem /\ f.out \in DOMAIN mem /\ f.out.owner = t
  BY <1>1, TraceTop
<1>3. f.step = 0 /\ Steps(f.node) = 1 /\ f.rounds # << >> /\ f.rounds = << bt >>
  BY <1>1, <1>2 DEF Shape, Steps, FrameOK
<1>4. /\ Shape(c, bt) /\ SameCall(f, c) /\ Moves(f, c, bt, f.in, f.out, op)
      /\ c.rounds = << >> /\ c \in FrameType /\ op \in Seq(OpType)
  <2>1. Source(f) = f.in /\ NextOp(f.node, f.step) = op
    BY <1>1, <1>3 DEF Source, NextOp
  <2>2. /\ Shape(c, bt) /\ SameCall(f, c) /\ c.rounds = << >>
        /\ Moves(f, c, bt, Source(f), f.out, NextOp(f.node, f.step))
    <3>1. f.step + 1 = Steps(f.node)
      BY <1>3
    <3>2. Shape(c, bt) /\ SameCall(f, c)
      BY <1>2, <1>3, <3>1, RoundMoves
    <3>3. f.rounds = << bt >> => c.rounds = << >>
      BY <1>2, <1>3, <3>1, RoundMoves
    <3>4. Moves(f, c, bt, Source(f), f.out, NextOp(f.node, f.step))
      BY <1>2, <1>3, <3>1, RoundMoves
    <3> QED
      BY <1>3, <3>2, <3>3, <3>4
  <2>3. op \in Seq(OpType)
    BY <1>1, <1>3, <2>1, TopSteps
  <2> QED
    BY <1>2, <1>3, <2>1, <2>2, <2>3, NextRoundType
<1>5. /\ s1 \in Seq(FrameType) /\ Len(s1) = n /\ s1[n] = c /\ SameBelow(s, s1, n)
      /\ s1 # << >> /\ DOMAIN s1 = DOMAIN s
  <2>1. s \in Seq(FrameType)
    BY <1>2 DEF Borrows
  <2>2. /\ s1 \in Seq(FrameType) /\ DOMAIN s1 = DOMAIN s /\ s1[n] = c
        /\ \A k \in 1..(n - 1) : s1[k] = s[k]
    BY <1>1, <1>4, <2>1, ReplaceSeq
  <2>3. Len(s1) = n
    BY <2>1, <2>2
  <2> QED
    BY <1>2, <2>2, <2>3 DEF SameBelow
<1>6. /\ Applied(mem, m2, f.in, f.out, bs, op)
      /\ \A r \in DOMAIN mem : r # f.out => mem'[r] = mem[r]
  BY <1>1, <1>2, ApplyApplied
<1>7. Traced(t, s1, m2, g)
  <2>1. /\ f.out \in DOMAIN mem /\ n = Len(s) /\ s # << >> /\ Traced(t, s, mem, g)
        /\ Shape(c, g[n].batches) /\ Moves(f, c, g[n].batches, f.in, f.out, op)
    BY <1>1, <1>2, <1>4
  <2>2. f.rounds # << >> /\ bs = Head(f.rounds)
    BY <1>3
  <2> QED
    BY ONLY <1>2, <1>4, <1>5, <1>6, <2>1, <2>2, ApplyTraced
<1>8. Borrows(t, s1)
  <2>1. \A k \in DOMAIN s : s1[k].buffer = s[k].buffer /\ s1[k].hasBuffer = s[k].hasBuffer
    <3>1. DOMAIN s = 1..n
      BY <1>2 DEF Borrows
    <3>2. \A k \in 1..n : k = n \/ k \in 1..(n - 1)
      BY <1>2
    <3> QED
      BY <1>2, <1>4, <1>5, <3>1, <3>2 DEF SameBelow, SameCall
  <2>2. \A k \in DOMAIN s1 :
          /\ s1[k].buffer.part = 1 \/ ~s1[k].hasBuffer
          /\ s1[k].hasBuffer => s1[k].buffer.owner = t /\ s1[k].buffer.id \in BufferIds
    BY <1>2, <1>5, <2>1 DEF Borrows
  <2>3. ASSUME NEW k \in DOMAIN s1, NEW l \in DOMAIN s1, k < l, s1[k].hasBuffer, s1[l].hasBuffer
        PROVE  s1[k].buffer.id # s1[l].buffer.id
    BY <1>2, <1>5, <2>1, <2>3 DEF Borrows
  <2> QED
    BY <1>5, <2>2, <2>3 DEF Borrows
<1>9. /\ s2 \in Seq(FrameType) /\ Len(s2) = n - 1 /\ SameBelow(s1, s2, n)
      /\ \A u \in Threads \ {t} : stack'[u] = stack[u]
  <2>1. /\ s2 \in Seq(FrameType) /\ Len(s2) = n - 1 /\ SameBelow(s, s2, n)
        /\ \A u \in Threads \ {t} : stack'[u] = stack[u]
    BY <1>1, StackReturned
  <2> QED
    BY <1>5, <2>1 DEF SameBelow
<1>10. Finished(s1[n], bt)
  BY <1>2, <1>4, <1>5, FinishedFacts
<1>11. Kept(m2, m2, Reach(t, s1, n))
  BY DEF Kept
<1>12. \E g2 : Traced(t, s2, m2, g2)
  BY <1>5, <1>7, <1>8, <1>9, <1>10, <1>11, PopTraced
<1>13. n = 1 => Computed(m2, s1[1].out, s1[1].node)
  BY <1>5, <1>7, <1>8, <1>9, <1>10, <1>11, PopTraced
<1>14. n = 1 => s1[1].out = s[1].out /\ s1[1].node = s[1].node
  BY <1>2, <1>4, <1>5 DEF SameCall
<1>15. \A r \in DOMAIN mem : r.owner # t => r \in DOMAIN mem' /\ mem'[r] = mem[r]
  BY <1>2, <1>6 DEF Applied
<1> QED
  BY <1>9, <1>12, <1>13, <1>14, <1>15 DEF StepTraced

LEMMA RunLoopTraced ==
  ASSUME IInv, NEW t \in Threads, NEW g, Traced(t, stack[t], mem, g), RunLoop(t)
  PROVE  StepTraced(t)
<1> PICK f, n, bt : f = Top(t) /\ n = Len(stack[t]) /\ bt = g[n].batches
  OBVIOUS
<1>1. stack[t] # << >> /\ Node[f.node].kind = "loop" /\ mem' = mem
  BY DEF RunLoop, Running, NodeOf
<1>2. /\ f \in FrameType /\ FrameOK(f) /\ f.node \in DOMAIN Node
      /\ NodeOf(t) = Node[f.node] /\ bt \in SUBSET Batches /\ Shape(f, bt)
      /\ {f.in, f.out} \subseteq Reach(t, stack[t], n + 1)
  BY <1>1, TraceTop
<1>3. CASE f.rounds = << >>
  <2>1. Finished(f, bt)
    BY <1>2, <1>3, FinishedFacts
  <2>2. stack' = Returned(t)
    BY <1>3 DEF RunLoop
  <2> QED
    BY <1>1, <2>1, <2>2, PopStep
<1>4. CASE f.rounds # << >>
  <2> PICK c, i : c = NextRound(f) /\ i = Node[f.node].subs[1]
    OBVIOUS
  <2>1. Steps(f.node) = 1
    BY <1>1, <1>2, NodeAssumption DEF Steps, IsConvolution
  <2>2. f.step = 0
    <3>1. f.step \in Nat /\ f.step < Steps(f.node)
      BY <1>1, TopSteps
    <3> QED
      BY <2>1, <3>1
  <2>3. Source(f) = f.in /\ NextOp(f.node, f.step) = meaning[i]
    BY <1>1, <2>2 DEF Source, NextOp, IsConvolution
  <2>4. /\ Shape(c, bt) /\ SameCall(f, c)
        /\ Moves(f, c, bt, Source(f), f.out, NextOp(f.node, f.step))
    BY <1>2, <1>4, <2>1, <2>2, RoundMoves
  <2>5. c \in FrameType /\ f.in \in RegionType /\ f.out \in RegionType
    BY <1>2, <1>4, NextRoundType DEF FrameType
  <2>6. i \in DOMAIN Node
    BY <1>1, <1>2, NodeFacts
  <2>7. Head(f.rounds) \in SUBSET Batches
    BY <1>1, <1>2, <1>4, NextRoundOK
  <2>8. stack' = Pushed(t, c, NewFrame(i, f.in, f.out, Head(f.rounds)))
    <3>1. stack' = [Called(t, f, i, f.in, f.out) EXCEPT ![t][Len(stack[t])] = c]
      BY <1>2, <1>4 DEF RunLoop
    <3> PICK e : e = NewFrame(i, f.in, f.out, Head(f.rounds))
      OBVIOUS
    <3>2. [Called(t, f, i, f.in, f.out) EXCEPT ![t][Len(stack[t])] = c] = Pushed(t, c, e)
      BY ONLY IInv, t \in Threads, <1>1, <1>2, <2>5, <2>6, <2>7, CalledPushes,
              e = NewFrame(i, f.in, f.out, Head(f.rounds))
    <3> QED
      BY <3>1, <3>2
  <2>9. Moves(f, c, bt, f.in, f.out, meaning[i])
    BY <2>3, <2>4
  <2> QED
    BY <1>1, <1>2, <1>4, <2>4, <2>5, <2>6, <2>8, <2>9, CallStep
<1> QED
  BY <1>3, <1>4

LEMMA RunStageTraced ==
  ASSUME IInv, NEW t \in Threads, NEW g, Traced(t, stack[t], mem, g), RunStage(t)
  PROVE  StepTraced(t)
<1> PICK f, n, bt : f = Top(t) /\ n = Len(stack[t]) /\ bt = g[n].batches
  OBVIOUS
<1> PICK k : k = f.step + 1
  OBVIOUS
<1> PICK c, i : c = [f EXCEPT !.step = k] /\ i = Node[f.node].subs[k]
  OBVIOUS
<1>1. /\ stack[t] # << >> /\ Node[f.node].kind = "cooleytukey" /\ mem' = mem
      /\ f.hasBuffer /\ f.step < 2
  BY DEF RunStage, Running, NodeOf
<1>2. /\ f \in FrameType /\ FrameOK(f) /\ f.node \in DOMAIN Node
      /\ NodeOf(t) = Node[f.node] /\ bt \in SUBSET Batches /\ Shape(f, bt)
      /\ {f.in, f.out, f.buffer} \subseteq Reach(t, stack[t], n + 1)
  BY <1>1, TraceTop
<1>3. /\ f.rounds # << >> /\ Steps(f.node) = 2 /\ f.step \in {0, 1} /\ k \in {1, 2}
  <2>1. f.rounds # << >> /\ Steps(f.node) = 2
    BY <1>1, <1>2, NodeFacts DEF FrameOK, Steps, IsConvolution, Buffered, Stacked
  <2>2. f.step \in Nat
    BY <1>2 DEF FrameType
  <2> QED
    BY <1>1, <2>1, <2>2
<1>4. c \in FrameType /\ c.step = k /\ c.rounds = f.rounds /\ SameCall(f, c)
  <2>1. k \in Nat
    BY <1>3
  <2> QED
    BY <1>2, <2>1 DEF FrameType, SameCall
<1>5. /\ Shape(c, bt)
      /\ Moves(f, c, bt, Source(f), Holding(c), NextOp(f.node, f.step))
  <2>1. c.step = f.step + 1
    BY <1>4
  <2>2. c.step < Steps(f.node) \/ (c.step = Steps(f.node) /\ Node[f.node].kind = "cooleytukey")
    BY <1>1, <1>3, <1>4
  <2>3. Shape(c, bt)
    BY <1>1, <1>2, <1>3, <1>4, <2>1, <2>2, StepMoves
  <2>4. Moves(f, c, bt, Source(f), Holding(c), NextOp(f.node, f.step))
    BY <1>1, <1>2, <1>3, <1>4, <2>1, <2>2, StepMoves
  <2> QED
    BY <2>3, <2>4
<1>6. NextOp(f.node, f.step) = meaning[i]
  BY <1>1 DEF NextOp, IsConvolution
<1>7. /\ Head(f.rounds) \in SUBSET Batches /\ i \in DOMAIN Node
      /\ f.in \in RegionType /\ f.out \in RegionType /\ f.buffer \in RegionType
  <2>1. i \in DOMAIN Node
    BY <1>1, <1>2, <1>3, NodeFacts DEF Buffered, Stacked
  <2>2. Head(f.rounds) \in SUBSET Batches
    BY <1>2, <1>3, RoundFacts DEF Shape
  <2> QED
    BY <1>2, <2>1, <2>2, FrameRegions
<1>8. CASE f.step = 0
  <2>1. Source(f) = f.in /\ Holding(c) = f.buffer /\ k = 1
    BY <1>1, <1>4, <1>8 DEF Source, Holding, SameCall
  <2> PICK e : e = NewFrame(i, f.in, f.buffer, Head(f.rounds))
    OBVIOUS
  <2>2. stack' = Called(t, c, i, f.in, f.buffer)
    BY <1>2, <1>8, <2>1 DEF RunStage
  <2>3. e = NewFrame(i, f.in, f.buffer, Head(c.rounds)) /\ Head(c.rounds) \in SUBSET Batches
    BY <1>4, <1>7
  <2>4. Called(t, c, i, f.in, f.buffer) = Pushed(t, c, e)
    BY ONLY IInv, t \in Threads, <1>1, <1>4, <1>7, <2>3, CalledPushes
  <2>5. stack' = Pushed(t, c, NewFrame(i, f.in, f.buffer, Head(f.rounds)))
    BY <2>2, <2>4
  <2>6. /\ Moves(f, c, g[n].batches, f.in, f.buffer, meaning[i]) /\ Shape(c, g[n].batches)
        /\ {f.in, f.buffer} \subseteq Reach(t, stack[t], n + 1)
    BY <1>2, <1>5, <1>6, <2>1
  <2> QED
    BY ONLY IInv, t \in Threads, Traced(t, stack[t], mem, g), n = Len(stack[t]), f = Top(t),
            <1>1, <1>3, <1>4, <1>7, <2>5, <2>6, CallStep
<1>9. CASE f.step = 1
  <2>1. Source(f) = f.buffer /\ Holding(c) = f.out /\ k = 2
    BY <1>1, <1>4, <1>9 DEF Source, Holding, SameCall
  <2> PICK e : e = NewFrame(i, f.buffer, f.out, Head(f.rounds))
    OBVIOUS
  <2>2. stack' = Called(t, c, i, f.buffer, f.out)
    BY <1>2, <1>9, <2>1 DEF RunStage
  <2>3. e = NewFrame(i, f.buffer, f.out, Head(c.rounds)) /\ Head(c.rounds) \in SUBSET Batches
    BY <1>4, <1>7
  <2>4. Called(t, c, i, f.buffer, f.out) = Pushed(t, c, e)
    BY ONLY IInv, t \in Threads, <1>1, <1>4, <1>7, <2>3, CalledPushes
  <2>5. stack' = Pushed(t, c, NewFrame(i, f.buffer, f.out, Head(f.rounds)))
    BY <2>2, <2>4
  <2>6. /\ Moves(f, c, g[n].batches, f.buffer, f.out, meaning[i]) /\ Shape(c, g[n].batches)
        /\ {f.buffer, f.out} \subseteq Reach(t, stack[t], n + 1)
    BY <1>2, <1>5, <1>6, <2>1
  <2> QED
    BY ONLY IInv, t \in Threads, Traced(t, stack[t], mem, g), n = Len(stack[t]), f = Top(t),
            <1>1, <1>3, <1>4, <1>7, <2>5, <2>6, CallStep
<1> QED
  BY <1>3, <1>8, <1>9

LEMMA RunLevelTraced ==
  ASSUME IInv, NEW t \in Threads, NEW g, Traced(t, stack[t], mem, g), RunLevel(t)
  PROVE  StepTraced(t)
<1> PICK f, n, bt : f = Top(t) /\ n = Len(stack[t]) /\ bt = g[n].batches
  OBVIOUS
<1> PICK k, N : k = f.step + 1 /\ N = Len(Node[f.node].subs)
  OBVIOUS
<1> PICK i, from, to, c :
      /\ i = Node[f.node].subs[k]
      /\ from = IF f.step = 0 THEN f.in ELSE Half(f, 3 - f.half)
      /\ to   = IF f.step = N - 1 THEN f.out ELSE Half(f, f.half)
      /\ c    = IF f.step = N - 1 THEN NextRound(f)
                ELSE [f EXCEPT !.step = @ + 1, !.half = 3 - @]
  OBVIOUS
<1>1. /\ stack[t] # << >> /\ Node[f.node].kind = "composition" /\ mem' = mem
      /\ f.hasBuffer /\ f.rounds # << >>
  BY DEF RunLevel, Running, NodeOf
<1>2. /\ f \in FrameType /\ FrameOK(f) /\ f.node \in DOMAIN Node
      /\ NodeOf(t) = Node[f.node] /\ bt \in SUBSET Batches /\ Shape(f, bt)
      /\ {f.in, f.out, Half(f, 1), Half(f, 2)} \subseteq Reach(t, stack[t], n + 1)
  BY <1>1, TraceTop
<1>3. /\ f.step \in Nat /\ N \in Nat /\ Steps(f.node) = N /\ f.step < N
      /\ k \in 1..N /\ f.half \in {1, 2}
  <2>1. Steps(f.node) = N
    BY <1>1 DEF Steps, IsConvolution
  <2>2. f.step \in Nat /\ N \in Nat /\ f.step < N /\ f.half \in {1, 2}
    BY <1>1, <1>2, NodeFacts DEF FrameOK, FrameType
  <2> QED
    BY <2>1, <2>2
<1>4. /\ from \in RegionType /\ to \in RegionType
      /\ {from, to} \subseteq Reach(t, stack[t], n + 1) /\ from = Source(f)
  <2>1. 3 - f.half \in {1, 2}
    BY <1>3
  <2>2. Source(f) = from
    BY <1>1 DEF Source, Holding
  <2> QED
    BY <1>2, <1>3, <2>1, <2>2, FrameRegions
<1>5. NextOp(f.node, f.step) = meaning[i] /\ i \in DOMAIN Node
  BY <1>1, <1>2, <1>3, NodeFacts DEF NextOp, IsConvolution
<1>6. Head(f.rounds) \in SUBSET Batches
  BY <1>1, <1>2, RoundFacts DEF Shape
<1>7. c \in FrameType /\ SameCall(f, c) /\ Shape(c, bt) /\ Moves(f, c, bt, from, to, meaning[i])
  <2>1. CASE f.step = N - 1
    <3>1. f.step + 1 = Steps(f.node)
      BY <1>3, <2>1
    <3>2. Shape(NextRound(f), bt) /\ SameCall(f, NextRound(f))
      BY <1>1, <1>2, <3>1, RoundMoves
    <3>3. Moves(f, NextRound(f), bt, Source(f), f.out, NextOp(f.node, f.step))
      BY <1>1, <1>2, <3>1, RoundMoves
    <3>4. NextRound(f) \in FrameType
      BY <1>1, <1>2, NextRoundType
    <3> QED
      BY <1>4, <1>5, <2>1, <3>2, <3>3, <3>4
  <2>2. CASE f.step # N - 1
    <3> PICK h : h = 3 - f.half
      OBVIOUS
    <3>1. c = [f EXCEPT !.step = k, !.half = h] /\ h \in {1, 2} /\ 3 - h = f.half /\ k \in Nat
      BY <1>3, <2>2
    <3>2. c \in FrameType
      BY <1>2, <3>1 DEF FrameType
    <3>3. SameCall(f, c) /\ c.step = f.step + 1 /\ c.rounds = f.rounds /\ c.half = h
      BY <1>2, <3>1 DEF FrameType, SameCall
    <3>4. c.step < Steps(f.node)
      BY <1>3, <2>2, <3>3
    <3>5. Shape(c, bt)
      BY <1>1, <1>2, <3>2, <3>3, <3>4, StepMoves
    <3>6. Moves(f, c, bt, Source(f), Holding(c), NextOp(f.node, f.step))
      BY <1>1, <1>2, <3>2, <3>3, <3>4, StepMoves
    <3>7. Holding(c) = to
      BY <1>1, <2>2, <3>1, <3>3 DEF Holding, SameCall, Half
    <3> QED
      BY <1>4, <1>5, <3>2, <3>3, <3>5, <3>6, <3>7
  <2> QED
    BY <2>1, <2>2
<1> PICK e : e = NewFrame(i, from, to, Head(f.rounds))
  OBVIOUS
<1>8. stack' = [Called(t, f, i, from, to) EXCEPT ![t][Len(stack[t])] = c]
  BY <1>2 DEF RunLevel
<1>9. [Called(t, f, i, from, to) EXCEPT ![t][Len(stack[t])] = c] = Pushed(t, c, e)
  BY ONLY IInv, t \in Threads, <1>1, <1>2, <1>4, <1>5, <1>6, <1>7, CalledPushes,
          e = NewFrame(i, from, to, Head(f.rounds))
<1>10. stack' = Pushed(t, c, NewFrame(i, from, to, Head(f.rounds)))
  BY <1>8, <1>9
<1> QED
  BY <1>1, <1>4, <1>5, <1>7, <1>10, CallStep

LEMMA ReleaseTraced ==
  ASSUME IInv, NEW t \in Threads, NEW g, Traced(t, stack[t], mem, g), Release(t)
  PROVE  StepTraced(t)
<1> PICK f, n, bt : f = Top(t) /\ n = Len(stack[t]) /\ bt = g[n].batches
  OBVIOUS
<1>1. /\ stack[t] # << >> /\ f.hasBuffer /\ stack' = Returned(t) /\ Forget(t)
      /\ \/ f.rounds = << >>
         \/ Node[f.node].kind = "cooleytukey" /\ f.step = 2
  BY DEF Release, Running, NodeOf
<1>2. f \in FrameType /\ bt \in SUBSET Batches /\ Shape(f, bt)
  BY <1>1, TraceTop
<1>3. Finished(f, bt)
  BY <1>1, <1>2, FinishedFacts
<1> QED
  BY <1>1, <1>3, PopStep

LEMMA FinishConvolutionTraced ==
  ASSUME IInv, NEW t \in Threads, NEW g, Traced(t, stack[t], mem, g), FinishConvolution(t)
  PROVE  StepTraced(t)
<1> PICK f, n, bt : f = Top(t) /\ n = Len(stack[t]) /\ bt = g[n].batches
  OBVIOUS
<1>1. /\ stack[t] # << >> /\ f.rounds = << >> /\ stack' = Returned(t) /\ Forget(t)
      /\ IsConvolution(Node[f.node])
  BY DEF FinishConvolution, Running, NodeOf, IsConvolution
<1>2. f \in FrameType /\ bt \in SUBSET Batches /\ Shape(f, bt)
  BY <1>1, TraceTop
<1>3. f.hasBuffer
  BY <1>1, <1>2 DEF Shape
<1>4. Finished(f, bt)
  BY <1>1, <1>2, FinishedFacts
<1> QED
  BY <1>1, <1>3, <1>4, PopStep

(* A step of a convolution before the last of its round.                   *)
LEMMA ConvolveMoves ==
  ASSUME NEW f \in FrameType, IsConvolution(Node[f.node]), f.hasBuffer, f.rounds # << >>,
         NEW bt \in SUBSET Batches, Shape(f, bt), f.step < 4,
         NEW c, c = [f EXCEPT !.step = @ + 1]
  PROVE  /\ c \in FrameType /\ SameCall(f, c) /\ Shape(c, bt)
         /\ Moves(f, c, bt, Source(f), f.buffer, NextOp(f.node, f.step))
<1>1. f.step \in Nat /\ f.step + 1 \in Nat
  BY DEF FrameType
<1>2. c \in FrameType /\ c.step = f.step + 1 /\ c.rounds = f.rounds /\ SameCall(f, c)
  BY <1>1 DEF FrameType, SameCall
<1>3. Steps(f.node) = 5
  BY DEF Steps, IsConvolution
<1>4. c.step < Steps(f.node)
  BY <1>1, <1>2, <1>3
<1>5. Shape(c, bt)
  BY <1>2, <1>4, StepMoves
<1>6. Moves(f, c, bt, Source(f), Holding(c), NextOp(f.node, f.step))
  BY <1>2, <1>4, StepMoves
<1>7. Holding(c) = f.buffer
  BY <1>2 DEF Holding, IsConvolution, SameCall
<1> QED
  BY <1>2, <1>5, <1>6, <1>7

LEMMA ConvolveTraced ==
  ASSUME IInv, NEW t \in Threads, NEW g, Traced(t, stack[t], mem, g), Convolve(t)
  PROVE  StepTraced(t)
<1> PICK f, n, bt : f = Top(t) /\ n = Len(stack[t]) /\ bt = g[n].batches
  OBVIOUS
<1> PICK next, last : next = [f EXCEPT !.step = @ + 1] /\ last = NextRound(f)
  OBVIOUS
<1>1. /\ stack[t] # << >> /\ IsConvolution(Node[f.node]) /\ f.hasBuffer /\ f.rounds # << >>
  BY DEF Convolve, Running, NodeOf, IsConvolution
<1>2. /\ f \in FrameType /\ f.node \in DOMAIN Node
      /\ NodeOf(t) = Node[f.node] /\ bt \in SUBSET Batches /\ Shape(f, bt)
      /\ {f.in, f.out, f.buffer} \subseteq Reach(t, stack[t], n + 1)
      /\ f.buffer \in RegionType /\ Head(f.rounds) \in SUBSET Batches
  <2>1. Head(f.rounds) \in SUBSET Batches
    BY <1>1, TraceTop, RoundFacts
  <2> QED
    BY <1>1, <2>1, TraceTop, FrameRegions
<1>3. /\ Node[f.node].kind # "leaf" /\ IsConvolution(Node[f.node])
      /\ Steps(f.node) = 5 /\ f.step \in Nat /\ f.step < 5
  <2>1. Node[f.node].kind \notin {"leaf", "cooleytukey"} /\ Steps(f.node) = 5
    BY <1>1 DEF IsConvolution, Steps
  <2> QED
    BY <1>1, <2>1, TopSteps
<1>4. NextOp(f.node, f.step) \in Seq(OpType)
  BY <1>1, <1>3, TopSteps
<1>5. f.step < 4 =>
        /\ next \in FrameType /\ SameCall(f, next) /\ Shape(next, bt)
        /\ Moves(f, next, bt, Source(f), f.buffer, NextOp(f.node, f.step))
  BY <1>1, <1>2, ConvolveMoves
<1>6. f.step # 0 => Source(f) = f.buffer
  BY <1>1 DEF Source, Holding, IsConvolution
<1>7. CASE f.step = 0 \/ f.step = 2
  <2>1. /\ stack' = Become(t, next)
        /\ Apply(Source(f), f.buffer, Head(f.rounds), NextOp(f.node, f.step))
    <3>1. CASE f.step = 0
      <4>1. Source(f) = f.in /\ NextOp(f.node, f.step) = Op("pack", f.node)
        BY <1>3, <3>1 DEF Source, NextOp
      <4> QED
        BY <3>1, <4>1 DEF Convolve
    <3>2. CASE f.step = 2
      <4>1. NextOp(f.node, f.step) = Op("multiply", f.node)
        BY <1>3, <3>2 DEF NextOp
      <4> QED
        BY <1>6, <3>2, <4>1 DEF Convolve
    <3> QED
      BY <1>7, <3>1, <3>2
  <2>2. {Source(f), f.buffer} \subseteq Reach(t, stack[t], n + 1)
    BY <1>1, <1>2, TraceTop
  <2>3. /\ next \in FrameType /\ SameCall(f, next) /\ Shape(next, bt)
        /\ Moves(f, next, bt, Source(f), f.buffer, NextOp(f.node, f.step))
    BY <1>5, <1>7
  <2> QED
    BY <1>1, <1>4, <2>1, <2>2, <2>3, ApplyStep
<1>8. CASE f.step = 1 \/ f.step = 3
  <2> PICK i : i = Node[f.node].subs[IF f.step = 1 THEN 1 ELSE 2]
    OBVIOUS
  <2>1. NextOp(f.node, f.step) = meaning[i]
    BY <1>3, <1>8 DEF NextOp
  <2>2. stack' = Called(t, next, i, f.buffer, f.buffer) /\ mem' = mem
    BY <1>2, <1>8 DEF Convolve
  <2>3. i \in DOMAIN Node
    BY <1>1, <1>2, NodeFacts DEF IsConvolution, Buffered
  <2>4. /\ next \in FrameType /\ SameCall(f, next) /\ Shape(next, bt)
        /\ Moves(f, next, bt, f.buffer, f.buffer, meaning[i])
    BY <1>5, <1>6, <1>8, <2>1
  <2> PICK e : e = NewFrame(i, f.buffer, f.buffer, Head(f.rounds))
    OBVIOUS
  <2>5. next.rounds = f.rounds
    BY <1>2 DEF FrameType
  <2>6. e = NewFrame(i, f.buffer, f.buffer, Head(next.rounds))
        /\ Head(next.rounds) \in SUBSET Batches
    BY <1>2, <2>5
  <2>7. Called(t, next, i, f.buffer, f.buffer) = Pushed(t, next, e)
    BY ONLY IInv, t \in Threads, <1>1, <1>2, <2>3, <2>4, <2>6, CalledPushes
  <2>8. stack' = Pushed(t, next, NewFrame(i, f.buffer, f.buffer, Head(f.rounds)))
    BY <2>2, <2>7
  <2>9. {f.buffer, f.buffer} \subseteq Reach(t, stack[t], n + 1)
    BY <1>2
  <2> QED
    BY <1>1, <1>2, <2>2, <2>3, <2>4, <2>8, <2>9, CallStep
<1>9. CASE f.step = 4
  <2>1. Source(f) = f.buffer /\ NextOp(f.node, f.step) = Op("unpack", f.node)
    BY <1>3, <1>6, <1>9 DEF NextOp
  <2>2. stack' = Become(t, last) /\ Apply(f.buffer, f.out, Head(f.rounds), NextOp(f.node, f.step))
    BY <1>9, <2>1 DEF Convolve
  <2>3. last \in FrameType
    BY <1>1, <1>2, NextRoundType
  <2>4. f.step + 1 = Steps(f.node)
    BY <1>3, <1>9
  <2>5. Shape(last, bt) /\ SameCall(f, last)
    BY <1>1, <1>2, <2>4, RoundMoves
  <2>6. Moves(f, last, bt, Source(f), f.out, NextOp(f.node, f.step))
    BY <1>1, <1>2, <2>4, RoundMoves
  <2>7. Moves(f, last, bt, f.buffer, f.out, NextOp(f.node, f.step))
    BY <2>1, <2>6
  <2>8. {f.buffer, f.out} \subseteq Reach(t, stack[t], n + 1)
    BY <1>2
  <2> QED
    BY <1>1, <1>4, <2>2, <2>3, <2>5, <2>7, <2>8, ApplyStep
<1> QED
  BY <1>3, <1>7, <1>8, <1>9

(* A frame that gets its buffer is not begun, and the block that is new,   *)
(* or replaced, was in nobody's reach.                                     *)
LEMMA BeginTraced ==
  ASSUME IInv, NEW t \in Threads, NEW g, Traced(t, stack[t], mem, g), Begin(t)
  PROVE  StepTraced(t)
<1> PICK f, n, s, bt : f = Top(t) /\ n = Len(stack[t]) /\ s = stack[t] /\ bt = g[n].batches
  OBVIOUS
<1> PICK id, size :
      id = BufferIdFor(t, NodeOf(t)) /\ size = BlockSize(pool[t][id], NodeOf(t).size)
  OBVIOUS
<1> PICK old, new : old = (IF size = pool[t][id] THEN {} ELSE Parts(t, id, pool[t][id]))
                    /\ new = Parts(t, id, size)
  OBVIOUS
<1> PICK c : c = [f EXCEPT !.buffer = Region(t, id, size, 1), !.hasBuffer = TRUE]
  OBVIOUS
<1>1. /\ s # << >> /\ NodeOf(t).kind \in Buffered /\ ~f.hasBuffer
      /\ mem' = [r \in (DOMAIN mem \ old) \cup new |->
                   IF r \in DOMAIN mem THEN mem[r] ELSE Unset]
      /\ stack' = Become(t, c)
  BY DEF Begin, Running, OwnerOf
<1>2. /\ f = s[n] /\ f \in FrameType /\ FrameOK(f) /\ f.node \in DOMAIN Node
      /\ NodeOf(t) = Node[f.node] /\ n \in Nat \ {0} /\ Borrows(t, s)
      /\ bt \in SUBSET Batches /\ Shape(f, bt) /\ {f.in, f.out} \subseteq Reach(t, s, n)
      /\ Reach(t, s, n + 1) \subseteq DOMAIN mem
  BY <1>1, TraceTop
<1>3. /\ s \in Seq(FrameType) /\ DOMAIN s = 1..n /\ n \in 1..Len(s) /\ n \in DOMAIN s
  <2>1. s \in Seq(FrameType)
    BY <1>2 DEF Borrows
  <2> QED
    BY ONLY <1>2, <2>1, s = stack[t], n = Len(stack[t])
<1>4. /\ id \in BufferIds
      /\ \A k \in 1..(n - 1) : s[k].hasBuffer => s[k].buffer.id # id
  <2>1. /\ id = <<NodeOf(t).kind, id[2]>> /\ id \in BufferIds
        /\ \A k \in DOMAIN s : s[k].hasBuffer /\ KindAt(t, k) = NodeOf(t).kind =>
             DepthAt(t, k) # id[2]
    BY <1>1, NextBufferIsFree
  <2>2. ASSUME NEW k \in 1..(n - 1), s[k].hasBuffer
        PROVE  s[k].buffer.id # id
    <3>1. k \in DOMAIN s
      BY ONLY <1>2, <1>3, k \in 1..(n - 1)
    <3>2. s[k].buffer.id = <<KindAt(t, k), DepthAt(t, k)>>
      <4>1. BufferOK(t, k)
        BY <3>1 DEF IInv, ThreadOK
      <4> QED
        BY <2>2, <4>1 DEF BufferOK, Region
    <3> QED
      BY <2>1, <2>2, <3>1, <3>2
  <2> QED
    BY <2>1, <2>2
<1>5. \A r \in old \cup new : r.id = id /\ r.owner = t
  BY DEF Parts, Region
<1>6. \A r \in Reach(t, s, n) : r \notin old \cup new
  BY ONLY <1>2, <1>3, <1>4, <1>5, LendsAreNew
<1>7. /\ DOMAIN mem' = (DOMAIN mem \ old) \cup new
      /\ \A r \in DOMAIN mem : r \notin old \cup new => r \in DOMAIN mem' /\ mem'[r] = mem[r]
  BY <1>1
<1>8. \A r \in Reach(t, s, n) : r \in DOMAIN mem' /\ mem'[r] = mem[r]
  <2>1. Reach(t, s, n + 1) = Reach(t, s, n) \cup Lends(s[n])
    BY ONLY <1>2, ReachFacts
  <2> QED
    BY <1>2, <1>6, <1>7, <2>1
<1>9. /\ c.node = f.node /\ c.in = f.in /\ c.out = f.out /\ c.rounds = f.rounds
      /\ c.step = f.step /\ c.hasBuffer /\ c.buffer = Region(t, id, size, 1)
      /\ c \in FrameType
  <2>1. Region(t, id, size, 1) \in RegionType
    <3>1. size \in Nat
      <4>1. pool[t][id] \in Nat
        BY <1>4 DEF IInv, Typed
      <4> QED
        BY <1>2, <4>1, NodeFacts DEF BlockSize
    <3> QED
      BY <1>4, <3>1 DEF RegionType, RegionIds, Region
  <2> PICK b : b = Region(t, id, size, 1)
    OBVIOUS
  <2> QED
    BY <1>2, <2>1 DEF FrameType
<1>10. f.step = 0
  BY <1>1, <1>2 DEF Shape
<1>11. Shape(c, bt)
  BY <1>2, <1>9, <1>10 DEF Shape
<1>12. \A b : Place(c, b) = Place(f, b) /\ SoFar(c, b) = SoFar(f, b) /\ Place(f, b) \in {f.in, f.out}
  BY <1>9, <1>10 DEF Place, SoFar, Begun
<1>13. /\ stack'[t] \in Seq(FrameType) /\ Len(stack'[t]) = n /\ stack'[t][n] = c
       /\ SameBelow(s, stack'[t], n)
       /\ \A u \in Threads \ {t} : stack'[u] = stack[u]
  BY <1>1, <1>9, StackBecome
<1> PICK s2, m2 : s2 = stack'[t] /\ m2 = mem'
  OBVIOUS
<1>14. Settled(c, g[n], m2, {})
  <2> SUFFICES ASSUME NEW b \in g[n].batches
               PROVE  m2[Place(c, b)][b] = Value(c, g[n], b)
    BY DEF Settled
  <2>1. AtTop(t, s, mem, g, n)
    BY <1>1, <1>2, TracedFacts
  <2>2. mem[Place(f, b)][b] = Value(f, g[n], b)
    BY <1>2, <2>1 DEF AtTop, Settled
  <2>3. m2[Place(f, b)] = mem[Place(f, b)]
    BY <1>2, <1>8, <1>12
  <2> QED
    BY <1>12, <2>2, <2>3 DEF Value
<1>15. Untouched(mem, m2, Reach(t, s, n), bt)
  BY <1>8 DEF Untouched
<1>16. Reach(t, s2, n + 1) \subseteq DOMAIN m2
  <2>1. Reach(t, s2, n) = Reach(t, s, n)
    BY <1>13, ReachSame DEF SameBelow
  <2>2. Reach(t, s2, n + 1) = Reach(t, s2, n) \cup Lends(s2[n])
    BY <1>2, ReachFacts
  <2>3. Lends(c) \subseteq new
    BY <1>9 DEF Lends, Half, Parts, Region
  <2> QED
    BY <1>7, <1>8, <1>13, <2>1, <2>2, <2>3
<1>17. Traced(t, s2, m2, g)
  <2>1. /\ Traced(t, s, mem, g) /\ n = Len(s) /\ c.node = s[n].node /\ c.in = s[n].in
        /\ c.out = s[n].out /\ Shape(c, g[n].batches)
        /\ Untouched(mem, m2, Reach(t, s, n), g[n].batches)
        /\ s2 \in Seq(FrameType) /\ Len(s2) = n /\ s2[n] = c /\ SameBelow(s, s2, n)
    BY <1>2, <1>9, <1>11, <1>13, <1>15
  <2> QED
    BY ONLY <1>1, <1>2, <1>9, <1>14, <1>16, <2>1, TopTraced
<1>18. stack'[t] # << >>
  BY <1>2, <1>13
<1>19. \A r \in DOMAIN mem : r.owner # t => r \in DOMAIN mem' /\ mem'[r] = mem[r]
  BY <1>5, <1>7
<1> QED
  BY <1>13, <1>17, <1>18, <1>19 DEF StepTraced

(* A call from the application finds an idle thread.                       *)
LEMMA ExecuteTraced ==
  ASSUME IInv, NEW t \in Threads, NEW root \in PlansOf[t], NEW inplace \in BOOLEAN,
         Execute(t, root, inplace)
  PROVE  StepTraced(t)
<1> PICK in, out, dest :
      /\ in = UserArray(t, "in") /\ out = UserArray(t, "out")
      /\ dest = IF inplace THEN in ELSE out
  OBVIOUS
<1> PICK e : e = NewFrame(root, in, dest, Batches)
  OBVIOUS
<1>1. /\ stack[t] = << >> /\ stack' = [stack EXCEPT ![t] = << e >>]
      /\ mem' = [r \in DOMAIN mem \cup {in, out} |->
                   IF r = in THEN Same(<< >>) ELSE IF r = out THEN Unset ELSE mem[r]]
  BY DEF Execute
<1>2. /\ root \in DOMAIN Node /\ in.owner = t /\ out.owner = t
      /\ in \in RegionType /\ out \in RegionType
  <2>1. root \in DOMAIN Node
    BY NodeAssumption
  <2>2. in \in RegionType /\ out \in RegionType
    BY DEF UserArray, Region, RegionType, RegionIds
  <2> QED
    BY <2>1, <2>2 DEF UserArray, Region
<1>3. /\ Shape(e, Batches) /\ e.node = root /\ e.in = in /\ e.out = dest /\ ~e.hasBuffer
      /\ \A b \in Batches : Place(e, b) = in /\ SoFar(e, b) = << >>
  BY <1>2, NewFrameShape
<1>4. /\ DOMAIN mem' = DOMAIN mem \cup {in, out} /\ mem'[in] = Same(<< >>)
      /\ \A r \in DOMAIN mem : r.owner # t => mem'[r] = mem[r]
  BY <1>1, <1>2
<1> PICK s2, m2, g2 : s2 = stack'[t] /\ m2 = mem' /\ g2 = << WholeCall >>
  OBVIOUS
<1>5. s2 = << e >> /\ \A u \in Threads \ {t} : stack'[u] = stack[u]
  <2>1. stack \in [Threads -> Seq(FrameType)]
    BY DEF IInv, Typed
  <2> QED
    BY <1>1, <2>1
<1>6. Len(s2) = 1 /\ s2[1] = e /\ s2 # << >>
  BY <1>5
<1>7. g2 \in Seq(GhostType) /\ Len(g2) = 1 /\ g2[1] = WholeCall
  <2>1. WholeCall \in GhostType
    BY UnsetType DEF WholeCall, GhostType
  <2> QED
    BY <2>1
<1>8. Lower(t, s2, m2, g2, 1)
  BY DEF Lower
<1>9. Settled(e, WholeCall, m2, {})
  <2> SUFFICES ASSUME NEW b \in Batches PROVE m2[Place(e, b)][b] = Value(e, WholeCall, b)
    BY DEF Settled, WholeCall
  <2>1. m2[Place(e, b)][b] = << >>
    BY <1>3, <1>4 DEF Same
  <2>2. WholeCall.start[b] = << >> /\ SoFar(e, b) = << >>
    BY <1>3 DEF WholeCall, Same
  <2>3. << >> \o << >> = << >>
    BY ConcatEmptySeq
  <2> QED
    BY ONLY <2>1, <2>2, <2>3 DEF Value
<1>10. Reach(t, s2, 1) = {in, out} /\ Reach(t, s2, 2) = {in, out}
  <2>1. Reach(t, s2, 1) = {in, out}
    BY DEF Reach
  <2>2. Reach(t, s2, 1 + 1) = Reach(t, s2, 1) \cup Lends(s2[1])
    BY ReachFacts
  <2>3. Lends(s2[1]) = {}
    BY <1>3, <1>6 DEF Lends
  <2> QED
    BY <2>1, <2>2, <2>3
<1>11. AtTop(t, s2, m2, g2, 1)
  <2>1. g2[1].batches = Batches
    BY <1>7 DEF WholeCall
  <2> QED
    BY <1>3, <1>4, <1>6, <1>7, <1>9, <1>10, <2>1 DEF AtTop
<1>12. Traced(t, s2, m2, g2)
  BY <1>6, <1>7, <1>8, <1>11 DEF Traced
<1>13. \A r \in DOMAIN mem : r.owner # t => r \in DOMAIN mem' /\ mem'[r] = mem[r]
  BY <1>4
<1> QED
  BY <1>5, <1>6, <1>12, <1>13 DEF StepTraced

TInv == \A t \in Threads : \E g : Traced(t, stack[t], mem, g)

(* Calls that return: for each thread, nothing or the whole of its plan.   *)
ReturnsItsPlan ==
  \A t \in Threads :
    Len(stack[t]) = 1 /\ stack'[t] = << >>
      => mem'[stack[t][1].out] = Same(meaning[stack[t][1].node])

LEMMA NextTraced ==
  ASSUME IInv, TInv, Next
  PROVE  \E t \in Threads : StepTraced(t)
<1>1. PICK t \in Threads :
        \/ \E root \in PlansOf[t], inplace \in BOOLEAN : Execute(t, root, inplace)
        \/ Begin(t) \/ RunLeaf(t) \/ RunLoop(t) \/ RunStage(t) \/ RunLevel(t)
        \/ Release(t) \/ Convolve(t) \/ FinishConvolution(t)
  BY DEF Next
<1>2. PICK g : Traced(t, stack[t], mem, g)
  BY DEF TInv
<1>3. CASE \E root \in PlansOf[t], inplace \in BOOLEAN : Execute(t, root, inplace)
  BY <1>3, ExecuteTraced
<1>4. CASE Begin(t)
  BY <1>2, <1>4, BeginTraced
<1>5. CASE RunLeaf(t)
  BY <1>2, <1>5, RunLeafTraced
<1>6. CASE RunLoop(t)
  BY <1>2, <1>6, RunLoopTraced
<1>7. CASE RunStage(t)
  BY <1>2, <1>7, RunStageTraced
<1>8. CASE RunLevel(t)
  BY <1>2, <1>8, RunLevelTraced
<1>9. CASE Release(t)
  BY <1>2, <1>9, ReleaseTraced
<1>10. CASE Convolve(t)
  BY <1>2, <1>10, ConvolveTraced
<1>11. CASE FinishConvolution(t)
  BY <1>2, <1>11, FinishConvolutionTraced
<1> QED
  BY <1>1, <1>3, <1>4, <1>5, <1>6, <1>7, <1>8, <1>9, <1>10, <1>11

LEMMA TraceStep ==
  ASSUME IInv, IInv', TInv, [Next]_vars
  PROVE  TInv' /\ [ReturnsItsPlan]_vars
<1>1. CASE UNCHANGED vars
  BY <1>1 DEF TInv, vars
<1>2. CASE Next
  <2>1. PICK t \in Threads : StepTraced(t)
    BY <1>2, NextTraced
  <2>2. ASSUME NEW u \in Threads PROVE \E g : Traced(u, stack'[u], mem', g)
    <3>1. CASE u = t
      BY <2>1, <3>1 DEF StepTraced
    <3>2. CASE u # t
      <4> PICK s, m2 : s = stack[u] /\ m2 = mem'
        OBVIOUS
      <4>1. PICK g : Traced(u, s, mem, g)
        BY DEF TInv
      <4>2. Borrows(u, s)
        BY BorrowsFollow
      <4>3. s = stack'[u] /\ \A r \in DOMAIN mem : r.owner = u => r \in DOMAIN m2 /\ m2[r] = mem[r]
        BY <2>1, <3>2 DEF StepTraced
      <4>4. Traced(u, s, m2, g)
        BY <4>1, <4>2, <4>3, OtherTraced
      <4> QED
        BY <4>3, <4>4
    <3> QED
      BY <3>1, <3>2
  <2>3. ASSUME NEW u \in Threads, Len(stack[u]) = 1, stack'[u] = << >>
        PROVE  mem'[stack[u][1].out] = Same(meaning[stack[u][1].node])
    <3>1. u = t
      BY <2>1, <2>3 DEF StepTraced
    <3> PICK out, i : out = stack[u][1].out /\ i = stack[u][1].node
      OBVIOUS
    <3>2. out \in DOMAIN mem' /\ \A b \in Batches : mem'[out][b] = meaning[i]
      BY <2>1, <2>3, <3>1 DEF StepTraced, Computed
    <3>3. mem'[out] \in ValueType
      BY <3>2 DEF IInv, Typed
    <3> QED
      BY <3>2, <3>3 DEF Same, ValueType
  <2>4. TInv'
    BY <2>2 DEF TInv
  <2> QED
    BY <2>3, <2>4 DEF ReturnsItsPlan
<1> QED
  BY <1>1, <1>2

LEMMA InitTraced == Init => TInv
<1> SUFFICES ASSUME Init, NEW t \in Threads PROVE \E g : Traced(t, stack[t], mem, g)
  BY DEF TInv
<1>1. stack[t] = << >>
  BY DEF Init
<1>2. << >> \in Seq(GhostType) /\ Len(<< >>) = 0
  OBVIOUS
<1>3. Traced(t, << >>, mem, << >>)
  BY <1>2 DEF Traced
<1> QED
  BY <1>1, <1>3

(* An execution that returns leaves in its output, for every batch, the    *)
(* operations the tree of its plan stands for, in their order: no plan of  *)
(* its own tree, of an earlier call or of another thread has overwritten   *)
(* what it still had to read.                                              *)
THEOREM ExecutionsCompute == Spec => ExecutionComputesItsPlan
<1>1. IInv /\ IInv' /\ TInv /\ [Next]_vars => TInv' /\ [ReturnsItsPlan]_vars
  BY TraceStep
<1>2. Spec => [][ReturnsItsPlan]_vars
  BY <1>1, InitTraced, Invariance, PTL DEF Spec
<1> QED
  BY <1>2 DEF ExecutionComputesItsPlan, ReturnsItsPlan

=============================================================================
