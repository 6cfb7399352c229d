---------------------------- MODULE PlanTablesProofs ----------------------------
(***************************************************************************)
(* Proofs about PlanTables for any threads, plans and tables: a thread     *)
(* holds one table per key and shares none, and, when no thread that plans *)
(* exits, an execution on any thread reads the tables of its plan.         *)
(***************************************************************************)
EXTENDS PlanTables, InductionLemmas

-----------------------------------------------------------------------------
(* The inductive invariant.                                                *)

Entry == [key : Keys, table : 1..NumTables]
CacheType == [entries : Seq(Entry), capacity : Nat]
CreationType == [handle : Handles \cup {None}, shape : Seq(Keys), tables : Seq(1..NumTables)]
PlanType == [shape : Seq(Keys), tables : Seq(1..NumTables)]

Typed ==
  /\ alive \subseteq Threads
  /\ cache \in [Threads -> CacheType]
  /\ heap = [b \in DOMAIN heap |-> heap[b]]
  /\ DOMAIN heap \subseteq 1..NumTables /\ \A b \in DOMAIN heap : heap[b] \in Keys
  /\ creating \in [Threads -> CreationType]
  /\ plan \in [Handles -> PlanType]
  /\ executing \in [Threads -> Handles \cup {None}]

(* What a thread has cached is allocated, and holds what the key says.     *)
CacheOK(t) ==
  /\ Len(cache[t].entries) <= cache[t].capacity
  /\ \A i \in DOMAIN cache[t].entries :
       /\ cache[t].entries[i].table \in DOMAIN heap
       /\ heap[cache[t].entries[i].table] = cache[t].entries[i].key

LengthsOK ==
  /\ \A t \in Threads : Len(creating[t].tables) <= Len(creating[t].shape)
  /\ \A p \in Handles : Len(plan[p].tables) = Len(plan[p].shape)

IInv == Typed /\ LengthsOK /\ OneTablePerKey /\ \A t \in Threads : CacheOK(t)

(* Pointers and the keys they were looked up for.                          *)
PointersOK(shape, tables) ==
  \A i \in DOMAIN tables : tables[i] \in DOMAIN heap /\ heap[tables[i]] = shape[i]

(* A thread that does not plan caches nothing: when no thread that plans   *)
(* exits, no table is ever freed.                                          *)
PlannersStay == MayExit \cap Planners = {}

Plain(t) == t \notin Planners => creating[t].handle = None /\ cache[t].entries = << >>

PInv ==
  /\ \A t \in Threads : Plain(t) /\ PointersOK(creating[t].shape, creating[t].tables)
  /\ \A p \in Handles : PointersOK(plan[p].shape, plan[p].tables)

-----------------------------------------------------------------------------
(* Looking up and adding entries.                                          *)

(* A hit is an entry of the key.                                           *)
LEMMA HitFound ==
  ASSUME NEW c \in CacheType, NEW key, Hits(c, key) # {}
  PROVE  /\ Min(Hits(c, key)) \in DOMAIN c.entries
         /\ c.entries[Min(Hits(c, key))] \in Entry
         /\ c.entries[Min(Hits(c, key))].key = key
<1> DEFINE S == Hits(c, key)
<1>1. c.entries \in Seq(Entry)
  BY DEF CacheType
<1>2. S \in SUBSET Nat
  BY <1>1 DEF Hits
<1>3. \E least \in S : \A k \in S : least <= k
  BY <1>2, LeastNumber
<1>4. Min(S) \in S
  BY <1>3 DEF Min
<1>5. PICK k : k = Min(S)
  OBVIOUS
<1>6. k \in DOMAIN c.entries /\ c.entries[k].key = key
  BY <1>4, <1>5 DEF Hits, Matches
<1>7. c.entries[k] \in Entry
  BY <1>1, <1>6
<1> QED
  BY <1>5, <1>6, <1>7

LEMMA MissFound ==
  ASSUME NEW c, NEW key, Hits(c, key) = {}
  PROVE  \A i \in DOMAIN c.entries : c.entries[i].key # key
BY DEF Hits, Matches

LEMMA EntryAdded ==
  ASSUME NEW c \in CacheType, NEW e \in Entry, Len(c.entries) <= c.capacity
  PROVE  LET d == AppendEntry(c, e)
         IN  /\ d \in CacheType /\ Len(d.entries) <= d.capacity
             /\ DOMAIN d.entries = DOMAIN c.entries \cup {Len(c.entries) + 1}
             /\ \A i \in DOMAIN c.entries : d.entries[i] = c.entries[i]
             /\ d.entries[Len(c.entries) + 1] = e
             /\ Len(c.entries) + 1 \notin DOMAIN c.entries
<1> PICK n, d : n = Len(c.entries) /\ d = AppendEntry(c, e)
  OBVIOUS
<1>1. c.entries \in Seq(Entry) /\ c.capacity \in Nat /\ n \in Nat
  BY DEF CacheType
<1>2. /\ d.entries = Append(c.entries, e)
      /\ d.capacity = IF n < c.capacity THEN c.capacity
                      ELSE IF c.capacity = 0 THEN FirstCapacity ELSE 2 * c.capacity
      /\ d = [entries |-> d.entries, capacity |-> d.capacity]
  BY DEF AppendEntry
<1>3. /\ d.entries \in Seq(Entry) /\ Len(d.entries) = n + 1
      /\ DOMAIN d.entries = DOMAIN c.entries \cup {n + 1}
      /\ n + 1 \notin DOMAIN c.entries
      /\ \A i \in DOMAIN c.entries : d.entries[i] = c.entries[i]
      /\ d.entries[n + 1] = e
  BY <1>1, <1>2
<1>4. d.capacity \in Nat /\ n + 1 <= d.capacity
  BY <1>1, <1>2, TablesAssumption
<1>5. d \in CacheType
  BY <1>2, <1>3, <1>4 DEF CacheType
<1> QED
  BY <1>3, <1>4, <1>5

LEMMA FreeTableOK ==
  ASSUME DOMAIN heap \subseteq 1..NumTables, DOMAIN heap # 1..NumTables
  PROVE  FreeTable \in 1..NumTables /\ FreeTable \notin DOMAIN heap
BY DEF FreeTable

(* The next key a creation looks up.                                       *)
LEMMA NextKeyOK ==
  ASSUME Typed, LengthsOK, NEW t \in Threads, LacksTables(t)
  PROVE  /\ NextKey(t) \in Keys
         /\ creating[t] \in CreationType
         /\ Len(creating[t].tables) + 1 <= Len(creating[t].shape)
<1>1. creating[t] \in CreationType
  BY DEF Typed
<1>2. /\ creating[t].shape \in Seq(Keys) /\ creating[t].tables \in Seq(1..NumTables)
  BY <1>1 DEF CreationType
<1> PICK n, m : n = Len(creating[t].tables) /\ m = Len(creating[t].shape)
  OBVIOUS
<1>3. n \in Nat /\ m \in Nat /\ n < m
  BY <1>2 DEF LacksTables
<1>4. n + 1 \in 1..m /\ n + 1 <= m
  BY <1>3
<1>5. creating[t].shape[n + 1] \in Keys
  BY <1>2, <1>4
<1> QED
  BY <1>1, <1>4, <1>5 DEF NextKey

(* The plan under creation gets one more pointer.                          *)
LEMMA GotOK ==
  ASSUME Typed, LengthsOK, NEW t \in Threads, LacksTables(t), NEW table \in 1..NumTables,
         creating' = Got(t, table)
  PROVE  /\ creating' \in [Threads -> CreationType]
         /\ \A u \in Threads : Len(creating'[u].tables) <= Len(creating'[u].shape)
         /\ \A u \in Threads : u # t => creating'[u] = creating[u]
         /\ creating'[t].shape = creating[t].shape
         /\ creating'[t].handle = creating[t].handle
         /\ creating'[t].tables = Append(creating[t].tables, table)
<1>1. creating \in [Threads -> CreationType] /\ creating[t] \in CreationType
  BY DEF Typed
<1>2. creating[t].tables \in Seq(1..NumTables)
  BY <1>1 DEF CreationType
<1>3. creating' = [creating EXCEPT ![t] =
                     [creating[t] EXCEPT !.tables = Append(creating[t].tables, table)]]
  BY DEF Got
<1>4. /\ Append(creating[t].tables, table) \in Seq(1..NumTables)
      /\ Len(Append(creating[t].tables, table)) = Len(creating[t].tables) + 1
  BY <1>2
<1> PICK c : c = [creating[t] EXCEPT !.tables = Append(creating[t].tables, table)]
  OBVIOUS
<1>5. /\ c \in CreationType /\ c.shape = creating[t].shape
      /\ c.handle = creating[t].handle
      /\ c.tables = Append(creating[t].tables, table)
  BY <1>1, <1>4 DEF CreationType
<1>6. creating' = [creating EXCEPT ![t] = c]
  BY <1>3
<1>7. Len(c.tables) <= Len(c.shape)
  BY <1>4, <1>5, NextKeyOK
<1> QED
  BY <1>1, <1>5, <1>6, <1>7 DEF LengthsOK

-----------------------------------------------------------------------------
(* IInv is inductive.                                                      *)

LEMMA InitOK == Init => IInv
<1> SUFFICES ASSUME Init PROVE IInv
  OBVIOUS
<1>1. << >> \in Seq(Entry) /\ << >> \in Seq(Keys) /\ << >> \in Seq(1..NumTables) /\ Len(<< >>) = 0
  OBVIOUS
<1>2. EmptyCache \in CacheType /\ Idle \in CreationType /\ NoPlan \in PlanType
  BY <1>1 DEF EmptyCache, CacheType, Idle, CreationType, NoPlan, PlanType
<1>3. Typed
  BY <1>2 DEF Init, Typed
<1>4. LengthsOK /\ OneTablePerKey /\ \A t \in Threads : CacheOK(t)
  BY DEF Init, LengthsOK, OneTablePerKey, CacheOK, EmptyCache, Idle, NoPlan
<1> QED
  BY <1>3, <1>4 DEF IInv

LEMMA MakeTableOK ==
  ASSUME IInv, NEW t \in Threads, LacksTables(t), MakeTable(t),
         Hits(cache[t], NextKey(t)) = {}, UNCHANGED <<alive, plan, executing>>
  PROVE  /\ IInv'
         /\ DOMAIN heap' = DOMAIN heap \cup {FreeTable}
         /\ FreeTable \notin DOMAIN heap /\ heap'[FreeTable] = NextKey(t)
         /\ \A b \in DOMAIN heap : heap'[b] = heap[b]
         /\ \A u \in Threads : u # t => cache'[u] = cache[u]
<1> PICK key, table, e, n :
      /\ key = NextKey(t) /\ table = FreeTable
      /\ e = [key |-> key, table |-> table] /\ n = Len(cache[t].entries)
  OBVIOUS
<1>1. /\ Typed /\ LengthsOK /\ OneTablePerKey /\ \A u \in Threads : CacheOK(u)
      /\ cache \in [Threads -> CacheType] /\ cache[t] \in CacheType
  BY DEF IInv, Typed
<1>2. key \in Keys /\ table \in 1..NumTables /\ table \notin DOMAIN heap
  BY <1>1, NextKeyOK, FreeTableOK DEF MakeTable, Typed
<1>3. /\ e \in Entry /\ e.key = key /\ e.table = table
  BY <1>2 DEF Entry
<1>4. /\ cache' = [cache EXCEPT ![t] = AppendEntry(@, e)]
      /\ heap' = [b \in DOMAIN heap \cup {table} |-> IF b = table THEN key ELSE heap[b]]
      /\ creating' = Got(t, table)
  BY DEF MakeTable
<1>5. /\ creating' \in [Threads -> CreationType]
      /\ \A u \in Threads : Len(creating'[u].tables) <= Len(creating'[u].shape)
  BY <1>1, <1>2, <1>4, GotOK
<1>6. /\ cache'[t] \in CacheType /\ Len(cache'[t].entries) <= cache'[t].capacity
      /\ DOMAIN cache'[t].entries = DOMAIN cache[t].entries \cup {n + 1}
      /\ \A i \in DOMAIN cache[t].entries : cache'[t].entries[i] = cache[t].entries[i]
      /\ cache'[t].entries[n + 1] = e
      /\ n + 1 \notin DOMAIN cache[t].entries
  <2>1. cache'[t] = AppendEntry(cache[t], e)
    BY <1>1, <1>4
  <2>2. Len(cache[t].entries) <= cache[t].capacity
    BY <1>1 DEF CacheOK
  <2> QED
    BY <1>1, <1>3, <2>1, <2>2, EntryAdded
<1>7. /\ DOMAIN heap' = DOMAIN heap \cup {table} /\ heap'[table] = key
      /\ \A b \in DOMAIN heap : heap'[b] = heap[b]
      /\ heap' = [b \in DOMAIN heap' |-> heap'[b]]
      /\ \A b \in DOMAIN heap' : heap'[b] \in Keys
  BY <1>1, <1>2, <1>4 DEF Typed
<1>8. \A u \in Threads : u # t => cache'[u] = cache[u]
  BY <1>1, <1>4
<1>9. Typed'
  <2>1. cache' \in [Threads -> CacheType]
    BY <1>1, <1>4, <1>6
  <2> QED
    BY <1>1, <1>2, <1>5, <1>7, <2>1 DEF Typed
<1>10. LengthsOK'
  BY <1>1, <1>5 DEF LengthsOK
<1>11. ASSUME NEW u \in Threads PROVE CacheOK(u)'
  <2>1. /\ Len(cache[u].entries) <= cache[u].capacity
        /\ \A i \in DOMAIN cache[u].entries :
             /\ cache[u].entries[i].table \in DOMAIN heap
             /\ heap[cache[u].entries[i].table] = cache[u].entries[i].key
    BY <1>1 DEF CacheOK
  <2>2. CASE u = t
    <3>1. \A i \in DOMAIN cache'[t].entries :
            /\ cache'[t].entries[i].table \in DOMAIN heap'
            /\ heap'[cache'[t].entries[i].table] = cache'[t].entries[i].key
      BY <1>3, <1>6, <1>7, <2>1, <2>2
    <3> QED
      BY <1>6, <2>2, <3>1 DEF CacheOK
  <2>3. CASE u # t
    BY <1>7, <1>8, <2>1, <2>3 DEF CacheOK
  <2> QED
    BY <2>2, <2>3
(* The new entry has a key the thread did not have, and a table nobody had. *)
<1>12. \A u \in Threads : \A i \in DOMAIN cache[u].entries :
         /\ cache[u].entries[i].table # table
         /\ u = t => cache[u].entries[i].key # key
  <2>1. \A i \in DOMAIN cache[t].entries : cache[t].entries[i].key # key
    BY MissFound
  <2> QED
    BY <1>1, <1>2, <2>1 DEF CacheOK
<1>13. OneTablePerKey'
  <2> SUFFICES ASSUME NEW u \in Threads, NEW v \in Threads,
                      NEW i \in DOMAIN cache'[u].entries, NEW j \in DOMAIN cache'[v].entries
               PROVE  /\ u = v /\ i # j => cache'[u].entries[i].key # cache'[v].entries[j].key
                      /\ <<u, i>> # <<v, j>> =>
                           cache'[u].entries[i].table # cache'[v].entries[j].table
    BY DEF OneTablePerKey
  <2>1. ASSUME NEW w \in Threads, NEW k \in DOMAIN cache'[w].entries
        PROVE  \/ k \in DOMAIN cache[w].entries /\ cache'[w].entries[k] = cache[w].entries[k]
               \/ w = t /\ k = n + 1 /\ cache'[w].entries[k] = e
    BY <1>6, <1>8, <2>1
  <2>2. CASE u = t /\ i = n + 1
    <3>1. CASE v = t /\ j = n + 1
      BY <2>2, <3>1
    <3>2. CASE ~(v = t /\ j = n + 1)
      <4>1. j \in DOMAIN cache[v].entries /\ cache'[v].entries[j] = cache[v].entries[j]
        BY <2>1, <3>2
      <4>2. cache'[u].entries[i].key = key /\ cache'[u].entries[i].table = table
        BY <1>3, <1>6, <2>2
      <4> QED
        BY <1>12, <2>2, <4>1, <4>2
    <3> QED
      BY <3>1, <3>2
  <2>3. CASE ~(u = t /\ i = n + 1)
    <3>1. CASE v = t /\ j = n + 1
      <4>1. i \in DOMAIN cache[u].entries /\ cache'[u].entries[i] = cache[u].entries[i]
        BY <2>1, <2>3
      <4>2. cache'[v].entries[j].key = key /\ cache'[v].entries[j].table = table
        BY <1>3, <1>6, <3>1
      <4> QED
        BY <1>12, <3>1, <4>1, <4>2
    <3>2. CASE ~(v = t /\ j = n + 1)
      <4>1. /\ i \in DOMAIN cache[u].entries /\ cache'[u].entries[i] = cache[u].entries[i]
            /\ j \in DOMAIN cache[v].entries /\ cache'[v].entries[j] = cache[v].entries[j]
        BY <2>1, <2>3, <3>2
      <4> QED
        BY <1>1, <4>1 DEF OneTablePerKey
    <3> QED
      BY <3>1, <3>2
  <2> QED
    BY <2>2, <2>3
<1> QED
  BY <1>2, <1>7, <1>8, <1>9, <1>10, <1>11, <1>13 DEF IInv

(* Steps that touch neither a cache nor a table.                           *)
LEMMA SameTables ==
  ASSUME IInv, UNCHANGED <<cache, heap>>,
         alive' \subseteq Threads, creating' \in [Threads -> CreationType],
         plan' \in [Handles -> PlanType], executing' \in [Threads -> Handles \cup {None}],
         LengthsOK'
  PROVE  IInv'
<1>1. Typed'
  BY DEF IInv, Typed
<1>2. OneTablePerKey'
  BY DEF IInv, OneTablePerKey
<1>3. \A t \in Threads : CacheOK(t)'
  BY DEF IInv, CacheOK
<1> QED
  BY <1>1, <1>2, <1>3 DEF IInv

LEMMA GenerateOK ==
  ASSUME IInv, NEW t \in Threads, GenerateTwiddles(t)
  PROVE  IInv'
<1>1. Typed /\ LengthsOK /\ LacksTables(t) /\ UNCHANGED <<alive, plan, executing>>
  BY DEF IInv, GenerateTwiddles
<1>2. CASE /\ Hits(cache[t], NextKey(t)) # {}
           /\ creating' = Got(t, cache[t].entries[Min(Hits(cache[t], NextKey(t)))].table)
           /\ UNCHANGED <<cache, heap>>
  <2>1. cache[t].entries[Min(Hits(cache[t], NextKey(t)))].table \in 1..NumTables
    BY <1>1, <1>2, HitFound DEF Typed, Entry
  <2>2. /\ creating' \in [Threads -> CreationType]
        /\ \A u \in Threads : Len(creating'[u].tables) <= Len(creating'[u].shape)
    BY <1>1, <1>2, <2>1, GotOK
  <2>3. LengthsOK'
    BY <1>1, <2>2 DEF LengthsOK
  <2> QED
    BY <1>1, <1>2, <2>2, <2>3, SameTables DEF Typed
<1>3. CASE Hits(cache[t], NextKey(t)) = {} /\ MakeTable(t)
  BY <1>1, <1>3, MakeTableOK
<1> QED
  BY <1>2, <1>3 DEF GenerateTwiddles

(* Creation, execution and destruction of plans, threads that start.       *)
LEMMA PlansOK ==
  ASSUME IInv, NEW t \in Threads,
         \/ \E p \in Handles :
              \/ \E shape \in Shapes : Create(t, p, shape)
              \/ Execute(t, p) \/ Destroy(t, p)
         \/ ReturnPlan(t) \/ FailCreation(t) \/ FinishExecute(t) \/ StartThread(t)
  PROVE  IInv'
<1>1. /\ alive \subseteq Threads /\ creating \in [Threads -> CreationType]
      /\ plan \in [Handles -> PlanType] /\ executing \in [Threads -> Handles \cup {None}]
      /\ \A u \in Threads : Len(creating[u].tables) <= Len(creating[u].shape)
      /\ \A p \in Handles : Len(plan[p].tables) = Len(plan[p].shape)
  BY DEF IInv, Typed, LengthsOK
<1>2. << >> \in Seq(Keys) /\ << >> \in Seq(1..NumTables) /\ Len(<< >>) = 0
  OBVIOUS
<1>3. /\ Idle \in CreationType /\ Len(Idle.tables) <= Len(Idle.shape)
      /\ NoPlan \in PlanType /\ Len(NoPlan.tables) = Len(NoPlan.shape)
  BY <1>2 DEF Idle, CreationType, NoPlan, PlanType
<1>4. ASSUME NEW p \in Handles, NEW shape \in Shapes, Create(t, p, shape) PROVE IInv'
  <2>1. shape \in Seq(Keys) /\ Len(shape) \in Nat
    BY TablesAssumption
  <2>2. PICK c : c = [handle |-> p, shape |-> shape, tables |-> << >>]
    OBVIOUS
  <2>3. c \in CreationType /\ Len(c.tables) <= Len(c.shape)
    BY <1>2, <2>1, <2>2 DEF CreationType
  <2>4. creating' = [creating EXCEPT ![t] = c] /\ UNCHANGED <<alive, cache, heap, plan, executing>>
    BY <1>4, <2>2 DEF Create
  <2>5. creating' \in [Threads -> CreationType] /\ LengthsOK'
    BY <1>1, <2>3, <2>4 DEF LengthsOK
  <2> QED
    BY <1>1, <2>4, <2>5, SameTables
<1>5. ASSUME NEW p \in Handles, Execute(t, p) PROVE IInv'
  <2>1. executing' \in [Threads -> Handles \cup {None}] /\ LengthsOK'
    BY <1>1, <1>5 DEF Execute, LengthsOK
  <2> QED
    BY <1>1, <1>5, <2>1, SameTables DEF Execute
<1>6. ASSUME NEW p \in Handles, Destroy(t, p) PROVE IInv'
  <2>1. plan' \in [Handles -> PlanType] /\ LengthsOK'
    BY <1>1, <1>3, <1>6 DEF Destroy, LengthsOK
  <2> QED
    BY <1>1, <1>6, <2>1, SameTables DEF Destroy
<1>7. CASE ReturnPlan(t)
  <2>1. PICK c, p : /\ c = creating[t]
                    /\ p = [shape |-> c.shape, tables |-> c.tables]
    OBVIOUS
  <2>2. /\ c.handle \in Handles /\ p \in PlanType /\ Len(p.tables) = Len(p.shape)
    <3>1. /\ c \in CreationType /\ c.handle # None /\ ~LacksTables(t)
      BY <1>1, <1>7, <2>1 DEF ReturnPlan
    <3>2. c.shape \in Seq(Keys) /\ c.tables \in Seq(1..NumTables) /\ c.handle \in Handles
      BY <3>1 DEF CreationType
    <3>3. Len(c.tables) = Len(c.shape)
      <4>1. Len(c.tables) \in Nat /\ Len(c.shape) \in Nat
        BY <3>2
      <4>2. Len(c.tables) <= Len(c.shape) /\ ~(Len(c.tables) < Len(c.shape))
        BY <1>1, <2>1, <3>1 DEF LacksTables
      <4> QED
        BY <4>1, <4>2
    <3> QED
      BY <2>1, <3>2, <3>3 DEF PlanType
  <2>3. /\ plan' = [plan EXCEPT ![c.handle] = p] /\ creating' = [creating EXCEPT ![t] = Idle]
        /\ UNCHANGED <<alive, cache, heap, executing>>
    BY <1>7, <2>1 DEF ReturnPlan
  <2>4. /\ plan' \in [Handles -> PlanType] /\ creating' \in [Threads -> CreationType]
        /\ LengthsOK'
    BY <1>1, <1>3, <2>2, <2>3 DEF LengthsOK
  <2> QED
    BY <1>1, <2>3, <2>4, SameTables
<1>8. CASE FailCreation(t)
  <2>1. creating' \in [Threads -> CreationType] /\ LengthsOK'
    BY <1>1, <1>3, <1>8 DEF FailCreation, LengthsOK
  <2> QED
    BY <1>1, <1>8, <2>1, SameTables DEF FailCreation
<1>9. CASE FinishExecute(t)
  <2>1. executing' \in [Threads -> Handles \cup {None}] /\ LengthsOK'
    BY <1>1, <1>9 DEF FinishExecute, LengthsOK
  <2> QED
    BY <1>1, <1>9, <2>1, SameTables DEF FinishExecute
<1>10. CASE StartThread(t)
  <2>1. alive' \subseteq Threads /\ LengthsOK'
    BY <1>1, <1>10 DEF StartThread, LengthsOK
  <2> QED
    BY <1>1, <1>10, <2>1, SameTables DEF StartThread
<1> QED
  BY <1>4, <1>5, <1>6, <1>7, <1>8, <1>9, <1>10

(* What a thread that ends frees is nobody else's.                         *)
LEMMA ExitOK ==
  ASSUME IInv, NEW t \in Threads, Exit(t)
  PROVE  IInv'
<1> PICK freed : freed = {cache[t].entries[i].table : i \in DOMAIN cache[t].entries}
  OBVIOUS
<1>1. /\ heap' = [b \in DOMAIN heap \ freed |-> heap[b]]
      /\ cache' = [cache EXCEPT ![t] = EmptyCache]
      /\ alive' \subseteq Threads /\ UNCHANGED <<creating, plan, executing>>
  BY DEF Exit, IInv, Typed
<1>2. /\ cache \in [Threads -> CacheType] /\ OneTablePerKey /\ \A u \in Threads : CacheOK(u)
  BY DEF IInv, Typed
<1>3. /\ cache'[t] = EmptyCache /\ \A u \in Threads : u # t => cache'[u] = cache[u]
      /\ DOMAIN cache'[t].entries = {} /\ EmptyCache \in CacheType
      /\ Len(EmptyCache.entries) <= EmptyCache.capacity
  <2>1. << >> \in Seq(Entry) /\ DOMAIN << >> = {} /\ Len(<< >>) = 0
    OBVIOUS
  <2> QED
    BY <1>1, <1>2, <2>1 DEF EmptyCache, CacheType
<1>4. Typed' /\ LengthsOK'
  <2>1. cache' \in [Threads -> CacheType]
    BY <1>1, <1>2, <1>3
  <2>2. LengthsOK'
    BY <1>1 DEF IInv, LengthsOK
  <2> QED
    BY <1>1, <2>1, <2>2 DEF IInv, Typed
<1>5. ASSUME NEW u \in Threads PROVE CacheOK(u)'
  <2>1. CASE u = t
    BY <1>3, <2>1 DEF CacheOK
  <2>2. CASE u # t
    <3>1. \A i \in DOMAIN cache[u].entries : cache[u].entries[i].table \notin freed
      <4> SUFFICES ASSUME NEW i \in DOMAIN cache[u].entries, NEW j \in DOMAIN cache[t].entries
                   PROVE  cache[u].entries[i].table # cache[t].entries[j].table
        OBVIOUS
      <4>1. <<u, i>> # <<t, j>>
        BY <2>2
      <4> QED
        BY <1>2, <4>1 DEF OneTablePerKey
    <3> QED
      BY <1>1, <1>2, <1>3, <2>2, <3>1 DEF CacheOK
  <2> QED
    BY <2>1, <2>2
<1>6. OneTablePerKey'
  BY <1>2, <1>3 DEF OneTablePerKey
<1> QED
  BY <1>4, <1>5, <1>6 DEF IInv

LEMMA StepOK == IInv /\ [Next]_vars => IInv'
<1> SUFFICES ASSUME IInv, [Next]_vars PROVE IInv'
  OBVIOUS
<1>1. CASE UNCHANGED vars
  <2>1. LengthsOK'
    BY <1>1 DEF vars, IInv, LengthsOK
  <2> QED
    BY <1>1, <2>1, SameTables DEF vars, IInv, Typed
<1>2. CASE Next
  <2> PICK t \in Threads :
        \/ \E p \in Handles :
             \/ \E shape \in Shapes : Create(t, p, shape)
             \/ Execute(t, p) \/ Destroy(t, p)
        \/ GenerateTwiddles(t) \/ ReturnPlan(t) \/ FailCreation(t)
        \/ FinishExecute(t) \/ Exit(t) \/ StartThread(t)
    BY <1>2 DEF Next
  <2> QED
    BY GenerateOK, PlansOK, ExitOK
<1> QED
  BY <1>1, <1>2

LEMMA Invariance == Spec => []IInv
BY InitOK, StepOK, PTL DEF Spec

(* Types, and room in the buckets, whatever threads exit.                  *)
THEOREM TypeCorrect == Spec => []TypeOK
<1>1. IInv => TypeOK
  <2> SUFFICES ASSUME IInv PROVE TypeOK
    OBVIOUS
  <2>1. Typed /\ LengthsOK /\ \A t \in Threads : CacheOK(t)
    BY DEF IInv
  <2>2. ASSUME NEW t \in Threads
        PROVE  /\ cache[t].entries \in Seq([key : Keys, table : 1..NumTables])
               /\ Len(cache[t].entries) <= cache[t].capacity
               /\ creating[t].handle \in Handles \cup {None}
               /\ Len(creating[t].tables) <= Len(creating[t].shape)
               /\ executing[t] \in Handles \cup {None}
    BY <2>1 DEF Typed, CacheType, Entry, CreationType, CacheOK, LengthsOK
  <2>3. /\ alive \subseteq Threads /\ DOMAIN heap \subseteq 1..NumTables
        /\ Range(heap) \subseteq Keys
        /\ \A p \in Handles : Len(plan[p].tables) = Len(plan[p].shape)
    BY <2>1 DEF Typed, LengthsOK, Range
  <2> QED
    BY <2>2, <2>3 DEF TypeOK
<1> QED
  BY <1>1, Invariance, PTL

(* However many plans are created, fail to be, and are destroyed, and      *)
(* whatever threads exit meanwhile, a thread holds one table per key, and  *)
(* frees only its own.                                                     *)
THEOREM TablesAreNotDuplicated == Spec => []OneTablePerKey
<1>1. IInv => OneTablePerKey
  BY DEF IInv
<1> QED
  BY <1>1, Invariance, PTL

-----------------------------------------------------------------------------
(* Plans and their tables, when no thread that plans exits.                *)

LEMMA PInit == Init => PInv
<1> SUFFICES ASSUME Init PROVE PInv
  OBVIOUS
<1>1. \A t \in Threads : creating[t] = Idle /\ cache[t] = EmptyCache
  BY DEF Init
<1>2. \A p \in Handles : plan[p] = NoPlan
  BY DEF Init
<1> QED
  BY <1>1, <1>2 DEF PInv, Plain, PointersOK, Idle, EmptyCache, NoPlan

(* No step frees a table or changes one.                                   *)
TablesKept == \A b \in DOMAIN heap : b \in DOMAIN heap' /\ heap'[b] = heap[b]

LEMMA PointersKept ==
  ASSUME TablesKept, NEW shape, NEW tables, PointersOK(shape, tables)
  PROVE  \A i \in DOMAIN tables : tables[i] \in DOMAIN heap' /\ heap'[tables[i]] = shape[i]
BY DEF TablesKept, PointersOK

(* Nothing but a look-up adds to a cache or a plan's pointers.             *)
LEMMA PlanStep ==
  ASSUME PInv, TablesKept,
         \A t \in Threads : \/ /\ creating'[t] = creating[t]
                               /\ cache'[t].entries \in {cache[t].entries, << >>}
                            \/ /\ creating'[t] = Idle /\ cache'[t] = cache[t]
                            \/ t \in Planners /\ creating'[t].tables = << >>,
         \A p \in Handles : \/ plan'[p] = plan[p] \/ plan'[p] = NoPlan
                            \/ \E t \in Threads : plan'[p].shape = creating[t].shape
                                                  /\ plan'[p].tables = creating[t].tables
  PROVE  PInv'
<1>1. ASSUME NEW t \in Threads
      PROVE  Plain(t)' /\ PointersOK(creating[t].shape, creating[t].tables)'
  <2>1. Plain(t) /\ PointersOK(creating[t].shape, creating[t].tables)
    BY DEF PInv
  <2>2. \A i \in DOMAIN creating[t].tables :
          /\ creating[t].tables[i] \in DOMAIN heap'
          /\ heap'[creating[t].tables[i]] = creating[t].shape[i]
    BY <2>1, PointersKept
  <2>3. CASE creating'[t] = creating[t] /\ cache'[t].entries \in {cache[t].entries, << >>}
    BY <2>1, <2>2, <2>3 DEF Plain, PointersOK
  <2>4. CASE creating'[t] = Idle /\ cache'[t] = cache[t]
    BY <2>1, <2>4 DEF Plain, PointersOK, Idle
  <2>5. CASE t \in Planners /\ creating'[t].tables = << >>
    BY <2>5 DEF Plain, PointersOK
  <2> QED
    BY <2>3, <2>4, <2>5
<1>2. ASSUME NEW p \in Handles PROVE PointersOK(plan[p].shape, plan[p].tables)'
  <2>1. CASE plan'[p] = plan[p]
    <3>1. PointersOK(plan[p].shape, plan[p].tables)
      BY DEF PInv
    <3>2. \A i \in DOMAIN plan[p].tables :
            plan[p].tables[i] \in DOMAIN heap' /\ heap'[plan[p].tables[i]] = plan[p].shape[i]
      BY <3>1, PointersKept
    <3> QED
      BY <2>1, <3>2 DEF PointersOK
  <2>2. CASE plan'[p] = NoPlan
    BY <2>2 DEF PointersOK, NoPlan
  <2>3. ASSUME NEW t \in Threads, plan'[p].shape = creating[t].shape,
               plan'[p].tables = creating[t].tables
        PROVE  PointersOK(plan[p].shape, plan[p].tables)'
    <3>1. PointersOK(creating[t].shape, creating[t].tables)
      BY DEF PInv
    <3>2. \A i \in DOMAIN creating[t].tables :
            /\ creating[t].tables[i] \in DOMAIN heap'
            /\ heap'[creating[t].tables[i]] = creating[t].shape[i]
      BY <3>1, PointersKept
    <3> QED
      BY <2>3, <3>2 DEF PointersOK
  <2> QED
    BY <2>1, <2>2, <2>3
<1> QED
  BY <1>1, <1>2 DEF PInv

(* A look-up hands out a table that holds what the key asks for.           *)
LEMMA PGenerate ==
  ASSUME IInv, PInv, NEW t \in Threads, GenerateTwiddles(t)
  PROVE  PInv'
<1> PICK key, c, n : /\ key = NextKey(t) /\ c = creating[t]
                     /\ n = Len(creating[t].tables)
  OBVIOUS
<1>1. Typed /\ LengthsOK /\ LacksTables(t) /\ UNCHANGED <<alive, plan, executing>>
  BY DEF IInv, GenerateTwiddles
<1>2. /\ c.tables \in Seq(1..NumTables) /\ c.handle # None /\ key = c.shape[n + 1]
      /\ PointersOK(c.shape, c.tables) /\ t \in Planners
  BY <1>1 DEF Typed, CreationType, LacksTables, NextKey, PInv, Plain
<1>3. ASSUME NEW table \in 1..NumTables, creating' = Got(t, table), TablesKept,
             table \in DOMAIN heap' /\ heap'[table] = key,
             \A u \in Threads : u # t => cache'[u] = cache[u]
      PROVE  PInv'
  <2>1. /\ \A u \in Threads : u # t => creating'[u] = creating[u]
        /\ creating'[t].shape = c.shape /\ creating'[t].tables = Append(c.tables, table)
    BY <1>1, <1>3, GotOK
  <2>2. PointersOK(creating[t].shape, creating[t].tables)'
    <3>1. \A i \in DOMAIN c.tables : c.tables[i] \in DOMAIN heap' /\ heap'[c.tables[i]] = c.shape[i]
      BY <1>2, <1>3, PointersKept
    <3>2. /\ DOMAIN Append(c.tables, table) = DOMAIN c.tables \cup {n + 1}
          /\ \A i \in DOMAIN c.tables : Append(c.tables, table)[i] = c.tables[i]
          /\ Append(c.tables, table)[n + 1] = table
      BY <1>2
    <3>3. \A i \in DOMAIN creating'[t].tables :
            /\ creating'[t].tables[i] \in DOMAIN heap'
            /\ heap'[creating'[t].tables[i]] = creating'[t].shape[i]
      BY <1>2, <1>3, <2>1, <3>1, <3>2
    <3> QED
      BY <3>3 DEF PointersOK
  <2>3. ASSUME NEW u \in Threads
        PROVE  Plain(u)' /\ PointersOK(creating[u].shape, creating[u].tables)'
    <3>1. CASE u = t
      BY <1>2, <2>2, <3>1 DEF Plain
    <3>2. CASE u # t
      <4>1. Plain(u) /\ PointersOK(creating[u].shape, creating[u].tables)
        BY DEF PInv
      <4>2. \A i \in DOMAIN creating[u].tables :
              /\ creating[u].tables[i] \in DOMAIN heap'
              /\ heap'[creating[u].tables[i]] = creating[u].shape[i]
        BY <1>3, <4>1, PointersKept
      <4> QED
        BY <1>3, <2>1, <3>2, <4>1, <4>2 DEF Plain, PointersOK
    <3> QED
      BY <3>1, <3>2
  <2>4. ASSUME NEW p \in Handles PROVE PointersOK(plan[p].shape, plan[p].tables)'
    <3>1. PointersOK(plan[p].shape, plan[p].tables) /\ plan'[p] = plan[p]
      BY <1>1 DEF PInv
    <3>2. \A i \in DOMAIN plan[p].tables :
            plan[p].tables[i] \in DOMAIN heap' /\ heap'[plan[p].tables[i]] = plan[p].shape[i]
      BY <1>3, <3>1, PointersKept
    <3> QED
      BY <3>1, <3>2 DEF PointersOK
  <2> QED
    BY <2>3, <2>4 DEF PInv
<1>4. CASE /\ Hits(cache[t], key) # {}
           /\ creating' = Got(t, cache[t].entries[Min(Hits(cache[t], key))].table)
           /\ UNCHANGED <<cache, heap>>
  <2> PICK k : k = Min(Hits(cache[t], key))
    OBVIOUS
  <2>1. k \in DOMAIN cache[t].entries /\ cache[t].entries[k] \in Entry
          /\ cache[t].entries[k].key = key
    BY <1>1, <1>4, HitFound DEF Typed
  <2>2. /\ cache[t].entries[k].table \in DOMAIN heap
        /\ heap[cache[t].entries[k].table] = key
        /\ cache[t].entries[k].table \in 1..NumTables
    BY <2>1 DEF IInv, CacheOK, Entry
  <2>3. TablesKept
    BY <1>4 DEF TablesKept
  <2> QED
    BY <1>3, <1>4, <2>2, <2>3
<1>5. CASE Hits(cache[t], key) = {} /\ MakeTable(t)
  <2>1. /\ DOMAIN heap' = DOMAIN heap \cup {FreeTable}
        /\ FreeTable \notin DOMAIN heap /\ heap'[FreeTable] = key
        /\ \A b \in DOMAIN heap : heap'[b] = heap[b]
        /\ \A u \in Threads : u # t => cache'[u] = cache[u]
    BY <1>1, <1>5, MakeTableOK
  <2>2. FreeTable \in 1..NumTables /\ TablesKept
    BY <1>1, <1>5, <2>1, FreeTableOK DEF MakeTable, Typed, TablesKept
  <2>3. creating' = Got(t, FreeTable)
    BY <1>5 DEF MakeTable
  <2> QED
    BY <1>3, <2>1, <2>2, <2>3
<1> QED
  BY <1>4, <1>5 DEF GenerateTwiddles

LEMMA PStep ==
  ASSUME PlannersStay
  PROVE  IInv /\ PInv /\ [Next]_vars => PInv'
<1> SUFFICES ASSUME IInv, PInv, [Next]_vars PROVE PInv'
  OBVIOUS
<1>1. creating \in [Threads -> CreationType] /\ plan \in [Handles -> PlanType]
        /\ cache \in [Threads -> CacheType]
  BY DEF IInv, Typed
<1>2. UNCHANGED heap => TablesKept
  BY DEF TablesKept
<1>3. ASSUME UNCHANGED <<cache, heap>>,
             \A t \in Threads : \/ creating'[t] = creating[t] \/ creating'[t] = Idle
                                \/ t \in Planners /\ creating'[t].tables = << >>,
             \A p \in Handles : \/ plan'[p] = plan[p] \/ plan'[p] = NoPlan
                                \/ \E t \in Threads : plan'[p].shape = creating[t].shape
                                                      /\ plan'[p].tables = creating[t].tables
      PROVE  PInv'
  BY <1>2, <1>3, PlanStep
<1>4. CASE UNCHANGED vars
  BY <1>3, <1>4 DEF vars
<1>5. CASE Next
  <2> PICK t \in Threads :
        \/ \E p \in Handles :
             \/ \E shape \in Shapes : Create(t, p, shape)
             \/ Execute(t, p) \/ Destroy(t, p)
        \/ GenerateTwiddles(t) \/ ReturnPlan(t) \/ FailCreation(t)
        \/ FinishExecute(t) \/ Exit(t) \/ StartThread(t)
    BY <1>5 DEF Next
  <2>1. ASSUME NEW p \in Handles, NEW shape \in Shapes, Create(t, p, shape) PROVE PInv'
    <3>1. /\ t \in Planners /\ creating'[t].tables = << >>
          /\ \A u \in Threads : u # t => creating'[u] = creating[u]
          /\ UNCHANGED <<alive, cache, heap, plan, executing>>
      BY <1>1, <2>1 DEF Create
    <3> QED
      BY <1>3, <3>1
  <2>2. ASSUME NEW p \in Handles, Execute(t, p) PROVE PInv'
    BY <1>3, <2>2 DEF Execute
  <2>3. ASSUME NEW p \in Handles, Destroy(t, p) PROVE PInv'
    <3>1. /\ \A q \in Handles : plan'[q] = plan[q] \/ plan'[q] = NoPlan
          /\ UNCHANGED <<alive, cache, heap, creating, executing>>
      BY <1>1, <2>3 DEF Destroy
    <3> QED
      BY <1>3, <3>1
  <2>4. CASE GenerateTwiddles(t)
    BY <2>4, PGenerate
  <2>5. CASE ReturnPlan(t)
    <3>1. /\ \A u \in Threads : creating'[u] = creating[u] \/ creating'[u] = Idle
          /\ \A q \in Handles : \/ plan'[q] = plan[q]
                                \/ plan'[q] = [shape |-> creating[t].shape,
                                               tables |-> creating[t].tables]
          /\ UNCHANGED <<alive, cache, heap, executing>>
      BY <1>1, <2>5 DEF ReturnPlan
    <3>2. \A q \in Handles : \/ plan'[q] = plan[q]
                             \/ /\ plan'[q].shape = creating[t].shape
                                /\ plan'[q].tables = creating[t].tables
      BY <3>1
    <3> QED
      BY <1>3, <3>1, <3>2
  <2>6. CASE FailCreation(t)
    <3>1. /\ \A u \in Threads : creating'[u] = creating[u] \/ creating'[u] = Idle
          /\ UNCHANGED <<alive, cache, heap, plan, executing>>
      BY <1>1, <2>6 DEF FailCreation
    <3> QED
      BY <1>3, <3>1
  <2>7. CASE FinishExecute(t)
    BY <1>3, <2>7 DEF FinishExecute
  <2>8. CASE Exit(t)
    <3>1. t \notin Planners
      BY <2>8 DEF Exit, PlannersStay
    <3>2. cache[t].entries = << >>
      BY <3>1 DEF PInv, Plain
    <3>3. {cache[t].entries[i].table : i \in DOMAIN cache[t].entries} = {}
      BY <3>2
    <3>4. TablesKept
      <4>1. heap' = [b \in DOMAIN heap \ {} |-> heap[b]]
        BY <2>8, <3>3 DEF Exit
      <4> QED
        BY <4>1 DEF TablesKept
    <3>5. /\ \A u \in Threads : cache'[u].entries \in {cache[u].entries, << >>}
          /\ UNCHANGED <<creating, plan, executing>>
      BY <1>1, <2>8 DEF Exit, EmptyCache
    <3> QED
      BY <3>4, <3>5, PlanStep
  <2>9. CASE StartThread(t)
    BY <1>3, <2>9 DEF StartThread
  <2> QED
    BY <2>1, <2>2, <2>3, <2>4, <2>5, <2>6, <2>7, <2>8, <2>9
<1> QED
  BY <1>4, <1>5

(* When no thread that plans exits, every execution, on any thread, reads  *)
(* the tables its plan was made with.  The hypothesis is what the run with *)
(* a planning thread that exits shows to be needed.                        *)
THEOREM PlansKeepTheirTables ==
  ASSUME PlannersStay
  PROVE  Spec => []ExecutionReadsItsTables
<1>1. Init => IInv /\ PInv
  BY InitOK, PInit
<1>2. IInv /\ PInv /\ [Next]_vars => IInv' /\ PInv'
  BY StepOK, PStep
<1>3. IInv /\ PInv => ExecutionReadsItsTables
  <2> SUFFICES ASSUME IInv, PInv, NEW t \in Threads, executing[t] # None
               PROVE  PointersOK(plan[executing[t]].shape, plan[executing[t]].tables)
    BY DEF ExecutionReadsItsTables, PointersOK
  <2>1. executing[t] \in Handles
    BY DEF IInv, Typed
  <2> QED
    BY <2>1 DEF PInv
<1> QED
  BY <1>1, <1>2, <1>3, PTL DEF Spec

=============================================================================
