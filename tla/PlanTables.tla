------------------------------- MODULE PlanTables -------------------------------
(***************************************************************************)
(* The twiddle tables plans use, and how long they live.                   *)
(*                                                                         *)
(* generate_twiddles (and generate_r2r_rotation, made the same way) keeps  *)
(* every table it computes in a hash map that is local to the thread, and  *)
(* hands out a raw pointer, which the plan keeps.  Destroying a plan frees *)
(* no table; the end of the thread that created the plan frees them all,   *)
(* whichever thread executes the plan by then.                             *)
(***************************************************************************)
EXTENDS Integers, Sequences, SequencesExt, FiniteSetsExt

CONSTANTS
  Threads,      (* threads of the application, which may end and start     *)
  MayExit,      (* those that do                                           *)
  Planners,     (* those that create plans                                 *)
  Handles,      (* plan handles                                            *)
  Shapes,       (* plan shapes: the sequence of table keys each looks up   *)
  FirstCapacity,(* of a bucket of the hash map (4 in the source)           *)
  NumTables     (* bound: tables allocated at once                         *)

(* A key is [length, layout]; layout stands for all that tells apart two   *)
(* tables of the same lengths.  All keys share one bucket.                 *)
Keys == UNION {Range(shape) : shape \in Shapes}

None == "none"

(* A plan that looks up no table is of no interest here.                   *)
ASSUME TablesAssumption ==
  /\ MayExit \subseteq Threads /\ Planners \subseteq Threads
  /\ None \notin Handles
  /\ FirstCapacity \in Nat \ {0} /\ NumTables \in Nat
  /\ Shapes \subseteq Seq(Keys) \ {<< >>}
  /\ \A key \in Keys : DOMAIN key = {"length", "layout"}

VARIABLES
  alive,      (* threads that run                                          *)
  cache,      (* cached_twiddles of each thread: entries and capacity      *)
  heap,       (* allocated tables: what each holds                         *)
  creating,   (* plan each thread creates: the tables it has got so far    *)
  plan,       (* plan behind each handle: the tables it points to, by key  *)
  executing   (* plan each thread executes                                 *)

vars == <<alive, cache, heap, creating, plan, executing>>

EmptyCache == [entries |-> << >>, capacity |-> 0]

-----------------------------------------------------------------------------
(* Seeded fault: the layout is not part of the comparison.                 *)
Matches_Length(entry, key) == entry.key.length = key.length

(* twiddle_data_key::operator==.                                           *)
Matches(entry, key) == entry.key = key

(* The entries for a key, in the order static_hash_map::find meets them.   *)
Hits(c, key) == {i \in DOMAIN c.entries : Matches(c.entries[i], key)}

(* Seeded fault: the array never grows.                                    *)
AppendEntry_NoGrow(c, entry) == [c EXCEPT !.entries = Append(@, entry)]

(* move_vector::emplace_back.                                              *)
AppendEntry(c, entry) ==
  [entries  |-> Append(c.entries, entry),
   capacity |-> IF Len(c.entries) < c.capacity THEN c.capacity
                ELSE IF c.capacity = 0 THEN FirstCapacity ELSE 2 * c.capacity]

NoPlan == [shape |-> << >>, tables |-> << >>]
IsPlan(p) == plan[p] # NoPlan

Idle == [handle |-> None, shape |-> << >>, tables |-> << >>]
IsIdle(t) == creating[t].handle = None /\ executing[t] = None

Init ==
  /\ alive = Threads
  /\ cache = [t \in Threads |-> EmptyCache]
  /\ heap = << >>
  /\ creating = [t \in Threads |-> Idle]
  /\ plan = [p \in Handles |-> NoPlan]
  /\ executing = [t \in Threads |-> None]

(* plfft_plan_create_from_config: the strategies look up the tables of     *)
(* their plans one after the other.                                        *)
Create(t, p, shape) ==
  /\ t \in alive \cap Planners /\ IsIdle(t)
  /\ ~IsPlan(p) /\ \A u \in Threads : creating[u].handle # p
  /\ creating' = [creating EXCEPT ![t] = [handle |-> p, shape |-> shape, tables |-> << >>]]
  /\ UNCHANGED <<alive, cache, heap, plan, executing>>

LacksTables(t) ==
  /\ creating[t].handle # None
  /\ Len(creating[t].tables) < Len(creating[t].shape)

NextKey(t) == creating[t].shape[Len(creating[t].tables) + 1]
Got(t, table) == [creating EXCEPT ![t].tables = Append(@, table)]

FreeTable == CHOOSE table \in 1..NumTables : table \notin DOMAIN heap

(* The table is computed, and the cache keeps it.                          *)
MakeTable(t) ==
  LET key   == NextKey(t)
      table == FreeTable
  IN  /\ DOMAIN heap # 1..NumTables
      /\ cache' = [cache EXCEPT ![t] = AppendEntry(@, [key |-> key, table |-> table])]
      /\ heap' = [b \in DOMAIN heap \cup {table} |-> IF b = table THEN key ELSE heap[b]]
      /\ creating' = Got(t, table)

(* Seeded fault: every look-up computes a table.                           *)
GenerateTwiddles_Always(t) ==
  /\ LacksTables(t) /\ MakeTable(t)
  /\ UNCHANGED <<alive, plan, executing>>

(* generate_twiddles.                                                      *)
GenerateTwiddles(t) ==
  LET found == Hits(cache[t], NextKey(t))
  IN  /\ LacksTables(t)
      /\ \/ /\ found # {}
            /\ creating' = Got(t, cache[t].entries[Min(found)].table)
            /\ UNCHANGED <<cache, heap>>
         \/ /\ found = {} /\ MakeTable(t)
      /\ UNCHANGED <<alive, plan, executing>>

(* The plan is returned, with the tables it has looked up.                 *)
ReturnPlan(t) ==
  LET c == creating[t]
  IN  /\ c.handle # None /\ ~LacksTables(t)
      /\ plan' = [plan EXCEPT ![c.handle] = [shape |-> c.shape, tables |-> c.tables]]
      /\ creating' = [creating EXCEPT ![t] = Idle]
      /\ UNCHANGED <<alive, cache, heap, executing>>

(* No strategy makes a plan; the cache keeps what they have looked up.     *)
FailCreation(t) ==
  /\ creating[t].handle # None
  /\ creating' = [creating EXCEPT ![t] = Idle]
  /\ UNCHANGED <<alive, cache, heap, plan, executing>>

(* plfft_plan_execute, on any thread.                                      *)
Execute(t, p) ==
  /\ t \in alive /\ IsIdle(t) /\ IsPlan(p)
  /\ executing' = [executing EXCEPT ![t] = p]
  /\ UNCHANGED <<alive, cache, heap, creating, plan>>

FinishExecute(t) ==
  /\ executing[t] # None
  /\ executing' = [executing EXCEPT ![t] = None]
  /\ UNCHANGED <<alive, cache, heap, creating, plan>>

(* plfft_plan_destroy, once all executions have completed.                 *)
Destroy(t, p) ==
  /\ t \in alive /\ IsIdle(t) /\ IsPlan(p)
  /\ \A u \in Threads : executing[u] # p
  /\ plan' = [plan EXCEPT ![p] = NoPlan]
  /\ UNCHANGED <<alive, cache, heap, creating, executing>>

(* The end of a thread destroys its thread_local objects.                  *)
Exit(t) ==
  /\ t \in alive \cap MayExit /\ IsIdle(t)
  /\ alive' = alive \ {t}
  /\ LET freed == {cache[t].entries[i].table : i \in DOMAIN cache[t].entries}
     IN  heap' = [b \in DOMAIN heap \ freed |-> heap[b]]
  /\ cache' = [cache EXCEPT ![t] = EmptyCache]
  /\ UNCHANGED <<creating, plan, executing>>

(* Another thread starts.                                                  *)
StartThread(t) ==
  /\ t \notin alive
  /\ alive' = alive \cup {t}
  /\ UNCHANGED <<cache, heap, creating, plan, executing>>

Next ==
  \E t \in Threads :
    \/ \E p \in Handles :
         \/ \E shape \in Shapes : Create(t, p, shape)
         \/ Execute(t, p) \/ Destroy(t, p)
    \/ GenerateTwiddles(t) \/ ReturnPlan(t) \/ FailCreation(t)
    \/ FinishExecute(t) \/ Exit(t) \/ StartThread(t)

Spec == Init /\ [][Next]_vars

-----------------------------------------------------------------------------
(* Types; and a bucket has room for the entries written to it.             *)
TypeOK ==
  /\ alive \subseteq Threads
  /\ \A t \in Threads :
       /\ cache[t].entries \in Seq([key : Keys, table : 1..NumTables])
       /\ Len(cache[t].entries) <= cache[t].capacity
       /\ creating[t].handle \in Handles \cup {None}
       /\ Len(creating[t].tables) <= Len(creating[t].shape)
       /\ executing[t] \in Handles \cup {None}
  /\ DOMAIN heap \subseteq 1..NumTables /\ Range(heap) \subseteq Keys
  /\ \A p \in Handles : Len(plan[p].tables) = Len(plan[p].shape)

(* An execution, on whatever thread, reads the tables its plan was made    *)
(* for: they are still allocated, and hold the factors of the plan's own   *)
(* lengths and layout.  The documentation asks no more of the caller than  *)
(* to keep the plan ("A plan may be executed concurrently by multiple      *)
(* threads without synchronizing access to the plan itself").              *)
ExecutionReadsItsTables ==
  \A t \in Threads :
    executing[t] # None =>
      LET p == plan[executing[t]]
      IN  \A i \in DOMAIN p.tables :
            p.tables[i] \in DOMAIN heap /\ heap[p.tables[i]] = p.shape[i]

(* A thread holds one table per key, however many plans it has created and *)
(* destroyed, and no two threads hold the same one.                        *)
OneTablePerKey ==
  \A t, u \in Threads : \A i \in DOMAIN cache[t].entries, j \in DOMAIN cache[u].entries :
    /\ t = u /\ i # j => cache[t].entries[i].key # cache[u].entries[j].key
    /\ <<t, i>> # <<u, j>> => cache[t].entries[i].table # cache[u].entries[j].table

=============================================================================
