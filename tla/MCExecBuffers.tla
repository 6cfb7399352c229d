----------------------------- MODULE MCExecBuffers -----------------------------
(***************************************************************************)
(* Small plans for ExecBuffers: the shapes the planners build.             *)
(***************************************************************************)
EXTENDS ExecBuffers, TLC

Leaf == [kind |-> "leaf", subs |-> << >>, size |-> 0, columns |-> FALSE]
Plan(kind, subs, size) == [kind |-> kind, subs |-> subs, size |-> size, columns |-> FALSE]
ByColumns(kind, subs, size) == [Plan(kind, subs, size) EXCEPT !.columns = TRUE]

MCNode == <<
  Leaf,                                     (* 1                            *)
  Leaf,                                     (* 2                            *)
  Plan("cooleytukey", <<1, 2>>, 2),         (* 3                            *)
  Plan("cooleytukey", <<2, 3>>, 1),         (* 4: inner needs more          *)
  Plan("rader", <<3, 1>>, 2),               (* 5                            *)
  ByColumns("rader", <<1, 4>>, 1),          (* 6: a twiddle stage           *)
  ByColumns("bluestein", <<3, 2>>, 1),      (* 7                            *)
  Plan("loop", <<4>>, 0),                   (* 8                            *)
  Plan("cooleytukey", <<5, 6>>, 3),         (* 9: both stages by Rader      *)
  Plan("composition", <<1, 2>>, 1),         (* 10                           *)
  Plan("rader", <<10, 10>>, 1),             (* 11: planned by create_rader  *)
  Plan("composition", <<1, 11, 2>>, 2),     (* 12: depth two                *)
  Plan("bluestein", <<10, 10>>, 2),         (* 13                           *)
  Plan("composition", <<13, 1>>, 1) >>      (* 14                           *)

MCNesting ==
  [kind \in Buffered |->
     LET nesting[i \in DOMAIN MCNode] ==
           (IF MCNode[i].kind = kind THEN 1 ELSE 0)
             + Max({0} \cup {nesting[MCNode[i].subs[j]] : j \in DOMAIN MCNode[i].subs})
     IN  nesting]

(* One thread has plans of every shape, the other runs a small one of its  *)
(* own at the same time.                                                   *)
CONSTANTS t1, t2

MCPlansOf == t1 :> {4, 7, 8, 9, 12, 14} @@ t2 :> {3}

=============================================================================
