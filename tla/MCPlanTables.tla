------------------------------ MODULE MCPlanTables ------------------------------
(***************************************************************************)
(* Three keys, two of them of the same lengths, and plans that share them. *)
(***************************************************************************)
EXTENDS PlanTables, TLC

Table(n, layout) == [length |-> n, layout |-> layout]

MCShapes == {<< Table(6, "ab"), Table(6, "ac") >>, << Table(6, "ac"), Table(10, "ab") >>,
             << Table(10, "ab") >>}

Symmetry == Permutations(Handles) \cup Permutations(Planners \ MayExit)

=============================================================================
