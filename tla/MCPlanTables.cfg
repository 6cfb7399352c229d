CONSTANTS
  t1 = t1
  t2 = t2
  t3 = t3
  p1 = p1
  p2 = p2
  Threads = {t1, t2, t3}
  MayExit = {t3}
  Planners = {t1, t2}
  Handles = {p1, p2}
  Shapes <- MCShapes
  FirstCapacity = 1
  NumTables = 8
SYMMETRY Symmetry
SPECIFICATION Spec
INVARIANTS
  TypeOK
  ExecutionReadsItsTables
  OneTablePerKey
