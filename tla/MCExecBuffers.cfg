CONSTANTS
  t1 = t1
  t2 = t2
  Threads = {t1, t2}
  Node <- MCNode
  PlansOf <- MCPlansOf
  MaxDepth = 3
  Nesting <- MCNesting
SPECIFICATION Spec
INVARIANTS
  TypeOK
  BuffersArePrivate
  BuffersOutliveTheirUse
  CountersMatchFrames
PROPERTIES
  ExecutionComputesItsPlan
