SPECIFICATION Spec
CONSTANTS
  Base <- MCBase
  Radices <- MCRadices
  Requests <- MCRequests
  Prime = 23761
  Generator = 7
  AbLayout <- MCRowLayout
  RowLayout <- MCRowLayout
  AcLayout <- MCAcLayout
  TimedLengths = {1, 5, 8, 12}
  TimedFixedLengths = {5, 10}
  BatchedLengths = {4, 6}
  UntimedLengths = {1, 4, 5, 6, 10, 11, 15, 22, 33, 55}
INVARIANTS
  TypeOK
  ReconstructionNeverFails
  OutcomeIsDetermined
  NoNestedConvolution
  RecallIsFaithful
  RecursionDescends
PROPERTIES
  WisdomIsStable
  NoSearchAfterDeadline
  ImplementsPlanning
