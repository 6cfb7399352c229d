CONSTANTS
  KernelNs <- AotKernelNs
  Lengths <- MCLengths
  Integral = FALSE
  Means = {1, 2}
  Prime = 43201
  Generator = 23
  AbLayout <- MCAbLayout
  RowLayout <- MCRowLayout
  AcLayout <- MCAcLayout
  ParallelThreshold = 20
  MaxThreads = 3
  Sizes <- MCSizes
  Longest = 36
  RaderParts <- MCRaderParts
  PaddedParts <- MCPaddedParts
SPECIFICATION Spec
INVARIANTS
  TypeOK
  SuccessIsDetermined
  PaddedLengthIsPlannable
  EveryOrderIsAuditioned
  CandidatesAreExact
PROPERTIES
  ImplementsPlanning
