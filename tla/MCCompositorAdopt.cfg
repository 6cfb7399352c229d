CONSTANTS
  KernelNs <- JitKernels
  Lengths <- MCLengths
  Integral = FALSE
  Means = {1, 2}
  Prime = 43201
  Generator = 23
  AbLayout <- MCAbLayout
  RowLayout <- MCRowLayout
  AcLayout <- MCAcLayout
  ParallelThreshold = 20
  MaxThreads = 3
  Sizes = {}
  Longest = 36
  RaderParts <- MCRaderParts
  PaddedParts <- MCPaddedParts
SPECIFICATION Spec
PROPERTIES
  AdoptsWhatItMeasured
