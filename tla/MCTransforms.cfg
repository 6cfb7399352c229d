SPECIFICATION Spec
CONSTANTS
  Base <- MCBase
  Radices <- MCBase
  NoConfig = NoConfig
  Prime = 20161
  Generator = 13
  IntWidth = 8
  AbLayout <- MCRowLayout
  RowLayout <- MCRowLayout
  AcLayout <- MCAcLayout
  Builds <- MCBuilds
  Created <- MCCreated
  BatchesOf <- MCBatchesOf
  Settings <- MCSettings
  Preferences <- MCPreferences
  Places <- MCPlaces
  MemorySize = 60
  MaxSetters = 2
  FftLengths = {1, 2, 4, 5, 8, 10}
  R2rLengths = {1, 2, 4, 5}
  BatchLengths = {4, 5}
INVARIANTS
  TypeOK
  PlansServeTheirConfig
  PlansFindTheirKernels
  TransformsAreExact
  OnlyOutputsChange
