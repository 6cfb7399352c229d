SPECIFICATION Spec
CONSTANTS
  Base <- MCBase
  Radices <- MCBase
  NoConfig = NoConfig
  Prime = 20161
  Generator = 13
  IntWidth = 5
  AbLayout <- MCRowLayout
  RowLayout <- MCRowLayout
  AcLayout <- MCAcLayout
  Builds <- MCBuilds
  Created <- MCCreated
  BatchesOf <- MCBatchesOf
  Settings <- MCSettings
  Preferences <- MCPreferences
  Places <- MCPlaces
  MemorySize = 60
  MaxSetters = 2
  FftLengths = {4}
  R2rLengths = {5, 36}
  BatchLengths = {}
INVARIANT
  PlansServeTheirConfig
