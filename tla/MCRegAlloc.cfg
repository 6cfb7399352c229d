SPECIFICATION Spec
CONSTANTS
  NumRegs = 3
  Preserved = {3}
  Gap = 4096
  Programs <- MCPrograms
INVARIANTS
  TypeOK
  ReadsTheSourceValues
  PreservesRegisters
  LiveTogetherApart
  LiveSetsAreExact
  PositionsSuffice
