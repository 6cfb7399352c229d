SPECIFICATION Spec
CONSTANTS
  NumRegs = 3
  Preserved = {3}
  Gap = 4096
  Programs <- CallPrograms
INVARIANT ReadsTheSourceValues
