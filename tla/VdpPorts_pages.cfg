CONSTANTS
  Pages = 12
  PageSize = 2
  Bytes = {0, 1}
  NoRAM = 0
  LowBytes = {0, 35}
  HighBytes = {0}
  Regs <- MCRegs
  Values <- MCValues
  Colours = {7}
  SavedStates <- MCSavedStates
SPECIFICATION Spec
CONSTRAINT OneAtATime
INVARIANTS PageInMemory
