CONSTANTS
  RamSegs = 4
  RomPages = 8
  Programs <- SRAMProgram
  MSX1 = TRUE
  MegaRAM = TRUE
  ABFirst = {0}
SPECIFICATION Spec
INVARIANT StoresInBuffers
CHECK_DEADLOCK FALSE
