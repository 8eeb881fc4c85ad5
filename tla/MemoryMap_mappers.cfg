CONSTANTS
  RamSegs = 4
  RomPages = 8
  Programs <- MCPrograms
  MSX1 = TRUE
  MegaRAM = TRUE
  ABFirst = {0}
SPECIFICATION Spec
INVARIANTS TypeOK WindowsShowSlots RAMWritable BanksHonest
PROPERTY LoadRestoresView
CHECK_DEADLOCK FALSE
