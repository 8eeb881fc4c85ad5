CONSTANTS
  Videos = {"N192", "N212", "P212"}
  Border <- MCBorder
  VBlankLine <- MCVBlankLine
  CoincEnd <- MCCoincEnd
  LastLine <- MCLastLine
  PowerOnVideo = "N192"
  ExitLine = 1
  Ring = 6
  HPeriod = 8
  HRefreshes = {4}
  VPeriods = {56}
  HLines = {0, 3}
  Cycles <- MCCycles
  SavedStates <- MCSavedStates
SPECIFICATION FairSpec
INVARIANTS TypeOK LineFollowsFlags CyclesKept OneVBlank
PROPERTIES EIDelay HaltEnds
