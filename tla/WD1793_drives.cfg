CONSTANTS
  Drives = {0, 1}
  MAXDRIVES = 2
  Selects <- MCSelects
  Disks = {2}
  Tracks = 1
  Sectors = 2
  SecSize = 2
  HeaderSize = 1
  Watchdog = 1
  RegSize = 3
  Heads = 2
  WildLengths <- MCWildLengths
  Commands <- MCCommands
  Values = {1}
SPECIFICATION FairSpec
INVARIANTS TypeOK ControllerInStep WritesAreFlushed
PROPERTIES TransfersSectors BusyEnds
CHECK_DEADLOCK FALSE
