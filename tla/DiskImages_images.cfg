CONSTANTS
  boot720 = boot720
  boot640 = boot640
  boot360 = boot360
  boot320 = boot320
  format1 = format1
  format2 = format2
  table1 = table1
  table2 = table2
  typed = typed
  u1 = u1
  u2 = u2
  u3 = u3
  u4 = u4
  u5 = u5
  Zero = Zero
  Filled = Filled
  NewBoot = NewBoot
  DSK_FAT_SIZE = 6
  DSK_DIR_SIZE = 4
  DSK_CLUSTER_SIZE = 8
  NameLen = 2
  ExtLen = 1
  toupper <- Capitals
  Formats <- MCFormats
  FewTracks = 1
  SectorCounts = {3, 4, 5, 6}
  Boots <- MCBoots
  Info <- MCInfo
  Games <- MCGames
  Places <- MCPlaces
  Linears = {0, 3}
  Fresh = {typed}
SPECIFICATION Spec
INVARIANTS TypeOK CleanReloads FilesOnDisk
