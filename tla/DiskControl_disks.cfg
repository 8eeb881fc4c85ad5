CONSTANTS
  game1 = game1
  game2 = game2
  user = user
  Images = {game1, game2, user}
  Playlist <- TwoDisks
  Single = game1
  Appendable = {user}
  Missing = {game2}
  MAXDISKS = 3
  Kinds = {"m3u", "dsk"}
  Modes = {"never", "immediate", "close", "sram"}
  phantom_disk = TRUE
  fps = 3
  Reselects = FALSE
  SavesWhile = {"m3u"}
  MaxWrites = 3
SPECIFICATION FairSpec
INVARIANTS TypeOK NothingLost StoredInPlace
PROPERTIES ContentIntact FlushedSoon
CHECK_DEADLOCK FALSE
