CONSTANTS
  Modes = {0, 5}
  PPL <- SmallPPL
  PPB <- SmallPPB
  Rows <- SmallRows
  Columns = 8
  Lines = 3
  Slice = 3
  Deltas = {2}
  Args <- SomeArgs
  LateArgs <- OtherArgs
  Ops = {"LMMM", "LMCM", "HMMC", "YMMM", "LINE", "SRCH", "ABRT"}
  SavedStates <- Busy
SPECIFICATION FairSpec
INVARIANTS TypeOK CommandsInStep
PROPERTIES RegistersContinue CommandsEnd
