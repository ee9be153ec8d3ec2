SPECIFICATION SSpec
CONSTANTS
  PartNum = 1
  Sect = {0, 1}
  Val = {0, 1}
  Blank = 0
  MainFirst <- MCMain
  CaliMode = TRUE
  Spurious = FALSE
  Faults = {}
  Crashes = FALSE
  MaxCommits = 0
  Requests <- MCSplit
  MaxGrp = 0
  ChanMax = 1
  PacketItems = 2
  Lossy = FALSE
INVARIANTS
  SplitTokenCompletes
CHECK_DEADLOCK FALSE
