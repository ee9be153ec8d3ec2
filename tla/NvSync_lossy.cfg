SPECIFICATION SSpec
CONSTANTS
  PartNum = 1
  Sect = {0, 1}
  Val = {0, 1}
  Blank = 0
  MainFirst <- MCMain
  CaliMode = FALSE
  Spurious = TRUE
  Faults = {}
  Crashes = TRUE
  MaxCommits = 2
  Requests <- MCRequests
  MaxGrp = 1
  ChanMax = 1
  PacketItems = 2
  Lossy = TRUE
INVARIANTS
  Coverage
  WholeCommits
  AckMeansCommitted
  Aligned
PROPERTIES
  CommitsWholeRequest
  StoreSpec
CHECK_DEADLOCK FALSE
