SPECIFICATION BootSpec
CONSTANTS
  PartNum = 1
  Sect = {0, 1}
  Val = {0, 1}
  Blank = 0
  MainFirst <- MCMain
  CaliMode = TRUE
  Spurious = FALSE
  Faults = {"open", "write", "decay"}
  Crashes = TRUE
  MaxCommits = 2
INVARIANTS
  WholeCommits
  CaliSynchronous
