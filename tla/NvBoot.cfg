SPECIFICATION BootSpec
CONSTANTS
  PartNum = 2
  Sect = {0}
  Val = {0, 1}
  Blank = 0
  MainFirst <- MCMixed
  CaliMode = FALSE
  Spurious = TRUE
  Faults = {}
  Crashes = TRUE
  MaxCommits = 1
INVARIANTS
  BTypeOK
  OneGoodImage
  LossBounded
PROPERTIES
  NoRollback
  TrafficSaves
  SameNv
  LostOnlyOverStaleMain
