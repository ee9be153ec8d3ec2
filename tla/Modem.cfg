SPECIFICATION FairSpec
CONSTANTS
  Bounds <- MCBounds
  Shutdowns = {TRUE, FALSE}
  Resets = {TRUE, FALSE}
INVARIANTS
  TypeOK
  NvQuiet
PROPERTIES
  LiveUntouched
  AliveServed
  DeadStops
CHECK_DEADLOCK FALSE
