SPECIFICATION FairSpec
CONSTANTS
  c1 = c1
  c2 = c2
  c3 = c3
  Self = Self
  User <- MCUser
  Conn <- MCConn
  Requests <- MCMixed
  ResetModes = {TRUE, FALSE}
  Bounds <- MCBounds
INVARIANTS
  TypeOK
  NeverWaitsInVain
  OpenMeansPowered
PROPERTIES
  RequestsAnswered
  DeadNoticed
CHECK_DEADLOCK FALSE
