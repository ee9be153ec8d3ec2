SPECIFICATION FairSpec
CONSTANTS
  c1 = c1
  c2 = c2
  c3 = c3
  Self = Self
  User <- MCUser3
  Conn <- MCConn3
  Requests <- MCThree
  ResetModes = {TRUE}
  Bounds <- FiveRequests
INVARIANT KeepsUsersUp
CHECK_DEADLOCK FALSE
