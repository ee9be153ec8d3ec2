SPECIFICATION FairSpec
CONSTANTS
  c1 = c1
  c2 = c2
  c3 = c3
  Self = Self
  User <- MCUser
  Conn <- MCConn
  Requests <- MCReset
  ResetModes = {TRUE}
  Bounds <- OneFault
PROPERTY AssertGetsReset
CHECK_DEADLOCK FALSE
