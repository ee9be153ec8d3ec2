SPECIFICATION FairSpec
CONSTANTS
  Count = 2
  p1 = p1
  p2 = p2
  Poster = {p1, p2}
  Owner = owner
  Flags = {"none", "received", "processed"}
  MaxSem = 1
INVARIANTS
  NoOrphan
PROPERTIES
  HonouredInTime
  CallsReturn
