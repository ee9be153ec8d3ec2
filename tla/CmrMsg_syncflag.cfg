SPECIFICATION Spec
CONSTANTS
  Count = 2
  p1 = p1
  p2 = p2
  Poster = {p1, p2}
  Owner = owner
  Flags = {"none", "processed"}
  MaxSem = 2
PROPERTIES
  SyncFlagHonoured
