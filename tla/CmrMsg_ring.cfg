SPECIFICATION Spec
CONSTANTS
  Count = 3
  p1 = p1
  p2 = p2
  Poster = {p1, p2}
  Owner = owner
  Flags = {"none", "processed"}
  MaxSem = 2
SYMMETRY Symmetry
INVARIANTS
  TypeOK
  RingOK
  SlotHeld
PROPERTIES
  QueueSpec
