SPECIFICATION Spec
CONSTANTS
  Clients = {c1, c2}
SYMMETRY Perms
INVARIANTS
  AnswersHonest
  ScansComplete
  WatchConverges
  ObjectsWhole
  WritesReach
PROPERTIES
  Conditional
CHECK_DEADLOCK FALSE
