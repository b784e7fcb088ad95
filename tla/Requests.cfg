SPECIFICATION Spec
CONSTANTS
  Ones = {o1}
  Manys = {m1}
  Unbounded = {}
  FirstTimeout = {m1}
  Stalls = {m1}
  Count = 2
  MaxResponses = 3
  MaxInboxes = 2
  MaxConns = 2
  o1 = o1
  m1 = m1
INVARIANT NoneForgotten
PROPERTY RepliesReachTheirs
CHECK_DEADLOCK FALSE
