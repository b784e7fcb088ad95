SPECIFICATION Spec
CONSTANTS
  Subs = {s1, s2}
  Iterators = {s2}
  Timed = {s1}
  Maxes = {0, 1, 2}
  Operations = {"unsubscribe", "drain", "resub"}
  CanDeny = TRUE
  MaxSid = 2
  MaxMsgs = 2
  MaxQueue = 1
  MaxConns = 2
  s1 = s1
  s2 = s2
INVARIANT RightOwner ServerAgrees MaxKept TimeoutHonest
CHECK_DEADLOCK FALSE
