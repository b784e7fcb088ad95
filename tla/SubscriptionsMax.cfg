SPECIFICATION Spec
CONSTANTS
  Subs = {s1}
  Iterators = {}
  Timed = {}
  Maxes = {0, 1}
  Operations = {"unsubscribe"}
  CanDeny = FALSE
  MaxSid = 1
  MaxMsgs = 1
  MaxQueue = 2
  MaxConns = 2
  s1 = s1
INVARIANT StoppedAtMax
CHECK_DEADLOCK FALSE
