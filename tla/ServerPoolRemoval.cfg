SPECIFICATION Spec
CONSTANTS
  Hosts = {"a", "b"}
  Configured = {"a", "b"}
  MRA = 1
  NeverGiveUp = FALSE
  Randomize = FALSE
  Handler = FALSE
  WaitOnFirst = FALSE
  Aborts = FALSE
  MaxInfos = 0
  MaxSets = 1
INVARIANT OnlyFailedRemoved
CHECK_DEADLOCK FALSE
