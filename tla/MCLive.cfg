SPECIFICATION LiveSpec
CONSTANTS
  MaxPush = 5
  FnKinds = {"note", "throw"}
  StopKinds = {FALSE, TRUE}
INVARIANTS
  NoLostWakeup
  InOrderNoLoss
  MeanwhileHonest
PROPERTIES
  StopCloses
  ConnectionSettles
  LoopProgress
  EverythingEnds
CHECK_DEADLOCK FALSE
