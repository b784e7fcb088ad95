SPECIFICATION FairSpec
CONSTANTS
  Modes = {"consume", "bound", "abort", "fetch", "ordered", "orderedFetch"}
  LastSeq = 2
  MaxMessages = 2
  Threshold = 1
  GiveUp = 2
  DeletesLost = TRUE
  MaxSerial = 6
  MaxQueue = 2
  MaxFaults = 2
INVARIANTS AsksWhatFits NeverDeaf
PROPERTIES InOrder Progress
CHECK_DEADLOCK FALSE
