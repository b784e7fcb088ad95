SPECIFICATION Spec
CONSTANTS
  Modes = {"ordered"}
  LastSeq = 2
  MaxMessages = 2
  Threshold = 1
  GiveUp = 2
  DeletesLost = FALSE
  MaxSerial = 5
  MaxQueue = 1
  MaxFaults = 3
PROPERTY AlwaysInOrder
CHECK_DEADLOCK FALSE
