SPECIFICATION Spec
INVARIANTS
  PromisesKept
PROPERTIES
  DeliveredInOrder
  NeverStalled
  CatchesUp
CHECK_DEADLOCK FALSE
