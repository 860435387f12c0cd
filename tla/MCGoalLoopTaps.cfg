SPECIFICATION Spec
CONSTANTS
  MaxIterations = 1
  MaxRepeat = 2
INVARIANT
  TapsDelivered
CHECK_DEADLOCK FALSE
