SPECIFICATION Spec
CONSTANTS
  MaxIterations = 2
  Faults = FALSE
  Tests = 2
  MaxInterrupts = 2
INVARIANTS
  CapturesReleased
  RunIsReported
  SessionClosed
CHECK_DEADLOCK FALSE
