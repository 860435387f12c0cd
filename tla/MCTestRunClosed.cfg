SPECIFICATION Spec
CONSTANTS
  MaxIterations = 2
  Faults = TRUE
  Tests = 2
  MaxInterrupts = 2
INVARIANTS
  SessionClosed
CHECK_DEADLOCK FALSE
