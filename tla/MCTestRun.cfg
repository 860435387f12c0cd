SPECIFICATION FairSpec
CONSTANTS
  MaxIterations = 2
  Faults = TRUE
  Tests = 2
  MaxInterrupts = 2
INVARIANTS
  TypeOK
  LedgerCoversCaptures
  SuccessIsComplete
  OneRecordPerTest
  PreExecutionLeavesNothing
  SettledIsReleased
PROPERTIES
  NoIterationAfterAbort
  EveryRunSettles
CHECK_DEADLOCK FALSE
