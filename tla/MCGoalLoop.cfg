SPECIFICATION FairSpec
CONSTANTS
  MaxIterations = 3
  MaxRepeat = 2
INVARIANTS
  TypeOK
  OneStepPerIteration
  PlannedOnFreshScreen
  RepeatedCaptureFailureEnds
  HistoryIsWhatHappened
PROPERTIES
  NothingAfterRefusal
  ImplementsOutcome
CHECK_DEADLOCK FALSE
