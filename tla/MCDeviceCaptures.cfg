SPECIFICATION FairSpec
CONSTANTS
  t1 = t1
  t2 = t2
  Tests = {t1, t2}
  Plans <- MCPlans
  NoTest = none
  Faults = TRUE
INVARIANTS
  TypeOK
  NoChildRunsUnreachable
PROPERTIES
  LogStreamsAreFinalised
  CloseLeavesNothing
  EveryCallReturns
