SPECIFICATION FairSpec
CONSTANTS
  Callers = {c1, c2, c3}
  Keys = {d1, d2}
  RangeStart = 1
  RangeEnd = 3
INVARIANTS
  TypeOK
  PoolConsistent
  NoSpuriousExhaustion
PROPERTIES
  CallsReturn
  ImplementsAssignment
