SPECIFICATION Spec
CONSTANTS
  s1 = s1
  s2 = s2
  Nothing = Nothing
  Screens <- MCScreens
  Asks <- MCAsks
  MaxCalls <- MCMaxCalls
  MaxPolls <- MCMaxPolls
INVARIANTS TypeOK AnswersAreTrue CaptureIsHonest
