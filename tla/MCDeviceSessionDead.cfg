SPECIFICATION Spec
CONSTANTS
  MaxOps <- MCMaxOps
  a1 = a1
  p1 = p1
  s1 = s1
  Avds = {a1}
  Phones = {p1}
  Sims = {s1}
PROPERTY DeadDriverIsRestarted
