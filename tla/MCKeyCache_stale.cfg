SPECIFICATION Spec
CONSTANTS
  l1 = l1
  l2 = l2
  a = a
  k1 = k1
  Lookup = {l1, l2}
  Process = {a}
  ProcessOf <- TwoInOne
  Key = {k1}
  Rate = {1}
  Ttl = 2
  MaxClock = 3
INVARIANTS
  AnswersAreRecent
