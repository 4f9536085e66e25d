SPECIFICATION Spec
CONSTANTS
  c1 = c1
  c2 = c2
  r1 = r1
  Cell = {c1, c2}
  Client = {r1}
  Limit = 1
  WindowSeconds = 2
  WindowTTL = 2
  MaxSats = 2
  MaxTime = 5
  MaxFaults = 2
SYMMETRY Symmetry
INVARIANTS
  AnswerIsFresh
  NamedWindowHasCells
CHECK_DEADLOCK FALSE
