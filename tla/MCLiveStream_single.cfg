SPECIFICATION Spec
CONSTANTS
  w1 = w1
  w2 = w2
  NoSocket = NoSocket
  Build = {"production"}
  Socket = {w1, w2}
  MaxVisits = 2
  MaxFaults = 1
INVARIANTS
  SingleSocket
CHECK_DEADLOCK FALSE
