SPECIFICATION FairSpec
CONSTANTS
  w1 = w1
  w2 = w2
  NoSocket = NoSocket
  Build = {"production", "development"}
  Socket = {w1, w2}
  MaxVisits = 3
  MaxFaults = 2
INVARIANTS
  NeverGivesUp
  OnePerEffect
  ConnectedIsTrue
PROPERTIES
  Reconnects
CHECK_DEADLOCK FALSE
