SPECIFICATION FairSpec
CONSTANTS
  None = None
  o1 = o1
  Observer = {o1}
  Elevation <- Degrees
  DetailLife = 2
  MaxCrashes = 1
INVARIANTS
  TypeOK
  DenseIsExact
PROPERTIES
  CulminationIsPeak
  PolledIsObserved
