SPECIFICATION Spec
CONSTANTS
  r1 = r1
  r2 = r2
  a = a
  b = b
  Request = {r1, r2}
  Process = {a, b}
  ProcessOf <- OneEach
  Capacity = {1, 2}
  MinCapacity = 1
  MaxCapacity = 2
  Minute = 3
  Second = 2
  Expiry = 4
  Latency = 1
  MaxClock = 4
  MaxRestarts = 1
INVARIANTS
  ConformsInVirtualTime
  RefusesOnlyExcess
  PatientIsAllowed
