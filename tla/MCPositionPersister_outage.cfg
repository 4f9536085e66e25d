SPECIFICATION Spec
CONSTANTS
  s1 = s1
  s2 = s2
  p1 = p1
  p2 = p2
  Sat = {s1, s2}
  Partition = {p1}
  PartitionOf <- Together
  Epoch = {1}
  Nameless = {}
  Kind = {"sample"}
  Disruption = {"registry"}
  FlushRows = 2
  TrackMax = 2
  MaxLog = 2
  MaxDisruptions = 0
INVARIANTS
  CommittedIsDurable
