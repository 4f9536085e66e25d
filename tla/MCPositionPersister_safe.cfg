SPECIFICATION Spec
CONSTANTS
  s1 = s1
  s2 = s2
  p1 = p1
  p2 = p2
  Sat = {s1, s2}
  Partition = {p1, p2}
  PartitionOf <- Apart
  Epoch = {1, 2}
  Nameless = {1}
  Kind = {"sample", "alien"}
  Disruption = {"flush", "crash", "redis", "registry"}
  FlushRows = 2
  TrackMax = 2
  MaxLog = 2
  MaxDisruptions = 1
INVARIANTS
  CommittedAccounted
  CommittedIsCatalogued
  HotIsDurable
  BufferBound
PROPERTIES
  CommitNeverRegresses
