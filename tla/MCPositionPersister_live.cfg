SPECIFICATION FairSpec
CONSTANTS
  s1 = s1
  s2 = s2
  p1 = p1
  p2 = p2
  Sat = {s1, s2}
  Partition = {p1, p2}
  PartitionOf <- Apart
  Epoch = {1}
  Nameless = {}
  Kind = {"sample", "garbled"}
  Disruption = {"signal", "fetch", "flush", "crash"}
  FlushRows = 2
  TrackMax = 2
  MaxLog = 2
  MaxDisruptions = 1
INVARIANTS
  CommittedIsDurable
PROPERTIES
  ImplementsAtLeastOnce
  EverySampleDelivered
  StopEnds
  HotConverges
