SPECIFICATION QuerySpec
CONSTANTS
  s1 = s1
  s2 = s2
  p1 = p1
  Sat = {s1, s2}
  Partition = {p1}
  PartitionOf <- Together
  Epoch = {1}
  Nameless = {}
  Kind = {"sample"}
  Disruption = {"signal", "fetch", "redis"}
  FlushRows = 2
  TrackMax = 2
  MaxLog = 4
  MaxDisruptions = 1
  RowLimit = 3
  ActiveLimit = 2
INVARIANTS
  TrackNewestFirst
  TrackHasNoGaps
  PositionNotOlder
PROPERTIES
  ScoreNeverRegresses
