SPECIFICATION IngestSpec
CONSTANTS
  w = w
  a = a
  b = b
  c = c
  Sat = {w, a, b, c}
  Catalogue <- Catalogues
  Watchlist = {w}
  TickSeconds = 1
  CadenceSeconds = 2
  FetchInterval = 2
  InflightCap = 2
  QueueCap = 2
  MaxTime = 6
  MaxFaults = 1
INVARIANTS
  ThrottledFileIsWhole
  ElementsAreRecent
  EachInTurn
  TopicInOrder
  AcceptedIsKept
PROPERTIES
  FetchesAreSpaced
CHECK_DEADLOCK FALSE
