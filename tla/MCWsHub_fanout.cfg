SPECIFICATION FairSpec
CONSTANTS
  c1 = c1
  s1 = s1
  s2 = s2
  Client = {c1}
  Topic = {"passes", "alerts"}
  Sat = {s1, s2}
  Request <- TwoRequests
  QueueMax = 2
  PassMax = 1
  PingEvery = 1
  MaxIdle = 0
  RedisMayFail = TRUE
  MaxFrames = 2
  MaxTexts = 2
INVARIANTS
  TypeOK
  InOrder
  LossIsCounted
  AnsweredSubscriptionHolds
  SentPassIsCached
PROPERTIES
  SilentClientLeaves
CHECK_DEADLOCK FALSE
