SPECIFICATION FairSpec
CONSTANTS
  p1 = p1
  p2 = p2
  p3 = p3
  Packets <- MCPacketSet
  Traffic <- MCTraffic
  Blocked = {p2}
  QueueCap = 1
  TTL = 2
  Refresh = 1
  MaxClock = 3
  MaxReloads = 1
INVARIANTS
  OneCopy
  LossIsExplained
  ReauditNeedsOverlap
PROPERTY
  PacketsAreSettled
CHECK_DEADLOCK FALSE
