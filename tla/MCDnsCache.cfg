SPECIFICATION Spec
CONSTANTS
  k1 = k1
  k2 = k2
  c1 = c1
  c2 = c2
  Cleaner = Cleaner
  Keys <- MCKeys
  Callers = {c1, c2}
  Capacity = 1
  MinTTL = 2
  DefaultTTL = 4
  RecordCap = 5
  TopTTL = 9
  TTLChoices = {0, 1, 2}
  TTLsOf <- MCTTLsOf
  MaxClock = 3
  MaxCalls = 4
  MaxReloads = 1
INVARIANTS
  CountIsExact
  PurgeForgets
  LifeIsBounded
PROPERTIES
  SweepIsComplete
CHECK_DEADLOCK FALSE
