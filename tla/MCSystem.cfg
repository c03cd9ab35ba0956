CONSTANTS
  Query = {q1, q2}
  Foreign = {f}
  Replica = {r1, r2}
  RProbe = 1
  ProbeTimeout = 1
  Nowhere = Nowhere
  Capacity = 2
  Ttl = 2
  ReuseBudget = 1
  QNum = 84
  QDen = 100
  Instant = {0, 1, 2, 3}
  RifReading = {0, 1, 2, 3}
  LatencyReading = {2}
SPECIFICATION SystemSpec
CHECK_DEADLOCK FALSE
INVARIANTS SystemTypeOK PooledRifCountsOnce
PROPERTIES DecisionsRestOnRecentReads LoadDrains
