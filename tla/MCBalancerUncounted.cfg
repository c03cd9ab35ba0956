CONSTANTS
  Query = {q1, q2, q3}
  Replica = {r1, r2}
  RProbe = 2
  Nowhere = Nowhere
  Capacity = 2
  Ttl = 3
  ReuseBudget = 1
  QNum = 84
  QDen = 100
  Instant = {0, 1, 2, 3, 4}
  RifReading = {0}
  LatencyReading = {2}
SPECIFICATION AuditBalancerSpec
CHECK_DEADLOCK FALSE
PROPERTIES DispatchesAreCounted
