CONSTANTS
  Replica = {r1, r2}
  Capacity = 3
  Ttl = 4
  ReuseBudget = 2
  QNum = 84
  QDen = 100
  Instant = {0, 1, 2, 3, 4}
  RifReading = {0, 1, 2}
  LatencyReading = {2, 6}
SPECIFICATION AuditSpec
PROPERTIES PickedReplicaIsCold
