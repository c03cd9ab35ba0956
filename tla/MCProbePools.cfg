CONSTANTS
  Replica = {r1, r2}
  Capacity = 3
  Ttl = 6
  ReuseBudget = 2
  QNum = 84
  QDen = 100
  Instant = {0, 1, 2, 3, 4, 5, 6, 7}
  RifReading = {0, 3}
  LatencyReading = {2, 6}
SPECIFICATION PoolsSpec
SYMMETRY Interchangeable
INVARIANTS AuditTypeOK PoolBounded NeverAllHot OverloadedReplicaIsHot CompensationCoversReuse RetentionBounded DriftBounded VecTypeOK
PROPERTIES ImplementsProbePool
