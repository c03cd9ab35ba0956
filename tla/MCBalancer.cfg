CONSTANTS
  Query = {q1, q2, q3}
  Replica = {r1, r2}
  RProbe = 2
  Nowhere = Nowhere
  Capacity = 2
  Ttl = 3
  ReuseBudget = 2
  QNum = 100
  QDen = 100
  Instant = {0, 1, 2, 3, 4}
  RifReading = {0}
  LatencyReading = {0}
SPECIFICATION AuditBalancerSpec
SYMMETRY Interchangeable
CHECK_DEADLOCK FALSE
INVARIANTS CompensationIsExact WinsWithinBudget DecisionsCostProbes
