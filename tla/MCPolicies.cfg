CONSTANTS
  FleetSizes = {2, 3}
  BudgetSizes = {2, 3, 6, 9, 100}
  Po2Query = {q1}
  Load = {0, 1, 2}
  Period = 2
  ProbeTimeout = 1
  CpuReading = {50}
  Clock = {0, 1, 2, 3, 4, 5, 6, 7, 8}
  MaxBudget = 1000
  CounterSize = 8
  Capacities = {0, 2, 3, 4, 5, 16, 100}
  Rates = {1, 2, 3, 4}
  Removals = {0, 1, 2}
  Deltas = {0, 1, 2}
  MaxPicks = 20
SPECIFICATION AuditPoliciesSpec
CHECK_DEADLOCK FALSE
INVARIANTS PoliciesTypeOK BudgetFitsPool SharesStayEven NeverTheBusier AnsweringWeightsAreFresh
PROPERTIES Po2AlwaysChooses
