CONSTANTS
  Query = {q1, q2, q3}
  Replica = {r1, r2}
  Deadline = 1
  Timeout = 2
  Grace = 4
  SelectLimit = 1
  Lateness = 1
  Clock = {0, 1, 2, 3, 4, 5, 6, 7, 8, 9}
SPECIFICATION ClientSpec
SYMMETRY Interchangeable
CHECK_DEADLOCK FALSE
INVARIANTS ClientTypeOK CountsAgree ReportIsComplete
