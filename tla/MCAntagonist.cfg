CONSTANTS
  RateNum = 1
  RateDen = 2
  Period = 2
  Phase = 1
  Second = 6
  Threshold = 2
  MaxBurst = 3
  MaxDeficit = 5
  Nap = 1
  Clock = {0, 1, 2, 3, 4, 5, 6, 7, 8, 9, 10, 11, 12, 13, 14, 15, 16, 17, 18, 19, 20, 21, 22, 23, 24, 25, 26, 27, 28, 29, 30}
SPECIFICATION AuditAntagonistSpec
CHECK_DEADLOCK FALSE
INVARIANTS AntagonistTypeOK BacklogIsCapped BurnWithinRate
