CONSTANTS
  RingCapacity = 3
  MaxAge = 1
  Near = 2
  Tag = {1, 2, 4}
  Duration = {4, 6, 10}
  Moment = {0, 1, 2, 3}
  ProbeRif = {0, 1, 3, 5}
  Cost = {2}
SPECIFICATION RingSpec
INVARIANTS UniformHistoryIsReported
