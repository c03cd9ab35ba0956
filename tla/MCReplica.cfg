CONSTANTS
  Request = {q1, q2, q3}
  Burner = burner
  Slots = 1
  RingCapacity = 1
  MaxAge = 1
  Near = 1
  Tag = {1, 2, 3}
  Duration = {1}
  Moment = {0, 1}
SPECIFICATION ReplicaProbeSpec
INVARIANTS ReplicaTypeOK SlotsAreConserved WorkConserving AntagonistPassesOnce NoQueryUnseen
PROPERTIES EveryRequestLeaves ReportsInFlight
