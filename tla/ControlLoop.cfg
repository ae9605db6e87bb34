SPECIFICATION LoopSpec
CONSTANTS
  Threads = {t1, t2}
  Nothing = Nothing
  Capacities <- MCCapacities
  Costs = {0, 1, 2, 3}
  MaxAppends = 7
  Multipliers = {1, 2, 3, 5}
  Widths = {0, 1, 2, 3}
  MaxSteps = 4
  MaxElements = 8
  MaxAdds = 4
  None = None
  BusServos = 2
  MaxLoops = 2
  MaxFaults = 2
  MaxLength = 5
  NoPacket = NoPacket
INVARIANTS
  PendingMeansWhatItMeant
  DriftBounded
  NothingStale
  AnswersAreFresh
PROPERTIES
  AppliedOnceAsAsked
  Continuous
CHECK_DEADLOCK FALSE
