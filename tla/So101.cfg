SPECIFICATION CliFairSpec
CONSTANTS
  NumServos = 2
  Positions = {4000}
  Calibrations <- MCCalibrations
INVARIANTS
  FlagIsTruthWhenClean
  SuccessMeansReleased
PROPERTIES
  FlagMeansAllServos
  NoGoalBeforeTorque
  EveryCommandEnds
