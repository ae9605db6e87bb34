SPECIFICATION Spec
CONSTANTS
  NumFrames = 4
  Configs <- UnevenBatches
  MaxStep = 4
  MaxRuns = 2
  Absent = Absent
INVARIANT
  SampleExact
CHECK_DEADLOCK FALSE
