SPECIFICATION Spec
CONSTANTS
  NumFrames = 4
  Configs <- OneBatchSize
  MaxStep = 5
  MaxRuns = 3
  Absent = Absent
INVARIANTS
  SampleExact
  ProgressKept
  NoPoisonedCheckpoint
  NeverStarved
CHECK_DEADLOCK FALSE
