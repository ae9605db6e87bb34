SPECIFICATION RunSpec
CONSTANTS
  Datasets <- MCDatasets
  Files <- MCFiles
  Limits <- MCLimits
  Devices = {"cpu"}
  Commands <- MCCommands
  MaxNatural = 1000000
  MaxBatch = 16
  MaxSteps = 1000
  MaxCommands = 3
  LastIsLink = TRUE
  Absent = Absent
INVARIANTS
  StatsInSourceNamespace
CHECK_DEADLOCK FALSE
