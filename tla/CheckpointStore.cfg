SPECIFICATION FairSpec
CONSTANTS
  w1 = w1
  w2 = w2
  d1 = d1
  d2 = d2
  Writers = {w1, w2}
  Steps = {1, 2}
  NumFiles = 2
  StagingIds = {d1, d2}
  MaxSessions = 2
  Absent = Absent
INVARIANTS
  PublishedWhole
  LastNamesPublished
  StagingOwned
  MarkerMissingExplained
PROPERTIES
  ImplementsCheckpointDir
  EverySaveEnds
CHECK_DEADLOCK FALSE
