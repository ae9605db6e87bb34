SPECIFICATION ReaderSpec
CONSTANTS
  Absent = Absent
  Failed = Failed
  Disks <- MCDisks
  Rewrites <- MCRewrites
  MaxRewrites = 1
  Selections <- MCSelections
  Chunks = {1, 8}
  Drops = {0, 1}
  Tolerance = 1
  MaxWidth = 8
  MaxExtent = 4
  MaxFiles = 2
  MaxRows = 6
  MaxValues = 48
INVARIANTS
  EveryFrameOwned
  WindowsStayInEpisode
  SamplerServesSelection
PROPERTIES
  FailuresExplained
CHECK_DEADLOCK FALSE
