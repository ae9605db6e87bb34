SPECIFICATION Spec
CONSTANTS
  p1 = p1
  p2 = p2
  d1 = d1
  d2 = d2
  info = info
  extra = extra
  video = video
  v1 = v1
  v2 = v2
  Files = {info, extra, video}
  Required = {info}
  Videos = {video}
  Trees <- MCTrees
  MaxFiles = 3
  Absent = Absent
  Foreign = Foreign
  Processes = {p1, p2}
  StagingIds = {d1, d2}
  Versions = {v1, v2}
SYMMETRY HubSymmetry
INVARIANTS
  OkMeansComplete
  NoLitter
PROPERTIES
  RootKept
  PublishedWhole
  EveryStepAdvances
