SPECIFICATION Spec
CONSTANTS
  NumFrames = 5
  Episode <- MCEpisode
  Configs <- MCConfigs
  Absent = Absent
INVARIANTS
  RolloutActionsExact
  SelectedActionsExact
  EnsemblerAccepts
