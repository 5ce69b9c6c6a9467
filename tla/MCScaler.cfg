SPECIFICATION FairSpec
CONSTANTS
  MaxUes = 4
  NumUes = 2
  SpawnBatch = 1
  None = None
  MaxChanges = 3
INVARIANTS SettledMatches NoTaskLost
PROPERTIES ScalingEnds
CHECK_DEADLOCK FALSE
