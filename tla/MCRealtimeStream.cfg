SPECIFICATION FairSpec
CONSTANTS
  Topics = {"trackFreshness", "asset"}
  Views = {"tracks", "assets"}
  BufferSize = 1
  MaxCommits = 2
  MaxDrops = 1
  MaxReplays = 1
  MaxFails = 1
CHECK_DEADLOCK FALSE
INVARIANTS
  StaleIsExplained
PROPERTIES
  ChangeIsShown
