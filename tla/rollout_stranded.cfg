SPECIFICATION FairSpec
CONSTANTS
  api = api
  Components = {api}
  Configs <- SingleConfigs
  Users = {owner}
  Owner = owner
  Artifacts = {a1, a2}
  None = None
  MaxRuns = 2
  MaxRevision = 1
  MaxStops = 1
  StickyLock = TRUE
PROPERTIES
  TargetsAreDestinations
  InterruptedRequiresRecovery
  RunsEnd
CHECK_DEADLOCK FALSE
