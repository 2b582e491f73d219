SPECIFICATION FairSpec
CONSTANTS
  api = api
  Components = {api}
  Configs <- SingleConfigs
  Users = {owner}
  Owner = owner
  Artifacts = {a1}
  None = None
  MaxRuns = 1
  MaxRevision = 1
  MaxStops = 1
  StickyLock = FALSE
PROPERTIES
  WorkerComesBack
CHECK_DEADLOCK FALSE
