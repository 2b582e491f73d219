SPECIFICATION FairSpec
CONSTANTS
  api = api
  Components = {api}
  Configs <- SingleConfigs
  Users = {owner}
  Owner = owner
  Artifacts = {a1}
  None = None
  MaxRuns = 1
  MaxRevision = 1
  MaxStops = 0
  StickyLock = FALSE
PROPERTIES
  ReceiptsAcknowledged
CHECK_DEADLOCK FALSE
