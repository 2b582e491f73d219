SPECIFICATION Spec
CONSTANTS
  api = api
  Components = {api}
  Configs <- SingleConfigs
  Users = {owner}
  Owner = owner
  Artifacts = {a1, a2}
  None = None
  MaxRuns = 1
  MaxRevision = 1
  MaxStops = 0
  StickyLock = TRUE
INVARIANTS
  BeliefMatchesTarget
CHECK_DEADLOCK FALSE
