SPECIFICATION Spec
CONSTANTS
  api = api
  Components = {api}
  Configs <- SingleConfigs
  Users = {owner}
  Owner = owner
  Artifacts = {a1, a2}
  None = None
  MaxRuns = 2
  MaxRevision = 1
  MaxStops = 2
  StickyLock = FALSE
INVARIANTS
  TypeOK
  BeliefMatchesTarget
  UnlockedIsWhole
  NoChangeUnderEndedRun
CHECK_DEADLOCK FALSE
