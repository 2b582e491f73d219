SPECIFICATION Spec
CONSTANTS
  api = api
  web = web
  Components = {api, web}
  Configs <- NativeConfigs
  Users = {owner, dev}
  Owner = owner
  Artifacts = {a1}
  None = None
  MaxRuns = 1
  MaxRevision = 1
INVARIANTS
  InterruptedBuildClosable
CHECK_DEADLOCK FALSE
