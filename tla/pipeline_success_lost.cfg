SPECIFICATION FairSpec
CONSTANTS
  api = api
  web = web
  Components = {api, web}
  Configs <- PairConfigs
  Users = {owner}
  Owner = owner
  Artifacts = {a1}
  None = None
  MaxRuns = 1
  MaxRevision = 1
PROPERTIES
  SuccessIsRecorded
CHECK_DEADLOCK FALSE
