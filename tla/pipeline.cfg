SPECIFICATION Spec
CONSTANTS
  api = api
  web = web
  Components = {api, web}
  Configs <- GrowingConfigs
  Users = {owner}
  Owner = owner
  Artifacts = {a1, a2}
  None = None
  MaxRuns = 3
  MaxRevision = 2
SYMMETRY ArtifactSymmetry
CONSTRAINT GrowingOrLasting
INVARIANTS
  TypeOK
  NoDuplicateJob
  DependenciesFirst
  TruthfulOutcome
  OneWriterPerTarget
  ArtifactProvenance
  ReplacesLastRelease
PROPERTIES
  EndedIsFinal
  RecoveryNeedsOwner
CHECK_DEADLOCK FALSE
