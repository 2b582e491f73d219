SPECIFICATION Spec
CONSTANTS
  Page = "local"
  MaxConfirmed = 2
  MaxSends = 3
  MaxLoads = 0
INVARIANTS
  OnceConfirmed
CHECK_DEADLOCK FALSE
