SPECIFICATION FairSpec
CONSTANTS
  Services = {s1}
  Strangers = {}
  None = None
  MayTear = TRUE
  FirstPlan = 0
  MaxJobs = 2
  MaxEdits = 0
  MaxKills = 1
PROPERTIES
  JobsEnd
CHECK_DEADLOCK FALSE
