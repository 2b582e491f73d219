SPECIFICATION FairSpec
CONSTANTS
  api = api
  web = web
  r1 = r1
  r2 = r2
  r3 = r3
  d1 = d1
  d2 = d2
  f1 = f1
  f2 = f2
  a1 = a1
  torn = torn
  s1 = s1
  x1 = x1
  x2 = x2
  repo = repo
  drive = drive
  u1 = u1
  u2 = u2
  nobody = nobody
  t1 = t1
  t2 = t2
  None = None
  Actors = {a1, a2}
  DeviceLimit = 1
  MaxPaired = 1
  MaxHalts = 1
  MaxReopens = 0
  MaxRuns = 3
  MaxCrashes = 1
  MaxAsks = 2
  MaxWrites = 1
  MaxMoves = 1
  AgentRuns = {"run"}
  MaxModels = 2
  MaxAgents = 2
  MaxProposals = 2
  MaxHaltings = 1
  Notices = {n1, n2}
  MaxCuts = 1
  MaxOps = 3
  MaxEditions = 2
  MaxOutages = 1
  Repositories = {h1, h2}
  Clients = {c1, c2}
  MaxDiscoveries = 2
  MaxProjects = 2
  Submitters = {u1, u2}
  MaxReleases = 2
  MaxReboots = 2
  Targets = {api, web}
  Releases = {r1, r2}
  Jobs <- TwoJobs
  Parts = {"answers", "attempts", "servix", "commands", "buffers", "endings", "applying"}
PROPERTIES
  EverythingEnds
CHECK_DEADLOCK FALSE
