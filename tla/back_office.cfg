SPECIFICATION BackOfficeSpec
CONSTANTS
  proxy = proxy
  real = real
  forged = forged
  s1 = s1
  s2 = s2
  s3 = s3
  a1 = a1
  a2 = a2
  old = old
  new = new
  commit1 = commit1
  commit2 = commit2
  n1 = n1
  n2 = n2
  n3 = n3
  Hosts = {proxy, real, forged}
  Trusted = {proxy}
  Chains <- MCChains
  Client = real
  Proxy = proxy
  MaxHops = 2
  Identifiers = {u1}
  Requests = {r1, r2}
  IpLimit = 2
  AccountLimit = 1
  Window = 3
  Retention = 3
  MaxWait = 1
  LastTick = 5
  MemoryKeys = {real, u1}
  MaxKeys = 1
  KeyLimit = 2
  MaxBytes = 3
  MaxChunk = 2
  Generations = {g1, g2, g3}
  BrowserSessions = {s1, s2, s3}
  Owner <- MCOwner
  Executions = {r1, r2}
  SessionLimit = 1
  AccountLimitPerDay = 1
  LimitPerDay = 2
  Cooldown = 1
  DayLength = 1
  LastHour = 1
  MaxRuns = 2
  NoPlan = NoPlan
  Functions = {1, 2, 3}
  Blocks = {1, 2, 3, 4}
  PathOf <- MCPathOf
  RolesOf <- MCRolesOf
  SystemSymbols = {3}
  Private = {}
  Mains = {2}
  AddressOf <- MCAddressOf
  Entries = {1, 2, 4}
  Documented <- MCDocumented
  Rewritten <- MCRewritten
  MaxCallDepth = 1
  MaxSequence = 4
  MaxDependencyDepth = 1
  MaxEntryFlows = 1
  MaxModelFlows = 5
  MaxModelNodes = 9
  MaxModelEdges = 12
  MinModelNodes = 2
  AttackNodes = {1, 2, 3, 4, 5, 6, 7}
  MaxTreeDepth = 3
  Scale = 2
  Attempts = 1
  MaxGross = 3
  RetentionGbp = 1
  CoverGbp = 1
  Multiplier = 1
  Profiles = {shipped, tight}
  DefaultProfile = shipped
  Releases = {old, new}
  Commits = {commit1, commit2}
  NodesOf <- MCNodesOf
  RedactedIds = {n3}
  Scenarios = {ransom, fraud}
  LabRequests = {r1, r2}
  MaxVersions = 1
  MaxSnapshots = 1
  MaxSets = 1
  MaxSimulations = 2
  MaxPlans = 1
SYMMETRY MCSymmetry
INVARIANTS
  BackOfficeTypes
  AtMostTwiceTheLimit
  SlidingWindowHolds
  QuotaKept
  RunsSpaced
  PlansRunOnce
  DefaultFlowsAccepted
  ProjectionHonest
  AttackTreesSound
  AnalysesPinned
CHECK_DEADLOCK FALSE
