SPECIFICATION FeedsSpec
CONSTANTS
  c1 = c1
  c2 = c2
  h1 = h1
  h2 = h2
  site = site
  Callers = {c1, c2}
  Hosts = {h1, h2}
  Sites = {site}
  Site <- MCSite
  MaxCon = 1
  PerMin = 1
  Minute = 2
  Threshold = 2
  Cooldown = 2
  Deadline = 2
  Urls = {"bad", "s1", "s2", "core", "topic", "unknown"}
  Identity <- MCIdentity
  Canonical <- MCCanonical
  Spelling <- MCSpelling
  Rejected = {"bad"}
  Kind <- MCKind
  Rank <- MCRank
  Packs <- MCPacks
  Bundled = "v1"
  BootWave = 3
  NoFeed = NoFeed
  Jobs = {1, 2}
  MaxRequests = 3
  MaxUpsets = 1
  Kinds = {"direct", "aggregator-search"}
  Marks = {"high", "low"}
  Grades = {1}
  Counts = {0, 9, 10}
  Ages = {24, 400}
  Draws = {0, 999}
  RetryAfters = {0, 30}
  Adaptive = TRUE
  QuarantineAfter = 5
  NoPoll = NoPoll
  MaxFailures = 7
  MaxChanges = 1
  MaxLosses = 1
  Processes = {"api", "worker"}
  Apis = {"api"}
  Migrations = 1
  MaySeed = TRUE
  MaxId = 4
  MaxFaults = 1
  MaxLoads = 1
INVARIANTS
  FeedsTypeOK
  TokensMatch
  BreakerExact
  DeadHostCut
  Reconciled
  OnlyHandMadeClash
  SelectiveAfterBoot
  BackToItsPace
  CollisionsExplained
PROPERTIES
  CooldownEnds
  EveryFetchEnds
  WaveExact
  OpenedWithReason
  SilentByReopening
  BacksOff
  ProcessesComeUp
