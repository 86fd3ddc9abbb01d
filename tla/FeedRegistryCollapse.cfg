SPECIFICATION RegistrySpec
CONSTANTS
  Urls = {"search1", "search2", "core"}
  Identity <- MCIdentity
  Canonical <- MCCanonical
  Spelling <- MCIdentity
  Rejected = {}
  Kind <- MCKind
  Rank <- MCRank
  Packs <- MCPacks
  Bundled = "v1"
  BootWave = 3
  NoFeed = NoFeed
  Jobs = {1}
  MaxRequests = 1
  MaxUpsets = 0
CHECK_DEADLOCK FALSE
INVARIANTS
  EveryOutlinePolled
