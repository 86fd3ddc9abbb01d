SPECIFICATION ApiSpec
CONSTANTS
  install1 = install1
  install2 = install2
  id1 = id1
  id2 = id2
  rest1 = rest1
  rest2 = rest2
  dev = dev
  h1 = h1
  h2 = h2
  breaking = breaking
  world = world
  None = None
  Devices = {install1, install2}
  Groups = {id1, id2, rest1, rest2, dev}
  Dev = dev
  IdGroups = 1
  FcmTokens <- MCFcmTokens
  Topics = {breaking, world}
  Default = {breaking}
  Handlers = {h1, h2}
  MaxFaults = 1
  MaxOps = 4
  Clients = {"c", "d"}
  Calls = {1, 2}
  Refill = 1
  Full = 3
  Cost = 2
  GCPeriod = 5
  MaxLag = 1
  NoClient = NoClient
  MaxNow = 8
  Articles = {1, 2, 3, 4, 5}
  At <- MCAt
  Score <- MCScore
  Limits = {0, 1, 9}
  DefaultLimit = 2
  MaxLimit = 3
  NoCursor = NoCursor
  MaxChanges = 3
  MaxPages = 5
  Sources = {"u", "v", "w"}
  Sizes = {1, 2, 4}
  JobsSize = 4
  Runs = {0, 1, 2}
  Widen = 3
  Widest = 6
  NoSource = NoSource
SYMMETRY Symmetric
CHECK_DEADLOCK FALSE
INVARIANTS
  ApiTypeOK
  AnswerTrue
  Throughput
  NoRepeat
  NoGap
  WellMixed
PROPERTIES
  IsTokenBucket
