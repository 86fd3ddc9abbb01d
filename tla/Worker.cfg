SPECIFICATION WorkerSpec
CONSTANTS
  p1 = p1
  p2 = p2
  hi = hi
  lo = lo
  None = None
  Workers = {p1, p2}
  Feeds = {hi, lo}
  Priority <- MCPriority
  Dialect = "postgres"
  BatchSize = 2
  Concurrency = 2
  Lease = 3
  FetchTimeout = 1
  IngestTime = 1
  MinPoll = 2
  MaxPoll = 2
  Backoff <- MCBackoff
  Parked = 4
  QuarantineAfter = 2
  Outcomes = {"HEALTHY", "STALE", "DEGRADED", "RATE_LIMITED", "PARSER_ERROR", "QUARANTINED"}
  MaxFailures = 2
  MaxFaults = 1
  MaxOps = 1
  Items = {"a", "b", "c"}
  Signals <- MCSignals
  Polls = {p1, p2}
  Desks = {"e"}
  Forms <- MCForms
  MaxPerRun = 1
  Threshold = 60
  NoItem = NoItem
  MaxEdits = 1
  MaxTroubles = 1
SYMMETRY Symmetric
INVARIANTS
  WorkerTypeOK
  AtMostOneFetcher
  NoLostFailure
  WeighedUnlessCutOff
  Restrained
  EditorsWordStands
  EditsInOrder
PROPERTIES
  Polite
