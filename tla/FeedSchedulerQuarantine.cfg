SPECIFICATION FairSpec
CONSTANTS
  p1 = p1
  p2 = p2
  hi = hi
  lo = lo
  None = None
  Workers = {p1, p2}
  Feeds = {hi, lo}
  Priority <- MCPriority
  Dialect = "postgres"
  BatchSize = 1
  Concurrency = 1
  Lease = 2
  FetchTimeout = 1
  IngestTime = 0
  MinPoll = 1
  MaxPoll = 1
  Backoff <- MCBackoff
  Parked = 2
  QuarantineAfter = 1
  Outcomes = {"HEALTHY", "QUARANTINED"}
  MaxFailures = 1
  MaxFaults = 1
  MaxOps = 0
PROPERTIES
  QuarantineEnds
