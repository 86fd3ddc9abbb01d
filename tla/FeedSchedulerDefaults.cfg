SPECIFICATION Spec
CONSTANTS
  p1 = p1
  p2 = p2
  hi = hi
  lo = lo
  None = None
  Workers = {p1, p2}
  Feeds = {hi, lo}
  Priority <- MCPriority
  Dialect = "postgres"
  BatchSize = 2
  Concurrency = 1
  Lease = 3
  FetchTimeout = 2
  IngestTime = 0
  MinPoll = 2
  MaxPoll = 2
  Backoff <- MCBackoff
  Parked = 4
  QuarantineAfter = 2
  Outcomes = {"HEALTHY", "STALE", "DEGRADED", "RATE_LIMITED", "PARSER_ERROR", "QUARANTINED"}
  MaxFailures = 2
  MaxFaults = 0
  MaxOps = 0
SYMMETRY Symmetric
INVARIANTS
  NeverFetchedTwiceAtOnce
