SPECIFICATION Spec
CONSTANTS
  w1 = w1
  w2 = w2
  e = e
  d = d
  k1 = k1
  k2 = k2
  k3 = k3
  ek = ek
  None = None
  Ingest = {w1, w2}
  Editors = {e, d}
  IngestKeys = {k1, k2, k3}
  EditorKeys = {ek}
  PerHour = 1
  PerDay = 1
  Hour = 1
  Day = 2
  Wet = {w1, w2, e}
  MaxFaults = 1
SYMMETRY Symmetric
INVARIANTS
  TypeOK
  RepeatsBounded
  HonestStatus
  Throttled
