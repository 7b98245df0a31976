SPECIFICATION Spec
CONSTANTS
  d1 = d1
  d2 = d2
  d3 = d3
  d4 = d4
  e1 = e1
  e2 = e2
  name = name
  maker = maker
  area = area
  None = None
  Damaged = Damaged
  Exports = {e1, e2}
  Streamed = {}
  Deltas = {d1, d2, d3}
  KeyOf <- FieldOf
  MergedKeys = {name}
  Allowed = {d1, d2, d3}
  MaxOverlap = 1
  MaxFaults = 0
  MaxCrashes = 0
INVARIANTS
  CompletedIsInFile
CHECK_DEADLOCK FALSE
