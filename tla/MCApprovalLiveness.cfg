SPECIFICATION FairSpec
CONSTANTS
  p1 = p1
  p2 = p2
  a1 = a1
  a2 = a2
  a3 = a3
  j1 = j1
  r1 = r1
  w1 = w1
  s1 = s1
  s2 = s2
  e1 = e1
  e2 = e2
  Proposals = {p1, p2}
  Approvers = {a1, a2}
  Rejecters = {}
  Restorers = {}
  Sweepers = {w1}
  Sessions = {s1, s2}
  MaxAttempts = 1
  MaxFaults = 1
  MaxCrashes = 0
  None = None
  Entities = {e1, e2}
  Touches <- TypeAndOccurrence
  SessionOf <- OneSession
PROPERTIES
  ClaimEnds
CHECK_DEADLOCK FALSE
