SPECIFICATION ServicesSpec
CONSTANTS
  None = None
  b1 = b1
  b2 = b2
  d1 = d1
  d2 = d2
  i1 = i1
  i2 = i2
  i3 = i3
  a1 = a1
  u1 = u1
  u2 = u2
  u3 = u3
  m1 = m1
  m2 = m2
  s1 = s1
  s2 = s2
  r1 = r1
  r2 = r2
  e1 = e1
  e2 = e2
  t1 = t1
  k1 = k1
  j1 = j1
  j2 = j2
  Users = {u1}
  Bindings = {}
  Decisions = {}
  MaxEvents = 2
  Uploads = {}
  Codes = {a1}
  Tasks = {1, 2, 3}
  Schedules = {}
  Accounts = {u1, u2, u3}
  MemberRequests = {}
  Browsers = {s1, s2}
  TableRequests = {r1}
  TableRows = {e1}
  Targets = {t1}
  Target <- SharedTarget
  Measures = {k1}
  Queries = {{e1}}
  MaxRevision = 3
  Jobs = {}
  MaxMessages = 5
  MaxSummaries = 3
  KeepRecent = 2
  MinToCompact = 3
INVARIANT SavesKeepEarlierSaves
CHECK_DEADLOCK FALSE
