SPECIFICATION ServicesSpec
CONSTANTS
  None = None
  b1 = b1
  b2 = b2
  d1 = d1
  d2 = d2
  i1 = i1
  i2 = i2
  i3 = i3
  a1 = a1
  u1 = u1
  u2 = u2
  u3 = u3
  m1 = m1
  m2 = m2
  s1 = s1
  s2 = s2
  r1 = r1
  r2 = r2
  e1 = e1
  e2 = e2
  t1 = t1
  k1 = k1
  j1 = j1
  j2 = j2
  Users = {u1}
  Bindings = {b1, b2}
  Decisions = {d1, d2}
  MaxEvents = 2
  Uploads = {i1, i2, i3}
  Codes = {a1}
  Tasks = {1, 2, 3}
  Schedules <- MCSchedules
  Accounts = {u1, u2, u3}
  MemberRequests = {m1, m2}
  Browsers = {s1}
  TableRequests = {r1, r2}
  TableRows = {e1, e2}
  Targets = {t1}
  Target <- SharedTarget
  Measures = {}
  Queries = {{e1}, {e1, e2}}
  MaxRevision = 2
  Jobs = {j1, j2}
  MaxMessages = 5
  MaxSummaries = 3
  KeepRecent = 2
  MinToCompact = 3
INVARIANTS
  ServicesTypeOK
  StatusIsRecorded
  SupersessionsEnd
  SupersessionIsPaired
  LingeringLinkWasRepaired
  VersionsFormALine
  SelectedFollowsCurrent
  OnlySuccessLeavesTraces
  PassesKeepLinks
  FloatIsExact
  OwnerTierIsOwners
  CleanIsSaved
  CompactedIsCovered
SYMMETRY Symmetry
CHECK_DEADLOCK FALSE
