SPECIFICATION Spec
CONSTANTS
  w1 = w1
  p1 = p1
  r1 = r1
  r2 = r2
  fm = fm
  eng = eng
  None = None
  WorkOrders = {w1}
  Permits = {p1}
  Requests = {r1, r2}
  Users = {fm, eng}
  RoleOf <- RoleOfUser
  Requesters = {eng}
  Assignees = {eng}
  EditStatuses = {"active"}
PROPERTIES
  NoStartUnderRevoked
