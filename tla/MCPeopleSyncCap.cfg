SPECIFICATION Spec
CONSTANTS
  x1 = x1
  x2 = x2
  x3 = x3
  o1 = o1
  Sessions = {x1, x2}
  Orgs = {o1}
  NoSession = NoSession
  OrgOf <- OneOrg
  Syncs = {1, 2}
  Requests = {r1}
  Past = {x1, x2}
  Cap = 1
  MaxCalls = 2
  Faults <- CancelOnce
INVARIANTS
  CallsRecordedUnderLock
