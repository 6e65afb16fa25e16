SPECIFICATION Spec
CONSTANTS
  x1 = x1
  x2 = x2
  x3 = x3
  o1 = o1
  Sessions = {x1, x2, x3}
  Orgs = {o1}
  NoSession = NoSession
  OrgOf <- OneOrg
  Syncs = {1, 2, 3}
  Requests = {r1}
  Past = {x1, x2, x3}
  Cap = 1
  MaxCalls = 2
  Faults <- NoFaults
SYMMETRY SessionSymmetry
INVARIANTS
  TypeOK
  CallsRecordedUnderLock
  CapPassedByOneSync
  OneCallerPerOrg
  FailedKeepsRoster
