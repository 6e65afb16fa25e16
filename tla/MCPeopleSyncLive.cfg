SPECIFICATION FairSpec
CONSTANTS
  x1 = x1
  x2 = x2
  x3 = x3
  o1 = o1
  Sessions = {x1}
  Orgs = {o1}
  NoSession = NoSession
  OrgOf <- OneOrg
  Syncs = {1, 2}
  Requests = {r1}
  Past = {}
  Cap = 2
  MaxCalls = 1
  Faults <- StallFaults
PROPERTIES
  SyncsSettle
  CompletedStays
  WaitEnds
