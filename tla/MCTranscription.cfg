SPECIFICATION Spec
CONSTANTS
  x1 = x1
  x2 = x2
  Sessions = {x1, x2}
  NoSession = NoSession
  Jobs = {1, 2}
  Clients = {c1, c2}
  Slots = 2
  MaxChunks = 2
  Before = {x2}
  Forced = {TRUE, FALSE}
  Faults = {"cancel", "kill", "web", "restart", "enqueue", "database", "delete", "slow"}
  MaxFaults = 1
INVARIANTS
  LiveJobKeepsRow
  OnePaidPerSession
  CompletedIsSaved
  SavedUnderOrg
PROPERTIES
  JobRowsSpec
  NewestStays
