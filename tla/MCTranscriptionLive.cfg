SPECIFICATION FairSpec
CONSTANTS
  x1 = x1
  x2 = x2
  Sessions = {x1}
  NoSession = NoSession
  Jobs = {1, 2}
  Clients = {c1}
  Slots = 1
  MaxChunks = 2
  Before = {}
  Forced = {TRUE, FALSE}
  Faults = {"cancel", "kill", "web", "restart", "enqueue", "database", "delete", "slow"}
  MaxFaults = 2
INVARIANTS
  WithinSlots
PROPERTIES
  JobsSettle
  PollsEnd
