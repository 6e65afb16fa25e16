SPECIFICATION Spec
CONSTANTS
  x1 = x1
  x2 = x2
  Sessions = {x1}
  NoSession = NoSession
  Jobs = {1, 2}
  Clients = {c1}
  Slots = 2
  MaxChunks = 2
  Before = {x1}
  Forced = {TRUE}
  Faults = {}
  MaxFaults = 0
PROPERTIES
  ShownIsDone
