SPECIFICATION Spec
CONSTANTS
  Jobs = {j1, j2, j3}
  NoJob = NoJob
  JobTimeout = 1
  LockTTL = 2
  StaleAfter = 2
SYMMETRY JobSymmetry
INVARIANTS
  TypeOK
  HolderOwnsLock
  LiveRowsFresh
PROPERTIES
  SlotsSpec
