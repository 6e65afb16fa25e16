SPECIFICATION MCSpec
CONSTANTS
  Refreshers = {r1, r2, r3}
  MaxTokens = 4
  Nil = Nil
  Sessions = {1, 2}
  Processes = {1, 2}
  TTL = 2
  ReadTime = 1
  MaxWrites = 2
  Requests = {1, 2}
  Size = 1
  MaxVersions = 3
  Tasks = {1, 2, 3}
  MaxScopes = 3
  Records = {1, 2, 3, 4}
  Requested = 2
  Largest = 1
  MaxPages = 4
  Jobs = {1, 2}
  JobKinds <- MCKinds
  MaxAttempts = 2
  Budget = 1
  Legacy <- MCLegacy
  BatchSize = 1
  MaxSaves = 2
  Minute = 2
  Digest <- Digits
  Short = 1
  Few = 2
  Day = 1
  Own = {"own"}
  Tolerance = 1
  ChunkGap = 3
  Window = 3
  WindowMin = 2
  Clusters = 3
  SubstantialS = 2
  Pause = 2
  Rapid = 1
  Quick = 3
  Steady = 5
  Watch = 2
  Low = 4
  Moments = 2
INVARIANTS
  LiveTokenKept
  ChangeSeenInTime
  NeverServedOlder
  ScreenIsCurrent
  ListWhole
  OvershootBounded
  LedgerTellsAll
  NothingPutBack
  MomentsPlaced
  PeopleAgree
  FiguresAddUp
  RecordingKept
CHECK_DEADLOCK FALSE
