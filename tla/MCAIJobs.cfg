SPECIFICATION FairSpec
CONSTANTS
  en = en
  fr = fr
  pro = pro
  Cover = Cover
  Outputs = {en, fr, pro}
  Professional = pro
  Original <- EnglishFirst
  Requests = {r1, r2}
  MaxRuns = 2
  MaxFaults = 1
INVARIANTS
  OneCallPerOutput
  MadeFromSaved
  RetryGetsNewRun
PROPERTIES
  EntriesKept
  PollsEnd
