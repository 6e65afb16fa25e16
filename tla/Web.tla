--------------------------------- MODULE Web ---------------------------------
(* The machines of the app that share no state with each other, one of them  *)
(* in a behaviour: `part` says which, and the others stand still.            *)
EXTENDS Integers, Sequences

CONSTANTS
  Sessions, Nil,
  Processes, TTL, ReadTime, MaxWrites,              \* Settings
  Requests, Size, MaxVersions,                      \* RecordCache
  Tasks, MaxScopes,                                 \* SessionScope
  Records, Requested, Largest, MaxPages,            \* Pages
  Jobs, JobKinds, MaxAttempts, Budget,              \* Llm
  Legacy, BatchSize, MaxSaves,                      \* Backfills
  Refreshers, MaxTokens                             \* OAuth

VARIABLES
  part,
  value, since, entry, reader,                                         \* Settings
  cache, version, blocks, req, served,                                 \* RecordCache
  scope, screen, task, flag, slot,                                     \* SessionScope
  kind, states, list, first, page, seen, kept, count, counted, result, \* Pages
  job, pc, purpose, tries, timer, answers, rows, unlogged,             \* Llm
  row, latest, now, script, after, todo, skipped, clean,               \* Backfills
  stored, stale, rotates, live, proc, lost                             \* OAuth

Setting == INSTANCE Settings
Record == INSTANCE RecordCache WITH row <- version
Scope == INSTANCE SessionScope WITH None <- Nil
Page == INSTANCE Pages WITH None <- Nil
Call == INSTANCE Llm WITH Kinds <- JobKinds, kind <- job, lost <- unlogged
Backfill == INSTANCE Backfills
Token == INSTANCE OAuth

settingVars == <<value, since, entry, reader>>
recordVars == <<cache, version, blocks, req, served>>
scopeVars == <<scope, screen, task, flag, slot>>
pageVars == <<kind, states, list, first, page, seen, kept, count, counted, result>>
callVars == <<job, pc, purpose, tries, timer, answers, rows, unlogged>>
backfillVars == <<row, latest, now, script, after, todo, skipped, clean>>
tokenVars == <<stored, stale, rotates, live, proc, lost>>
webVars == <<part, settingVars, recordVars, scopeVars, pageVars, callVars, backfillVars, tokenVars>>

Machines == {"setting", "record", "scope", "page", "call", "backfill", "token"}

NoSetting == value = 0 /\ since = 0 /\ entry = 0 /\ reader = 0
NoRecord == cache = 0 /\ version = 0 /\ blocks = 0 /\ req = 0 /\ served = 0
NoScope == scope = 0 /\ screen = 0 /\ task = 0 /\ flag = 0 /\ slot = 0
NoPage == kind = 0 /\ states = 0 /\ list = 0 /\ first = 0 /\ page = 0 /\ seen = 0 /\ kept = 0
          /\ count = 0 /\ counted = 0 /\ result = 0
NoCall == job = 0 /\ pc = 0 /\ purpose = 0 /\ tries = 0 /\ timer = 0 /\ answers = 0 /\ rows = 0 /\ unlogged = 0
NoBackfill == row = 0 /\ latest = 0 /\ now = 0 /\ script = 0 /\ after = 0 /\ todo = 0 /\ skipped = 0 /\ clean = 0
NoToken == stored = 0 /\ stale = 0 /\ rotates = 0 /\ live = 0 /\ proc = 0 /\ lost = 0

\* In a part of another name none of them moves.
WebInit ==
  /\ IF part = "setting" THEN Setting!Init ELSE NoSetting
  /\ IF part = "record" THEN Record!Init ELSE NoRecord
  /\ IF part = "scope" THEN Scope!Init ELSE NoScope
  /\ IF part = "page" THEN Page!Init ELSE NoPage
  /\ IF part = "call" THEN Call!Init ELSE NoCall
  /\ IF part = "backfill" THEN Backfill!Init ELSE NoBackfill
  /\ IF part = "token" THEN Token!Init ELSE NoToken

WebNext ==
  \/ /\ part = "setting" /\ Setting!Next
     /\ UNCHANGED <<part, recordVars, scopeVars, pageVars, callVars, backfillVars, tokenVars>>
  \/ /\ part = "record" /\ Record!Next
     /\ UNCHANGED <<part, settingVars, scopeVars, pageVars, callVars, backfillVars, tokenVars>>
  \/ /\ part = "scope" /\ Scope!Next
     /\ UNCHANGED <<part, settingVars, recordVars, pageVars, callVars, backfillVars, tokenVars>>
  \/ /\ part = "page" /\ Page!Next
     /\ UNCHANGED <<part, settingVars, recordVars, scopeVars, callVars, backfillVars, tokenVars>>
  \/ /\ part = "call" /\ Call!Next
     /\ UNCHANGED <<part, settingVars, recordVars, scopeVars, pageVars, backfillVars, tokenVars>>
  \/ /\ part = "backfill" /\ Backfill!Next
     /\ UNCHANGED <<part, settingVars, recordVars, scopeVars, pageVars, callVars, tokenVars>>
  \/ /\ part = "token" /\ Token!Next
     /\ UNCHANGED <<part, settingVars, recordVars, scopeVars, pageVars, callVars, backfillVars>>

WebSpec == WebInit /\ [][WebNext]_webVars

-----------------------------------------------------------------------------
\* Each machine's property, while it is the one that moves.

\* A setting's change is seen by every process within the cache's time and that
\* of one read.
ChangeSeenInTime == part = "setting" => Setting!ChangeSeenInTime

\* A record block is never older than the row was when its request began.
NeverServedOlder == part = "record" => Record!NeverServedOlder

\* What the app shows is of the session that is open, whatever answers late.
ScreenIsCurrent == part = "scope" => Scope!ScreenIsCurrent

\* A list that counts as read misses nobody who was in it when the walk began,
\* however it grows meanwhile.
ListWhole == part = "page" => Page!ListWhole

\* Jobs that run together pass the daily budget by one call each at most.
OvershootBounded == part = "call" => Call!OvershootBounded

\* Every answer of a model is in the ledger, or in a logged error.
LedgerTellsAll == part = "call" => Call!LedgerTellsAll

\* Whoever refreshes it at once, a connection keeps a token Livestorm accepts.
LiveTokenKept == part = "token" => Token!LiveTokenKept

\* No maintenance script puts back what a save has replaced.
NothingPutBack == part = "backfill" => Backfill!NothingPutBack
=============================================================================
