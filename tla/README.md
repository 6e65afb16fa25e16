# StormIQ in TLA+

A model of StormIQ in two kinds of module. Machines model the parts where steps
of several actors meet: web requests, the arq queue, the worker's coroutines and
their threads, Redis keys, Postgres rows, Livestorm's and the models' answers,
the browser's store, and the crashes, cancellations and restarts between them.
Operators model the algorithms of the Report, with what each must give stated
beside them. TLC checks both on small instances; TLAPS proves the main results
about the machines, and about the algorithms that name people and place moments,
for every value of the constants and every input.

Paths below are relative to the repository; `people_sync.py` and the like are
in `livestorm_app/`.

## 1. Inventory

| Component | State it keeps | Operations | Hard behaviour | What makes it correct |
|---|---|---|---|---|
| **People sync** (`people_sync.py`, `worker.run_people_sync`, `db.py`) | `livestorm_sync_jobs` row, `session_rosters` header and people, Redis lock and waiting place | poll, start, claim, wait, check the cap, read, save, complete, fail, sweep, reconcile | cancelled coroutine and surviving thread; lock expiry; ambiguous enqueue; stale reads; lost jobs | one sync per session and two slots per org; exact cap; whole lists only; no row stuck |
| **Transcription** (`api_logic.py`, `worker.run_transcription`) | `transcript_jobs` row, `session_cache.transcript_payload`, slot semaphore | start or join, claim, wait for a slot, progress, finish, poll | unconditional status writes, late threads, sweeper | one paid job per session; a job at work keeps its row; what reads completed is saved |
| **Gladia transcriber** (`gladia/transcriber.py`) | upload, remote job, chunks | download, split, poll, merge | chunk offsets, polling deadline | merged utterances in order |
| **AI jobs** (`worker.run_*_job`, `api_logic._start_ai_job`, `ai/`) | bundles in `session_cache`, arq jobs under deterministic ids | start, join, retry, generate, merge, poll, cover | a finish between cache read and enqueue; two languages merging; a thread outliving its job | no two calls for one output, no language lost, no poll stuck |
| **LLM client and ledger** (`llm_client.py`, `ai/usage.py`) | `llm_usage` rows | check, call, retry, stream, record | budget read before concurrent calls; the stream's timer | every answer recorded, overshoot bounded |
| **Queue bridge** (`queue.py`) | one event loop thread, a Redis pool, a cooldown | enqueue, read status | timeout whose command still ran | a job id runs once at a time |
| **OAuth** (`oauth_client.py`, `auth.py`) | `oauth_connections` | log in, refresh, log out | rotating refresh token raced by two refreshes | a live connection stays usable |
| **Settings** (`db.get_setting`) | table and process cache | read, write | read stores after a write | a write is seen in time |
| **Block caches** (`api_logic.py`) | a process cache of computed blocks | stamp, look up, build, store, evict | a row saved while its block is built | no request gets a block older than it |
| **Record** (`record/`) | none | clock, alignment, authors, refs, measures, transcript, evidence | boundaries, ties, missing ids and times, two places computing one figure | figures add up and agree |
| **Analytics** (`analytics/`) | none | minutes, pauses, bursts, mentions, key moments, audience, reactions | the same | the same |
| **Livestorm client** (`livestorm/client.py`) | none | page walks, retries, deadlines | a list that grows while it is read, wrong cursors | a list that counts as read misses nobody |
| **Maintenance scripts** (`src/scripts`) | none of their own | strip links, fill in events, recaps, covers, columns | the app saves between a script's read and write | nothing newer is put back |
| **Browser store** (`workspace.js`) | scope, workspace, flags, progress slot | open, load, run, poll, sign out | an answer after a change of session | late answers are dropped |
| **Progress** (`progress.py`) | Redis hash per session | publish, read, clear | best effort | nothing rests on it |
| **Access scope, routes, PDF, prompts, views** | none | | | |

How they interact: a request reads and writes rows in Postgres and puts job ids
in Redis; the worker takes ids from Redis, claims the row, and runs the work in
a thread the event loop cannot kill; the thread writes rows by itself. The
sweeper (worker cron, every 10 minutes) and the polls (web) close rows whose job
is gone. No transaction spans two of these steps, so each is an action of its
own in the models.

## 2. Modules

| Module | What it is |
|---|---|
| `SyncSlots` | abstract: one org's syncs; at most one runs, at most one waits |
| `OrgLock` | the org's lock in discrete time: `worker._people_sync_org_lock` and the job around it |
| `OrgLockProofs` | theorems about `OrgLock`, the refinement of `SyncSlots` included |
| `PeopleSync` | the whole people sync, from the request to the roster |
| `PeopleSyncProofs` | theorems about `PeopleSync` |
| `Sums`, `SumProofs` | the sum a `SELECT SUM` returns, and its laws |
| `JobRows` | abstract: the life of a job's rows, which both kinds of row implement |
| `Transcription` | a transcription, from the request to the cached transcript |
| `TranscriptionProofs` | theorems about `Transcription` |
| `AIJobs`, `AIJobsProofs` | the AI outputs of one session, and theorems about them |
| `OAuth` | one connection refreshed by several at once |
| `Llm`, `LlmProofs` | calls of a text model, the ledger and the daily budget, and theorems |
| `Settings` | a setting read through the process caches |
| `RecordCache` | the caches of record blocks and transcript insights |
| `SessionScope` | the browser's store across changes of session |
| `Pages` | the walk over a paginated list that grows |
| `Backfills` | the maintenance scripts beside the running app |
| `Clock`, `Roster`, `Measures`, `Alignment`, `Transcript` | the algorithms of `record/` and of the chunk merge |
| `Insights`, `Audience` | the algorithms of `analytics/` |
| `Web` | those machines, of which one moves in a behaviour: `OAuth`, `Llm`, `Settings` to `Backfills` |
| `WebProofs` | theorems about the machines of `Web` |
| `Report` | the inputs of the algorithms that are proved about, and what must come out |
| `ReportProofs` | theorems about `Report`, for every input |
| `MCReport` | small inputs for all the algorithms, and what only TLC checks of them |
| `MCWeb` | constants for `Web` and `MCReport` in one run |
| `MCOrgLock`, `MCPeopleSync`, `MCTranscription`, `MCAIJobs` | constants, fault budgets and symmetry for TLC |

### OrgLock

One org, a set `Jobs` of queued syncs. `pc` is the await the coroutine is at,
one action per await: `TakeLock`/`Refused` are the two answers of `SET NX` on
the lock, `TakePlace`/`Busy` those on the waiting place, `Heartbeat` and
`Promote` the wait loop, `LeavePlace` and `LeaveLock` the two `finally` blocks,
`CloseUp` the handlers. A token is unique to its job, so a key holds the job.

Time is a `Tick`; the three durations are constants, with only the code's two
inequalities assumed: the time limit (15 min) is below the keys' life (20 min)
and below the sweeper's threshold (60 min). `Tick` may not pass a live job's
limit, because arq cancels the job there. That is the one idealisation: in the
code the `finally` and the handler run in the moments after the limit, within
the five minutes of slack the key's life leaves.

`Cancel` may fall on any await, and the command being awaited may have reached
Redis: a `SET` cancelled before its answer leaves a key that no `finally`
releases. A release may fail (logged, the key expires). `Kill` stops the
worker, `RedisRestart` drops keys and queue. A job whose keys a restart dropped
is in `robbed`: the exclusion properties speak of the others, since without the
key nothing can keep two apart; the code makes no claim there either.

### PeopleSync

State by owner: the rows (`status`, `sess`, `reason`, `conn`, `recorded`), the
cache (`cached`, `roster`, `past`), Redis (`queue`, `lock`, `place`), the worker
(`co`, `out` for the coroutine; `th`, `stop`, `made` for the thread) and the
requests in flight (`req`, with what each has read). Two history variables,
`overtaken` and `exempt`, are written for the properties only.

- A **request** is `ReadStatus` (one read it decides from), then `Reconcile`,
  then `Answer` (poll, join, cooldown, 429) or `PassGuards`, `Create`, `Enqueue`
  and, on failure, `CloseUnqueued`. Each is one transaction or one Redis call.
  The cooldown is not timed: a request may stop there or go on.
- The **coroutine** is `Start` (claim), `TryLock`, `Promote`/`StopWaiting`,
  `BeginThread` (the cap check) or `RefuseBody`, `ThreadReturns`, `Leave` (the
  `finally` blocks), `Mark` (the handlers). `Cancel` throws `CancelledError`;
  the keys go first and the `cancelled` event is set after, as in the code. It may
  also fall on a command to Redis: a `SET` that arrives after its job has left, or a
  release that never does, leaves a key to expire. That a release fails with an
  error, which is logged, is in `OrgLock` only; it leaves the same key.
- The **thread** is `Page`, `ReadFails`, `ReadWhole`, `Save`, `Complete`,
  `MarkFailed`. It goes on after its coroutine is cancelled, and stops only
  where `counter.check` looks at the event.
- **Environment**: `Sweep`, `KeyExpires`, `Kill`, `OrphanFails` (arq fails the
  job of a dead worker), `RedisRestart`, `Delete`, `Recache`.

Time is left out. A threshold becomes a guard on who may still be at work: the
sweeper takes only rows without a coroutine, and a key expires only when its
owner is gone. Both are what `OrgLock` proves of the timed code
(`LiveRowsFresh`, `HolderOwnsLock`). A sync is "lost" to a poll when arq has no
trace of it and no request is still enqueuing it: the two minutes against the
bridge's twenty seconds.

Not in the model: progress messages, the stored field labels, the error texts,
the scheduled `refresh_t7` syncs (nothing starts one yet), sessions without an
organization (local development), and the cap's 24-hour window (all calls fall
in one window).

### Transcription

State by owner: the rows (`status`, `sess`, `conn`), the cache (`cached`: absent,
without or with its organization; `has`; `source`, the job whose transcript it
is), Redis (`queue`), the worker (`co`; `th`, `stop`, `left` for the thread), the
clients, and `spent`, the faults that have happened.

- A **client** asks (`Ask`, or `Refused` by Livestorm), then `Look`s: it reads
  the session's latest row and asks arq about its job. It follows a live job,
  goes on to `CloseDead` for a dead one, and without one to `Create`, `Enqueue`
  and, on failure, `CloseUnqueued`. Following, it polls: `Show` when the cache has
  a transcript, `NotFound` without a row of its organization, `Look` otherwise.
- The **coroutine** is `Start` (claim), `TakeSlot`, `BeginThread`, `Fail`,
  `Persist`, `Finish`, `Cancel`. `Persist` and `Finish` are two writes with no
  await between: the event loop serves nobody else (`LoopFree`), the web process
  and the threads go on. The claim is outside the `try`.
- The **thread** is `Downloaded`, `Extracted`, `Uploaded`, `Transcribed`,
  `ThreadFails`. A stage begins with a progress report, where a cancelled job
  raises; the paid start after an upload does not.
- **Environment**: `Sweep`, `SweepQuiet`, `Kill`, `OrphanFails`, `RedisRestart`,
  `Delete` (`transcript_jobs` rows stay, so a late save makes the session's row
  again, without an organization), `WebCrash`.

Row writes are unconditional, as in the code: `Update` closes whatever it finds,
which is why "closed twice" is a step of the model and of `JobRows` a stutter.
Time is again a guard: a row is lost two minutes after its last report, so never
while its enqueue (20 s) goes on; the sweeper's hour never passes over a job that
reports, but may pass over a download, an extraction or an upload, which report
only at their ends (`SweepQuiet`, a fault of its own, "slow").

`JobRows` says what `docs/jobs.md` says of a job's row: one in flight per session,
claimed once and only while pending, never in flight again once closed, and a
connection id held only until the claim. Which way a row closed may be corrected
later (a late `completed` over an `error`), so both are "closed".

### AIJobs

One session. State by owner: the row (`row`, `epoch`, `made`, the run whose text
each output holds), Redis (`arq`, by job id), the worker (`of`, `co`, `th`, `seen`,
`loose`), the requests and `budget`, the faults to come. An output is a kind in a
language or tone, and its job id is fixed by it, so a request finds another's job
under its own id.

- A **request** is `Ask` (the bundle is read), `TryEnqueue`, `Status` and `Drop`
  (an id with a kept result: its key is deleted and the enqueue tried once more),
  `EnqueueFails` (the bridge gave up; the command may have arrived), then `Poll`
  and `Look` until the output is saved or its job is no longer in flight.
- The **worker** is `Start` (without the provider's key it fails at once), `Read`,
  `Call`, `Save`, `Return`, and after a Professional recap `QueueCover`.
  `Save` sets one entry of the row as it is by now; `Cancel` lets arq's job go
  while its thread goes on.
- **Environment**: `Kill`, `OrphanFails`, `ResultExpires`, `RedisRestart`, `Delete`,
  `Recache`.

Left out: progress messages, the language a translation is made from, "unknown"
answers to a poll (they are polled again), the 30-minute deadline of a client.
Three things the model shows and the properties leave room for: a poll that read
the bundle before the save and the status after the end answers "not found",
though the output is saved (`_run_ai_job`'s docstring counts on polls that look at
the cache first, which this one did, too early); a result that lands between a request's read and its
enqueue is dropped and paid for again; and the cover's upsert makes the row of a
deleted session again, without an organization (`ghost`).

### The small machines

- `OAuth`: each refresher reads the row, exchanges the token it read, writes.
  `Refused` is Livestorm's refusal of a token it has replaced, `Die` a lost answer
  or write, which leaves the row with a dead token by design (the user logs in
  again). Whether Livestorm rotates is an input.
- `Settings`: `ReadTime` bounds a database read and `TTL` the cache's minute; the
  age of an entry starts at its store, so a change can be missed for their sum.
- `RecordCache`: a request reads `updated_at`, looks up, reads the row, builds,
  stores; a write may fall between any two. A block is stored under the version of
  the row it was built from, read with it, even when the request looked up an older
  one or the row has changed since; it may take the place of a newer block, which
  costs a rebuild.
- `SessionScope`: every load and flow keeps the scope it began in; an aborted
  request may have answered already, so answers to old scopes do arrive.
- `Pages`: `Refuse`, `Stop`, `Late`, `PageFails`, `Read` and `Grow` (a record is
  added at either end). Chat, questions and past sessions keep what they have when
  the cursor points back; people and labels raise. A chat message pushed onto the
  next page is kept twice and counted twice: nothing tells the copies apart, so
  `ListWhole` says only that none is missing.
- `Llm`: `Check`, the answer of a call that does not stream, the stream with its
  timer thread (`Fire` against `StreamEnds` and `StreamBreaks`), `Record`, `Decide`.
  An answer that is billed and never arrives is in no ledger and is not here; no
  caller is "automatic" yet, the code is ready for it and so is the model. The
  cover image bypasses this client.
- `Backfills`: one script at a time beside `Fetch`, `JobSaves`, `Delete`. `Strip` is
  `rewrite_base_payloads`, which writes only a row whose `updated_at` is the one
  read. The filling scripts do not look again: an upsert may make a deleted row
  again, an event payload may replace a newer one, and a recap saved since the
  list was made is generated and paid for again. Left out: dry runs, `--limit`,
  and of `backfill_organization_id.py` the choice of an account
  (`--account-key-hash`) and the step over `oauth_connections`.

### The algorithms

Seconds, minutes and weights are constants, so that a few seconds are enough;
times may be missing. Each operator returns what the function returns, without
texts and labels. The properties compare two ways to one figure: a total against
its rows, two blocks that name the same people, a merge against its parts, a
choice against every other choice.

- `Clock`: `record/clock.py`, minutes and shares. `Roster`: people, roles, refs,
  authors, evidence (items are numbered by time, id and text). `Measures`: states, what a state hides, the grouped rows.
- `Alignment`: anchors, the sweep for the offset most of them agree on, the halves,
  and what each verdict needs. The runs of utterances that pass as a reading of a
  message are an input, each with the words it has, how well it keeps their order and
  the time of the first; which of them is taken, and what an answer given aloud
  adds, is modelled.
- `Transcript`: the chunk merge (shifts, speakers, words, subtitles), the parse and
  the health figures. When only some chunks carry `transcription.words`, the words
  of the others are lost; the inputs do not mix the two.
- `Insights`: minutes, pauses, handoffs, bursts, mentions, scores, key moments. As
  in the code, a sentence without times is infinitely far from a mention, a start of 0 s is dropped where it is tested for truth, a numeric
  mention counts only for the sentence that starts in its second (docs/product.md,
  lines 681-690, says the sentence contains it), an entity with pace is one signal, ten of the
  top 25 entities are taken in no stated order, the dominant style is the first
  one present, a gap under overlapping speech counts as a pause, pauses that end
  in an empty minute are not joined, a
  session whose minutes are all alike has every share at one half, and a minute of one segment is "General discussion".
- `Audience`: counts by role, rankings, reactions in shares of the session, in steps
  that divide 100 and in steps that do not.

## 3. Runs

| Run | Instance | Shows |
|---|---|---|
| `org_lock` | 3 jobs, limits 1/2/2, job symmetry | the holder owns the lock, live rows are fresh, and the lock implements `SyncSlots`, under every interleaving, cancellation, crash and restart |
| `people_sync` | 3 sessions with a past sync, 3 syncs, 1 request at a time, cap 1, 2 calls each, no fault | the cap check is exact, the org passes its cap by one sync at most, one caller at a time, a failed sync leaves the roster |
| `people_sync_race` | 1 session, 2 syncs, 2 requests, one failed enqueue, one delete | no older list saved over a newer one; the rows implement `JobRows` |
| `people_sync_live` | 1 session, 2 syncs, one each of cancel, kill, restart, failed write, fair | every sync is closed in the end, no wait for the lock lasts; a completed one keeps its status |
| `transcription` | 2 sessions, one already transcribed, 2 jobs, 2 clients, 2 slots, up to 2 chunks, any one fault of eight | a live job keeps its row, one paid job per session, completed means saved, saved means visible to its org, no older transcript over a newer one, the rows implement `JobRows` |
| `transcription_live` | 1 session, 2 jobs, 1 client, 1 slot, any two faults, fair | every job in flight is closed; every poll is answered; threads within the slots |
| `ai_jobs` | an analysis in English and French, the Professional recap and its cover, 2 requests, 2 runs, any one fault, fair | one call per output, entries kept, translations and covers beside their source, a retry gets a new run, every poll ends |
| `web` | the small machines and every input of `MCReport`, one per behaviour | tokens, settings, blocks, the screen, lists, the ledger and the rows of the scripts; moments in their places, people that agree, figures that add up, a recording that is kept |
| `cap_after_cancel` | `people_sync` and one cancellation | violated: see finding 1 |
| `write_after_cancel` | one cancellation | violated: see finding 2 |
| `roster_of_failed_sync` | one failed write | violated: see finding 3 |
| `transcript_shown_early` | a transcribed session, forced refetches, no fault | violated: see finding 4 |

**Bounds.** Three jobs are the first number at which one holds, one waits and
one is refused, and a fourth is only another refused one. The limits are the
smallest that keep the order of the code's durations and leave one tick between
the time limit and the expiry. In `PeopleSync`, `Syncs` bounds the rows ever
created, `MaxCalls` the answers a sync reads, and `Faults` how often each fault
happens: once of each kind is enough to interrupt any one step and let another
sync run into what it left. Three syncs with cap 1 give one that runs, one that
waits and one that both passed the web check before either recorded.

In `Transcription`, `Jobs` bounds the rows ever created: two, so that a second
job can be started beside the first one's remains. `MaxFaults` is one with two
clients: each property names the faults it does not survive, and any of the
others may fall between any two steps. The liveness run has two faults, such as
a Redis restart after a kill, or a failed write after a cancellation.

`ai_jobs` has the smallest set of outputs with every relation between two: a
translation and its source, a recap and its cover, two languages of one bundle.
Two runs are a first one and the one that repeats it, or an original and what
rests on it.

In `web`, the machines share no state with each other, so a state holds one of
them (`part`) and the others stand still: one run checks seven machines and the
inputs at the cost of their sum, 376,916 states. Three refreshers of one
connection give one that wins, one that read before it and one that reads after;
two sessions, two requests and one place make the block cache evict; three tasks
and three scopes let a late answer meet a scope two changes on; four records on
pages of one make a list move under its reader at both ends, and outgrow the last
count it sent; two jobs of two
sends against a budget of one call pass it together; two rows in batches of one
put a scan between two saves. The inputs of the algorithms are two to four
people, events, words or anchors, with times on, before and after each boundary.

Symmetry is used only in runs without liveness. In `web` the deadlock check is
off: a call ends, a list is read, an input is a single state. Everywhere else
nothing deadlocks: a request can always poll and time can always pass.

**Fairness.** `PeopleSync`: for each sync, the worker or the cron goes on with it
(one condition for its coroutine, its thread and the sweeper together, as every
wait is bounded: HTTP timeouts, the pager's deadline, the time limit), keys
expire, and a request that is going on goes on (it may still die by `WebCrash`).
No fault, cancellation, delete or refetch is ever obliged. The other machines of
`OrgLock`'s kind need none: what they promise is safety.

`Transcription`: the worker serves its queue and ends what it starts (read
timeouts, Gladia's own deadline, the time limit), clients go on polling, and the
cron runs. `AIJobs`: some run that can go on does, some queued or orphaned job is
served, and each request that polls goes on; nothing obliges a job, an expiry or
an ask in particular. `Transcription`'s properties that say "unless" name the faults, in `spent`:
`RowTakers` are a Redis restart (a job in a stage without reports then looks
lost), an enqueue that failed on one side only, and a stage longer than the
sweeper's hour. Each of them does break `LiveJobKeepsRow`.

## 4. What the violated runs show

1. **The cap check is not exact after a cancellation** (`cap_after_cancel`).
   `worker.run_people_sync` and docs/jobs.md say that under the lock every
   earlier sync has recorded its calls. A cancelled coroutine releases the lock
   and closes the row without a count, while its thread is inside a Livestorm
   call and records its calls only when it returns. Meanwhile the org also has
   two syncs calling Livestorm: `OneCallerPerOrg`, which `people_sync` checks
   without cancellations, fails the same way.
2. **A cancelled sync can still write** (`write_after_cancel`). docs/jobs.md says
   its thread "never writes". The last look at the event comes before
   `replace_session_roster`; a cancellation in between leaves the roster replaced
   and the row going from `error` to `completed`.
3. **A failed sync can have replaced the roster** (`roster_of_failed_sync`).
   docs/jobs.md says that on any failure, the database included, it raises
   before the roster is written and records the calls made. The completion is a
   second write outside the `try`: when it fails, the roster is new, the row is
   `error`, and its calls are not recorded.

4. **A poll answers before its job is done** (`transcript_shown_early`).
   `get_transcript_job_status_data` "returns full workspace data once done, else
   job status"; docs/jobs.md says the same. It looks for a cached transcript
   before it looks at the job, so after a forced refetch the first poll returns
   the old transcript and the client stops polling while the paid job runs.

## 5. Proofs

Every theorem holds for all values of the constants the assumptions allow. Some
say what a run no longer repeats, because the proof covers it and an abstract
specification checked by TLC implies it: `OneSyncPerOrg`, `OneWaitsPerOrg`
(`SyncSlots`), `OneActivePerSession`, `ConnOnlyWhilePending`, `ClosedNeverStarts`
(`JobRows`), and the types of `Transcription`, `AIJobs` and `OAuth`.

`OrgLockProofs`, from `OrgLockAssumption` (the two inequalities; `NoJob` is not a
job), for any set of jobs:

- `TypeCorrect`, `HolderKeepsLock`, `MutualExclusion`, `OneWaiter`,
  `SweeperSparesLiveJobs`: safety.
- `LockKeepsPromise`: `Spec => SlotsSpec`, every step of the lock is a step of
  `SyncSlots` or leaves it unchanged.

The inductive invariant relates each key's remaining life to its owner's elapsed
time: a job that has run for `e` holds a key with at least `LockTTL - e` to go,
and `e` never passes `JobTimeout < LockTTL`. Ownership alone is not inductive:
`Tick` would break it. Mutual exclusion follows, since one key holds one job. The
row's silence is bounded by the elapsed time in the same way.

`PeopleSyncProofs`, from `PeopleSyncAssumption`, for any sessions, orgs, syncs,
requests, caps and faults:

- `TypeCorrect`.
- `OneActive` (`OneActivePerSession`) and `ConnDropped`
  (`ConnOnlyWhilePending`), with no restriction on faults. Lemma `RowMoves`
  reduces every action to what it does to the rows (close, claim, insert,
  cascade); the two properties are then inductive over those five cases.
- `RowsKeepPromise` (`JobRowsSpec`): every step is one of `JobRows` or leaves the
  rows' life unchanged.
- `ClosedStaysIdle` (`ClosedNeverStarts`), an action property.
- `OneCaller` (`OneCallerPerOrg`), if no coroutine is cancelled and Redis does
  not restart. `CallerInv`: whoever is inside owns the lock, and a thread's
  coroutine awaits it inside. Finding 1 is what happens to its last part
  otherwise.
- `CapCheckExact` (`CallsRecordedUnderLock`), if moreover no worker is killed
  and no write fails. `CallsInv` adds what a thread leaves in its row.

`TranscriptionProofs`, from `TranscriptionAssumption`, for any sessions, jobs,
clients, slots, chunks and faults:

- `TypeCorrect`; `RowsKeepPromise` (`JobRowsSpec`), again through a `RowMoves`
  lemma. `Referred` says that whoever is about to close a row names one that was
  inserted; without it a close could touch an id not yet given.
- `LiveKeepsRow` (`LiveJobKeepsRow`). `LiveInv`: arq knows a live coroutine's job
  as running, and a client about to close a row read that arq had lost or failed
  it, which no enqueue under way can revive. The last part is what makes the
  stale read of `_reconcile_transcript_job` harmless.
- `OnePaid` (`OnePaidPerSession`): a thread at work is awaited (`WorkInv`), so its
  row is running (`LiveInv`), and a session has one such row (`RowInv`).
- `SlotsHold` (`WithinSlots`): the semaphore's count, by the cardinality lemmas.
- `CompletedSaved` and `SavedIsVisible` (`CompletedIsSaved`, `SavedUnderOrg`), by
  `SaveInv`.
- `NewestKept` (`NewestStays`): a job that saves has its row running, hence is its
  session's latest (`RowInv`: ids are given in order).

`AIJobsProofs`, from `AIJobsAssumption`, for any outputs, translations, requests,
runs and faults, from one inductive invariant `IInv`:

- `TypeCorrect`; `OneCall` (`OneCallPerOutput`): a thread at work whose job arq has
  not let go is the run of its key (`WorkInv`), and a key has one run. For that,
  the ids under which runs are queued must be apart, and a run that is not yet
  queued must be nobody's (`QueueInv`).
- `RetriesMoveOn` (`RetryGetsNewRun`): a request on its second try names a run that
  was over when it looked, and a run that is over never comes back under its key
  (`RetryInv`). Here lies the reason why dropping another's result does no harm.
- `SourcesSaved` (`MadeFromSaved`), by `SavedInv`: from the read to the save, a run
  whose epoch is still the row's rests on a saved source. Entries never leave
  within an epoch (`EntriesStay`).
- `EntriesAreKept` (`EntriesKept`), an action property.

The lemmas `KeysMove` and `RunsMove` reduce every action to what it does to one
job id and to one run; the invariants are then inductive over those few moves.

`SumProofs` has the laws of `Total`: a sum may be split at any element, is one
more when one term is, and is at most another that covers it. They say what a
fold returns, for every set. The library's induction theorems take an operator,
which no installed prover can instantiate; here a law that failed would fail for
a smallest set (`MinimalSubset`, from the well-foundedness of the strict subsets
of a finite set), and that set less one element makes the contradiction.

`PeopleSyncProofs` uses them, and goes on:

- `FailedLeavesRoster` (`FailedKeepsRoster`), if no write fails, which is finding
  3. `RosterInv`: the list a session holds is never that of a sync whose thread has
  yet to save, or has failed or been stopped before it saved (`Unwritten`).
  `StartInv`: a thread begins once, for a claimed row, so a sync that has saved
  does not go back to one that has not.
- `FinishedStays` (`CompletedStays`), if no enqueue fails. `EndedInv`: no request
  is about to close a row it failed to queue, a completed row's thread is over, and
  a coroutine about to write the row's end has a reason that is not success. With
  an enqueue that failed on the web side and arrived all the same, the request's
  `CloseUnqueued` and the sync both write the row.
- `NoneSavedStale` (`NoStaleRoster`), if no coroutine is cancelled and Redis does
  not restart: the lock (`CallerInv`) then puts the syncs of one session in order,
  and a list read under it is newer than every list saved before.
- `CapPassedOnce` (`CapPassedByOneSync`), if no fault takes away a sync's calls
  (cancellation, restart, kill, failed write), for finitely many syncs. `CapInv`:
  a sync at work that is not exempt stays one the sum counts, while it reads the
  organization had made fewer than `Cap` calls before its own, and so the sum
  never reaches `Cap + MaxCalls`. It needs `CapCheckExact`: what a sync reads at the
  check is all the calls there are.

`LlmProofs`, from `LlmAssumption` (finitely many jobs, a budget of 0 or more), for
any jobs, kinds and attempts:

- `LedgerIsComplete` (`LedgerTellsAll`). `Tells`: rows, lost rows and the answer not
  yet recorded make up the answers, in order; the timer is set or fired only while
  the stream is read, so what is saved was read in time.
- `BudgetPassedOnceEach` (`OvershootBounded`). The bound on answers is not inductive:
  at the check nothing is answered yet. `WithinBudget` counts a job that may send
  as having its row; then only a check that is passed adds to the sum, and it
  sets every automatic job's term against a row the check has summed, plus one.

`WebProofs`, each machine with its own assumptions, for any numbers of processes,
sessions, requests, tasks, records and rows. Each theorem says it twice: of the
machine's own specification, and of `WebSpec`, whose properties the run checks; one
machine moves in a behaviour, by its own steps (`Turn`). `CallsAreTold` and
`CallsInBudget` carry the two theorems of `LlmProofs` over in the same way.

- `LiveTokenStays` (`LiveTokenKept`), from `TokenAssumption`. `TokenInv`: every token
  read is one issued by then; whoever writes has Livestorm's latest; when tokens
  rotate one refresher writes at a time, since another's exchange would be refused;
  and until that write, or after it, the row has the live token.
- `ChangesReachAll` (`ChangeSeenInTime`). `SettingInv`: a value in an entry has been
  replaced for no longer than the entry's age and the time of the read that made
  it, which includes a read that stores after a newer one.
- `NeverOlder` (`NeverServedOlder`), with no assumption: a block is filed under the
  version it was built from, and the version a request asks for is between the one
  it began with and the row's.
- `ScreenStaysCurrent` (`ScreenIsCurrent`): flags and the progress slot name tasks at
  work in the current scope, and such a task is of the session opened last.
- `ListsAreWhole` (`ListWhole`): whoever was listed at the start and is not read yet
  stands behind the pages read, unless the pager is about to ask for a page again,
  which ends it. New records push back what is unread, never forward.
- `NoScriptPutsBack` (`NothingPutBack`): a row of the batch still stamped as it was
  read has the payload it was read with; and, until one is skipped, a row the scan
  has passed that still has a link is in the batch, since a batch is the next rows
  without a gap (`BatchIsNext`).

Two of these proofs changed what they are about. `ListWhole` said that a list
called complete is the list as it was last counted. That held on the small
instance only: `complete` compares the people kept with the count "on the last page
that sent one" (`fetch_session_people`), and a page without a count, after somebody
registered at each end of the list, makes a list that lacks one person and has one
too many match an old count. With four records TLC shows it in seven steps. The
comment above the fetchers says that the count "proves the list is complete"; it
does when the last page sends it, and `ListWhole` now says so. And `RecordCache` stored a
block by dropping the session's other blocks whatever their version; the code's
`OrderedDict` keeps the place of a block of the same version, and so does the model
now.

`ReportProofs`, from `ReportAssumption` (a minute lasts; a tolerance, a
minimum and the length of a short ref are naturals; digests have one length, longer than a short ref, and
are apart), for every input a parser can give:

- `MomentsAllPlaced` (`MomentsPlaced`), from three lemmas. `ClockKeepsAll`: the
  minutes of `minute_bins` hold every event and every second of speech between the
  clock's bounds, whatever the segments overlap. An instant is in one minute, so
  events are counted by minute (`EventsPlaced`); a span's seconds are what is spoken
  up to its end less what is up to its start, minute by minute, a sum that telescopes
  (`SpanPlaced`); then rows and columns are exchanged (`TotalSwap`), and no minute
  that holds anything is past the last one (`MinutesEnough`). `WalkMissesNone`:
  `_assign_by_time` walks back and stops at the first utterance whose furthest end,
  its own or an earlier one's, is behind the word; nothing it has not looked at could
  have been the owner. `ContextIsBest`: the three filters of `_EntityContextFinder`,
  in their order, are one lexicographic minimum.
- `PeopleAreOne` (`PeopleAgree`), from six. `RolesDoAgree`: the role `resolve_authors`
  computes and the one `escalate_roles` leaves in the roster are one, for every item of
  every source, since both classify the same person from the same signals. `RefsStayApart`:
  long refs differ because digests do, a long ref is no short ref because it is
  longer, and who keeps a short one shares it with nobody. `IdsAreStable`: numbering a
  permutation of the items gives the same table. A row's number is its rank, the
  count of what comes before it (`RankCounts`), copies are first reduced to one of
  each id, and which copy is kept does not matter because the copies of an id are the
  same. `WritersStayHidden`: two facts that differ only in who wrote have the same
  measures while authors are unresolved. `GroupsCountAll`: everyone of the audience is in
  one channel's row and in some segment's, whatever small groups are put together
  under `other`; a name nobody chose is no row's key; and counts of disjoint parts
  (`SplitOnce`) add up to the whole. `LeadsCountAll`: `_merge_small` loses nobody and
  stops only where it should. Its loop is a fold, and a step of it keeps the buckets
  apart (`JoinKeeps`) and, unless nothing is left to merge, leaves one group less
  (`StepMerges`); so after as many steps as there are groups the merge is over
  (`MergeEnds`), by the law that a fold keeps what each of its steps keeps
  (`FoldKeeps`, `FoldLands` of `SumProofs`, proved by a least counterexample since
  induction can't be instantiated).

The sorts these theorems meet are ranks (`InOrder`), which makes them provable:
the k-th is the one with k - 1 before it.

Only model-checked: `FiguresAddUp` and `RecordingKept`, about algorithms that fold
over sequences or sort them (medians, bursts, pauses, buckets, the sweep, the merge of
chunks); and all liveness (`SyncsSettle`, `WaitEnds`, `JobsSettle`, both
`PollsEnd`), which is beyond the prover.

## 6. Not modelled

- **Access scope and roles**: decided within one request from the caller and one
  row. There is no state to keep and no order to get wrong.
- **Progress**: best-effort display that no decision reads.
- **Routes, PDF, prompts, views, static files**: thin wrappers and formatting. The
  requests they start are steps of the modules above.
- **In the Record and Analytics**: matching names by similarity, text tokens, term
  statistics, stop words, labels, and the assembled JSON.
- **In the clients**: request formats, uploads, ffmpeg, the connection pool, whose
  cooldown only turns a call into a failure.

## 7. Plan

Done: `SyncSlots`, `OrgLock`, `PeopleSync`, `JobRows`, `Transcription`, `AIJobs`,
the small machines and the algorithms, with proofs of every safety property the
runs check of a machine and of the algorithms in `Report`. Left, in this order:

1. `FiguresAddUp` and `RecordingKept` for every input, by the way `LeadsCountAll`
   goes: an invariant of the fold, from `FoldKeeps`.
2. `AIJobs` as an implementation of a queue with one job per id.
3. Gladia's uploads and the rest of the session library, if they grow decisions.
