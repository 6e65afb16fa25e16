---------------------------- MODULE Transcription --------------------------
(***************************************************************************)
(* A session's transcription: the requests that start, join and poll it     *)
(* (api_logic.py), its transcript_jobs rows (db.py), the arq queue, the      *)
(* worker's coroutine with its slots (worker.py), the thread that works for  *)
(* Gladia (gladia/transcriber.py) and what reaches session_cache.           *)
(*                                                                         *)
(* Between two awaits the worker's event loop serves nobody else, while the  *)
(* threads and the web process go on.  Time is left out: a threshold is a    *)
(* guard on who may have been silent for that long.  Callers belong to the   *)
(* organization of the sessions.                                           *)
(***************************************************************************)
EXTENDS Naturals, FiniteSets

CONSTANTS
  Sessions, NoSession,
  Jobs,       \* transcript job ids, in the order of created_at
  Clients,    \* requests in flight at once, each with the polls after it
  Slots,      \* MAX_CONCURRENT_TRANSCRIPTIONS
  MaxChunks,  \* bound: chunks a recording is split into
  Before,     \* sessions that have a transcript when the model starts
  Forced,      \* the values of force_refresh clients send
  Faults,     \* the kinds of fault that may happen, each once
  MaxFaults   \* bound: faults in one behaviour

\* "slow": a stage that reports nothing outlasts the sweeper's hour.
FaultKinds == {"cancel", "kill", "web", "restart", "enqueue", "database", "delete", "slow"}

ASSUME TranscriptionAssumption ==
  /\ NoSession \notin Sessions
  /\ Jobs \subseteq Nat \ {0}
  /\ Slots \in Nat \ {0} /\ MaxChunks \in Nat \ {0} /\ MaxFaults \in Nat
  /\ Before \subseteq Sessions
  /\ Forced \subseteq BOOLEAN
  /\ Faults \subseteq FaultKinds

NoJob == 0

VARIABLES
  status, sess, conn,  \* transcript_jobs, by job id
  cached,       \* session_cache: no row, a row without an org, or with one
  has, source,  \* whether a session has a transcript, and which job's
  queue,        \* Redis: the arq job's state
  co,           \* each job's coroutine
  th, stop,     \* its thread, and the cancelled event
  left,         \* chunks its thread has yet to send after the present one
  client,       \* what each client is at
  spent         \* faults that have happened

rows == <<status, sess, conn>>
cache == <<cached, has, source>>
worker == <<co, th, stop, left>>
vars == <<rows, cache, queue, worker, client, spent>>

Active == {"pending", "running"}
Idle == [pc |-> "idle"]

Init ==
  /\ status = [j \in Jobs |-> "none"]
  /\ sess = [j \in Jobs |-> NoSession]
  /\ conn = [j \in Jobs |-> FALSE]
  /\ cached = [x \in Sessions |-> IF x \in Before THEN "stamped" ELSE "absent"]
  /\ has = [x \in Sessions |-> x \in Before]
  /\ source = [x \in Sessions |-> NoJob]
  /\ queue = [j \in Jobs |-> "none"]
  /\ co = [j \in Jobs |-> "none"]
  /\ th = [j \in Jobs |-> "none"]
  /\ stop = [j \in Jobs |-> FALSE]
  /\ left = [j \in Jobs |-> 0]
  /\ client = [c \in Clients |-> Idle]
  /\ spent = {}

-----------------------------------------------------------------------------
\* Faults, and the writes of the rows (db.py).

Spend(kinds) ==
  /\ kinds \subseteq Faults \ spent
  /\ Cardinality(spent \cup kinds) <= MaxFaults
  /\ spent' = spent \cup kinds

RowsOf(x) == {j \in Jobs : status[j] # "none" /\ sess[j] = x}
ActiveOf(x) == {j \in RowsOf(x) : status[j] \in Active}

\* Wrong: a closed status the schema does not know.
UpdateMisspelt(j, st) ==
  /\ status' = [status EXCEPT ![j] = "failed"]
  /\ conn' = [conn EXCEPT ![j] = FALSE]

\* Wrong: closing a row leaves its connection id in it.
UpdateKeepingConn(j, st) ==
  /\ status' = [status EXCEPT ![j] = st]
  /\ UNCHANGED conn

\* update_transcript_job_status to a closed status, whatever the row's own.
Update(j, st) ==
  /\ status' = [status EXCEPT ![j] = st]
  /\ conn' = [conn EXCEPT ![j] = FALSE]

\* The same, with the failed write it swallows; `kinds` befell it already.
TryUpdate(j, st, kinds) ==
  \/ Update(j, st) /\ Spend(kinds)
  \/ UNCHANGED <<status, conn>> /\ Spend(kinds \cup {"database"})

Coroutine(j, label) == co' = [co EXCEPT ![j] = label]
Thread(j, label) == th' = [th EXCEPT ![j] = label]
Queued(j, state) == queue' = [queue EXCEPT ![j] = state]
Become(c, state) == client' = [client EXCEPT ![c] = state]
Goto(c, label) == client' = [client EXCEPT ![c].pc = label]

Visible(x) == cached[x] = "stamped"

-----------------------------------------------------------------------------
\* Requests to start, and the polls that follow (api_logic.py).

\* fetch-transcript: a transcript already cached is the answer.
Ask(c, x) ==
  /\ client[c] = Idle
  /\ Visible(x) /\ has[x] => TRUE \in Forced
  /\ Become(c, [pc |-> "asking", session |-> x, job |-> NoJob, poll |-> FALSE])
  /\ UNCHANGED <<rows, cache, queue, worker, spent>>

\* The caller's own credentials cannot reach the session.
Refused(c) ==
  /\ client[c].pc = "asking"
  /\ ~Visible(client[c].session)
  /\ Become(c, Idle)
  /\ UNCHANGED <<rows, cache, queue, worker, spent>>

\* Stages of the thread between two progress reports.
Unreported == {"downloading", "extracting", "uploading"}
Quiet(j) == co[j] = "working" /\ th[j] \in Unreported

Enqueuing(j) ==
  \E c \in Clients : client[c].pc \in {"enqueuing", "unqueued"} /\ client[c].job = j

\* Wrong: a job in progress counts as lost when its row is silent.
DeadWhenQuiet(j) ==
  \/ queue[j] = "failed"
  \/ queue[j] \in {"none", "running"} /\ ~Enqueuing(j) /\ (co[j] = "none" \/ Quiet(j))

\* _reconcile_transcript_job: arq reports it failed, or has no trace of it two
\* minutes after its last report (an enqueue takes twenty seconds at most).
Dead(j) ==
  \/ queue[j] = "failed"
  \/ queue[j] = "none" /\ ~Enqueuing(j) /\ (co[j] = "none" \/ Quiet(j))

\* get_transcript_job_for_session, when that job is in flight.
LatestActive(x) == {j \in ActiveOf(x) : \A k \in RowsOf(x) : k <= j}

\* Wrong: a poll has no answer for a job that has ended in error.
LookWithoutEnd(c) ==
  LET me == client[c] IN
  /\ \/ me.pc = "asking"
     \/ me.pc = "following" /\ Visible(me.session) /\ ~has[me.session]
  /\ \/ /\ LatestActive(me.session) = {} /\ me.pc = "asking"
        /\ Become(c, [me EXCEPT !.pc = "creating"])
     \/ \E j \in LatestActive(me.session) :
        \/ /\ Dead(j)
           /\ Become(c, [me EXCEPT !.pc = "closing", !.job = j, !.poll = me.pc = "following"])
        \/ /\ ~Dead(j) /\ me.pc = "asking"
           /\ Become(c, [me EXCEPT !.pc = "following", !.job = j])
  /\ UNCHANGED <<rows, cache, queue, worker, spent>>

\* Starting, or polling a session without a transcript, the client reads the
\* latest job and asks arq about it: it joins a live one, will close a dead
\* one, and without either starts its own, or has the end of its job.
Look(c) ==
  LET me == client[c] IN
  /\ \/ me.pc = "asking"
     \/ me.pc = "following" /\ Visible(me.session) /\ ~has[me.session]
  /\ \/ /\ LatestActive(me.session) = {}
        /\ Become(c, IF me.pc = "asking" THEN [me EXCEPT !.pc = "creating"] ELSE Idle)
     \/ \E j \in LatestActive(me.session) :
        \/ /\ Dead(j)
           /\ Become(c, [me EXCEPT !.pc = "closing", !.job = j, !.poll = me.pc = "following"])
        \/ /\ ~Dead(j) /\ me.pc = "asking"
           /\ Become(c, [me EXCEPT !.pc = "following", !.job = j])
  /\ UNCHANGED <<rows, cache, queue, worker, spent>>

\* The dead job's row is closed, on what was read before asking arq: a poll
\* then answers with the error, a start goes on.
CloseDead(c) ==
  /\ client[c].pc = "closing"
  /\ TryUpdate(client[c].job, "error", {})
  /\ IF client[c].poll THEN Become(c, Idle) ELSE Goto(c, "creating")
  /\ UNCHANGED <<sess, cache, queue, worker>>

\* Wrong: the row is created before the session is stamped with its org.
CreateUnstamped(c) ==
  /\ client[c].pc = "creating"
  /\ ActiveOf(client[c].session) = {}
  /\ \E j \in Jobs :
       /\ status[j] = "none" /\ \A k \in Jobs : status[k] = "none" => j <= k
       /\ status' = [status EXCEPT ![j] = "pending"]
       /\ sess' = [sess EXCEPT ![j] = client[c].session]
       /\ conn' = [conn EXCEPT ![j] = TRUE]
       /\ Become(c, [client[c] EXCEPT !.pc = "enqueuing", !.job = j])
  /\ UNCHANGED <<cache, queue, worker, spent>>

\* Wrong: no unique index, so two clients both insert.
CreateUnjoined(c) ==
  /\ client[c].pc = "creating"
  /\ cached' = [cached EXCEPT ![client[c].session] = "stamped"]
  /\ \E j \in Jobs :
       /\ status[j] = "none" /\ \A k \in Jobs : status[k] = "none" => j <= k
       /\ status' = [status EXCEPT ![j] = "pending"]
       /\ sess' = [sess EXCEPT ![j] = client[c].session]
       /\ conn' = [conn EXCEPT ![j] = TRUE]
       /\ Become(c, [client[c] EXCEPT !.pc = "enqueuing", !.job = j])
  /\ UNCHANGED <<has, source, queue, worker, spent>>

\* The session_cache row is created or stamped with the caller's org, then
\* create_transcript_job joins the session's active row (unique index) or
\* inserts one.  The request fails with either write, or, with the ids of
\* Jobs used up (a bound), ends after it.
Create(c) ==
  LET x == client[c].session
      fresh == {j \in Jobs : status[j] = "none"}
  IN
  /\ client[c].pc = "creating"
  /\ \/ /\ Spend({"database"}) /\ Become(c, Idle)
        /\ cached' \in {cached, [cached EXCEPT ![x] = "stamped"]}
        /\ UNCHANGED rows
     \/ /\ cached' = [cached EXCEPT ![x] = "stamped"]
        /\ UNCHANGED spent
        /\ \/ \E j \in ActiveOf(x) :
              Become(c, [client[c] EXCEPT !.pc = "following", !.job = j]) /\ UNCHANGED rows
           \/ ActiveOf(x) = {} /\ fresh = {} /\ Become(c, Idle) /\ UNCHANGED rows
           \/ /\ ActiveOf(x) = {}
              /\ \E j \in fresh :
                 /\ \A k \in fresh : j <= k
                 /\ status' = [status EXCEPT ![j] = "pending"]
                 /\ sess' = [sess EXCEPT ![j] = x]
                 /\ conn' = [conn EXCEPT ![j] = TRUE]
                 /\ Become(c, [client[c] EXCEPT !.pc = "enqueuing", !.job = j])
  /\ UNCHANGED <<has, source, queue, worker>>

\* enqueue_unique_job_sync.  A call that fails on the web side may still have
\* reached Redis (the bridge gives up after 20 s).
Enqueue(c) ==
  /\ client[c].pc = "enqueuing"
  /\ LET queued == [queue EXCEPT ![client[c].job] = "queued"] IN
     \/ queue' = queued /\ Goto(c, "following") /\ UNCHANGED spent
     \/ queue' \in {queue, queued} /\ Goto(c, "unqueued") /\ Spend({"enqueue"})
  /\ UNCHANGED <<rows, cache, worker>>

\* The failed enqueue closes its row, whatever the row's status by then.
CloseUnqueued(c) ==
  /\ client[c].pc = "unqueued"
  /\ TryUpdate(client[c].job, "error", {})
  /\ Become(c, Idle)
  /\ UNCHANGED <<sess, cache, queue, worker>>

\* A poll that finds a transcript answers with the workspace.
Show(c) ==
  /\ client[c].pc = "following"
  /\ Visible(client[c].session) /\ has[client[c].session]
  /\ Become(c, Idle)
  /\ UNCHANGED <<rows, cache, queue, worker, spent>>

\* A poll that finds no row of its organization answers 404.
NotFound(c) ==
  /\ client[c].pc = "following"
  /\ ~Visible(client[c].session)
  /\ Become(c, Idle)
  /\ UNCHANGED <<rows, cache, queue, worker, spent>>

\* The web process stops, or the request dies, between two of its steps.
WebCrash(c) ==
  /\ client[c].pc \in {"closing", "creating", "enqueuing", "unqueued"}
  /\ Spend({"web"})
  /\ Become(c, Idle)
  /\ UNCHANGED <<rows, cache, queue, worker>>

-----------------------------------------------------------------------------
\* The worker's coroutine (worker.run_transcription, _transcription_slot).

\* Wrong: the claim does not ask for a pending row.
StartAnyRow(j) ==
  /\ queue[j] = "queued"
  /\ status' = [status EXCEPT ![j] = "running"]
  /\ conn' = [conn EXCEPT ![j] = FALSE]
  /\ Coroutine(j, "waiting") /\ Queued(j, "running")
  /\ UNCHANGED <<sess, cache, th, stop, left, client, spent>>

\* arq runs the job, which claims its row: the connection id is handed over
\* and cleared.  A row no longer pending is skipped.  A claim that fails is
\* outside the `try`, and leaves the row pending.
Start(j) ==
  /\ queue[j] = "queued"
  /\ \/ /\ status[j] = "pending"
        /\ status' = [status EXCEPT ![j] = "running"]
        /\ conn' = [conn EXCEPT ![j] = FALSE]
        /\ Coroutine(j, "waiting") /\ Queued(j, "running")
        /\ UNCHANGED spent
     \/ /\ status[j] # "pending"
        /\ Queued(j, "finished")
        /\ UNCHANGED <<status, conn, co, spent>>
     \/ /\ Spend({"database"})
        /\ Queued(j, "failed")
        /\ UNCHANGED <<status, conn, co>>
  /\ UNCHANGED <<sess, cache, th, stop, left, client>>

Holders == {j \in Jobs : co[j] \in {"holding", "working"}}

\* Wrong: no limit on the transcriptions at work.
TakeSlotAlways(j) ==
  /\ co[j] = "waiting"
  /\ Coroutine(j, "holding")
  /\ UNCHANGED <<rows, cache, queue, th, stop, left, client, spent>>

\* The worker's semaphore; whoever waits reports every minute.
TakeSlot(j) ==
  /\ co[j] = "waiting"
  /\ Cardinality(Holders) < Slots
  /\ Coroutine(j, "holding")
  /\ UNCHANGED <<rows, cache, queue, th, stop, left, client, spent>>

\* With a slot, the credentials are resolved and the thread starts.
BeginThread(j) ==
  /\ co[j] = "holding"
  /\ Coroutine(j, "working") /\ Thread(j, "downloading")
  /\ UNCHANGED <<rows, cache, queue, stop, left, client, spent>>

\* No Gladia key, credentials refused, or the thread raised: the row becomes
\* error and the job fails.
Fail(j) ==
  /\ \/ co[j] \in {"waiting", "holding"}
     \/ co[j] = "working" /\ th[j] = "failed"
  /\ TryUpdate(j, "error", {})
  /\ Coroutine(j, "none") /\ Queued(j, "failed")
  /\ UNCHANGED <<sess, cache, th, stop, left, client>>

\* Wrong: a failed upsert is logged, and the job goes on to complete.
PersistOrLog(j) ==
  /\ co[j] = "working" /\ th[j] = "done"
  /\ Coroutine(j, "saved")
  /\ Spend({"database"})
  /\ UNCHANGED <<rows, cache, queue, th, stop, left, client>>

\* upsert_cached_session with the transcript: a session deleted meanwhile has
\* its row made again, without an organization.  The write failing fails the
\* job.
Persist(j) ==
  /\ co[j] = "working" /\ th[j] = "done"
  /\ \/ /\ cached' = [cached EXCEPT ![sess[j]] = IF @ = "absent" THEN "unstamped" ELSE @]
        /\ has' = [has EXCEPT ![sess[j]] = TRUE]
        /\ source' = [source EXCEPT ![sess[j]] = j]
        /\ Coroutine(j, "saved")
        /\ UNCHANGED <<status, conn, queue, spent>>
     \/ /\ Spend({"database"})
        /\ Update(j, "error") \/ UNCHANGED <<status, conn>>
        /\ Coroutine(j, "none") /\ Queued(j, "failed")
        /\ UNCHANGED cache
  /\ UNCHANGED <<sess, th, stop, left, client>>

\* The row is completed by a second write, whatever its status by then.
Finish(j) ==
  /\ co[j] = "saved"
  /\ TryUpdate(j, "completed", {})
  /\ Coroutine(j, "none") /\ Queued(j, "finished")
  /\ UNCHANGED <<sess, cache, th, stop, left, client>>

\* CancelledError (time limit, shutdown) at an await: the slot is given back,
\* the event set and the row closed, while the thread goes on.
Cancel(j) ==
  /\ co[j] \in {"waiting", "holding", "working"}
  /\ stop' = [stop EXCEPT ![j] = TRUE]
  /\ TryUpdate(j, "error", {"cancel"})
  /\ Coroutine(j, "none") /\ Queued(j, "failed")
  /\ UNCHANGED <<sess, cache, th, left, client>>

-----------------------------------------------------------------------------
\* The thread (transcriber.py).  Each stage but one begins with a progress
\* report, in which a cancelled job raises.

Report(j, stage) == Thread(j, IF stop[j] THEN "failed" ELSE stage)

Downloaded(j) ==
  /\ th[j] = "downloading"
  /\ Report(j, "extracting")
  /\ UNCHANGED <<rows, cache, queue, co, stop, left, client, spent>>

Extracted(j) ==
  /\ th[j] = "extracting"
  /\ \E n \in 1..MaxChunks : left' = [left EXCEPT ![j] = n - 1]
  /\ Report(j, "uploading")
  /\ UNCHANGED <<rows, cache, queue, co, stop, client, spent>>

\* The upload's end starts paid work, with no report in between.
Uploaded(j) ==
  /\ th[j] = "uploading"
  /\ Thread(j, "transcribing")
  /\ UNCHANGED <<rows, cache, queue, co, stop, left, client, spent>>

\* Gladia is done with the chunk, which is reported: the next one, or the end.
Transcribed(j) ==
  /\ th[j] = "transcribing"
  /\ IF left[j] > 0
     THEN Report(j, "uploading") /\ left' = [left EXCEPT ![j] = @ - 1]
     ELSE Report(j, "done") /\ UNCHANGED left
  /\ UNCHANGED <<rows, cache, queue, co, stop, client, spent>>

AtWork == Unreported \cup {"transcribing"}

\* Livestorm, ffmpeg or Gladia fails, or a report of an unfinished stage raises.
ThreadFails(j) ==
  /\ th[j] \in AtWork
  /\ Thread(j, "failed")
  /\ UNCHANGED <<rows, cache, queue, co, stop, left, client, spent>>

-----------------------------------------------------------------------------
\* The rest of the system.

\* Wrong: forgets the rows whose job was never run.
SweepRunning(j) ==
  /\ status[j] = "running" /\ co[j] = "none"
  /\ Update(j, "error")
  /\ UNCHANGED <<sess, cache, queue, worker, client, spent>>

\* _sweep_stuck_transcript_jobs_sync: silent for an hour.  Its failure is
\* swallowed, until the next run of the cron.
Sweep(j) ==
  /\ status[j] \in Active
  /\ co[j] = "none" /\ ~Enqueuing(j)
  /\ Update(j, "error")
  /\ UNCHANGED <<sess, cache, queue, worker, client, spent>>

\* The same for a stage with no report and no limit of its own.
SweepQuiet(j) ==
  /\ status[j] \in Active
  /\ Quiet(j)
  /\ Spend({"slow"})
  /\ Update(j, "error")
  /\ UNCHANGED <<sess, cache, queue, worker, client>>

\* The worker dies with its coroutines, threads and slots.  arq's in-progress
\* key outlives it, then the job fails its second try (max_tries = 1).
Kill ==
  /\ Spend({"kill"})
  /\ co' = [j \in Jobs |-> "none"]
  /\ th' = [j \in Jobs |-> IF th[j] = "none" THEN "none" ELSE "dead"]
  /\ UNCHANGED <<rows, cache, queue, stop, left, client>>

OrphanFails(j) ==
  /\ queue[j] = "running" /\ co[j] = "none"
  /\ Queued(j, "failed")
  /\ UNCHANGED <<rows, cache, worker, client, spent>>

\* Redis forgets the queue and the jobs in progress.
RedisRestart ==
  /\ Spend({"restart"})
  /\ queue' = [j \in Jobs |-> "none"]
  /\ UNCHANGED <<rows, cache, worker, client>>

\* admin_delete_session: transcript_jobs rows stay.
Delete(x) ==
  /\ cached[x] # "absent"
  /\ Spend({"delete"})
  /\ cached' = [cached EXCEPT ![x] = "absent"]
  /\ has' = [has EXCEPT ![x] = FALSE]
  /\ source' = [source EXCEPT ![x] = NoJob]
  /\ UNCHANGED <<rows, queue, worker, client>>

\* The event loop runs one coroutine at a time, to its next await.
LoopFree(j) == \A k \in Jobs \ {j} : co[k] # "saved"

CoroutineStep(j) ==
  /\ LoopFree(j)
  /\ \/ Start(j) \/ TakeSlot(j) \/ BeginThread(j) \/ Fail(j) \/ Persist(j) \/ Finish(j)

ThreadStep(j) ==
  Downloaded(j) \/ Extracted(j) \/ Uploaded(j) \/ Transcribed(j) \/ ThreadFails(j)

ClientStep(c) ==
  \/ Look(c) \/ CloseDead(c) \/ Create(c) \/ Enqueue(c) \/ CloseUnqueued(c)
  \/ Show(c) \/ NotFound(c)

Next ==
  \/ \E c \in Clients : \/ \E x \in Sessions : Ask(c, x)
                        \/ Refused(c) \/ ClientStep(c) \/ WebCrash(c)
  \/ \E j \in Jobs : \/ CoroutineStep(j) \/ (LoopFree(j) /\ Cancel(j)) \/ ThreadStep(j)
                     \/ Sweep(j) \/ SweepQuiet(j) \/ OrphanFails(j)
  \/ \E x \in Sessions : Delete(x)
  \/ Kill \/ RedisRestart

Spec == Init /\ [][Next]_vars

\* The worker serves its queue and ends what it starts (read timeouts, Gladia's
\* own deadline, the time limit), clients go on polling, the cron runs.
Fairness ==
  /\ \A j \in Jobs : /\ WF_vars(CoroutineStep(j)) /\ WF_vars(ThreadStep(j))
                     /\ WF_vars(Sweep(j))
  /\ \A c \in Clients : WF_vars(ClientStep(c))

FairSpec == Spec /\ Fairness

-----------------------------------------------------------------------------
RowStatus == {"none", "pending", "running", "completed", "error"}
ThreadState == AtWork \cup {"none", "done", "failed", "dead"}
Place == {"asking", "closing", "creating", "enqueuing", "unqueued", "following"}

TypeOK ==
  /\ status \in [Jobs -> RowStatus]
  /\ sess \in [Jobs -> Sessions \cup {NoSession}]
  /\ conn \in [Jobs -> BOOLEAN]
  /\ cached \in [Sessions -> {"absent", "unstamped", "stamped"}]
  /\ has \in [Sessions -> BOOLEAN] /\ source \in [Sessions -> Jobs \cup {NoJob}]
  /\ queue \in [Jobs -> {"none", "queued", "running", "finished", "failed"}]
  /\ co \in [Jobs -> {"none", "waiting", "holding", "working", "saved"}]
  /\ th \in [Jobs -> ThreadState] /\ stop \in [Jobs -> BOOLEAN] /\ left \in [Jobs -> Nat]
  /\ client \in [Clients -> {Idle} \cup [pc : Place, session : Sessions,
                                        job : Jobs \cup {NoJob}, poll : BOOLEAN]]
  /\ spent \subseteq FaultKinds

\* Whatever claims, closes and creates the rows at once, they keep the promise
\* of a job's rows (docs/jobs.md, "Transcription", 2, 3 and step 1).
JobRow == INSTANCE JobRows WITH
  life <- [j \in Jobs |-> IF status[j] \in {"completed", "error"} THEN "closed" ELSE status[j]],
  owner <- sess, token <- conn
JobRowsSpec == JobRow!Spec

\* What may take the row from a job that is at work.
RowTakers == {"restart", "enqueue", "slow"}

\* A job at work keeps its row running: no poll, start, sweep or failed write
\* closes it, unless Redis lost it, its enqueue seemed to fail, or a stage
\* with no report outlasted the sweeper's hour.
LiveJobKeepsRow ==
  spent \cap RowTakers = {} =>
    \A j \in Jobs : co[j] # "none" => status[j] = "running"

\* Nobody pays Gladia twice at once for one session (api_logic.py), unless the
\* above, or a cancelled job's thread is still about.
OnePaidPerSession ==
  spent \cap (RowTakers \cup {"cancel"}) = {} =>
    \A j, k \in Jobs : th[j] = "transcribing" /\ th[k] = "transcribing" /\ sess[j] = sess[k]
                       => j = k

\* At most MAX_CONCURRENT_TRANSCRIPTIONS threads download, extract or upload
\* (docs/jobs.md), unless a cancelled one has given its slot back already.
WithinSlots ==
  "cancel" \notin spent => Cardinality({j \in Jobs : th[j] \in AtWork}) <= Slots

\* A later transcription's transcript is never replaced by an earlier one's.
NewestStays ==
  [][spent \cap RowTakers = {} =>
       \A x \in Sessions : source'[x] # NoJob => source'[x] >= source[x]]_vars

\* A completed job's transcript is there to be shown: a failed save never
\* reads completed (docs/jobs.md, "Saves").
CompletedIsSaved ==
  "delete" \notin spent => \A j \in Jobs : status[j] = "completed" => has[sess[j]]

\* The transcript lands on a row already stamped with its organization
\* (fetch_session_transcript_data), unless an admin deletes the session.
SavedUnderOrg ==
  "delete" \notin spent => \A x \in Sessions : source[x] # NoJob => Visible(x)

\* No session stays blocked: every job in flight is closed in the end.
JobsSettle ==
  \A j \in Jobs : status[j] \in Active ~> status[j] \notin Active

\* Whoever polls has an answer in the end: the transcript, the error, or 404.
PollsEnd ==
  \A c \in Clients : client[c].pc = "following" ~> client[c] = Idle

\* The poll returns the workspace once its job is done, else the job's status
\* (get_transcript_job_status_data): a workspace shown is the job's own.
ShownIsDone ==
  [][\A c \in Clients : Show(c) =>
       status[client[c].job] \notin Active \/ source[client[c].session] = client[c].job]_vars
=============================================================================
