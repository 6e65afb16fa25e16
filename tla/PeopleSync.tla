----------------------------- MODULE PeopleSync ----------------------------
(***************************************************************************)
(* The people sync, end to end: the web requests that poll and start it     *)
(* (people_sync.py), its livestorm_sync_jobs rows (db.py), the arq queue,   *)
(* the worker coroutine under the org's lock and the thread that calls      *)
(* Livestorm and replaces the roster (worker.py, people_sync.py), with      *)
(* cancellations, a killed worker, a Redis restart, failed enqueues, failed *)
(* writes and admin deletes.                                               *)
(*                                                                         *)
(* Time is left out: a threshold is a guard on who may still be at work.    *)
(* OrgLock justifies the two that matter, that a live job's lock does not   *)
(* expire and its row is not swept.  All calls fall within one cap window.  *)
(***************************************************************************)
EXTENDS Naturals, Sums

CONSTANTS
  Sessions, Orgs,
  NoSession,
  OrgOf,      \* session -> the org stamped on its session_cache row
  Syncs,      \* sync ids, in the order of created_at
  Requests,   \* web requests in flight at once
  Past,       \* sessions last synced before the model starts (and the window)
  Cap,        \* daily_calls_cap()
  MaxCalls,   \* bound: Livestorm answers one sync reads
  Faults      \* bound: how often each kind of fault may happen

FaultKinds == {"cancel", "kill", "restart", "enqueue", "database", "delete"}

ASSUME PeopleSyncAssumption ==
  /\ OrgOf \in [Sessions -> Orgs] /\ NoSession \notin Sessions
  /\ Syncs \subseteq Nat \ {0} /\ Past \subseteq Sessions
  /\ Cap \in Nat /\ MaxCalls \in Nat
  /\ Faults \in [FaultKinds -> Nat]

NoSync == 0

VARIABLES
  status, sess, reason, conn, recorded,  \* livestorm_sync_jobs, by sync id
  cached, roster,     \* session_cache; whose list session_rosters holds
  past,               \* sessions with an older list and a completed sync row
  queue, lock, place, \* Redis: arq job states; the org's two keys
  co, out,            \* each job's coroutine, and how its body ended
  th, stop, made,     \* its thread, the cancelled event, counter.calls
  overtaken,          \* syncs whose list another has been saved over
  exempt,             \* syncs that started as a first initial one
  req,                \* each web request: its place and what it has read
  budget              \* faults still to come

rows == <<status, sess, reason, conn, recorded>>
cache == <<cached, roster, past>>
keys == <<lock, place>>
worker == <<co, out, th, stop, made, overtaken, exempt>>
vars == <<rows, cache, queue, keys, worker, req, budget>>

Active == {"pending", "running"}
Idle == [pc |-> "idle"]

Init ==
  /\ status = [s \in Syncs |-> "none"]
  /\ sess = [s \in Syncs |-> NoSession]
  /\ reason = [s \in Syncs |-> "manual"]
  /\ conn = [s \in Syncs |-> FALSE]
  /\ recorded = [s \in Syncs |-> 0]
  /\ cached = [x \in Sessions |-> TRUE]
  /\ roster = [x \in Sessions |-> NoSync]
  /\ past = Past
  /\ queue = [s \in Syncs |-> "none"]
  /\ lock = [o \in Orgs |-> NoSync]
  /\ place = [o \in Orgs |-> NoSync]
  /\ co = [s \in Syncs |-> "none"]
  /\ out = [s \in Syncs |-> "none"]
  /\ th = [s \in Syncs |-> "none"]
  /\ stop = [s \in Syncs |-> FALSE]
  /\ made = [s \in Syncs |-> 0]
  /\ overtaken = {} /\ exempt = {}
  /\ req = [r \in Requests |-> Idle]
  /\ budget = Faults

-----------------------------------------------------------------------------
\* Reads and writes of the rows (db.py).

Exists(s) == status[s] \notin {"none", "deleted"}
RowsOf(x) == {s \in Syncs : Exists(s) /\ sess[s] = x}
ActiveOf(x) == {s \in RowsOf(x) : status[s] \in Active}

\* livestorm_sync_is_first_initial: the session's first initial sync.
FirstInitial(s) ==
  /\ Exists(s) /\ reason[s] = "initial" /\ sess[s] \notin past
  /\ \A e \in RowsOf(sess[s]) : reason[e] = "initial" => s <= e

\* livestorm_sync_calls_since: the calls recorded by an org's other syncs.
CallsSince(o) ==
  Total(recorded, {s \in Syncs : Exists(s) /\ OrgOf[sess[s]] = o /\ ~FirstInitial(s)})

\* Wrong: a closed status the schema does not know.
UpdateMisspelt(s, st) ==
  /\ status' = IF Exists(s) THEN [status EXCEPT ![s] = "failed"] ELSE status
  /\ conn' = [conn EXCEPT ![s] = FALSE]

\* Wrong: closing a row leaves its connection id in it.
UpdateKeepingConn(s, st) ==
  /\ status' = IF Exists(s) THEN [status EXCEPT ![s] = st] ELSE status
  /\ UNCHANGED conn

\* update_livestorm_sync to a closed status, whatever the row's status: it
\* drops the connection id, and touches nothing when the row is gone.
Update(s, st) ==
  /\ status' = IF Exists(s) THEN [status EXCEPT ![s] = st] ELSE status
  /\ conn' = [conn EXCEPT ![s] = FALSE]

Record(s) == recorded' = [recorded EXCEPT ![s] = IF Exists(s) THEN made[s] ELSE 0]

Spend(kind) == budget[kind] > 0 /\ budget' = [budget EXCEPT ![kind] = @ - 1]

Org(s) == OrgOf[sess[s]]
Goto(s, label) == co' = [co EXCEPT ![s] = label]
Thread(s, label) == th' = [th EXCEPT ![s] = label]
Become(r, state) == req' = [req EXCEPT ![r] = state]
Advance(r, label) == req' = [req EXCEPT ![r].pc = label]

-----------------------------------------------------------------------------
\* Web requests of the session's own org (people_sync.py).

\* fetch_roster_status: one read, from which the request decides: the
\* session's latest sync, by created_at, and whether it has a roster.
ReadStatus(r, x) ==
  /\ req[r] = Idle
  /\ cached[x]
  /\ LET Seen(s, st) ==
         Become(r, [pc |-> "read", session |-> x, sync |-> s, seen |-> st,
                    reason |-> IF roster[x] = NoSync /\ x \notin past THEN "initial" ELSE "manual"])
     IN  \/ RowsOf(x) = {} /\ Seen(NoSync, IF x \in past THEN "completed" ELSE "none")
         \/ \E s \in RowsOf(x) : (\A t \in RowsOf(x) : t <= s) /\ Seen(s, status[s])
  /\ UNCHANGED <<rows, cache, queue, keys, worker, budget>>

\* No trace of the job in arq, two minutes after the row's last update: the
\* enqueue that would leave one takes twenty seconds at most.
Lost(s) ==
  /\ queue[s] = "none"
  /\ \A r \in Requests : req[r].pc = "enqueuing" => req[r].sync # s

\* Wrong: closes on the status it has read, without only_from.
ReconcileStale(r) ==
  /\ req[r].pc = "read" /\ req[r].seen \in Active
  /\ queue[req[r].sync] = "failed" \/ Lost(req[r].sync)
  /\ Update(req[r].sync, "error")
  /\ Become(r, [req[r] EXCEPT !.seen = "error"])
  /\ UNCHANGED <<sess, reason, recorded, cache, queue, keys, worker, budget>>

\* _reconcile_sync closes a sync arq has failed or lost, if still active.
Reconcile(r) ==
  /\ req[r].pc = "read"
  /\ LET s == req[r].sync IN
     /\ req[r].seen \in Active
     /\ queue[s] = "failed" \/ Lost(s)
     /\ IF status[s] \in Active
        THEN Update(s, "error") /\ Become(r, [req[r] EXCEPT !.seen = "error"])
        ELSE Become(r, Idle) /\ UNCHANGED <<status, conn>>
  /\ UNCHANGED <<sess, reason, recorded, cache, queue, keys, worker, budget>>

\* A poll's answer; a sync to join; the cooldown; the cap's 429.
Answer(r) ==
  /\ req[r].pc = "read"
  /\ Become(r, Idle)
  /\ UNCHANGED <<rows, cache, queue, keys, worker, budget>>

\* The daily cap, from which the session's very first sync is exempt.
PassGuards(r) ==
  /\ req[r].pc = "read"
  /\ req[r].seen \notin Active
  /\ \/ req[r].reason = "initial" /\ req[r].seen = "none"
     \/ CallsSince(OrgOf[req[r].session]) < Cap
  /\ Advance(r, "creating")
  /\ UNCHANGED <<rows, cache, queue, keys, worker, budget>>

\* Wrong: no unique index, so two requests both insert.
CreateUnjoined(r) ==
  /\ req[r].pc = "creating"
  /\ \E s \in Syncs :
       /\ status[s] = "none" /\ \A t \in 1..(s - 1) : status[t] # "none"
       /\ status' = [status EXCEPT ![s] = "pending"]
       /\ sess' = [sess EXCEPT ![s] = req[r].session]
       /\ reason' = [reason EXCEPT ![s] = req[r].reason]
       /\ conn' = [conn EXCEPT ![s] = TRUE]
       /\ Become(r, [req[r] EXCEPT !.pc = "enqueuing", !.sync = s])
  /\ UNCHANGED <<recorded, cache, queue, keys, worker, budget>>

\* create_livestorm_sync: refused for a session no longer cached (foreign
\* key), joined to the session's active row (unique index), or inserted.
\* With the ids of Syncs used up (a bound), the request ends.
Create(r) ==
  /\ req[r].pc = "creating"
  /\ LET x == req[r].session
         fresh == {s \in Syncs : status[s] = "none"}
     IN  \/ /\ ~cached[x] \/ ActiveOf(x) # {} \/ fresh = {}
            /\ Become(r, Idle)
            /\ UNCHANGED rows
         \/ /\ cached[x] /\ ActiveOf(x) = {}
            /\ \E s \in fresh :
               /\ \A t \in fresh : s <= t
               /\ status' = [status EXCEPT ![s] = "pending"]
               /\ sess' = [sess EXCEPT ![s] = x]
               /\ reason' = [reason EXCEPT ![s] = req[r].reason]
               /\ conn' = [conn EXCEPT ![s] = TRUE]
               /\ Become(r, [req[r] EXCEPT !.pc = "enqueuing", !.sync = s])
               /\ UNCHANGED recorded
  /\ UNCHANGED <<cache, queue, keys, worker, budget>>

\* enqueue_unique_job_sync.  A call that fails on the web side may still have
\* reached Redis (the bridge gives up after 20 s).
Enqueue(r) ==
  /\ req[r].pc = "enqueuing"
  /\ LET queued == [queue EXCEPT ![req[r].sync] = "queued"] IN
     \/ queue' = queued /\ Become(r, Idle) /\ UNCHANGED budget
     \/ queue' \in {queue, queued} /\ Advance(r, "unqueued") /\ Spend("enqueue")
  /\ UNCHANGED <<rows, cache, keys, worker>>

\* The failed enqueue closes its row, whatever the row's status by then.
CloseUnqueued(r) ==
  /\ req[r].pc = "unqueued"
  /\ Update(req[r].sync, "error")
  /\ Become(r, Idle)
  /\ UNCHANGED <<sess, reason, recorded, cache, queue, keys, worker, budget>>

\* The web process stops, or the request dies, between two of its steps.
WebCrash(r) ==
  /\ req[r].pc \in {"enqueuing", "unqueued"}
  /\ Become(r, Idle)
  /\ Spend("kill")
  /\ UNCHANGED <<rows, cache, queue, keys, worker>>

-----------------------------------------------------------------------------
\* The worker's coroutine (worker.run_people_sync, _people_sync_org_lock).

\* Wrong: the claim does not ask for a pending row.
StartAnyRow(s) ==
  /\ queue[s] = "queued"
  /\ status' = [status EXCEPT ![s] = "running"]
  /\ conn' = [conn EXCEPT ![s] = FALSE]
  /\ Goto(s, "claimed")
  /\ queue' = [queue EXCEPT ![s] = "running"]
  /\ UNCHANGED <<sess, reason, recorded, cache, keys, out, th, stop, made,
                 overtaken, exempt, req, budget>>

\* arq runs the job, which claims its row: the connection id is handed over
\* and cleared.  A row no longer pending is skipped.
Start(s) ==
  /\ queue[s] = "queued"
  /\ IF status[s] = "pending"
     THEN /\ status' = [status EXCEPT ![s] = "running"]
          /\ conn' = [conn EXCEPT ![s] = FALSE]
          /\ Goto(s, "claimed")
          /\ queue' = [queue EXCEPT ![s] = "running"]
     ELSE /\ queue' = [queue EXCEPT ![s] = "finished"]
          /\ UNCHANGED <<status, conn, co>>
  /\ UNCHANGED <<sess, reason, recorded, cache, keys, out, th, stop, made,
                 overtaken, exempt, req, budget>>

\* Cancelled during the claim, outside the `try`: the claim's thread still
\* moves the row to running, and no handler closes it.
StartCancelled(s) ==
  /\ queue[s] = "queued" /\ status[s] = "pending"
  /\ Spend("cancel")
  /\ status' = [status EXCEPT ![s] = "running"]
  /\ conn' = [conn EXCEPT ![s] = FALSE]
  /\ queue' = [queue EXCEPT ![s] = "failed"]
  /\ UNCHANGED <<sess, reason, recorded, cache, keys, worker, req>>

End(s, how, label) == out' = [out EXCEPT ![s] = how] /\ Goto(s, label)

\* Wrong: SET without NX.
TryLockAlways(s) ==
  /\ co[s] = "claimed" /\ cached[sess[s]]
  /\ lock' = [lock EXCEPT ![Org(s)] = s] /\ Goto(s, "holding")
  /\ UNCHANGED <<rows, cache, queue, place, out, th, stop, made, overtaken, exempt, req, budget>>

\* The session's org is read, then the lock is taken, or the one waiting
\* place, or neither (PeopleSyncBusy).
TryLock(s) ==
  /\ co[s] = "claimed"
  /\ LET o == Org(s) IN
     \/ ~cached[sess[s]] /\ End(s, "failed", "marking") /\ UNCHANGED keys
     \/ /\ cached[sess[s]] /\ lock[o] = NoSync
        /\ lock' = [lock EXCEPT ![o] = s] /\ Goto(s, "holding")
        /\ UNCHANGED <<place, out>>
     \/ /\ cached[sess[s]] /\ lock[o] # NoSync /\ place[o] = NoSync
        /\ place' = [place EXCEPT ![o] = s] /\ Goto(s, "waiting")
        /\ UNCHANGED <<lock, out>>
     \/ /\ cached[sess[s]] /\ lock[o] # NoSync /\ place[o] # NoSync
        /\ End(s, "failed", "marking") /\ UNCHANGED keys
  /\ UNCHANGED <<rows, cache, queue, th, stop, made, overtaken, exempt, req, budget>>

Release(key, s) == [key EXCEPT ![Org(s)] = IF @ = s THEN NoSync ELSE @]

\* The wait ends with the lock, its place freed, or on a closed row.
Promote(s) ==
  /\ co[s] = "waiting"
  /\ lock[Org(s)] = NoSync
  /\ lock' = [lock EXCEPT ![Org(s)] = s]
  /\ place' = Release(place, s)
  /\ Goto(s, "holding")
  /\ UNCHANGED <<rows, cache, queue, out, th, stop, made, overtaken, exempt, req, budget>>

StopWaiting(s) ==
  /\ co[s] = "waiting"
  /\ status[s] # "running"
  /\ End(s, "failed", "leaving")
  /\ UNCHANGED <<rows, cache, queue, keys, th, stop, made, overtaken, exempt, req, budget>>

\* Wrong: the worker trusts the web request's cap check.
BeginThreadUnchecked(s) ==
  /\ co[s] = "holding"
  /\ exempt' = IF FirstInitial(s) THEN exempt \cup {s} ELSE exempt
  /\ Goto(s, "syncing") /\ Thread(s, "reading")
  /\ UNCHANGED <<rows, cache, queue, keys, out, stop, made, overtaken, req, budget>>

\* check_daily_cap again, under the lock; then the thread.
BeginThread(s) ==
  /\ co[s] = "holding"
  /\ FirstInitial(s) \/ CallsSince(Org(s)) < Cap
  /\ exempt' = IF FirstInitial(s) THEN exempt \cup {s} ELSE exempt
  /\ Goto(s, "syncing") /\ Thread(s, "reading")
  /\ UNCHANGED <<rows, cache, queue, keys, out, stop, made, overtaken, req, budget>>

\* The cap is reached, or the credentials are refused: no call.
RefuseBody(s) ==
  /\ co[s] = "holding"
  /\ End(s, "failed", "leaving")
  /\ UNCHANGED <<rows, cache, queue, keys, th, stop, made, overtaken, exempt, req, budget>>

ThreadReturns(s) ==
  /\ co[s] = "syncing"
  /\ \/ th[s] = "over" /\ End(s, "ok", "leaving")
     \/ th[s] = "raised" /\ End(s, "failed", "leaving")
  /\ UNCHANGED <<rows, cache, queue, keys, th, stop, made, overtaken, exempt, req, budget>>

\* CancelledError (time limit, shutdown): the keys go first, in `finally`.  When
\* it falls on a command to Redis, nobody waits for what that does: a key may be
\* set whose release is never reached, and one that is left may stay.
Cancel(s) ==
  /\ Spend("cancel")
  /\ \/ /\ co[s] \in {"claimed", "waiting", "holding", "syncing"}
        /\ End(s, "cancelled", "leaving") /\ UNCHANGED keys
     \/ /\ co[s] \in {"claimed", "waiting"} /\ lock[Org(s)] = NoSync
        /\ co[s] = "claimed" => cached[sess[s]]
        /\ End(s, "cancelled", "marking")
        /\ lock' = [lock EXCEPT ![Org(s)] = s] /\ place' \in {place, Release(place, s)}
     \/ /\ co[s] = "claimed" /\ cached[sess[s]] /\ lock[Org(s)] # NoSync /\ place[Org(s)] = NoSync
        /\ End(s, "cancelled", "marking")
        /\ place' = [place EXCEPT ![Org(s)] = s] /\ UNCHANGED lock
     \/ /\ co[s] = "leaving"
        /\ End(s, "cancelled", "marking")
        /\ lock' \in {lock, Release(lock, s)} /\ place' \in {place, Release(place, s)}
  /\ UNCHANGED <<rows, cache, queue, th, stop, made, overtaken, exempt, req>>

\* The keys are released, each only by its owner; a success is then done.
Leave(s) ==
  /\ co[s] = "leaving"
  /\ lock' = Release(lock, s) /\ place' = Release(place, s)
  /\ IF out[s] = "ok"
     THEN End(s, "none", "none") /\ queue' = [queue EXCEPT ![s] = "finished"]
     ELSE Goto(s, "marking") /\ UNCHANGED <<queue, out>>
  /\ UNCHANGED <<rows, cache, th, stop, made, overtaken, exempt, req, budget>>

\* The handlers: the cancelled event, then mark_sync_failed without a count,
\* whose own failure is swallowed.
Mark(s) ==
  /\ co[s] = "marking"
  /\ stop' = [stop EXCEPT ![s] = out[s] = "cancelled"]
  /\ \/ Update(s, "error") /\ UNCHANGED budget
     \/ UNCHANGED <<status, conn>> /\ Spend("database")
  /\ End(s, "none", "none")
  /\ queue' = [queue EXCEPT ![s] = "failed"]
  /\ UNCHANGED <<sess, reason, recorded, cache, keys, th, made, overtaken, exempt, req>>

-----------------------------------------------------------------------------
\* The thread (people_sync.run_people_sync).  It outlives a cancelled
\* coroutine and stops where it looks at the event.

\* One answer of Livestorm, an error answer included, is counted, and then
\* the event looked at; an error answer, a list without end, or the deadline
\* stops the sync.
Page(s) ==
  /\ th[s] = "reading"
  /\ made[s] < MaxCalls
  /\ made' = [made EXCEPT ![s] = @ + 1]
  /\ IF stop[s] THEN Thread(s, "failing")
     ELSE \E next \in {"reading", "failing"} : Thread(s, next)
  /\ UNCHANGED <<rows, cache, queue, keys, co, out, stop, overtaken, exempt, req, budget>>

\* Wrong: saves the pages it has when a later one fails.
ReadFailsPartly(s) ==
  /\ th[s] = "reading"
  /\ Thread(s, "failing")
  /\ roster' = [roster EXCEPT ![sess[s]] = s]
  /\ UNCHANGED <<rows, cached, past, queue, keys, co, out, stop, made, overtaken, exempt,
                 req, budget>>

\* Without an answer: the first look at the event, the session's cached
\* payloads gone, the network, the deadline.
ReadFails(s) ==
  /\ th[s] = "reading"
  /\ Thread(s, "failing")
  /\ UNCHANGED <<rows, cache, queue, keys, co, out, stop, made, overtaken, exempt, req, budget>>

\* The list is whole; the last look at the event before the write.
ReadWhole(s) ==
  /\ th[s] = "reading" /\ made[s] > 0
  /\ Thread(s, IF stop[s] THEN "failing" ELSE "saving")
  /\ UNCHANGED <<rows, cache, queue, keys, co, out, stop, made, overtaken, exempt, req, budget>>

\* replace_session_roster: one transaction, refused when the session is gone.
Save(s) ==
  /\ th[s] = "saving"
  /\ LET x == sess[s] IN
     \/ /\ cached[x]
        /\ roster' = [roster EXCEPT ![x] = s]
        /\ overtaken' = overtaken \cup
             {t \in Syncs \ {s} : sess[t] = x /\ th[t] \in {"reading", "saving"}}
        /\ Thread(s, "saved")
        /\ UNCHANGED budget
     \/ /\ (~cached[x] /\ UNCHANGED budget) \/ Spend("database")
        /\ Thread(s, "failing")
        /\ UNCHANGED <<roster, overtaken>>
  /\ UNCHANGED <<rows, cached, past, queue, keys, co, out, stop, made, exempt, req>>

\* The row is completed with its counts; a failure of this write is raised,
\* past the `try` that records the calls.
Complete(s) ==
  /\ th[s] = "saved"
  /\ \/ Update(s, "completed") /\ Record(s) /\ Thread(s, "over") /\ UNCHANGED budget
     \/ Thread(s, "raised") /\ Spend("database") /\ UNCHANGED <<status, conn, recorded>>
  /\ UNCHANGED <<sess, reason, cache, queue, keys, co, out, stop, made, overtaken, exempt, req>>

\* Wrong: the failure is written without the calls made.
MarkFailedUncounted(s) ==
  /\ th[s] = "failing"
  /\ Update(s, "error")
  /\ Thread(s, "raised")
  /\ UNCHANGED <<sess, reason, recorded, cache, queue, keys, co, out, stop, made, overtaken,
                 exempt, req, budget>>

\* mark_sync_failed with the calls made so far, its failure swallowed.
MarkFailed(s) ==
  /\ th[s] = "failing"
  /\ \/ Update(s, "error") /\ Record(s) /\ UNCHANGED budget
     \/ Spend("database") /\ UNCHANGED <<status, conn, recorded>>
  /\ Thread(s, "raised")
  /\ UNCHANGED <<sess, reason, cache, queue, keys, co, out, stop, made, overtaken, exempt, req>>

-----------------------------------------------------------------------------
\* The rest of the system.

\* Wrong: forgets the rows whose job was never run.
SweepRunning(s) ==
  /\ status[s] = "running" /\ co[s] = "none"
  /\ Update(s, "error")
  /\ UNCHANGED <<sess, reason, recorded, cache, queue, keys, worker, req, budget>>

\* sweep_stuck_livestorm_syncs: silent for an hour, so no job is at work on it
\* (OrgLock!LiveRowsFresh) and no request is about to enqueue it.
Sweep(s) ==
  /\ status[s] \in Active
  /\ co[s] = "none"
  /\ \A r \in Requests : req[r].pc \in {"enqueuing", "unqueued"} => req[r].sync # s
  /\ Update(s, "error")
  /\ UNCHANGED <<sess, reason, recorded, cache, queue, keys, worker, req, budget>>

\* Wrong: the lock is set without an expiry.
KeyNeverExpires(o) ==
  /\ place[o] # NoSync /\ co[place[o]] \notin {"waiting", "leaving"}
  /\ place' = [place EXCEPT ![o] = NoSync]
  /\ UNCHANGED <<rows, cache, queue, lock, worker, req, budget>>

\* The keys live 20 minutes, longer than any job (OrgLock!HolderOwnsLock).
KeyExpires(o) ==
  /\ \/ /\ lock[o] # NoSync /\ co[lock[o]] \notin {"holding", "syncing", "leaving"}
        /\ lock' = [lock EXCEPT ![o] = NoSync] /\ UNCHANGED place
     \/ /\ place[o] # NoSync /\ co[place[o]] \notin {"waiting", "leaving"}
        /\ place' = [place EXCEPT ![o] = NoSync] /\ UNCHANGED lock
  /\ UNCHANGED <<rows, cache, queue, worker, req, budget>>

\* The worker dies with its coroutines and threads.  arq's in-progress key
\* outlives it, then the job fails its second try (max_tries = 1).
Kill ==
  /\ Spend("kill")
  /\ co' = [s \in Syncs |-> "none"] /\ out' = [s \in Syncs |-> "none"]
  /\ th' = [s \in Syncs |-> IF th[s] \in {"none", "over", "raised"} THEN th[s] ELSE "dead"]
  /\ UNCHANGED <<rows, cache, queue, keys, stop, made, overtaken, exempt, req>>

OrphanFails(s) ==
  /\ queue[s] = "running" /\ co[s] = "none"
  /\ queue' = [queue EXCEPT ![s] = "failed"]
  /\ UNCHANGED <<rows, cache, keys, worker, req, budget>>

\* Redis forgets the queue, the jobs in progress and the keys.
RedisRestart ==
  /\ Spend("restart")
  /\ queue' = [s \in Syncs |-> "none"]
  /\ lock' = [o \in Orgs |-> NoSync] /\ place' = [o \in Orgs |-> NoSync]
  /\ UNCHANGED <<rows, cache, worker, req>>

\* admin_delete_session: the roster and the sync rows cascade.
Delete(x) ==
  /\ cached[x]
  /\ Spend("delete")
  /\ cached' = [cached EXCEPT ![x] = FALSE]
  /\ roster' = [roster EXCEPT ![x] = NoSync] /\ past' = past \ {x}
  /\ status' = [s \in Syncs |-> IF s \in RowsOf(x) THEN "deleted" ELSE status[s]]
  /\ conn' = [s \in Syncs |-> conn[s] /\ s \notin RowsOf(x)]
  /\ recorded' = [s \in Syncs |-> IF s \in RowsOf(x) THEN 0 ELSE recorded[s]]
  /\ UNCHANGED <<sess, reason, queue, keys, worker, req>>

\* A later request fetches the session again.
Recache(x) ==
  /\ ~cached[x]
  /\ cached' = [cached EXCEPT ![x] = TRUE]
  /\ UNCHANGED <<rows, roster, past, queue, keys, worker, req, budget>>

RequestStep(r) ==
  \/ \E x \in Sessions : ReadStatus(r, x)
  \/ Reconcile(r) \/ Answer(r) \/ PassGuards(r) \/ Create(r) \/ Enqueue(r)
  \/ CloseUnqueued(r) \/ WebCrash(r)

CoroutineStep(s) ==
  \/ Start(s) \/ TryLock(s) \/ Promote(s) \/ StopWaiting(s) \/ BeginThread(s)
  \/ RefuseBody(s) \/ ThreadReturns(s) \/ Leave(s) \/ Mark(s)

ThreadStep(s) ==
  \/ Page(s) \/ ReadFails(s) \/ ReadWhole(s) \/ Save(s) \/ Complete(s) \/ MarkFailed(s)

Next ==
  \/ \E r \in Requests : RequestStep(r)
  \/ \E s \in Syncs : \/ CoroutineStep(s) \/ ThreadStep(s) \/ Sweep(s)
                       \/ OrphanFails(s) \/ StartCancelled(s) \/ Cancel(s)
  \/ \E o \in Orgs : KeyExpires(o)
  \/ \E x \in Sessions : Delete(x) \/ Recache(x)
  \/ Kill \/ RedisRestart

Spec == Init /\ [][Next]_vars

\* The worker serves its queue and ends what it starts (HTTP timeouts, the
\* deadline and the time limit bound every wait), keys expire, the cron runs.
\* A request may stop anywhere; nothing obliges a fault or a cancellation.
Fairness ==
  /\ \A s \in Syncs : WF_vars(CoroutineStep(s) \/ ThreadStep(s) \/ Sweep(s))
  /\ \A o \in Orgs : WF_vars(KeyExpires(o))
  /\ \A r \in Requests : WF_vars(RequestStep(r))

FairSpec == Spec /\ Fairness

-----------------------------------------------------------------------------
RowStatus == {"none", "pending", "running", "completed", "error", "deleted"}
Reason == {"initial", "manual"}
JobState == {"none", "queued", "running", "finished", "failed"}
CoState == {"none", "claimed", "waiting", "holding", "syncing", "leaving", "marking"}
ThreadState == {"none", "reading", "saving", "saved", "failing", "over", "raised", "dead"}
RequestState == {Idle} \cup
  [pc : {"read", "creating", "enqueuing", "unqueued"}, session : Sessions,
   sync : Syncs \cup {NoSync}, seen : RowStatus, reason : Reason]

TypeOK ==
  /\ status \in [Syncs -> RowStatus] /\ sess \in [Syncs -> Sessions \cup {NoSession}]
  /\ reason \in [Syncs -> Reason] /\ conn \in [Syncs -> BOOLEAN]
  /\ recorded \in [Syncs -> Nat] /\ made \in [Syncs -> Nat]
  /\ cached \in [Sessions -> BOOLEAN] /\ past \subseteq Sessions
  /\ roster \in [Sessions -> Syncs \cup {NoSync}]
  /\ queue \in [Syncs -> JobState]
  /\ lock \in [Orgs -> Syncs \cup {NoSync}] /\ place \in [Orgs -> Syncs \cup {NoSync}]
  /\ co \in [Syncs -> CoState] /\ out \in [Syncs -> {"none", "ok", "failed", "cancelled"}]
  /\ th \in [Syncs -> ThreadState] /\ stop \in [Syncs -> BOOLEAN]
  /\ overtaken \subseteq Syncs /\ exempt \subseteq Syncs
  /\ req \in [Requests -> RequestState]
  /\ budget \in [FaultKinds -> Nat]

\* Whatever claims, closes, deletes and creates the rows at once, they keep the
\* promise of a job's rows (docs/jobs.md, "People sync").
JobRow == INSTANCE JobRows WITH
  Jobs <- Syncs,
  life <- [s \in Syncs |-> IF status[s] \in {"completed", "error"} THEN "closed" ELSE status[s]],
  owner <- sess, token <- conn
JobRowsSpec == JobRow!Spec

\* A session holds at most one sync in flight, whatever closes, claims and
\* creates its rows at the same time.
OneActivePerSession ==
  \A x \in Sessions : \A s, t \in ActiveOf(x) : s = t

\* The row keeps the connection id, a session cookie's value, only until the
\* worker claims it or anyone closes it.
ConnOnlyWhilePending ==
  \A s \in Syncs : conn[s] => status[s] = "pending"

\* A row closed before its job ran (swept, lost, failed enqueue, deleted) is
\* never run afterwards, so it makes no Livestorm call.
ClosedNeverStarts ==
  [][\A s \in Syncs : status[s] \notin Active /\ co[s] = "none" => co'[s] = "none"]_vars

\* Under the org's lock every earlier sync of the org has recorded its calls,
\* so the worker's cap check is exact (docs/jobs.md, worker.py).
CallsRecordedUnderLock ==
  \A s, t \in Syncs :
    co[s] = "holding" /\ t # s /\ Exists(t) /\ Org(t) = Org(s) => recorded[t] = made[t]

\* The org passes its cap by one sync's calls at most (docs/jobs.md).
CallsMade(o) == Total(made, {s \in Syncs \ exempt : Exists(s) /\ Org(s) = o})
CapPassedByOneSync ==
  \A o \in Orgs : CallsMade(o) < (IF Cap = 0 THEN 1 ELSE Cap + MaxCalls)

\* One organization's syncs never call Livestorm at the same time.
OneCallerPerOrg ==
  \A s, t \in Syncs : th[s] = "reading" /\ th[t] = "reading" /\ Org(s) = Org(t) => s = t

\* A list read before another was saved never replaces it.
NoStaleRoster ==
  [][\A x \in Sessions : roster'[x] # roster[x] => roster'[x] \notin overtaken]_vars

\* A cancelled sync's thread never writes the roster (docs/jobs.md).
CancelledNeverWrites ==
  [][\A x \in Sessions : roster'[x] # roster[x] /\ roster'[x] # NoSync => ~stop[roster'[x]]]_vars

\* A failed sync leaves the previous roster in place (docs/jobs.md).
FailedKeepsRoster ==
  \A s \in Syncs : th[s] = "raised" => roster[sess[s]] # s

\* A sync that finished keeps its status: closing a sync the queue has lost
\* never overwrites one that finished since it was read.  Only its own
\* cancelled coroutine still may.
CompletedStays ==
  [][\A s \in Syncs : status[s] = "completed" /\ out[s] # "cancelled"
                     => status'[s] \in {"completed", "deleted"}]_vars

\* No sync waits for good behind one that died with the lock (the keys'
\* expiry, the release in `finally`, the row looked at while waiting).
WaitEnds ==
  \A s \in Syncs : co[s] = "waiting" ~> co[s] # "waiting"

\* No session stays blocked: every sync in flight is closed in the end.
SyncsSettle ==
  \A s \in Syncs : status[s] \in Active ~> status[s] \notin Active
=============================================================================
