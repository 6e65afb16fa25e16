------------------------------ MODULE OrgLock ------------------------------
(***************************************************************************)
(* The people syncs of ONE organization inside the worker: the Redis lock,  *)
(* the one waiting place, their expiry, the job time limit, cancellation,   *)
(* a killed worker and a Redis restart (worker._people_sync_org_lock and    *)
(* worker.run_people_sync around it), against the sweeper of silent rows.   *)
(*                                                                         *)
(* Time is discrete.  A token is unique to its job (uuid4), so a key holds  *)
(* the job itself.  The sync's own work is one step here; PeopleSync opens  *)
(* it up.                                                                  *)
(***************************************************************************)
EXTENDS Naturals

CONSTANTS
  Jobs,        \* the org's queued sync jobs, one row each
  NoJob,       \* the value of a key that is not set
  JobTimeout,  \* PEOPLE_SYNC_JOB_TIMEOUT_SECONDS
  LockTTL,     \* PEOPLE_SYNC_LOCK_TTL_SECONDS
  StaleAfter   \* STALE_AFTER, the sweeper's threshold

\* The relations the code's own values satisfy: 15 min, 20 min, 1 hour.
ASSUME OrgLockAssumption ==
  /\ NoJob \notin Jobs
  /\ JobTimeout \in Nat /\ LockTTL \in Nat /\ StaleAfter \in Nat
  /\ JobTimeout < LockTTL
  /\ JobTimeout < StaleAfter

VARIABLES
  pc,        \* where each job's coroutine is
  elapsed,   \* time since arq started the job
  row,       \* its livestorm_sync_jobs row: pending, running or closed
  silent,    \* time since the row's updated_at, up to StaleAfter
  lock,      \* stormiq:livestorm-sync:{org}
  lockTtl,
  place,     \* stormiq:livestorm-sync-wait:{org}
  placeTtl,
  robbed     \* jobs whose keys a Redis restart dropped while they held them

vars == <<pc, elapsed, row, silent, lock, lockTtl, place, placeTtl, robbed>>
keys == <<lock, lockTtl, place, placeTtl>>

\* "refused": SET NX on the lock said no; "promoted": holds both keys;
\* "leaving", "unwaiting": in a `finally`, about to release a key;
\* "closing": keys behind it, about to mark its row.
PC == {"queued", "started", "refused", "waiting", "promoted", "holding",
       "leaving", "unwaiting", "closing", "over"}

\* The coroutine runs under arq's time limit.
Live(j) == pc[j] \in {"started", "refused", "waiting", "promoted", "holding",
                      "leaving", "unwaiting"}
HoldsLock(j) == pc[j] \in {"promoted", "holding", "leaving"}
Waits(j) == pc[j] \in {"waiting", "unwaiting"}

Init ==
  /\ pc = [j \in Jobs |-> "queued"]
  /\ elapsed = [j \in Jobs |-> 0]
  /\ row = [j \in Jobs |-> "pending"]
  /\ silent = [j \in Jobs |-> 0]
  /\ lock = NoJob /\ lockTtl = 0
  /\ place = NoJob /\ placeTtl = 0
  /\ robbed = {}

-----------------------------------------------------------------------------
\* Steps of the keys, shared by the actions below.

\* Wrong: a key that lives no longer than the job; SET without NX.
SetLockShort(j) == lock = NoJob /\ lock' = j /\ lockTtl' = JobTimeout
SetLockAlways(j) == lock' = j /\ lockTtl' = LockTTL
SetPlaceAlways(j) == place' = j /\ placeTtl' = LockTTL

SetLock(j) == lock = NoJob /\ lock' = j /\ lockTtl' = LockTTL
SetPlace(j) == place = NoJob /\ place' = j /\ placeTtl' = LockTTL

\* Wrong: DEL, whoever holds the key.
ReleaseLockAny(j) == lock' = NoJob /\ lockTtl' = 0

\* _RELEASE_LOCK_SCRIPT: deletes a key only if it still holds the job's token.
ReleaseLock(j) ==
  /\ lock' = IF lock = j THEN NoJob ELSE lock
  /\ lockTtl' = IF lock = j THEN 0 ELSE lockTtl
ReleasePlace(j) ==
  /\ place' = IF place = j THEN NoJob ELSE place
  /\ placeTtl' = IF place = j THEN 0 ELSE placeTtl

KeepLock == UNCHANGED <<lock, lockTtl>>
KeepPlace == UNCHANGED <<place, placeTtl>>

Goto(j, label) == pc' = [pc EXCEPT ![j] = label]

-----------------------------------------------------------------------------
\* The coroutine.

\* Wrong: the claim leaves updated_at alone.
StartSilently(j) ==
  /\ pc[j] = "queued" /\ row[j] = "pending"
  /\ Goto(j, "started")
  /\ row' = [row EXCEPT ![j] = "running"]
  /\ UNCHANGED <<elapsed, silent, keys, robbed>>

\* arq starts the job, whose first await claims the row; a row no longer
\* pending is skipped.
Start(j) ==
  /\ pc[j] = "queued"
  /\ IF row[j] = "pending"
     THEN /\ Goto(j, "started")
          /\ row' = [row EXCEPT ![j] = "running"]
          /\ silent' = [silent EXCEPT ![j] = 0]
     ELSE Goto(j, "over") /\ UNCHANGED <<row, silent>>
  /\ UNCHANGED <<elapsed, keys, robbed>>

TakeLock(j) ==
  /\ pc[j] = "started"
  /\ SetLock(j)
  /\ Goto(j, "holding")
  /\ KeepPlace
  /\ UNCHANGED <<elapsed, row, silent, robbed>>

Refused(j) ==
  /\ pc[j] = "started"
  /\ lock # NoJob
  /\ Goto(j, "refused")
  /\ UNCHANGED <<elapsed, row, silent, keys, robbed>>

TakePlace(j) ==
  /\ pc[j] = "refused"
  /\ SetPlace(j)
  /\ Goto(j, "waiting")
  /\ KeepLock
  /\ UNCHANGED <<elapsed, row, silent, robbed>>

\* PeopleSyncBusy: another sync of the org already waits.
Busy(j) ==
  /\ pc[j] = "refused"
  /\ place # NoJob
  /\ Goto(j, "closing")
  /\ UNCHANGED <<elapsed, row, silent, keys, robbed>>

\* The wait loop's heartbeat: touch_livestorm_sync, False on a closed row.
Heartbeat(j) ==
  /\ pc[j] = "waiting"
  /\ IF row[j] = "running"
     THEN silent' = [silent EXCEPT ![j] = 0] /\ UNCHANGED pc
     ELSE Goto(j, "unwaiting") /\ UNCHANGED silent
  /\ UNCHANGED <<elapsed, row, keys, robbed>>

Promote(j) ==
  /\ pc[j] = "waiting"
  /\ SetLock(j)
  /\ Goto(j, "promoted")
  /\ robbed' = robbed \ {j}
  /\ KeepPlace
  /\ UNCHANGED <<elapsed, row, silent>>

\* The `finally` of the wait, reached by the break or by an exception.  A
\* Redis error is logged and the key left to expire.
LeavePlace(j) ==
  /\ \/ pc[j] = "promoted" /\ Goto(j, "holding")
     \/ pc[j] = "unwaiting" /\ Goto(j, "closing")
  /\ ReleasePlace(j) \/ KeepPlace
  /\ KeepLock
  /\ UNCHANGED <<elapsed, row, silent, robbed>>

\* The body ends: the thread has closed the row, or the body was refused
\* before the thread (cap, credentials) and the row is still running.
EndBody(j) ==
  /\ pc[j] = "holding"
  /\ Goto(j, "leaving")
  /\ row' \in {row, [row EXCEPT ![j] = "closed"]}
  /\ UNCHANGED <<elapsed, silent, keys, robbed>>

LeaveLock(j) ==
  /\ pc[j] = "leaving"
  /\ Goto(j, "closing")
  /\ ReleaseLock(j) \/ KeepLock
  /\ KeepPlace
  /\ UNCHANGED <<elapsed, row, silent, robbed>>

\* The handlers at the end: mark_sync_failed, which swallows a failed write.
CloseUp(j) ==
  /\ pc[j] = "closing"
  /\ Goto(j, "over")
  /\ row' \in {row, [row EXCEPT ![j] = "closed"]}
  /\ UNCHANGED <<elapsed, silent, keys, robbed>>

\* CancelledError at the job's current await (time limit or shutdown).  The
\* command being awaited may have reached Redis: a key it set is then kept
\* past the job, since the `try` that would release it was never entered.
Cancel(j) ==
  /\ Live(j)
  /\ \/ /\ pc[j] = "started"
        /\ Goto(j, "closing")
        /\ SetLock(j) \/ KeepLock
        /\ KeepPlace
     \/ /\ pc[j] = "refused"
        /\ Goto(j, "closing")
        /\ SetPlace(j) \/ KeepPlace
        /\ KeepLock
     \/ /\ pc[j] = "waiting"
        /\ Goto(j, "unwaiting")
        /\ SetLock(j) \/ KeepLock
        /\ KeepPlace
     \/ /\ pc[j] \in {"promoted", "unwaiting"}
        /\ Goto(j, "closing")
        /\ ReleasePlace(j) \/ KeepPlace
        /\ KeepLock
     \/ /\ pc[j] = "holding"
        /\ Goto(j, "leaving")
        /\ UNCHANGED keys
     \/ /\ pc[j] = "leaving"
        /\ Goto(j, "closing")
        /\ ReleaseLock(j) \/ KeepLock
        /\ KeepPlace
  /\ UNCHANGED <<elapsed, row, silent, robbed>>

TimeOut(j) == elapsed[j] = JobTimeout /\ Cancel(j)

-----------------------------------------------------------------------------
\* The rest of the system.

\* The worker process is killed; its keys stay in Redis.
Kill ==
  /\ \E j \in Jobs : Live(j) \/ pc[j] = "closing"
  /\ pc' = [j \in Jobs |-> IF Live(j) \/ pc[j] = "closing" THEN "over" ELSE pc[j]]
  /\ UNCHANGED <<elapsed, row, silent, keys, robbed>>

\* Redis restarts: the keys and the queued jobs are gone, the worker is not.
RedisRestart ==
  /\ lock' = NoJob /\ lockTtl' = 0
  /\ place' = NoJob /\ placeTtl' = 0
  /\ pc' = [j \in Jobs |-> IF pc[j] = "queued" THEN "over" ELSE pc[j]]
  /\ robbed' = robbed \cup {j \in Jobs : HoldsLock(j) \/ Waits(j)}
  /\ UNCHANGED <<elapsed, row, silent>>

\* sweep_stuck_livestorm_syncs.
Sweep(j) ==
  /\ row[j] # "closed"
  /\ silent[j] = StaleAfter
  /\ row' = [row EXCEPT ![j] = "closed"]
  /\ UNCHANGED <<pc, elapsed, silent, keys, robbed>>

\* The web side closes or deletes the row under the job: a failed enqueue, a
\* sync the queue has lost, an admin's delete (its rows cascade).
CloseRow(j) ==
  /\ row[j] # "closed"
  /\ row' = [row EXCEPT ![j] = "closed"]
  /\ UNCHANGED <<pc, elapsed, silent, keys, robbed>>

\* Wrong: no time limit on the job.
TickUnlimited ==
  /\ elapsed' = [j \in Jobs |-> IF Live(j) THEN elapsed[j] + 1 ELSE 0]
  /\ UNCHANGED <<pc, row, silent, keys, robbed>>

\* Time passes.  arq cancels a job at its limit, so time never passes a live
\* job's limit; a key whose life ends is gone.
Tick ==
  /\ \A j \in Jobs : Live(j) => elapsed[j] < JobTimeout
  /\ elapsed' = [j \in Jobs |-> IF Live(j) THEN elapsed[j] + 1 ELSE 0]
  /\ silent' = [j \in Jobs |-> IF row[j] = "closed" THEN 0
                               ELSE IF silent[j] = StaleAfter THEN StaleAfter ELSE silent[j] + 1]
  /\ lock' = IF lockTtl <= 1 THEN NoJob ELSE lock
  /\ lockTtl' = IF lockTtl <= 1 THEN 0 ELSE lockTtl - 1
  /\ place' = IF placeTtl <= 1 THEN NoJob ELSE place
  /\ placeTtl' = IF placeTtl <= 1 THEN 0 ELSE placeTtl - 1
  /\ UNCHANGED <<pc, row, robbed>>

JobStep(j) ==
  \/ Start(j) \/ TakeLock(j) \/ Refused(j) \/ TakePlace(j) \/ Busy(j)
  \/ Heartbeat(j) \/ Promote(j) \/ LeavePlace(j) \/ EndBody(j) \/ LeaveLock(j)
  \/ CloseUp(j) \/ Cancel(j)

Next ==
  \/ \E j \in Jobs : JobStep(j) \/ Sweep(j) \/ CloseRow(j)
  \/ Kill \/ RedisRestart \/ Tick

Spec == Init /\ [][Next]_vars

-----------------------------------------------------------------------------
TypeOK ==
  /\ pc \in [Jobs -> PC]
  /\ elapsed \in [Jobs -> 0..JobTimeout]
  /\ row \in [Jobs -> {"pending", "running", "closed"}]
  /\ silent \in [Jobs -> 0..StaleAfter]
  /\ lock \in Jobs \cup {NoJob} /\ lockTtl \in 0..LockTTL
  /\ place \in Jobs \cup {NoJob} /\ placeTtl \in 0..LockTTL
  /\ robbed \subseteq Jobs

\* At most one people sync of the org runs at a time (docs/jobs.md): two jobs
\* are inside the lock together only after a Redis restart dropped the key.
OneSyncPerOrg ==
  \A j, k \in Jobs \ robbed : HoldsLock(j) /\ HoldsLock(k) => j = k

\* Only one more waits, so one org fills at most two of the worker's slots.
OneWaitsPerOrg ==
  \A j, k \in Jobs \ robbed : Waits(j) /\ Waits(k) => j = k

\* The lock outlives the job: it never expires, and no other job's release
\* deletes it, while its owner is inside (the TTL and the token check).
HolderOwnsLock ==
  \A j \in Jobs \ robbed : HoldsLock(j) => lock = j /\ lockTtl > 0

\* The sweeper never closes the row of a job that is still running: its
\* threshold outlives the time limit, counted from the claim's own update.
LiveRowsFresh ==
  \A j \in Jobs : Live(j) => silent[j] < StaleAfter

-----------------------------------------------------------------------------
\* The promise to the org, and the mapping that shows the lock keeps it.
\* Jobs robbed of their keys by a Redis restart have left, as far as it goes.

Inside == {j \in Jobs \ robbed : HoldsLock(j)}
AtDoor == {j \in Jobs \ robbed : Waits(j)}

Slots == INSTANCE SyncSlots WITH running <- Inside, queueing <- AtDoor
SlotsSpec == Slots!Spec
=============================================================================
