------------------------------- MODULE AIJobs -------------------------------
(***************************************************************************)
(* The AI outputs of one session: the requests that start and poll a job    *)
(* (api_logic.py, queue.py), the arq jobs under their fixed ids, the        *)
(* worker's coroutine and the thread that calls the model and saves         *)
(* (worker.py, api_logic.py), the session's bundles (db.py), and the cover  *)
(* image that follows a Professional recap.                                 *)
(*                                                                         *)
(* A text is known by the run that made it.  The model, its budget check    *)
(* and its retries (module Llm) are one step that may fail; progress        *)
(* messages are left out, no decision reads them.                          *)
(***************************************************************************)
EXTENDS Naturals, FiniteSets

CONSTANTS
  Outputs,    \* one per kind and language or tone
  Original,   \* output -> the output it must be a translation of, or itself
  Professional, Cover,   \* the recap that starts a cover; the cover's job
  Requests,
  MaxRuns,    \* bound: job runs
  MaxFaults   \* bound: faults, of any kind

Keys == Outputs \cup {Cover}
Runs == 1..MaxRuns
NoRun == 0

ASSUME AIJobsAssumption ==
  /\ Original \in [Outputs -> Outputs]
  /\ Professional \in Outputs /\ Cover \notin Outputs
  /\ MaxRuns \in Nat /\ MaxFaults \in Nat

VARIABLES
  row,      \* session_cache: "cached", "gone", or "ghost" (no organization)
  epoch,    \* how often the row has been deleted
  made,     \* output or cover -> the run whose result is saved
  arq,      \* Redis: job id -> its state and its run
  of, co, th,   \* run -> its job id, its coroutine, its thread
  seen,     \* run -> the row as its thread read it: epoch and entries
  loose,    \* runs whose job arq has let go while the thread lived
  req,      \* the requests
  budget    \* faults still to come

cache == <<row, epoch, made>>
runs == <<of, co, th, seen, loose>>
vars == <<cache, arq, runs, req, budget>>

Free == [st |-> "none", run |-> NoRun]
Idle == [pc |-> "idle"]
Blank == [epoch |-> 0, entries |-> {}]

Init ==
  /\ row = "cached" /\ epoch = 0
  /\ made = [k \in Keys |-> NoRun]
  /\ arq = [k \in Keys |-> Free]
  /\ of = [n \in Runs |-> Cover]
  /\ co = [n \in Runs |-> "none"] /\ th = [n \in Runs |-> "none"]
  /\ seen = [n \in Runs |-> Blank]
  /\ loose = {}
  /\ req = [r \in Requests |-> Idle]
  /\ budget = MaxFaults

Fault == budget > 0 /\ budget' = budget - 1
Become(r, state) == req' = [req EXCEPT ![r] = state]
Advance(r, label) == req' = [req EXCEPT ![r].pc = label]
BeginPoll(r) == req' = [req EXCEPT ![r].pc = "poll", ![r].tries = 0]
InFlight(k) == arq[k].st \in {"queued", "running"}

\* Whether what a job rests on is saved: an English text for its translation,
\* the Professional recap for the cover.
Ready(k) ==
  IF k = Cover THEN made[Professional] # NoRun
  ELSE Original[k] = k \/ made[Original[k]] # NoRun

\* arq takes a job whose id has neither a job nor a kept result.
Unused == {n \in Runs : th[n] = "none" /\ \A k \in Keys : arq[k].run # n}
NextRun == CHOOSE n \in Unused : TRUE
Queue(k) ==
  /\ Unused # {}
  /\ arq' = [arq EXCEPT ![k] = [st |-> "queued", run |-> NextRun]]
  /\ of' = [of EXCEPT ![NextRun] = k]
  /\ UNCHANGED <<co, th, seen, loose>>

-----------------------------------------------------------------------------
\* Requests.

\* _start_ai_job reads the bundle; it goes on only for an output that is
\* missing and has what it rests on.  Every other answer ends the request.
Ask(r, o) ==
  /\ req[r] = Idle
  /\ row = "cached" /\ made[o] = NoRun /\ Ready(o)
  /\ Become(r, [pc |-> "enqueue", of |-> o, tries |-> 0, old |-> NoRun])
  /\ UNCHANGED <<cache, arq, runs, budget>>

\* Wrong: a job id of its own for each request.
TryEnqueueAlways(r) ==
  /\ req[r].pc = "enqueue"
  /\ Queue(req[r].of)
  /\ BeginPoll(r)
  /\ UNCHANGED <<cache, budget>>

\* enqueue_unique_job_sync: two tries.  With the run ids used up (a bound),
\* the request ends.
TryEnqueue(r) ==
  /\ req[r].pc = "enqueue"
  /\ LET k == req[r].of IN
     \/ arq[k] = Free /\ Queue(k) /\ BeginPoll(r)
     \/ arq[k] = Free /\ Unused = {} /\ Become(r, Idle) /\ UNCHANGED <<arq, runs>>
     \/ /\ arq[k] # Free
        /\ Become(r, [req[r] EXCEPT !.pc = "status",
             !.old = IF InFlight(k) \/ req[r].tries > 0 THEN @ ELSE arq[k].run])
        /\ UNCHANGED <<arq, runs>>
  /\ UNCHANGED <<cache, budget>>

\* The id is taken: a job in flight is joined.
Status(r) ==
  /\ req[r].pc = "status"
  /\ IF InFlight(req[r].of) THEN BeginPoll(r) ELSE Advance(r, "drop")
  /\ UNCHANGED <<cache, arq, runs, budget>>

Again(r) ==
  IF req[r].tries = 0 THEN Become(r, [req[r] EXCEPT !.pc = "enqueue", !.tries = 1]) ELSE BeginPoll(r)

\* Wrong: the kept result stays.
DropNothing(r) ==
  /\ req[r].pc = "drop"
  /\ Again(r)
  /\ UNCHANGED <<cache, arq, runs, budget>>

\* The key of a finished job's result is deleted, whoever's it is by now; a
\* job queued meanwhile has none yet.
Drop(r) ==
  /\ req[r].pc = "drop"
  /\ arq' = IF InFlight(req[r].of) THEN arq ELSE [arq EXCEPT ![req[r].of] = Free]
  /\ Again(r)
  /\ UNCHANGED <<cache, runs, budget>>

\* The bridge fails or gives up; what it sent may still have arrived.
EnqueueFails(r) ==
  /\ req[r].pc = "enqueue"
  /\ Fault
  /\ \/ UNCHANGED <<arq, runs>>
     \/ arq[req[r].of] = Free /\ Queue(req[r].of)
  /\ Become(r, Idle)
  /\ UNCHANGED cache

\* _get_ai_job_data: a saved output, or a session that is gone, ends the poll.
Poll(r) ==
  /\ req[r].pc = "poll"
  /\ IF made[req[r].of] # NoRun \/ row # "cached" THEN Become(r, Idle) ELSE Advance(r, "look")
  /\ UNCHANGED <<cache, arq, runs, budget>>

\* Wrong: keeps polling for a job the queue no longer knows.
LookPatiently(r) ==
  /\ req[r].pc = "look"
  /\ IF arq[req[r].of].st \in {"done", "failed"} THEN Become(r, Idle) ELSE Advance(r, "poll")
  /\ UNCHANGED <<cache, arq, runs, budget>>

\* read_job_status_sync, pollAiJob: only a job in flight is polled again.  A
\* job done since the bundle was read ends the poll like one that is gone.
Look(r) ==
  /\ req[r].pc = "look"
  /\ IF InFlight(req[r].of) THEN Advance(r, "poll") ELSE Become(r, Idle)
  /\ UNCHANGED <<cache, arq, runs, budget>>

-----------------------------------------------------------------------------
\* The worker.

Settled(n, how) ==
  IF arq[of[n]] = [st |-> "running", run |-> n] THEN [arq EXCEPT ![of[n]].st = how] ELSE arq
Thread(n, label) == th' = [th EXCEPT ![n] = label]

\* arq starts the job: without its provider's key it fails at once.
Start(k) ==
  /\ arq[k].st = "queued"
  /\ LET n == arq[k].run IN
     \/ /\ arq' = [arq EXCEPT ![k].st = "running"]
        /\ co' = [co EXCEPT ![n] = "await"] /\ Thread(n, "reading")
     \/ /\ arq' = [arq EXCEPT ![k].st = "failed"]
        /\ Thread(n, "over") /\ UNCHANGED co
  /\ UNCHANGED <<cache, of, seen, loose, req, budget>>

\* Wrong: the worker trusts what the request has checked.
ReadUnchecked(n) ==
  /\ th[n] = "reading"
  /\ Thread(n, IF row = "cached" THEN "calling" ELSE "failed")
  /\ seen' = [seen EXCEPT ![n].epoch = epoch]
  /\ UNCHANGED <<cache, arq, of, co, loose, req, budget>>

\* The automatic cover never replaces one.
Kept(k) == k = Cover /\ made[Cover] # NoRun

\* The row is read once.  A job without what it rests on fails.
Read(n) ==
  /\ th[n] = "reading"
  /\ LET able == row = "cached" /\ Ready(of[n]) IN
     \/ ~able /\ Thread(n, "failed") /\ UNCHANGED seen
     \/ able /\ Kept(of[n]) /\ Thread(n, "over") /\ UNCHANGED seen
     \/ /\ able /\ ~Kept(of[n]) /\ Thread(n, "calling")
            /\ seen' = [seen EXCEPT ![n] =
                 [epoch |-> epoch, entries |-> {o \in Outputs : made[o] # NoRun}]]
  /\ UNCHANGED <<cache, arq, of, co, loose, req, budget>>

\* The model's answer is a whole text, or an error (failure, refusal,
\* truncation, an empty or partial result).
Call(n) ==
  /\ th[n] = "calling"
  /\ \E next \in {"saving", "failed"} : Thread(n, next)
  /\ UNCHANGED <<cache, arq, of, co, seen, loose, req, budget>>

\* Wrong: writes back the outputs it has read, and its own.
SaveWhole(n) ==
  /\ th[n] = "saving"
  /\ made' = [k \in Keys |-> IF k = of[n] THEN n
                             ELSE IF k \in seen[n].entries THEN made[k] ELSE NoRun]
  /\ Thread(n, "over")
  /\ UNCHANGED <<row, epoch, arq, of, co, seen, loose, req, budget>>

\* A bundle's entry needs its row; the cover's upsert inserts one that is gone.
Lands(n) == row # "gone" \/ of[n] = Cover

\* merge_cached_bundle_entry sets one entry of the row as it is by now.
Save(n) ==
  /\ th[n] = "saving"
  /\ \/ /\ ~Lands(n)
        /\ Thread(n, "failed") /\ UNCHANGED <<cache, budget>>
     \/ /\ Lands(n)
        /\ made' = [made EXCEPT ![of[n]] = n]
        /\ row' = IF row = "gone" THEN "ghost" ELSE row
        /\ Thread(n, "over") /\ UNCHANGED <<epoch, budget>>
     \/ Fault /\ Thread(n, "failed") /\ UNCHANGED cache
  /\ seen' = [seen EXCEPT ![n].entries = {}]
  /\ UNCHANGED <<arq, of, co, loose, req>>

\* The coroutine ends with its thread, after a Professional recap only once it
\* has looked for a cover.
Return(n) ==
  /\ co[n] = "await" /\ th[n] \in {"over", "failed"}
  /\ IF th[n] = "over" /\ of[n] = Professional /\ made[Cover] = NoRun
     THEN co' = [co EXCEPT ![n] = "cover"] /\ UNCHANGED <<arq, th>>
     ELSE /\ co' = [co EXCEPT ![n] = "none"] /\ Thread(n, "over")
          /\ arq' = Settled(n, IF th[n] = "over" THEN "done" ELSE "failed")
  /\ UNCHANGED <<cache, of, seen, loose, req, budget>>

\* _enqueue_default_cover_image, unless the cover's id is taken; its own
\* failure is swallowed.
QueueCover(n) ==
  /\ co[n] = "cover"
  /\ co' = [co EXCEPT ![n] = "none"]
  /\ \/ arq' = Settled(n, "done") /\ UNCHANGED of
     \/ /\ arq[Cover] = Free /\ Unused # {}
        /\ arq' = [Settled(n, "done") EXCEPT ![Cover] = [st |-> "queued", run |-> NextRun]]
        /\ of' = [of EXCEPT ![NextRun] = Cover]
  /\ UNCHANGED <<cache, th, seen, loose, req, budget>>

\* arq's time limit or a shutdown cancels the coroutine; its thread goes on.
Cancel(n) ==
  /\ co[n] # "none"
  /\ Fault
  /\ arq' = Settled(n, "failed")
  /\ co' = [co EXCEPT ![n] = "none"]
  /\ loose' = loose \cup {n}
  /\ UNCHANGED <<cache, of, th, seen, req>>

\* The worker dies.  A job it was running fails its second try.
Kill ==
  /\ Fault
  /\ co' = [n \in Runs |-> "none"]
  /\ th' = [n \in Runs |-> IF th[n] = "none" THEN "none" ELSE "over"]
  /\ UNCHANGED <<cache, arq, of, seen, loose, req>>

OrphanFails(k) ==
  /\ arq[k].st = "running" /\ co[arq[k].run] = "none"
  /\ arq' = [arq EXCEPT ![k].st = "failed"]
  /\ UNCHANGED <<cache, runs, req, budget>>

\* A result is kept for an hour.
ResultExpires(k) ==
  /\ arq[k].st \in {"done", "failed"}
  /\ arq' = [arq EXCEPT ![k] = Free]
  /\ UNCHANGED <<cache, runs, req, budget>>

RedisRestart ==
  /\ Fault
  /\ loose' = loose \cup {arq[k].run : k \in {k \in Keys : arq[k].st = "running"}}
  /\ arq' = [k \in Keys |-> Free]
  /\ UNCHANGED <<cache, of, co, th, seen, req>>

\* admin_delete_session; a later request fetches the session again.
Delete ==
  /\ row = "cached"
  /\ Fault
  /\ row' = "gone" /\ epoch' = epoch + 1
  /\ made' = [k \in Keys |-> NoRun]
  /\ UNCHANGED <<arq, runs, req>>

Recache ==
  /\ row # "cached"
  /\ row' = "cached"
  /\ UNCHANGED <<epoch, made, arq, runs, req, budget>>

RequestStep(r) ==
  TryEnqueue(r) \/ Status(r) \/ Drop(r) \/ EnqueueFails(r) \/ Poll(r) \/ Look(r)

RunStep(n) ==
  Read(n) \/ Call(n) \/ Save(n) \/ Return(n) \/ QueueCover(n)

JobStep(k) == Start(k) \/ OrphanFails(k)

Next ==
  \/ \E r \in Requests : RequestStep(r) \/ \E o \in Outputs : Ask(r, o)
  \/ \E n \in Runs : RunStep(n) \/ Cancel(n)
  \/ \E k \in Keys : JobStep(k) \/ ResultExpires(k)
  \/ Kill \/ RedisRestart \/ Delete \/ Recache

Spec == Init /\ [][Next]_vars

\* The worker serves its queue, one call or another, and every call it makes
\* is bounded; a client that polls goes on.  Nothing obliges a fault, an ask
\* or an expiry.
Fairness ==
  /\ WF_vars(\E n \in Runs : RunStep(n)) /\ WF_vars(\E k \in Keys : JobStep(k))
  /\ \A r \in Requests : WF_vars(RequestStep(r))

FairSpec == Spec /\ Fairness

-----------------------------------------------------------------------------
RequestState == {Idle} \cup
  [pc : {"enqueue", "status", "drop", "poll", "look"}, of : Outputs, tries : 0..1, old : Runs \cup {NoRun}]

TypeOK ==
  /\ row \in {"cached", "gone", "ghost"} /\ epoch \in Nat
  /\ made \in [Keys -> Runs \cup {NoRun}]
  /\ arq \in [Keys -> [st : {"none", "queued", "running", "done", "failed"}, run : Runs \cup {NoRun}]]
  /\ of \in [Runs -> Keys]
  /\ co \in [Runs -> {"none", "await", "cover"}]
  /\ th \in [Runs -> {"none", "reading", "calling", "saving", "over", "failed"}]
  /\ seen \in [Runs -> [epoch : Nat, entries : SUBSET Outputs]]
  /\ loose \subseteq Runs
  /\ req \in [Requests -> RequestState]
  /\ budget \in 0..MaxFaults

\* Double clicks and teammates share one job instead of paying for two: two
\* calls for one output run together only once arq has let go of the first.
OneCallPerOutput ==
  \A m, n \in Runs \ loose :
    th[m] = "calling" /\ th[n] = "calling" /\ of[m] = of[n] => m = n

\* No job's save loses another's result (merge_cached_bundle_entry): only an
\* admin's delete takes entries away.
EntriesKept ==
  [][\A k \in Keys : made[k] # NoRun /\ epoch' = epoch => made'[k] # NoRun]_vars

\* A translation is only ever saved beside the English text it keeps to, and a
\* cover beside its recap, unless the session was deleted while it was made.
MadeFromSaved ==
  \A k \in Keys : made[k] # NoRun /\ seen[made[k]].epoch = epoch => Ready(k)

\* A retry is never left polling the result it was meant to replace.
RetryGetsNewRun ==
  \A r \in Requests : req[r].pc \in {"poll", "look"} /\ req[r].old # NoRun
                      => arq[req[r].of].run # req[r].old

\* Every poll ends without its deadline's help: no killed worker, restarted
\* Redis, cancelled job or deleted session leaves one waiting.
PollsEnd ==
  \A r \in Requests : req[r].pc # "idle" ~> req[r].pc = "idle"
=============================================================================
