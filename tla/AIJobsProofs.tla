---------------------------- MODULE AIJobsProofs ----------------------------
(***************************************************************************)
(* AIJobs' safety for any outputs, requests, runs and faults.              *)
(***************************************************************************)
EXTENDS AIJobs, TLAPS

AtWork(n) == th[n] \in {"reading", "calling", "saving"}

\* arq knows a queued job by a run that has not begun, and under its own id;
\* every later state belongs to a run that has.
QueueInv ==
  \A k \in Keys :
    /\ arq[k].st = "none" => arq[k] = Free
    /\ arq[k].st = "queued" => arq[k].run \in Runs /\ th[arq[k].run] = "none" /\ of[arq[k].run] = k
    /\ arq[k].st \in {"running", "done", "failed"} => arq[k].run \in Runs /\ th[arq[k].run] # "none"

\* A thread at work is awaited by its job, which arq has as running.
WorkInv ==
  \A n \in Runs \ loose : AtWork(n) =>
    co[n] = "await" /\ arq[of[n]] = [st |-> "running", run |-> n]

\* The result a retry has seen kept belongs to a run of the past; once the
\* retry has passed it, that run never comes back under the job's id.
RetryOf(r) ==
  req[r].pc # "idle" =>
    /\ req[r].pc = "enqueue" /\ req[r].tries = 0 => req[r].old = NoRun
    /\ req[r].old # NoRun =>
         /\ th[req[r].old] # "none"
         /\ arq[req[r].of].run = req[r].old => arq[req[r].of].st \in {"done", "failed"}
         /\ ~(req[r].pc \in {"status", "drop"} /\ req[r].tries = 0) => arq[req[r].of].run # req[r].old

RetryInv == \A r \in Requests : RetryOf(r)

\* A saved entry is of a run that is over; a run past its read has what it
\* rests on, for as long as the row it read is there.
SavedInv ==
  /\ \A n \in Runs : seen[n].epoch <= epoch
  /\ \A n \in Runs : th[n] \in {"calling", "saving"} /\ seen[n].epoch = epoch => Ready(of[n])
  /\ \A k \in Keys : made[k] # NoRun => th[made[k]] \in {"over", "failed"}
  /\ MadeFromSaved

-----------------------------------------------------------------------------
LEMMA Bounds ==
  /\ NoRun \notin Runs
  /\ Cover \in Keys /\ Outputs \subseteq Keys /\ Professional \in Outputs /\ Cover \notin Outputs
  /\ \A o \in Outputs : Original[o] \in Outputs
  BY AIJobsAssumption DEF Runs, NoRun, Keys

LEMMA NextRunUnused == Unused # {} => NextRun \in Unused
  BY DEF NextRun

LEMMA UnusedRuns ==
  \A n \in Unused : n \in Runs /\ th[n] = "none" /\ \A k \in Keys : arq[k].run # n
  BY DEF Unused

\* The type invariant by owner.
JobState == [st : {"none", "queued", "running", "done", "failed"}, run : Runs \cup {NoRun}]
Tries == 0..1
Open == [pc : {"enqueue", "status", "drop", "poll", "look"}, of : Outputs, tries : Tries,
         old : Runs \cup {NoRun}]

CacheType ==
  /\ row \in {"cached", "gone", "ghost"} /\ epoch \in Nat
  /\ made \in [Keys -> Runs \cup {NoRun}]
  /\ budget \in 0..MaxFaults
QueueType == arq \in [Keys -> JobState] /\ of \in [Runs -> Keys]
WorkType ==
  /\ co \in [Runs -> {"none", "await", "cover"}]
  /\ th \in [Runs -> {"none", "reading", "calling", "saving", "over", "failed"}]
  /\ loose \subseteq Runs
SeenType == seen \in [Runs -> [epoch : Nat, entries : SUBSET Outputs]]
RequestType == req \in [Requests -> {Idle} \cup Open]

LEMMA TypeParts == TypeOK <=> CacheType /\ QueueType /\ WorkType /\ SeenType /\ RequestType
  BY DEF TypeOK, CacheType, QueueType, WorkType, SeenType, RequestType, RequestState, JobState, Open, Tries

LEMMA TypeInit == Init => TypeOK
<1> SUFFICES ASSUME Init PROVE CacheType /\ QueueType /\ WorkType /\ SeenType /\ RequestType
  BY TypeParts
<1>1. CacheType
  BY AIJobsAssumption DEF Init, CacheType
<1>2. QueueType
  BY Bounds DEF Init, QueueType, JobState, Free
<1>3. WorkType /\ SeenType /\ RequestType
  BY DEF Init, WorkType, SeenType, RequestType, Blank
<1> QED
  BY <1>1, <1>2, <1>3

LEMMA OpenRequest ==
  ASSUME RequestType, NEW r \in Requests, req[r].pc # "idle"
  PROVE  req[r] \in Open
  BY DEF RequestType, Idle

LEMMA TwoTries == 0 \in Tries /\ 1 \in Tries
  BY DEF Tries

LEMMA BecomeTyped ==
  ASSUME RequestType, NEW r \in Requests, NEW state \in {Idle} \cup Open, Become(r, state)
  PROVE  RequestType'
  BY DEF RequestType, Become

LEMMA PollTyped ==
  ASSUME RequestType, NEW r \in Requests, req[r].pc # "idle", BeginPoll(r)
  PROVE  RequestType'
<1>1. [req[r] EXCEPT !.pc = "poll", !.tries = 0] \in Open
  BY OpenRequest, TwoTries DEF Open
<1>2. req' = [req EXCEPT ![r] = [req[r] EXCEPT !.pc = "poll", !.tries = 0]]
  BY DEF BeginPoll
<1> QED
  BY <1>1, <1>2 DEF RequestType

LEMMA AdvanceTyped ==
  ASSUME RequestType, NEW r \in Requests, req[r].pc # "idle",
         NEW label \in {"enqueue", "status", "drop", "poll", "look"}, Advance(r, label)
  PROVE  RequestType'
  BY OpenRequest DEF RequestType, Advance, Open

LEMMA SettledTyped ==
  ASSUME QueueType, NEW n \in Runs, NEW how \in {"done", "failed"}
  PROVE  Settled(n, how) \in [Keys -> JobState]
  BY DEF QueueType, Settled, JobState

LEMMA StateTyped ==
  ASSUME QueueType, NEW k \in Keys, NEW st \in {"running", "done", "failed"}
  PROVE  [arq EXCEPT ![k].st = st] \in [Keys -> JobState]
  BY DEF QueueType, JobState

LEMMA QueueTyped ==
  ASSUME QueueType, NEW k \in Keys, Queue(k)
  PROVE  QueueType'
  BY NextRunUnused, UnusedRuns DEF QueueType, Queue, JobState

LEMMA CacheStep ==
  CacheType /\ QueueType /\ [Next]_vars => CacheType'
<1> SUFFICES ASSUME CacheType /\ QueueType, [Next]_vars PROVE CacheType'
  OBVIOUS
<1>1. ASSUME NEW r \in Requests, NEW o \in Outputs, Ask(r, o) PROVE CacheType'
  BY <1>1, Bounds DEF Ask, Become, CacheType, cache, runs
<1>2. ASSUME NEW r \in Requests, TryEnqueue(r) PROVE CacheType'
  BY <1>2, Bounds DEF TryEnqueue, Queue, Become, BeginPoll, CacheType, cache, runs
<1>3. ASSUME NEW r \in Requests, Status(r) PROVE CacheType'
  BY <1>3, Bounds DEF Status, Advance, BeginPoll, CacheType, cache, runs
<1>4. ASSUME NEW r \in Requests, Drop(r) PROVE CacheType'
  BY <1>4, Bounds DEF Drop, Again, Become, BeginPoll, CacheType, cache, runs
<1>5. ASSUME NEW r \in Requests, EnqueueFails(r) PROVE CacheType'
  BY <1>5, AIJobsAssumption DEF EnqueueFails, Fault, CacheType, cache, runs
<1>6. ASSUME NEW r \in Requests, Poll(r) PROVE CacheType'
  BY <1>6, Bounds DEF Poll, Become, Advance, CacheType, cache, runs
<1>7. ASSUME NEW r \in Requests, Look(r) PROVE CacheType'
  BY <1>7, Bounds DEF Look, Become, Advance, CacheType, cache, runs
<1>8. ASSUME NEW n \in Runs, Read(n) PROVE CacheType'
  BY <1>8, Bounds DEF Read, Thread, CacheType, cache, runs
<1>9. ASSUME NEW n \in Runs, Call(n) PROVE CacheType'
  BY <1>9, Bounds DEF Call, Thread, CacheType, cache, runs
<1>10. ASSUME NEW n \in Runs, Save(n) PROVE CacheType'
  <2>1. budget' \in 0..MaxFaults
    BY <1>10, AIJobsAssumption DEF Save, Fault, CacheType, cache
  <2>2. of[n] \in Keys
    BY DEF QueueType
  <2>3. made' \in [Keys -> Runs \cup {NoRun}]
    BY <1>10, <2>2 DEF Save, CacheType, cache
  <2> QED
    BY <1>10, <2>1, <2>3 DEF Save, CacheType, cache
<1>11. ASSUME NEW n \in Runs, Return(n) PROVE CacheType'
  BY <1>11, Bounds DEF Return, Thread, Settled, CacheType, cache, runs
<1>12. ASSUME NEW n \in Runs, QueueCover(n) PROVE CacheType'
  BY <1>12, Bounds DEF QueueCover, Settled, CacheType, cache, runs
<1>13. ASSUME NEW n \in Runs, Cancel(n) PROVE CacheType'
  BY <1>13, AIJobsAssumption DEF Cancel, Fault, CacheType, cache, runs
<1>14. ASSUME NEW k \in Keys, Start(k) PROVE CacheType'
  BY <1>14, Bounds DEF Start, Thread, CacheType, cache, runs
<1>15. ASSUME NEW k \in Keys, OrphanFails(k) PROVE CacheType'
  BY <1>15, Bounds DEF OrphanFails, CacheType, cache, runs
<1>16. ASSUME NEW k \in Keys, ResultExpires(k) PROVE CacheType'
  BY <1>16, Bounds DEF ResultExpires, CacheType, cache, runs
<1>17. CASE Kill
  BY <1>17, AIJobsAssumption DEF Kill, Fault, CacheType, cache, runs
<1>18. CASE RedisRestart
  BY <1>18, AIJobsAssumption DEF RedisRestart, Fault, CacheType, cache, runs
<1>19. CASE Delete
  BY <1>19, AIJobsAssumption DEF Delete, Fault, CacheType, cache, runs
<1>20. CASE Recache
  BY <1>20, Bounds DEF Recache, CacheType, cache, runs
<1>21. CASE UNCHANGED vars
  BY <1>21 DEF vars, cache, runs, CacheType
<1> QED
  BY <1>1, <1>2, <1>3, <1>4, <1>5, <1>6, <1>7, <1>8, <1>9, <1>10, <1>11, <1>12, <1>13, <1>14, <1>15, <1>16, <1>17, <1>18, <1>19, <1>20, <1>21 DEF Next, RequestStep, RunStep, JobStep

LEMMA QueueStep ==
  QueueType /\ RequestType /\ [Next]_vars => QueueType'
<1> SUFFICES ASSUME QueueType /\ RequestType, [Next]_vars PROVE QueueType'
  OBVIOUS
<1>1. ASSUME NEW r \in Requests, NEW o \in Outputs, Ask(r, o) PROVE QueueType'
  BY <1>1, Bounds DEF Ask, Become, QueueType, JobState, Free, cache, runs
<1>2. ASSUME NEW r \in Requests, TryEnqueue(r) PROVE QueueType'
  <2>1. CASE Queue(req[r].of)
    BY <1>2, <2>1, OpenRequest, QueueTyped, Bounds DEF TryEnqueue, Open
  <2>2. CASE UNCHANGED <<arq, runs>>
    BY <2>2 DEF QueueType, runs
  <2> QED
    BY <1>2, <2>1, <2>2 DEF TryEnqueue
<1>3. ASSUME NEW r \in Requests, Status(r) PROVE QueueType'
  BY <1>3, Bounds DEF Status, Advance, BeginPoll, QueueType, JobState, Free, cache, runs
<1>4. ASSUME NEW r \in Requests, Drop(r) PROVE QueueType'
  <2>1. req[r].of \in Keys
    BY <1>4, OpenRequest, Bounds DEF Drop, Open
  <2>2. Free \in JobState
    BY DEF Free, JobState
  <2> QED
    BY <1>4, <2>1, <2>2 DEF Drop, QueueType, runs
<1>5. ASSUME NEW r \in Requests, EnqueueFails(r) PROVE QueueType'
  <2>1. CASE Queue(req[r].of)
    BY <1>5, <2>1, OpenRequest, QueueTyped, Bounds DEF EnqueueFails, Open
  <2>2. CASE UNCHANGED <<arq, runs>>
    BY <2>2 DEF QueueType, runs
  <2> QED
    BY <1>5, <2>1, <2>2 DEF EnqueueFails
<1>6. ASSUME NEW r \in Requests, Poll(r) PROVE QueueType'
  BY <1>6, Bounds DEF Poll, Become, Advance, QueueType, JobState, Free, cache, runs
<1>7. ASSUME NEW r \in Requests, Look(r) PROVE QueueType'
  BY <1>7, Bounds DEF Look, Become, Advance, QueueType, JobState, Free, cache, runs
<1>8. ASSUME NEW n \in Runs, Read(n) PROVE QueueType'
  BY <1>8, Bounds DEF Read, Thread, QueueType, JobState, Free, cache, runs
<1>9. ASSUME NEW n \in Runs, Call(n) PROVE QueueType'
  BY <1>9, Bounds DEF Call, Thread, QueueType, JobState, Free, cache, runs
<1>10. ASSUME NEW n \in Runs, Save(n) PROVE QueueType'
  BY <1>10, Bounds DEF Save, Thread, Fault, QueueType, JobState, Free, cache, runs
<1>11. ASSUME NEW n \in Runs, Return(n) PROVE QueueType'
  <2>1. arq' \in [Keys -> JobState]
    <3>1. CASE UNCHANGED arq
      BY <3>1 DEF QueueType
    <3>2. ASSUME NEW how \in {"done", "failed"}, arq' = Settled(n, how) PROVE arq' \in [Keys -> JobState]
      BY <3>2, SettledTyped
    <3> QED
      BY <1>11, <3>1, <3>2 DEF Return
  <2> QED
    BY <1>11, <2>1 DEF Return, QueueType
<1>12. ASSUME NEW n \in Runs, QueueCover(n) PROVE QueueType'
  <2>1. Settled(n, "done") \in [Keys -> JobState]
    BY SettledTyped
  <2>2. CASE arq' = Settled(n, "done") /\ UNCHANGED of
    BY <2>1, <2>2 DEF QueueType
  <2>3. CASE /\ Unused # {}
             /\ arq' = [Settled(n, "done") EXCEPT ![Cover] = [st |-> "queued", run |-> NextRun]]
             /\ of' = [of EXCEPT ![NextRun] = Cover]
    <3>1. [st |-> "queued", run |-> NextRun] \in JobState
      BY <2>3, NextRunUnused, UnusedRuns DEF JobState
    <3> QED
      BY <2>1, <2>3, <3>1, Bounds DEF QueueType
  <2> QED
    BY <1>12, <2>2, <2>3 DEF QueueCover
<1>13. ASSUME NEW n \in Runs, Cancel(n) PROVE QueueType'
  BY <1>13, SettledTyped DEF Cancel, QueueType
<1>14. ASSUME NEW k \in Keys, Start(k) PROVE QueueType'
  <2>1. [arq EXCEPT ![k].st = "running"] \in [Keys -> JobState] /\ [arq EXCEPT ![k].st = "failed"] \in [Keys -> JobState]
    BY StateTyped
  <2> QED
    BY <1>14, <2>1 DEF Start, QueueType
<1>15. ASSUME NEW k \in Keys, OrphanFails(k) PROVE QueueType'
  BY <1>15, StateTyped DEF OrphanFails, QueueType, runs
<1>16. ASSUME NEW k \in Keys, ResultExpires(k) PROVE QueueType'
  BY <1>16, Bounds DEF ResultExpires, QueueType, JobState, Free, cache, runs
<1>17. CASE Kill
  BY <1>17, Bounds DEF Kill, Fault, QueueType, JobState, Free, cache, runs
<1>18. CASE RedisRestart
  BY <1>18 DEF RedisRestart, QueueType, JobState, Free
<1>19. CASE Delete
  BY <1>19, Bounds DEF Delete, Fault, QueueType, JobState, Free, cache, runs
<1>20. CASE Recache
  BY <1>20, Bounds DEF Recache, QueueType, JobState, Free, cache, runs
<1>21. CASE UNCHANGED vars
  BY <1>21 DEF vars, cache, runs, QueueType, JobState, Free
<1> QED
  BY <1>1, <1>2, <1>3, <1>4, <1>5, <1>6, <1>7, <1>8, <1>9, <1>10, <1>11, <1>12, <1>13, <1>14, <1>15, <1>16, <1>17, <1>18, <1>19, <1>20, <1>21 DEF Next, RequestStep, RunStep, JobStep

LEMMA WorkStep ==
  QueueType /\ QueueInv /\ WorkType /\ [Next]_vars => WorkType'
<1> SUFFICES ASSUME QueueType /\ QueueInv /\ WorkType, [Next]_vars PROVE WorkType'
  OBVIOUS
<1>1. ASSUME NEW r \in Requests, NEW o \in Outputs, Ask(r, o) PROVE WorkType'
  BY <1>1, Bounds DEF Ask, Become, QueueType, WorkType, JobState, cache, runs
<1>2. ASSUME NEW r \in Requests, TryEnqueue(r) PROVE WorkType'
  BY <1>2, Bounds DEF TryEnqueue, Queue, Become, BeginPoll, QueueType, WorkType, JobState, cache, runs
<1>3. ASSUME NEW r \in Requests, Status(r) PROVE WorkType'
  BY <1>3, Bounds DEF Status, Advance, BeginPoll, QueueType, WorkType, JobState, cache, runs
<1>4. ASSUME NEW r \in Requests, Drop(r) PROVE WorkType'
  BY <1>4, Bounds DEF Drop, Again, Become, BeginPoll, QueueType, WorkType, JobState, cache, runs
<1>5. ASSUME NEW r \in Requests, EnqueueFails(r) PROVE WorkType'
  BY <1>5, Bounds DEF EnqueueFails, Fault, Queue, Become, QueueType, WorkType, JobState, cache, runs
<1>6. ASSUME NEW r \in Requests, Poll(r) PROVE WorkType'
  BY <1>6, Bounds DEF Poll, Become, Advance, QueueType, WorkType, JobState, cache, runs
<1>7. ASSUME NEW r \in Requests, Look(r) PROVE WorkType'
  BY <1>7, Bounds DEF Look, Become, Advance, QueueType, WorkType, JobState, cache, runs
<1>8. ASSUME NEW n \in Runs, Read(n) PROVE WorkType'
  BY <1>8, Bounds DEF Read, Thread, QueueType, WorkType, JobState, cache, runs
<1>9. ASSUME NEW n \in Runs, Call(n) PROVE WorkType'
  BY <1>9, Bounds DEF Call, Thread, QueueType, WorkType, JobState, cache, runs
<1>10. ASSUME NEW n \in Runs, Save(n) PROVE WorkType'
  BY <1>10, Bounds DEF Save, Thread, Fault, QueueType, WorkType, JobState, cache, runs
<1>11. ASSUME NEW n \in Runs, Return(n) PROVE WorkType'
  BY <1>11, Bounds DEF Return, Thread, Settled, QueueType, WorkType, JobState, cache, runs
<1>12. ASSUME NEW n \in Runs, QueueCover(n) PROVE WorkType'
  BY <1>12, Bounds DEF QueueCover, Settled, QueueType, WorkType, JobState, cache, runs
<1>13. ASSUME NEW n \in Runs, Cancel(n) PROVE WorkType'
  BY <1>13, Bounds DEF Cancel, Fault, Settled, QueueType, WorkType, JobState, cache, runs
<1>14. ASSUME NEW k \in Keys, Start(k) PROVE WorkType'
  BY <1>14 DEF Start, Thread, QueueInv, WorkType
<1>15. ASSUME NEW k \in Keys, OrphanFails(k) PROVE WorkType'
  BY <1>15, Bounds DEF OrphanFails, QueueType, WorkType, JobState, cache, runs
<1>16. ASSUME NEW k \in Keys, ResultExpires(k) PROVE WorkType'
  BY <1>16, Bounds DEF ResultExpires, QueueType, WorkType, JobState, cache, runs
<1>17. CASE Kill
  BY <1>17, Bounds DEF Kill, Fault, QueueType, WorkType, JobState, cache, runs
<1>18. CASE RedisRestart
  <2>1. \A k \in Keys : arq[k].st = "running" => arq[k].run \in Runs
    BY DEF QueueInv
  <2> QED
    BY <1>18, <2>1 DEF RedisRestart, WorkType
<1>19. CASE Delete
  BY <1>19, Bounds DEF Delete, Fault, QueueType, WorkType, JobState, cache, runs
<1>20. CASE Recache
  BY <1>20, Bounds DEF Recache, QueueType, WorkType, JobState, cache, runs
<1>21. CASE UNCHANGED vars
  BY <1>21 DEF vars, cache, runs, QueueType, WorkType, JobState
<1> QED
  BY <1>1, <1>2, <1>3, <1>4, <1>5, <1>6, <1>7, <1>8, <1>9, <1>10, <1>11, <1>12, <1>13, <1>14, <1>15, <1>16, <1>17, <1>18, <1>19, <1>20, <1>21 DEF Next, RequestStep, RunStep, JobStep

LEMMA SeenStep ==
  SeenType /\ CacheType /\ [Next]_vars => SeenType'
<1> SUFFICES ASSUME SeenType /\ CacheType, [Next]_vars PROVE SeenType'
  OBVIOUS
<1>1. ASSUME NEW r \in Requests, NEW o \in Outputs, Ask(r, o) PROVE SeenType'
  BY <1>1 DEF Ask, Become, SeenType, CacheType, cache, runs
<1>2. ASSUME NEW r \in Requests, TryEnqueue(r) PROVE SeenType'
  BY <1>2 DEF TryEnqueue, Queue, Become, BeginPoll, SeenType, CacheType, cache, runs
<1>3. ASSUME NEW r \in Requests, Status(r) PROVE SeenType'
  BY <1>3 DEF Status, Advance, BeginPoll, SeenType, CacheType, cache, runs
<1>4. ASSUME NEW r \in Requests, Drop(r) PROVE SeenType'
  BY <1>4 DEF Drop, Again, Become, BeginPoll, SeenType, CacheType, cache, runs
<1>5. ASSUME NEW r \in Requests, EnqueueFails(r) PROVE SeenType'
  BY <1>5 DEF EnqueueFails, Fault, Queue, Become, SeenType, CacheType, cache, runs
<1>6. ASSUME NEW r \in Requests, Poll(r) PROVE SeenType'
  BY <1>6 DEF Poll, Become, Advance, SeenType, CacheType, cache, runs
<1>7. ASSUME NEW r \in Requests, Look(r) PROVE SeenType'
  BY <1>7 DEF Look, Become, Advance, SeenType, CacheType, cache, runs
<1>8. ASSUME NEW n \in Runs, Read(n) PROVE SeenType'
  BY <1>8 DEF Read, Thread, SeenType, CacheType, cache, runs
<1>9. ASSUME NEW n \in Runs, Call(n) PROVE SeenType'
  BY <1>9 DEF Call, Thread, SeenType, CacheType, cache, runs
<1>10. ASSUME NEW n \in Runs, Save(n) PROVE SeenType'
  BY <1>10 DEF Save, Thread, Fault, SeenType, CacheType, cache, runs
<1>11. ASSUME NEW n \in Runs, Return(n) PROVE SeenType'
  BY <1>11 DEF Return, Thread, Settled, SeenType, CacheType, cache, runs
<1>12. ASSUME NEW n \in Runs, QueueCover(n) PROVE SeenType'
  BY <1>12 DEF QueueCover, Settled, SeenType, CacheType, cache, runs
<1>13. ASSUME NEW n \in Runs, Cancel(n) PROVE SeenType'
  BY <1>13 DEF Cancel, Fault, Settled, SeenType, CacheType, cache, runs
<1>14. ASSUME NEW k \in Keys, Start(k) PROVE SeenType'
  BY <1>14 DEF Start, Thread, SeenType, CacheType, cache, runs
<1>15. ASSUME NEW k \in Keys, OrphanFails(k) PROVE SeenType'
  BY <1>15 DEF OrphanFails, SeenType, CacheType, cache, runs
<1>16. ASSUME NEW k \in Keys, ResultExpires(k) PROVE SeenType'
  BY <1>16 DEF ResultExpires, SeenType, CacheType, cache, runs
<1>17. CASE Kill
  BY <1>17 DEF Kill, Fault, SeenType, CacheType, cache, runs
<1>18. CASE RedisRestart
  BY <1>18 DEF RedisRestart, Fault, SeenType, CacheType, cache, runs
<1>19. CASE Delete
  BY <1>19 DEF Delete, Fault, SeenType, CacheType, cache, runs
<1>20. CASE Recache
  BY <1>20 DEF Recache, SeenType, CacheType, cache, runs
<1>21. CASE UNCHANGED vars
  BY <1>21 DEF vars, cache, runs, SeenType, CacheType
<1> QED
  BY <1>1, <1>2, <1>3, <1>4, <1>5, <1>6, <1>7, <1>8, <1>9, <1>10, <1>11, <1>12, <1>13, <1>14, <1>15, <1>16, <1>17, <1>18, <1>19, <1>20, <1>21 DEF Next, RequestStep, RunStep, JobStep

LEMMA RequestStepTyped ==
  RequestType /\ QueueType /\ [Next]_vars => RequestType'
<1> SUFFICES ASSUME RequestType /\ QueueType, [Next]_vars PROVE RequestType'
  OBVIOUS
<1>1. ASSUME NEW r \in Requests, NEW o \in Outputs, Ask(r, o) PROVE RequestType'
  BY <1>1, TwoTries, Bounds, BecomeTyped DEF Ask, Open
<1>2. ASSUME NEW r \in Requests, TryEnqueue(r) PROVE RequestType'
  <2>1. req[r] \in Open
    BY <1>2, OpenRequest DEF TryEnqueue
  <2>2. [req[r] EXCEPT !.pc = "status", !.old = IF InFlight(req[r].of) \/ req[r].tries > 0
                                              THEN @ ELSE arq[req[r].of].run] \in Open
    BY <2>1, Bounds DEF Open, QueueType, JobState
  <2> QED
    BY <1>2, <2>2, BecomeTyped, PollTyped DEF TryEnqueue
<1>3. ASSUME NEW r \in Requests, Status(r) PROVE RequestType'
  BY <1>3, PollTyped, AdvanceTyped DEF Status
<1>4. ASSUME NEW r \in Requests, Drop(r) PROVE RequestType'
  <2>1. req[r] \in Open
    BY <1>4, OpenRequest DEF Drop
  <2>2. [req[r] EXCEPT !.pc = "enqueue", !.tries = 1] \in Open
    BY <2>1, TwoTries DEF Open
  <2> QED
    BY <1>4, <2>2, BecomeTyped, PollTyped DEF Drop, Again
<1>5. ASSUME NEW r \in Requests, EnqueueFails(r) PROVE RequestType'
  BY <1>5, BecomeTyped DEF EnqueueFails
<1>6. ASSUME NEW r \in Requests, Poll(r) PROVE RequestType'
  BY <1>6, BecomeTyped, AdvanceTyped DEF Poll
<1>7. ASSUME NEW r \in Requests, Look(r) PROVE RequestType'
  BY <1>7, BecomeTyped, AdvanceTyped DEF Look
<1>8. ASSUME NEW n \in Runs, Read(n) PROVE RequestType'
  BY <1>8, Bounds, BecomeTyped DEF Read, Thread, RequestType, QueueType, Open, cache, runs
<1>9. ASSUME NEW n \in Runs, Call(n) PROVE RequestType'
  BY <1>9, Bounds, BecomeTyped DEF Call, Thread, RequestType, QueueType, Open, cache, runs
<1>10. ASSUME NEW n \in Runs, Save(n) PROVE RequestType'
  BY <1>10, Bounds, BecomeTyped DEF Save, Thread, Fault, RequestType, QueueType, Open, cache, runs
<1>11. ASSUME NEW n \in Runs, Return(n) PROVE RequestType'
  BY <1>11, Bounds, BecomeTyped DEF Return, Thread, Settled, RequestType, QueueType, Open, cache, runs
<1>12. ASSUME NEW n \in Runs, QueueCover(n) PROVE RequestType'
  BY <1>12, Bounds, BecomeTyped DEF QueueCover, Settled, RequestType, QueueType, Open, cache, runs
<1>13. ASSUME NEW n \in Runs, Cancel(n) PROVE RequestType'
  BY <1>13, Bounds, BecomeTyped DEF Cancel, Fault, Settled, RequestType, QueueType, Open, cache, runs
<1>14. ASSUME NEW k \in Keys, Start(k) PROVE RequestType'
  BY <1>14, Bounds, BecomeTyped DEF Start, Thread, RequestType, QueueType, Open, cache, runs
<1>15. ASSUME NEW k \in Keys, OrphanFails(k) PROVE RequestType'
  BY <1>15, Bounds, BecomeTyped DEF OrphanFails, RequestType, QueueType, Open, cache, runs
<1>16. ASSUME NEW k \in Keys, ResultExpires(k) PROVE RequestType'
  BY <1>16, Bounds, BecomeTyped DEF ResultExpires, RequestType, QueueType, Open, cache, runs
<1>17. CASE Kill
  BY <1>17, Bounds, BecomeTyped DEF Kill, Fault, RequestType, QueueType, Open, cache, runs
<1>18. CASE RedisRestart
  BY <1>18, Bounds, BecomeTyped DEF RedisRestart, Fault, RequestType, QueueType, Open, cache, runs
<1>19. CASE Delete
  BY <1>19, Bounds, BecomeTyped DEF Delete, Fault, RequestType, QueueType, Open, cache, runs
<1>20. CASE Recache
  BY <1>20, Bounds, BecomeTyped DEF Recache, RequestType, QueueType, Open, cache, runs
<1>21. CASE UNCHANGED vars
  BY <1>21 DEF vars, cache, runs, RequestType, QueueType, Open
<1> QED
  BY <1>1, <1>2, <1>3, <1>4, <1>5, <1>6, <1>7, <1>8, <1>9, <1>10, <1>11, <1>12, <1>13, <1>14, <1>15, <1>16, <1>17, <1>18, <1>19, <1>20, <1>21 DEF Next, RequestStep, RunStep, JobStep

-----------------------------------------------------------------------------
\* What a step does to a job id, and to a run.
KeyMove(k) ==
  \/ arq'[k] = arq[k]
  \/ arq'[k] = Free
  \/ \E n \in Unused : arq'[k] = [st |-> "queued", run |-> n] /\ of'[n] = k
  \/ /\ arq[k].st = "queued" /\ arq'[k].st \in {"running", "failed"}
     /\ arq'[k].run = arq[k].run /\ th'[arq[k].run] # "none"
  \/ arq[k].st = "running" /\ arq'[k].st \in {"done", "failed"} /\ arq'[k].run = arq[k].run

RunMove(n) ==
  /\ th[n] # "none" => th'[n] # "none"
  /\ th[n] = "none" /\ th'[n] # "none" =>
       \E k \in Keys : arq[k].st = "queued" /\ arq[k].run = n /\ arq'[k].st # "queued"
  /\ n \notin Unused => of'[n] = of[n]

\* A settled job is the same, or was running and has its result.
Settling(next, n, how, k) ==
  \/ next[k] = arq[k]
  \/ arq[k] = [st |-> "running", run |-> n] /\ next[k] = [st |-> how, run |-> n]

LEMMA SettledKeys ==
  ASSUME QueueType, NEW n \in Runs, NEW how
  PROVE  \A k \in Keys : Settling(Settled(n, how), n, how, k)
<1>1. CASE arq[of[n]] = [st |-> "running", run |-> n]
  <2>1. Settled(n, how) = [arq EXCEPT ![of[n]].st = how]
    BY <1>1 DEF Settled
  <2>2. of[n] \in Keys /\ [arq[of[n]] EXCEPT !.st = how] = [st |-> how, run |-> n]
    BY <1>1 DEF QueueType
  <2> QED
    BY <1>1, <2>1, <2>2 DEF QueueType, Settling
<1>2. CASE arq[of[n]] # [st |-> "running", run |-> n]
  BY <1>2 DEF Settled, Settling
<1> QED
  BY <1>1, <1>2

LEMMA SettlesMove ==
  ASSUME NEW n \in Runs, NEW how \in {"done", "failed"}, NEW k \in Keys, Settling(arq', n, how, k)
  PROVE  KeyMove(k)
<1>1. CASE arq[k] = [st |-> "running", run |-> n] /\ arq'[k] = [st |-> how, run |-> n]
  <2>1. arq[k].st = "running" /\ arq[k].run = n /\ arq'[k].st = how /\ arq'[k].run = n
    BY <1>1
  <2> QED
    BY <2>1 DEF KeyMove
<1> QED
  BY <1>1 DEF Settling, KeyMove

LEMMA StartMoves ==
  ASSUME QueueType, WorkType, QueueInv, NEW j \in Keys, Start(j)
  PROVE  /\ arq[j].st = "queued" /\ arq[j].run \in Runs /\ th[arq[j].run] = "none"
         /\ arq'[j].st \in {"running", "failed"} /\ arq'[j].run = arq[j].run
         /\ th'[arq[j].run] # "none"
         /\ \A k \in Keys \ {j} : arq'[k] = arq[k]
         /\ \A n \in Runs \ {arq[j].run} : th'[n] = th[n]
<1>1. arq[j].st = "queued" /\ arq[j].run \in Runs /\ th[arq[j].run] = "none"
  BY DEF Start, QueueInv
<1>2. \/ arq' = [arq EXCEPT ![j].st = "running"] /\ th' = [th EXCEPT ![arq[j].run] = "reading"]
      \/ arq' = [arq EXCEPT ![j].st = "failed"] /\ th' = [th EXCEPT ![arq[j].run] = "over"]
  BY DEF Start, Thread
<1>3. \A st \in {"running", "failed"} :
        [arq[j] EXCEPT !.st = st].st = st /\ [arq[j] EXCEPT !.st = st].run = arq[j].run
  BY DEF QueueType, JobState
<1>4. \A st \in {"running", "failed"} : [arq EXCEPT ![j].st = st][j] = [arq[j] EXCEPT !.st = st]
  BY DEF QueueType
<1> QED
  BY <1>1, <1>2, <1>3, <1>4 DEF QueueType, WorkType

LEMMA KeysMove ==
  QueueType /\ WorkType /\ RequestType /\ QueueInv /\ [Next]_vars => (\A k \in Keys : KeyMove(k))
<1> SUFFICES ASSUME QueueType /\ WorkType /\ RequestType /\ QueueInv, [Next]_vars PROVE (\A k \in Keys : KeyMove(k))
  OBVIOUS
<1>1. ASSUME NEW r \in Requests, NEW o \in Outputs, Ask(r, o) PROVE (\A k \in Keys : KeyMove(k))
  BY <1>1, Bounds DEF Ask, Become, QueueType, KeyMove, cache, runs
<1>2. ASSUME NEW r \in Requests, TryEnqueue(r) PROVE (\A k \in Keys : KeyMove(k))
  <2>1. CASE UNCHANGED arq
    BY <2>1 DEF KeyMove
  <2>2. CASE Queue(req[r].of)
    <3>1. req[r].of \in Keys
      BY <1>2, OpenRequest, Bounds DEF TryEnqueue, Open
    <3> QED
      BY <2>2, <3>1, NextRunUnused, UnusedRuns DEF Queue, KeyMove, QueueType
  <2> QED
    BY <1>2, <2>1, <2>2 DEF TryEnqueue
<1>3. ASSUME NEW r \in Requests, Status(r) PROVE (\A k \in Keys : KeyMove(k))
  BY <1>3, Bounds DEF Status, Advance, BeginPoll, QueueType, KeyMove, cache, runs
<1>4. ASSUME NEW r \in Requests, Drop(r) PROVE (\A k \in Keys : KeyMove(k))
  BY <1>4, Bounds DEF Drop, Again, Become, BeginPoll, QueueType, KeyMove, cache, runs
<1>5. ASSUME NEW r \in Requests, EnqueueFails(r) PROVE (\A k \in Keys : KeyMove(k))
  <2>1. CASE UNCHANGED arq
    BY <2>1 DEF KeyMove
  <2>2. CASE Queue(req[r].of)
    <3>1. req[r].of \in Keys
      BY <1>5, OpenRequest, Bounds DEF EnqueueFails, Open
    <3> QED
      BY <2>2, <3>1, NextRunUnused, UnusedRuns DEF Queue, KeyMove, QueueType
  <2> QED
    BY <1>5, <2>1, <2>2 DEF EnqueueFails
<1>6. ASSUME NEW r \in Requests, Poll(r) PROVE (\A k \in Keys : KeyMove(k))
  BY <1>6, Bounds DEF Poll, Become, Advance, QueueType, KeyMove, cache, runs
<1>7. ASSUME NEW r \in Requests, Look(r) PROVE (\A k \in Keys : KeyMove(k))
  BY <1>7, Bounds DEF Look, Become, Advance, QueueType, KeyMove, cache, runs
<1>8. ASSUME NEW n \in Runs, Read(n) PROVE (\A k \in Keys : KeyMove(k))
  BY <1>8, Bounds DEF Read, Thread, QueueType, KeyMove, cache, runs
<1>9. ASSUME NEW n \in Runs, Call(n) PROVE (\A k \in Keys : KeyMove(k))
  BY <1>9, Bounds DEF Call, Thread, QueueType, KeyMove, cache, runs
<1>10. ASSUME NEW n \in Runs, Save(n) PROVE (\A k \in Keys : KeyMove(k))
  BY <1>10, Bounds DEF Save, Thread, Fault, QueueType, KeyMove, cache, runs
<1>11. ASSUME NEW n \in Runs, Return(n) PROVE (\A k \in Keys : KeyMove(k))
  <2>1. ASSUME NEW how \in {"done", "failed"}, arq' = Settled(n, how) PROVE \A k \in Keys : KeyMove(k)
    <3>1. \A k \in Keys : Settling(arq', n, how, k)
      BY <2>1, SettledKeys
    <3> QED
      BY <3>1, SettlesMove
  <2>2. arq' = arq => \A k \in Keys : KeyMove(k)
    BY DEF KeyMove
  <2> QED
    BY <1>11, <2>1, <2>2 DEF Return
<1>12. ASSUME NEW n \in Runs, QueueCover(n) PROVE (\A k \in Keys : KeyMove(k))
  <2>1. \A k \in Keys : Settling(Settled(n, "done"), n, "done", k)
    BY SettledKeys
  <2>2. CASE arq' = Settled(n, "done")
    BY <2>1, <2>2, SettlesMove
  <2>3. CASE /\ Unused # {}
             /\ arq' = [Settled(n, "done") EXCEPT ![Cover] = [st |-> "queued", run |-> NextRun]]
             /\ of' = [of EXCEPT ![NextRun] = Cover]
    <3>1. arq'[Cover] = [st |-> "queued", run |-> NextRun] /\ NextRun \in Unused /\ of'[NextRun] = Cover
      BY <2>3, NextRunUnused, UnusedRuns, SettledTyped, Bounds DEF QueueType
    <3>2. \A k \in Keys \ {Cover} : Settling(arq', n, "done", k)
      BY <2>1, <2>3, SettledTyped DEF Settling
    <3>3. \A k \in Keys \ {Cover} : KeyMove(k)
      BY <3>2, SettlesMove
    <3>4. KeyMove(Cover)
      BY <3>1 DEF KeyMove
    <3> QED
      BY <3>3, <3>4
  <2> QED
    BY <1>12, <2>2, <2>3 DEF QueueCover
<1>13. ASSUME NEW n \in Runs, Cancel(n) PROVE (\A k \in Keys : KeyMove(k))
  <2>1. \A k \in Keys : Settling(arq', n, "failed", k)
    BY <1>13, SettledKeys DEF Cancel
  <2> QED
    BY <2>1, SettlesMove
<1>14. ASSUME NEW j \in Keys, Start(j) PROVE (\A k \in Keys : KeyMove(k))
  BY <1>14, StartMoves DEF KeyMove
<1>15. ASSUME NEW j \in Keys, OrphanFails(j) PROVE (\A k \in Keys : KeyMove(k))
  BY <1>15, Bounds DEF OrphanFails, QueueType, KeyMove, cache, runs
<1>16. ASSUME NEW j \in Keys, ResultExpires(j) PROVE (\A k \in Keys : KeyMove(k))
  BY <1>16, Bounds DEF ResultExpires, QueueType, KeyMove, cache, runs
<1>17. CASE Kill
  BY <1>17, Bounds DEF Kill, Fault, QueueType, KeyMove, cache, runs
<1>18. CASE RedisRestart
  BY <1>18 DEF RedisRestart, KeyMove
<1>19. CASE Delete
  BY <1>19, Bounds DEF Delete, Fault, QueueType, KeyMove, cache, runs
<1>20. CASE Recache
  BY <1>20, Bounds DEF Recache, QueueType, KeyMove, cache, runs
<1>21. CASE UNCHANGED vars
  BY <1>21 DEF vars, cache, runs, QueueType, KeyMove
<1> QED
  BY <1>1, <1>2, <1>3, <1>4, <1>5, <1>6, <1>7, <1>8, <1>9, <1>10, <1>11, <1>12, <1>13, <1>14, <1>15, <1>16, <1>17, <1>18, <1>19, <1>20, <1>21 DEF Next, RequestStep, RunStep, JobStep

LEMMA RunsMove ==
  QueueType /\ WorkType /\ RequestType /\ QueueInv /\ [Next]_vars => (\A n \in Runs : RunMove(n))
<1> SUFFICES ASSUME QueueType /\ WorkType /\ RequestType /\ QueueInv, [Next]_vars PROVE (\A n \in Runs : RunMove(n))
  OBVIOUS
<1>1. ASSUME NEW r \in Requests, NEW o \in Outputs, Ask(r, o) PROVE (\A n \in Runs : RunMove(n))
  BY <1>1 DEF Ask, Become, QueueType, WorkType, RunMove, cache, runs
<1>2. ASSUME NEW r \in Requests, TryEnqueue(r) PROVE (\A n \in Runs : RunMove(n))
  <2>1. CASE UNCHANGED of
    BY <1>2, <2>1 DEF TryEnqueue, Queue, RunMove, runs
  <2>2. CASE Queue(req[r].of)
    BY <2>2, NextRunUnused DEF Queue, RunMove, QueueType
  <2> QED
    BY <1>2, <2>1, <2>2 DEF TryEnqueue, runs
<1>3. ASSUME NEW r \in Requests, Status(r) PROVE (\A n \in Runs : RunMove(n))
  BY <1>3 DEF Status, Advance, BeginPoll, QueueType, WorkType, RunMove, cache, runs
<1>4. ASSUME NEW r \in Requests, Drop(r) PROVE (\A n \in Runs : RunMove(n))
  BY <1>4 DEF Drop, Again, Become, BeginPoll, QueueType, WorkType, RunMove, cache, runs
<1>5. ASSUME NEW r \in Requests, EnqueueFails(r) PROVE (\A n \in Runs : RunMove(n))
  <2>1. CASE UNCHANGED of
    BY <1>5, <2>1 DEF EnqueueFails, Queue, RunMove, runs
  <2>2. CASE Queue(req[r].of)
    BY <2>2, NextRunUnused DEF Queue, RunMove, QueueType
  <2> QED
    BY <1>5, <2>1, <2>2 DEF EnqueueFails, runs
<1>6. ASSUME NEW r \in Requests, Poll(r) PROVE (\A n \in Runs : RunMove(n))
  BY <1>6 DEF Poll, Become, Advance, QueueType, WorkType, RunMove, cache, runs
<1>7. ASSUME NEW r \in Requests, Look(r) PROVE (\A n \in Runs : RunMove(n))
  BY <1>7 DEF Look, Become, Advance, QueueType, WorkType, RunMove, cache, runs
<1>8. ASSUME NEW m \in Runs, Read(m) PROVE (\A n \in Runs : RunMove(n))
  BY <1>8 DEF Read, Thread, QueueType, WorkType, RunMove, cache, runs
<1>9. ASSUME NEW m \in Runs, Call(m) PROVE (\A n \in Runs : RunMove(n))
  BY <1>9 DEF Call, Thread, QueueType, WorkType, RunMove, cache, runs
<1>10. ASSUME NEW m \in Runs, Save(m) PROVE (\A n \in Runs : RunMove(n))
  BY <1>10 DEF Save, Thread, Fault, QueueType, WorkType, RunMove, cache, runs
<1>11. ASSUME NEW m \in Runs, Return(m) PROVE (\A n \in Runs : RunMove(n))
  BY <1>11 DEF Return, Thread, Settled, QueueType, WorkType, RunMove, cache, runs
<1>12. ASSUME NEW m \in Runs, QueueCover(m) PROVE (\A n \in Runs : RunMove(n))
  BY <1>12, NextRunUnused DEF QueueCover, RunMove, QueueType
<1>13. ASSUME NEW m \in Runs, Cancel(m) PROVE (\A n \in Runs : RunMove(n))
  BY <1>13 DEF Cancel, Fault, Settled, QueueType, WorkType, RunMove, cache, runs
<1>14. ASSUME NEW k \in Keys, Start(k) PROVE (\A n \in Runs : RunMove(n))
  <2>1. UNCHANGED of
    BY <1>14 DEF Start
  <2> QED
    BY <1>14, <2>1, StartMoves DEF RunMove
<1>15. ASSUME NEW k \in Keys, OrphanFails(k) PROVE (\A n \in Runs : RunMove(n))
  BY <1>15 DEF OrphanFails, QueueType, WorkType, RunMove, cache, runs
<1>16. ASSUME NEW k \in Keys, ResultExpires(k) PROVE (\A n \in Runs : RunMove(n))
  BY <1>16 DEF ResultExpires, QueueType, WorkType, RunMove, cache, runs
<1>17. CASE Kill
  BY <1>17 DEF Kill, RunMove, runs
<1>18. CASE RedisRestart
  BY <1>18 DEF RedisRestart, Fault, QueueType, WorkType, RunMove, cache, runs
<1>19. CASE Delete
  BY <1>19 DEF Delete, Fault, QueueType, WorkType, RunMove, cache, runs
<1>20. CASE Recache
  BY <1>20 DEF Recache, QueueType, WorkType, RunMove, cache, runs
<1>21. CASE UNCHANGED vars
  BY <1>21 DEF vars, cache, runs, QueueType, WorkType, RunMove
<1> QED
  BY <1>1, <1>2, <1>3, <1>4, <1>5, <1>6, <1>7, <1>8, <1>9, <1>10, <1>11, <1>12, <1>13, <1>14, <1>15, <1>16, <1>17, <1>18, <1>19, <1>20, <1>21 DEF Next, RequestStep, RunStep, JobStep

LEMMA QueueInvStep ==
  QueueType /\ WorkType /\ RequestType /\ QueueInv /\ [Next]_vars => QueueInv'
<1> SUFFICES ASSUME QueueType, WorkType, RequestType, QueueInv, [Next]_vars, NEW k \in Keys
    PROVE  /\ arq'[k].st = "none" => arq'[k] = Free
           /\ arq'[k].st = "queued" => arq'[k].run \in Runs /\ th'[arq'[k].run] = "none" /\ of'[arq'[k].run] = k
           /\ arq'[k].st \in {"running", "done", "failed"} => arq'[k].run \in Runs /\ th'[arq'[k].run] # "none"
  BY DEF QueueInv, Free
<1>1. KeyMove(k) /\ \A n \in Runs : RunMove(n)
  BY KeysMove, RunsMove
<1>2. \A j \in Keys : KeyMove(j)
  BY KeysMove
<1>3. CASE arq'[k] = arq[k]
  <2>1. CASE arq[k].st = "queued"
    <3> DEFINE m == arq[k].run
    <3>1. m \in Runs /\ th[m] = "none" /\ of[m] = k /\ m \notin Unused
      BY <2>1 DEF QueueInv, Unused
    <3>2. \A j \in Keys : arq[j].st = "queued" /\ arq[j].run = m => j = k
      BY <3>1 DEF QueueInv
    <3>3. th'[m] = "none" /\ of'[m] = k
      BY <1>1, <1>3, <2>1, <3>1, <3>2 DEF RunMove
    <3> QED
      BY <1>3, <2>1, <3>1, <3>3
  <2> QED
    BY <1>1, <1>3, <2>1 DEF QueueInv, RunMove, Free
<1>4. CASE arq'[k] = Free
  BY <1>4 DEF Free
<1>5. ASSUME NEW n \in Unused, arq'[k] = [st |-> "queued", run |-> n], of'[n] = k
      PROVE  /\ arq'[k].st = "queued" /\ arq'[k].run \in Runs
             /\ th'[arq'[k].run] = "none" /\ of'[arq'[k].run] = k
  <2>1. n \in Runs /\ th[n] = "none" /\ \A j \in Keys : arq[j].run # n
    BY UnusedRuns
  <2>2. th'[n] = "none"
    BY <1>1, <2>1 DEF RunMove
  <2> QED
    BY <1>5, <2>1, <2>2
<1>6. CASE /\ arq[k].st = "queued" /\ arq'[k].st \in {"running", "failed"}
           /\ arq'[k].run = arq[k].run /\ th'[arq[k].run] # "none"
  BY <1>6 DEF QueueInv
<1>7. CASE arq[k].st = "running" /\ arq'[k].st \in {"done", "failed"} /\ arq'[k].run = arq[k].run
  BY <1>1, <1>7 DEF QueueInv, RunMove
<1> QED
  BY <1>1, <1>3, <1>4, <1>5, <1>6, <1>7 DEF KeyMove

-----------------------------------------------------------------------------
\* A job that arq has as running stays so while its run is awaited.
LEMMA WorkInvStep ==
  QueueType /\ WorkType /\ RequestType /\ QueueInv /\ WorkInv /\ [Next]_vars => WorkInv'
<1> SUFFICES ASSUME QueueType, WorkType, RequestType, QueueInv, WorkInv, [Next]_vars,
                    NEW m \in Runs \ loose', AtWork(m)'
             PROVE  co'[m] = "await" /\ arq'[of'[m]] = [st |-> "running", run |-> m]
  BY DEF WorkInv
<1> DEFINE Goal == co'[m] = "await" /\ arq'[of'[m]] = [st |-> "running", run |-> m]
<1>0. ASSUME m \notin loose, AtWork(m)
      PROVE  /\ co[m] = "await" /\ arq[of[m]] = [st |-> "running", run |-> m]
             /\ arq[of[m]].st = "running" /\ arq[of[m]].run = m
             /\ of[m] \in Keys /\ m \notin Unused
  <2>1. co[m] = "await" /\ arq[of[m]] = [st |-> "running", run |-> m]
    BY <1>0 DEF WorkInv
  <2>2. arq[of[m]].st = "running" /\ arq[of[m]].run = m
    BY <2>1
  <2>3. th[m] # "none" /\ of[m] \in Keys
    BY <1>0 DEF AtWork, QueueType
  <2> QED
    BY <2>1, <2>2, <2>3 DEF Unused
<1> USE DEF AtWork
<1>1. CASE UNCHANGED <<arq, of, co, th, loose>>
  BY <1>0, <1>1
<1>2. ASSUME NEW k \in Keys, Queue(k), arq[k] = Free, UNCHANGED <<loose>> PROVE Goal
  <2>1. m \notin loose /\ AtWork(m)
    BY <1>2 DEF Queue
  <2>2. of[m] # k
    BY <1>0, <1>2, <2>1 DEF Free
  <2>3. of'[m] = of[m]
    BY <1>0, <1>2, <2>1, NextRunUnused, UnusedRuns DEF Queue, QueueType
  <2> QED
    BY <1>0, <1>2, <2>1, <2>2, <2>3 DEF Queue, QueueType
<1>3. ASSUME NEW r \in Requests, Drop(r) PROVE Goal
  <2>1. m \notin loose /\ AtWork(m)
    BY <1>3 DEF Drop, runs
  <2>2. of[m] = req[r].of => InFlight(req[r].of)
    BY <1>0, <2>1 DEF InFlight
  <2>3. arq'[of[m]] = arq[of[m]]
    BY <1>0, <1>3, <2>1, <2>2 DEF Drop, QueueType
  <2> QED
    BY <1>0, <1>3, <2>1, <2>3 DEF Drop, runs
<1>4. ASSUME NEW n \in Runs, Read(n) \/ Call(n) \/ Save(n) PROVE Goal
  <2>1. m \notin loose /\ AtWork(m) /\ UNCHANGED <<arq, of, co>>
    <3>1. AtWork(n) /\ (m # n => th'[m] = th[m])
      BY <1>4 DEF Read, Call, Save, Thread, WorkType
    <3> QED
      BY <1>4, <3>1 DEF Read, Call, Save
  <2> QED
    BY <1>0, <2>1
<1>5. ASSUME NEW n \in Runs, Return(n) PROVE Goal
  <2>1. m # n /\ m \notin loose /\ AtWork(m) /\ co'[m] = co[m] /\ UNCHANGED of
    BY <1>5 DEF Return, Thread, WorkType
  <2>2. ASSUME NEW how \in {"done", "failed"}, arq' = Settled(n, how) PROVE arq'[of[m]] = arq[of[m]]
    <3>1. Settling(arq', n, how, of[m])
      BY <1>0, <2>1, <2>2, SettledKeys
    <3> QED
      BY <1>0, <2>1, <3>1 DEF Settling
  <2>3. arq'[of[m]] = arq[of[m]]
    BY <1>5, <2>2 DEF Return
  <2> QED
    BY <1>0, <2>1, <2>3
<1>6. ASSUME NEW n \in Runs, QueueCover(n) PROVE Goal
  <2>1. m # n /\ m \notin loose /\ AtWork(m) /\ co'[m] = co[m]
    <3>1. m \notin loose /\ AtWork(m) /\ co[n] = "cover"
      BY <1>6 DEF QueueCover
    <3>2. m # n
      BY <1>0, <3>1
    <3> QED
      BY <1>6, <3>1, <3>2 DEF QueueCover, WorkType
  <2>2. Settling(Settled(n, "done"), n, "done", of[m])
    BY <1>0, <2>1, SettledKeys
  <2>3. Settled(n, "done")[of[m]] = arq[of[m]]
    BY <1>0, <2>1, <2>2 DEF Settling
  <2>4. CASE arq' = Settled(n, "done") /\ UNCHANGED of
    BY <1>0, <2>1, <2>3, <2>4
  <2>5. CASE /\ arq[Cover] = Free /\ Unused # {}
             /\ arq' = [Settled(n, "done") EXCEPT ![Cover] = [st |-> "queued", run |-> NextRun]]
             /\ of' = [of EXCEPT ![NextRun] = Cover]
    <3>1. of[m] # Cover
      BY <1>0, <2>1, <2>5 DEF Free
    <3>2. of'[m] = of[m]
      BY <1>0, <2>1, <2>5, NextRunUnused DEF QueueType
    <3>3. arq'[of[m]] = Settled(n, "done")[of[m]]
      BY <1>0, <2>1, <2>5, <3>1, SettledTyped
    <3> QED
      BY <1>0, <2>1, <2>3, <3>2, <3>3
  <2> QED
    BY <1>6, <2>4, <2>5 DEF QueueCover
<1>7. ASSUME NEW n \in Runs, Cancel(n) PROVE Goal
  <2>1. m # n /\ m \notin loose /\ AtWork(m) /\ co'[m] = co[m] /\ UNCHANGED of
    BY <1>7 DEF Cancel, WorkType
  <2>2. Settling(arq', n, "failed", of[m])
    BY <1>0, <1>7, <2>1, SettledKeys DEF Cancel
  <2> QED
    BY <1>0, <2>1, <2>2 DEF Settling
<1>8. ASSUME NEW k \in Keys, Start(k) PROVE Goal
  <2>1. /\ arq[k].st = "queued" /\ arq[k].run \in Runs /\ of[arq[k].run] = k /\ UNCHANGED <<of, loose>>
        /\ \A j \in Keys \ {k} : arq'[j] = arq[j]
        /\ \A n \in Runs \ {arq[k].run} : th'[n] = th[n]
    BY <1>8, StartMoves DEF Start, QueueInv
  <2>2. CASE m = arq[k].run
    <3>1. arq' = [arq EXCEPT ![k].st = "running"] /\ co' = [co EXCEPT ![arq[k].run] = "await"]
      BY <1>8, <2>2 DEF Start, Thread, WorkType
    <3>2. [arq[k] EXCEPT !.st = "running"] = [st |-> "running", run |-> arq[k].run]
      BY DEF QueueType, JobState
    <3> QED
      BY <2>1, <2>2, <3>1, <3>2 DEF QueueType, WorkType
  <2>3. CASE m # arq[k].run
    <3>1. m \notin loose /\ AtWork(m)
      BY <2>1, <2>3
    <3>2. of[m] # k /\ co'[m] = co[m]
      BY <1>0, <1>8, <2>1, <2>3, <3>1 DEF Start, WorkType
    <3> QED
      BY <1>0, <2>1, <3>1, <3>2
  <2> QED
    BY <2>2, <2>3
<1>9. ASSUME NEW k \in Keys, OrphanFails(k) \/ ResultExpires(k) PROVE Goal
  <2>1. m \notin loose /\ AtWork(m) /\ UNCHANGED <<of, co>>
    BY <1>9 DEF OrphanFails, ResultExpires, runs
  <2>2. of[m] # k
    BY <1>0, <1>9, <2>1 DEF OrphanFails, ResultExpires
  <2> QED
    BY <1>0, <1>9, <2>1, <2>2 DEF OrphanFails, ResultExpires, QueueType
<1>10. CASE Kill
  BY <1>10 DEF Kill
<1>11. CASE RedisRestart
  <2>1. m \notin loose /\ AtWork(m)
    BY <1>11 DEF RedisRestart
  <2>2. arq[of[m]].run \in loose'
    BY <1>0, <1>11, <2>1 DEF RedisRestart
  <2> QED
    BY <1>0, <2>1, <2>2
<1>12. ASSUME NEW r \in Requests, TryEnqueue(r) \/ EnqueueFails(r) PROVE Goal
  <2>1. req[r].of \in Keys
    BY <1>12, OpenRequest, Bounds DEF TryEnqueue, EnqueueFails, Open
  <2>2. CASE UNCHANGED <<arq, runs>>
    BY <1>1, <2>2 DEF runs
  <2>3. CASE arq[req[r].of] = Free /\ Queue(req[r].of)
    BY <1>2, <2>1, <2>3 DEF Queue
  <2> QED
    BY <1>12, <2>2, <2>3 DEF TryEnqueue, EnqueueFails
<1>13. ASSUME NEW r \in Requests, Status(r) \/ Poll(r) \/ Look(r) \/ \E o \in Outputs : Ask(r, o) PROVE Goal
  BY <1>1, <1>13 DEF Status, Poll, Look, Ask, runs
<1>14. CASE Delete \/ Recache \/ UNCHANGED vars
  BY <1>1, <1>14 DEF Delete, Recache, vars, runs
<1> QED
  BY <1>3, <1>4, <1>5, <1>6, <1>7, <1>8, <1>9, <1>10, <1>11, <1>12, <1>13, <1>14
  DEF Next, RequestStep, RunStep, JobStep

-----------------------------------------------------------------------------
\* A run of the past never comes back: its job id keeps its result or loses it.
LEMMA PastRuns ==
  ASSUME QueueType, WorkType, RequestType, QueueInv, [Next]_vars,
         NEW k \in Keys, NEW old \in Runs, th[old] # "none",
         arq[k].run = old => arq[k].st \in {"done", "failed"}
  PROVE  /\ th'[old] # "none"
         /\ arq'[k].run = old => arq'[k].st \in {"done", "failed"} /\ arq[k].run = old
<1>1. KeyMove(k) /\ RunMove(old)
  BY KeysMove, RunsMove
<1>2. th'[old] # "none"
  BY <1>1 DEF RunMove
<1>3. CASE arq'[k] = Free
  BY <1>2, <1>3, Bounds DEF Free
<1>4. ASSUME NEW n \in Unused, arq'[k] = [st |-> "queued", run |-> n] PROVE arq'[k].run # old
  BY <1>4, UnusedRuns
<1> QED
  BY <1>1, <1>2, <1>3, <1>4 DEF KeyMove

LEMMA RetryInvStep ==
  QueueType /\ WorkType /\ RequestType /\ QueueInv /\ RetryInv /\ [Next]_vars => RetryInv'
<1> SUFFICES ASSUME QueueType, WorkType, RequestType, QueueInv, RetryInv, [Next]_vars,
                    NEW q \in Requests, req'[q].pc # "idle"
             PROVE  RetryOf(q)'
  BY DEF RetryInv, RetryOf
<1> DEFINE k == req[q].of
           old == req[q].old
<1>0. ASSUME req[q].pc # "idle"
      PROVE  /\ RetryOf(q) /\ req[q] \in Open /\ k \in Keys /\ k \in Outputs /\ old \in Runs \cup {NoRun}
             /\ old # NoRun =>
                  /\ th'[old] # "none"
                  /\ arq'[k].run = old => arq'[k].st \in {"done", "failed"} /\ arq[k].run = old
  <2>1. req[q] \in Open /\ RetryOf(q)
    BY <1>0, OpenRequest DEF RetryInv
  <2>2. k \in Keys /\ k \in Outputs /\ old \in Runs \cup {NoRun}
    BY <2>1, Bounds DEF Open
  <2>3. ASSUME old # NoRun
        PROVE  /\ th'[old] # "none"
               /\ arq'[k].run = old => arq'[k].st \in {"done", "failed"} /\ arq[k].run = old
    <3>1. old \in Runs /\ th[old] # "none" /\ (arq[k].run = old => arq[k].st \in {"done", "failed"})
      BY <1>0, <2>1, <2>2, <2>3 DEF RetryOf
    <3> QED
      BY <2>2, <3>1, PastRuns
  <2> QED
    BY <2>1, <2>2, <2>3
<1>1. CASE req'[q] = req[q]
  BY <1>0, <1>1 DEF RetryOf
<1>2. ASSUME NEW o \in Outputs, Ask(q, o) PROVE RetryOf(q)'
  <2>1. req'[q] = [pc |-> "enqueue", of |-> o, tries |-> 0, old |-> NoRun]
    BY <1>2 DEF Ask, Become, RequestType
  <2> QED
    BY <2>1 DEF RetryOf
<1>3. CASE TryEnqueue(q)
  <2>0. req[q].pc = "enqueue"
    BY <1>3 DEF TryEnqueue
  <2>1. CASE arq[k] = Free /\ BeginPoll(q)
    <3>1. req'[q].pc = "poll" /\ req'[q].of = k /\ req'[q].old = old
      BY <1>0, <2>0, <2>1 DEF BeginPoll, RequestType, Open
    <3>2. old # NoRun => arq[k].run # old
      BY <2>1 DEF Free
    <3> QED
      BY <1>0, <2>0, <3>1, <3>2 DEF RetryOf
  <2>2. CASE Become(q, Idle)
    BY <2>2 DEF Become, RequestType, Idle
  <2>3. CASE /\ arq[k] # Free /\ UNCHANGED <<arq, runs>>
             /\ Become(q, [req[q] EXCEPT !.pc = "status",
                  !.old = IF InFlight(k) \/ req[q].tries > 0 THEN old ELSE arq[k].run])
    <3>1. /\ req'[q].pc = "status" /\ req'[q].of = k /\ req'[q].tries = req[q].tries
          /\ req'[q].old = IF InFlight(k) \/ req[q].tries > 0 THEN old ELSE arq[k].run
      BY <1>0, <2>0, <2>3 DEF Become, RequestType, Open
    <3>2. req[q].tries > 0 \/ req[q].tries = 0
      BY <1>0, <2>0 DEF Open, Tries
    <3>3. CASE req'[q].old = old
      BY <1>0, <2>0, <3>1, <3>2, <3>3 DEF RetryOf
    <3>4. CASE ~InFlight(k) /\ req[q].tries = 0 /\ req'[q].old = arq[k].run
      <4>1. arq[k] \in JobState /\ k \in Keys
        BY <1>0, <2>0 DEF QueueType
      <4>2. arq[k].st \in {"done", "failed"}
        BY <2>3, <3>4, <4>1 DEF InFlight, JobState, QueueInv
      <4>3. th[arq[k].run] # "none"
        BY <4>1, <4>2 DEF QueueInv
      <4> QED
        BY <2>3, <3>1, <3>4, <4>2, <4>3 DEF RetryOf, runs
    <3> QED
      BY <3>1, <3>2, <3>3, <3>4
  <2> QED
    BY <1>3, <2>1, <2>2, <2>3 DEF TryEnqueue
<1>4. CASE Status(q)
  <2>0. req[q].pc = "status" /\ UNCHANGED arq
    BY <1>4 DEF Status
  <2>1. CASE InFlight(k) /\ BeginPoll(q)
    <3>1. req'[q].pc = "poll" /\ req'[q].of = k /\ req'[q].old = old
      BY <1>0, <2>0, <2>1 DEF BeginPoll, RequestType, Open
    <3>2. old # NoRun => arq[k].run # old
      BY <1>0, <2>0, <2>1 DEF InFlight, RetryOf
    <3> QED
      BY <1>0, <2>0, <3>1, <3>2 DEF RetryOf
  <2>2. CASE Advance(q, "drop")
    <3>1. req'[q].pc = "drop" /\ req'[q].of = k /\ req'[q].old = old /\ req'[q].tries = req[q].tries
      BY <1>0, <2>0, <2>2 DEF Advance, RequestType, Open
    <3> QED
      BY <1>0, <2>0, <3>1 DEF RetryOf
  <2> QED
    BY <1>4, <2>1, <2>2 DEF Status
<1>5. CASE Drop(q)
  <2>0. req[q].pc = "drop"
    BY <1>5 DEF Drop
  <2>1. /\ req'[q].pc \in {"enqueue", "poll"} /\ req'[q].of = k /\ req'[q].old = old
        /\ req'[q].pc = "enqueue" => req'[q].tries = 1
    <3>1. CASE Become(q, [req[q] EXCEPT !.pc = "enqueue", !.tries = 1])
      BY <1>0, <2>0, <3>1 DEF Become, RequestType, Open
    <3>2. CASE BeginPoll(q)
      BY <1>0, <2>0, <3>2 DEF BeginPoll, RequestType, Open
    <3> QED
      BY <1>5, <3>1, <3>2 DEF Drop, Again
  <2>2. old # NoRun => arq'[k].run # old
    <3>1. CASE InFlight(k)
      BY <1>0, <1>5, <2>0, <3>1 DEF Drop, InFlight, RetryOf
    <3>2. CASE ~InFlight(k)
      BY <1>0, <1>5, <2>0, <3>2 DEF Drop, QueueType, Free
    <3> QED
      BY <3>1, <3>2
  <2> QED
    BY <1>0, <2>0, <2>1, <2>2 DEF RetryOf
<1>6. CASE EnqueueFails(q)
  BY <1>6 DEF EnqueueFails, Become, RequestType, Idle
<1>7. CASE Poll(q) \/ Look(q)
  <2>0. req[q].pc \in {"poll", "look"}
    BY <1>7 DEF Poll, Look
  <2>1. CASE Become(q, Idle)
    BY <2>1 DEF Become, RequestType, Idle
  <2>2. CASE Advance(q, "look") \/ Advance(q, "poll")
    <3>1. req'[q].pc \in {"poll", "look"} /\ req'[q].of = k /\ req'[q].old = old
      BY <1>0, <2>0, <2>2 DEF Advance, RequestType, Open
    <3> QED
      BY <1>0, <2>0, <3>1 DEF RetryOf
  <2> QED
    BY <1>7, <2>1, <2>2 DEF Poll, Look
<1>8. ASSUME NEW r \in Requests \ {q}, RequestStep(r) \/ \E o \in Outputs : Ask(r, o) PROVE req'[q] = req[q]
  BY <1>8 DEF RequestStep, TryEnqueue, Status, Drop, EnqueueFails, Poll, Look, Ask, Again,
       Become, BeginPoll, Advance, RequestType
<1>9. ASSUME NEW n \in Runs, RunStep(n) \/ Cancel(n) PROVE req'[q] = req[q]
  BY <1>9 DEF RunStep, Read, Call, Save, Return, QueueCover, Cancel
<1>10. ASSUME NEW j \in Keys, JobStep(j) \/ ResultExpires(j) PROVE req'[q] = req[q]
  BY <1>10 DEF JobStep, Start, OrphanFails, ResultExpires
<1>11. CASE Kill \/ RedisRestart \/ Delete \/ Recache \/ UNCHANGED vars
  BY <1>1, <1>11 DEF Kill, RedisRestart, Delete, Recache, vars
<1> QED
  BY <1>1, <1>2, <1>3, <1>4, <1>5, <1>6, <1>7, <1>8, <1>9, <1>10, <1>11 DEF Next, RequestStep

-----------------------------------------------------------------------------
\* An entry stays where it is, and what rests on it stays ready, unless the
\* session is deleted.
EntryKept(k) == made[k] # NoRun /\ epoch' = epoch => made'[k] # NoRun

LEMMA EntriesStay ==
  CacheType /\ QueueType /\ [Next]_vars => \A k \in Keys : EntryKept(k)
<1> SUFFICES ASSUME CacheType, QueueType, [Next]_vars PROVE \A k \in Keys : EntryKept(k)
  OBVIOUS
<1>1. CASE UNCHANGED made
  BY <1>1 DEF EntryKept
<1>2. ASSUME NEW n \in Runs, Save(n) PROVE \A k \in Keys : EntryKept(k)
  BY <1>2, Bounds DEF Save, EntryKept, CacheType, QueueType, cache
<1>3. CASE Delete
  <2>1. epoch' # epoch
    BY <1>3 DEF Delete, CacheType
  <2> QED
    BY <2>1 DEF EntryKept
<1>4. ASSUME NEW r \in Requests, RequestStep(r) \/ \E o \in Outputs : Ask(r, o) PROVE UNCHANGED made
  BY <1>4 DEF RequestStep, TryEnqueue, Status, Drop, EnqueueFails, Poll, Look, Ask, cache
<1>5. ASSUME NEW n \in Runs, Read(n) \/ Call(n) \/ Return(n) \/ QueueCover(n) \/ Cancel(n) PROVE UNCHANGED made
  BY <1>5 DEF Read, Call, Return, QueueCover, Cancel, cache
<1>6. ASSUME NEW k \in Keys, JobStep(k) \/ ResultExpires(k) PROVE UNCHANGED made
  BY <1>6 DEF JobStep, Start, OrphanFails, ResultExpires, cache
<1>7. CASE Kill \/ RedisRestart \/ Recache \/ UNCHANGED vars
  BY <1>1, <1>7 DEF Kill, RedisRestart, Recache, vars, cache
<1> QED
  BY <1>1, <1>2, <1>3, <1>4, <1>5, <1>6, <1>7 DEF Next, RunStep

LEMMA ReadyStays ==
  ASSUME \A k \in Keys : EntryKept(k), epoch' = epoch, NEW k \in Keys, Ready(k)
  PROVE  Ready(k)'
  BY Bounds DEF Ready, EntryKept, Keys

LEMMA SavedInvStep ==
  CacheType /\ QueueType /\ WorkType /\ SeenType /\ RequestType /\ QueueInv /\ SavedInv /\ [Next]_vars => SavedInv'
<1> SUFFICES ASSUME CacheType, QueueType, WorkType, SeenType, RequestType, QueueInv, SavedInv, [Next]_vars
             PROVE  SavedInv'
  OBVIOUS
<1>k. \A k \in Keys : EntryKept(k)
  BY EntriesStay
<1>r. epoch' = epoch => \A k \in Keys : Ready(k) => Ready(k)'
  BY <1>k, ReadyStays
<1>m. \A n \in Runs : RunMove(n)
  BY RunsMove
<1> USE DEF SavedInv, MadeFromSaved, CacheType, QueueType, WorkType, SeenType
<1>1. ASSUME UNCHANGED <<epoch, made, seen, th>> PROVE SavedInv'
  <2>1. \A n \in Runs : th[n] # "none" => of'[n] = of[n]
    BY <1>m DEF RunMove, Unused
  <2> QED
    BY <1>1, <1>r, <2>1
<1>2. ASSUME NEW n \in Runs, Read(n) PROVE SavedInv'
  <2>1. /\ th[n] = "reading" /\ UNCHANGED <<row, epoch, made, of>>
        /\ \A m \in Runs \ {n} : th'[m] = th[m] /\ seen'[m] = seen[m]
        /\ \/ th'[n] \in {"failed", "over"} /\ seen'[n] = seen[n]
           \/ th'[n] = "calling" /\ seen'[n].epoch = epoch /\ Ready(of[n])
    BY <1>2 DEF Read, Thread, cache
  <2>2. \A k \in Keys : made[k] # n
    BY <2>1, Bounds
  <2> QED
    BY <1>r, <2>1, <2>2
<1>3. ASSUME NEW n \in Runs, Call(n) PROVE SavedInv'
  <2>1. /\ th[n] = "calling" /\ th'[n] \in {"saving", "failed"} /\ UNCHANGED <<row, epoch, made, of, seen>>
        /\ \A m \in Runs \ {n} : th'[m] = th[m]
    BY <1>3 DEF Call, Thread, cache
  <2> QED
    BY <1>r, <2>1
<1>4. ASSUME NEW n \in Runs, Save(n) PROVE SavedInv'
  <2>1. /\ th[n] = "saving" /\ th'[n] \in {"over", "failed"} /\ UNCHANGED <<epoch, of>>
        /\ \A m \in Runs \ {n} : th'[m] = th[m]
        /\ \A m \in Runs : seen'[m].epoch = seen[m].epoch
    BY <1>4 DEF Save, Thread, cache
  <2>2. \/ UNCHANGED made
        \/ made' = [made EXCEPT ![of[n]] = n]
    BY <1>4 DEF Save, cache
  <2>3. \A k \in Keys : made'[k] = made[k] \/ (k = of[n] /\ made'[k] = n)
    BY <2>2
  <2>4. seen[n].epoch = epoch => Ready(of[n])'
    BY <1>r, <2>1
  <2> QED
    BY <1>r, <2>1, <2>3, <2>4
<1>5. ASSUME NEW n \in Runs, Return(n) PROVE SavedInv'
  <2>1. /\ UNCHANGED <<row, epoch, made, of, seen>>
        /\ \A m \in Runs : th'[m] = th[m] \/ th'[m] \in {"over", "failed"}
    BY <1>5 DEF Return, Thread, cache
  <2> QED
    BY <1>r, <2>1
<1>6. ASSUME NEW k \in Keys, Start(k) PROVE SavedInv'
  <2>1. /\ th[arq[k].run] = "none" /\ th'[arq[k].run] \in {"reading", "over"} /\ arq[k].run \in Runs
        /\ \A m \in Runs \ {arq[k].run} : th'[m] = th[m]
        /\ UNCHANGED <<row, epoch, made, of, seen>>
    BY <1>6, StartMoves DEF Start, Thread, cache
  <2>2. \A j \in Keys : made[j] # arq[k].run
    BY <2>1, Bounds
  <2> QED
    BY <1>r, <2>1, <2>2
<1>7. CASE Kill
  <2>1. /\ UNCHANGED <<row, epoch, made, of, seen>>
        /\ \A m \in Runs : th'[m] = IF th[m] = "none" THEN "none" ELSE "over"
    BY <1>7 DEF Kill, cache
  <2> QED
    BY <1>r, <2>1
<1>8. CASE Delete
  <2>1. /\ epoch' = epoch + 1 /\ made' = [k \in Keys |-> NoRun] /\ UNCHANGED <<of, seen, th>>
    BY <1>8 DEF Delete, runs
  <2>2. \A n \in Runs : seen[n].epoch < epoch' /\ seen[n].epoch # epoch'
    BY <2>1
  <2> QED
    BY <2>1, <2>2
<1>9. ASSUME NEW r \in Requests, RequestStep(r) \/ \E o \in Outputs : Ask(r, o)
      PROVE UNCHANGED <<epoch, made, seen, th>>
  BY <1>9 DEF RequestStep, TryEnqueue, Status, Drop, EnqueueFails, Poll, Look, Ask, Queue, cache, runs
<1>10. ASSUME NEW n \in Runs, QueueCover(n) \/ Cancel(n) PROVE UNCHANGED <<epoch, made, seen, th>>
  BY <1>10 DEF QueueCover, Cancel, cache
<1>11. ASSUME NEW k \in Keys, OrphanFails(k) \/ ResultExpires(k) PROVE UNCHANGED <<epoch, made, seen, th>>
  BY <1>11 DEF OrphanFails, ResultExpires, cache, runs
<1>12. CASE RedisRestart \/ Recache \/ UNCHANGED vars
  BY <1>1, <1>12 DEF RedisRestart, Recache, vars, cache, runs
<1> QED
  BY <1>1, <1>2, <1>3, <1>4, <1>5, <1>6, <1>7, <1>8, <1>9, <1>10, <1>11, <1>12 DEF Next, RunStep, JobStep

-----------------------------------------------------------------------------
IInv == TypeOK /\ QueueInv /\ WorkInv /\ RetryInv /\ SavedInv

LEMMA InvInit == Init => IInv
<1> SUFFICES ASSUME Init PROVE IInv
  OBVIOUS
<1>1. TypeOK
  BY TypeInit
<1>2. QueueInv
  BY DEF Init, QueueInv, Free
<1>3. WorkInv /\ RetryInv
  BY DEF Init, WorkInv, AtWork, RetryInv, RetryOf, Idle
<1>4. SavedInv
  BY DEF Init, SavedInv, MadeFromSaved, Blank
<1> QED
  BY <1>1, <1>2, <1>3, <1>4 DEF IInv

LEMMA InvStep == IInv /\ [Next]_vars => IInv'
<1> SUFFICES ASSUME IInv, [Next]_vars PROVE IInv'
  OBVIOUS
<1>1. CacheType /\ QueueType /\ WorkType /\ SeenType /\ RequestType
  BY TypeParts DEF IInv
<1>2. QueueInv /\ WorkInv /\ RetryInv /\ SavedInv
  BY DEF IInv
<1>3. CacheType' /\ QueueType' /\ WorkType' /\ SeenType' /\ RequestType'
  BY <1>1, <1>2, CacheStep, QueueStep, WorkStep, SeenStep, RequestStepTyped
<1>4. TypeOK'
  BY <1>3 DEF TypeOK, CacheType, QueueType, WorkType, SeenType, RequestType, RequestState, JobState, Open, Tries
<1>5. QueueInv' /\ WorkInv' /\ RetryInv' /\ SavedInv'
  BY <1>1, <1>2, QueueInvStep, WorkInvStep, RetryInvStep, SavedInvStep
<1> QED
  BY <1>4, <1>5 DEF IInv

LEMMA Invariance == Spec => []IInv
  BY InvInit, InvStep, PTL DEF Spec

\* Row, bundle, queue, runs and requests keep their shapes.
THEOREM TypeCorrect == Spec => []TypeOK
<1>1. IInv => TypeOK
  BY DEF IInv
<1> QED
  BY <1>1, Invariance, PTL

\* However many requests start or join one output (enqueue_unique_job_sync),
\* its model is never called by two runs at once, unless arq has let go of one.
THEOREM OneCall == Spec => []OneCallPerOutput
<1>1. ASSUME IInv PROVE OneCallPerOutput
  <2> SUFFICES ASSUME NEW m \in Runs \ loose, NEW n \in Runs \ loose,
                      th[m] = "calling", th[n] = "calling", of[m] = of[n]
               PROVE  m = n
    BY DEF OneCallPerOutput
  <2>1. arq[of[m]] = [st |-> "running", run |-> m] /\ arq[of[n]] = [st |-> "running", run |-> n]
    BY <1>1 DEF IInv, WorkInv, AtWork
  <2>2. arq[of[m]].run = m /\ arq[of[n]].run = n
    BY <2>1
  <2> QED
    BY <2>2
<1> QED
  BY <1>1, Invariance, PTL

\* No poll that retries is left with the result it was to replace, whatever
\* other requests drop, queue and join under the same id.
THEOREM RetriesMoveOn == Spec => []RetryGetsNewRun
<1>1. IInv => RetryGetsNewRun
  BY DEF IInv, RetryInv, RetryOf, RetryGetsNewRun
<1> QED
  BY <1>1, Invariance, PTL

\* A translation rests on a saved English text and a cover on a saved recap,
\* for any faults, unless the session was deleted while it was made.
THEOREM SourcesSaved == Spec => []MadeFromSaved
<1>1. IInv => MadeFromSaved
  BY DEF IInv, SavedInv
<1> QED
  BY <1>1, Invariance, PTL

\* No save of any job takes another output out of the session's bundles
\* (merge_cached_bundle_entry).
THEOREM EntriesAreKept == Spec => EntriesKept
<1>1. IInv /\ [Next]_vars => [\A k \in Keys : made[k] # NoRun /\ epoch' = epoch => made'[k] # NoRun]_vars
  BY EntriesStay, TypeParts DEF IInv, EntryKept
<1> QED
  BY <1>1, Invariance, PTL DEF Spec, EntriesKept
=============================================================================
