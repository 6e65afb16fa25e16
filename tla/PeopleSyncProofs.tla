-------------------------- MODULE PeopleSyncProofs --------------------------
EXTENDS PeopleSync, SumProofs

LEMMA TypeInit == Init => TypeOK
  BY PeopleSyncAssumption DEF Init, TypeOK, NoSync, RowStatus, Reason, JobState, CoState,
     ThreadState, RequestState

\* The writes the actions share keep the variables they write in their types.
LEMMA UpdateTyped ==
  ASSUME TypeOK, NEW s, NEW st \in RowStatus, Update(s, st)
  PROVE  status' \in [Syncs -> RowStatus] /\ conn' \in [Syncs -> BOOLEAN]
  BY DEF TypeOK, Update

LEMMA RecordTyped ==
  ASSUME TypeOK, NEW s \in Syncs, Record(s)
  PROVE  recorded' \in [Syncs -> Nat]
  BY DEF TypeOK, Record

LEMMA SpendTyped ==
  ASSUME TypeOK, NEW kind \in FaultKinds, Spend(kind)
  PROVE  budget' \in [FaultKinds -> Nat]
  BY DEF TypeOK, Spend

LEMMA ReleaseTyped ==
  ASSUME TypeOK, NEW s \in Syncs
  PROVE  /\ Release(lock, s) \in [Orgs -> Syncs \cup {NoSync}]
         /\ Release(place, s) \in [Orgs -> Syncs \cup {NoSync}]
  BY DEF TypeOK, Release, NoSync

LEMMA RequestTyped ==
  ASSUME TypeOK, NEW r \in Requests, NEW state \in RequestState, Become(r, state)
  PROVE  req' \in [Requests -> RequestState]
  BY DEF TypeOK, Become

\* A request past its read carries the session and the sync it has read.
Open == [pc : {"read", "creating", "enqueuing", "unqueued"}, session : Sessions,
         sync : Syncs \cup {NoSync}, seen : RowStatus, reason : Reason]

LEMMA OpenRequest ==
  ASSUME TypeOK, NEW r \in Requests, req[r].pc # "idle"
  PROVE  /\ req[r] \in Open
         /\ \A label \in {"read", "creating", "enqueuing", "unqueued"} :
               [req[r] EXCEPT !.pc = label] \in RequestState
<1>1. req[r] \in Open
  BY DEF TypeOK, RequestState, Open, Idle
<1> QED
  BY <1>1 DEF RequestState, Open

-----------------------------------------------------------------------------
\* Every action keeps the type: one step per action, and under it one per
\* branch of the code where a branch writes other variables.
LEMMA TypeStep == TypeOK /\ [Next]_vars => TypeOK'
<1> SUFFICES ASSUME TypeOK, [Next]_vars PROVE TypeOK'
  OBVIOUS
<1> USE PeopleSyncAssumption DEF TypeOK, rows, cache, keys, worker, vars, Spend, Goto, Thread,
        Become, Advance, End, NoSync, Idle, FaultKinds, RowStatus, Reason, JobState, CoState,
        ThreadState, RequestState
<1>1. ASSUME NEW r \in Requests, NEW x \in Sessions, ReadStatus(r, x) PROVE TypeOK'
  <2> DEFINE why == IF roster[x] = NoSync /\ x \notin past THEN "initial" ELSE "manual"
             state(s, st) == [pc |-> "read", session |-> x, sync |-> s, seen |-> st, reason |-> why]
  <2>1. why \in Reason
    OBVIOUS
  <2> HIDE DEF why
  <2>2. ASSUME NEW s \in Syncs \cup {NoSync}, NEW st \in RowStatus, Become(r, state(s, st))
       PROVE  req' \in [Requests -> RequestState]
    BY <2>1, <2>2
  <2>3. PICK s \in Syncs \cup {NoSync}, st \in RowStatus : Become(r, state(s, st))
    BY <1>1 DEF ReadStatus, RowsOf, why
  <2> QED
    BY <1>1, <2>2, <2>3 DEF ReadStatus
<1>2. ASSUME NEW r \in Requests, Reconcile(r) PROVE TypeOK'
  <2> DEFINE s == req[r].sync
  <2>1. req[r].pc = "read" /\ req[r] \in RequestState
    BY <1>2 DEF Reconcile
  <2>2. [req[r] EXCEPT !.seen = "error"] \in RequestState
    BY <2>1
  <2>3. CASE status[s] \in Active
    <3>1. Update(s, "error") /\ Become(r, [req[r] EXCEPT !.seen = "error"])
      BY <1>2, <2>3 DEF Reconcile
    <3>2. req' \in [Requests -> RequestState]
      BY <2>2, <3>1
    <3> QED
      BY <1>2, <3>1, <3>2, UpdateTyped DEF Reconcile
  <2>4. CASE status[s] \notin Active
    BY <1>2, <2>4 DEF Reconcile
  <2> QED
    BY <2>3, <2>4
<1>3. ASSUME NEW r \in Requests, Answer(r) PROVE TypeOK'
  BY <1>3 DEF Answer
<1>4. ASSUME NEW r \in Requests, PassGuards(r) PROVE TypeOK'
  <2>1. req[r].pc = "read"
    BY <1>4 DEF PassGuards
  <2>2. [req[r] EXCEPT !.pc = "creating"] \in RequestState
    BY <2>1, OpenRequest
  <2> QED
    BY <1>4, <2>2 DEF PassGuards
<1>5. ASSUME NEW r \in Requests, Create(r) PROVE TypeOK'
  <2>1. req[r].pc = "creating"
    BY <1>5 DEF Create
  <2>4. req[r] \in Open
    BY <2>1, OpenRequest
  <2>2. CASE Become(r, Idle) /\ UNCHANGED rows
    BY <1>5, <2>2 DEF Create
  <2>3. ASSUME NEW s \in Syncs,
               status' = [status EXCEPT ![s] = "pending"],
               sess' = [sess EXCEPT ![s] = req[r].session],
               reason' = [reason EXCEPT ![s] = req[r].reason],
               conn' = [conn EXCEPT ![s] = TRUE],
               Become(r, [req[r] EXCEPT !.pc = "enqueuing", !.sync = s]),
               UNCHANGED recorded
       PROVE  TypeOK'
    <3>1. [req[r] EXCEPT !.pc = "enqueuing", !.sync = s] \in RequestState
      BY <2>4 DEF Open
    <3>2. req[r].reason \in Reason /\ req[r].session \in Sessions
      BY <2>4 DEF Open
    <3> QED
      BY <1>5, <2>3, <3>1, <3>2 DEF Create
  <2> QED
    BY <1>5, <2>2, <2>3 DEF Create
<1>6. ASSUME NEW r \in Requests, Enqueue(r) PROVE TypeOK'
  <2>1. req[r].pc = "enqueuing" /\ req[r] \in RequestState
    BY <1>6 DEF Enqueue
  <2>2. [req[r] EXCEPT !.pc = "unqueued"] \in RequestState /\ Idle \in RequestState
    BY <2>1
  <2>3. req' \in [Requests -> RequestState]
    BY <1>6, <2>2 DEF Enqueue
  <2>4. queue' \in [Syncs -> JobState]
    BY <1>6 DEF Enqueue
  <2>5. budget' \in [FaultKinds -> Nat]
    BY <1>6 DEF Enqueue
  <2> QED
    BY <1>6, <2>3, <2>4, <2>5 DEF Enqueue
<1>7. ASSUME NEW r \in Requests, CloseUnqueued(r) PROVE TypeOK'
  BY <1>7, UpdateTyped DEF CloseUnqueued
<1>8. ASSUME NEW r \in Requests, WebCrash(r) PROVE TypeOK'
  BY <1>8 DEF WebCrash
<1>9. ASSUME NEW s \in Syncs, Start(s) PROVE TypeOK'
  <2>1. CASE status[s] = "pending"
    <3>1. /\ status' = [status EXCEPT ![s] = "running"]
          /\ conn' = [conn EXCEPT ![s] = FALSE]
          /\ co' = [co EXCEPT ![s] = "claimed"]
          /\ queue' = [queue EXCEPT ![s] = "running"]
      BY <1>9, <2>1 DEF Start
    <3> QED
      BY <1>9, <3>1 DEF Start
  <2>2. CASE status[s] # "pending"
    BY <1>9, <2>2 DEF Start
  <2> QED
    BY <2>1, <2>2
<1>10. ASSUME NEW s \in Syncs, TryLock(s) PROVE TypeOK'
  BY <1>10 DEF TryLock
<1>11. ASSUME NEW s \in Syncs, Promote(s) PROVE TypeOK'
  BY <1>11, ReleaseTyped DEF Promote
<1>12. ASSUME NEW s \in Syncs, StopWaiting(s) PROVE TypeOK'
  BY <1>12 DEF StopWaiting
<1>13. ASSUME NEW s \in Syncs, BeginThread(s) PROVE TypeOK'
  BY <1>13 DEF BeginThread
<1>14. ASSUME NEW s \in Syncs, RefuseBody(s) PROVE TypeOK'
  BY <1>14 DEF RefuseBody
<1>15. ASSUME NEW s \in Syncs, ThreadReturns(s) PROVE TypeOK'
  BY <1>15 DEF ThreadReturns
<1>16. ASSUME NEW s \in Syncs, Leave(s) PROVE TypeOK'
  <2>1. CASE out[s] = "ok"
    BY <1>16, <2>1, ReleaseTyped DEF Leave
  <2>2. CASE out[s] # "ok"
    BY <1>16, <2>2, ReleaseTyped DEF Leave
  <2> QED
    BY <2>1, <2>2
<1>17. ASSUME NEW s \in Syncs, Mark(s) PROVE TypeOK'
  <2>1. CASE Update(s, "error") /\ UNCHANGED budget
    BY <1>17, <2>1, UpdateTyped DEF Mark
  <2>2. CASE UNCHANGED <<status, conn>> /\ Spend("database")
    BY <1>17, <2>2 DEF Mark
  <2> QED
    BY <1>17, <2>1, <2>2 DEF Mark
<1>18. ASSUME NEW s \in Syncs, Page(s) PROVE TypeOK'
  BY <1>18 DEF Page
<1>19. ASSUME NEW s \in Syncs, ReadFails(s) PROVE TypeOK'
  BY <1>19 DEF ReadFails
<1>20. ASSUME NEW s \in Syncs, ReadWhole(s) PROVE TypeOK'
  BY <1>20 DEF ReadWhole
<1>21. ASSUME NEW s \in Syncs, Save(s) PROVE TypeOK'
  <2>1. roster' \in [Sessions -> Syncs \cup {NoSync}]
    BY <1>21 DEF Save
  <2>2. overtaken' \subseteq Syncs
    BY <1>21 DEF Save
  <2>3. th' \in [Syncs -> ThreadState] /\ budget' \in [FaultKinds -> Nat]
    BY <1>21 DEF Save
  <2> QED
    BY <1>21, <2>1, <2>2, <2>3 DEF Save
<1>22. ASSUME NEW s \in Syncs, Complete(s) PROVE TypeOK'
  <2>1. CASE Update(s, "completed") /\ Record(s) /\ UNCHANGED budget
    BY <1>22, <2>1, UpdateTyped, RecordTyped DEF Complete
  <2>2. CASE UNCHANGED <<status, conn, recorded>> /\ Spend("database")
    BY <1>22, <2>2 DEF Complete
  <2> QED
    BY <1>22, <2>1, <2>2 DEF Complete
<1>23. ASSUME NEW s \in Syncs, MarkFailed(s) PROVE TypeOK'
  <2>1. CASE Update(s, "error") /\ Record(s) /\ UNCHANGED budget
    BY <1>23, <2>1, UpdateTyped, RecordTyped DEF MarkFailed
  <2>2. CASE UNCHANGED <<status, conn, recorded>> /\ Spend("database")
    BY <1>23, <2>2 DEF MarkFailed
  <2> QED
    BY <1>23, <2>1, <2>2 DEF MarkFailed
<1>24. ASSUME NEW s \in Syncs, Sweep(s) PROVE TypeOK'
  BY <1>24, UpdateTyped DEF Sweep
<1>25. ASSUME NEW s \in Syncs, OrphanFails(s) PROVE TypeOK'
  BY <1>25 DEF OrphanFails
<1>26. ASSUME NEW s \in Syncs, StartCancelled(s) PROVE TypeOK'
  BY <1>26 DEF StartCancelled
<1>27. ASSUME NEW s \in Syncs, Cancel(s) PROVE TypeOK'
  BY <1>27 DEF Cancel, Release
<1>28. ASSUME NEW o \in Orgs, KeyExpires(o) PROVE TypeOK'
  BY <1>28 DEF KeyExpires
<1>29. ASSUME NEW x \in Sessions, Delete(x) PROVE TypeOK'
  BY <1>29 DEF Delete
<1>30. ASSUME NEW x \in Sessions, Recache(x) PROVE TypeOK'
  BY <1>30 DEF Recache
<1>31. CASE Kill
  BY <1>31 DEF Kill
<1>32. CASE RedisRestart
  BY <1>32 DEF RedisRestart
<1>33. CASE UNCHANGED vars
  BY <1>33
<1> QED
  BY <1>1, <1>2, <1>3, <1>4, <1>5, <1>6, <1>7, <1>8, <1>9, <1>10, <1>11,
     <1>12, <1>13, <1>14, <1>15, <1>16, <1>17, <1>18, <1>19, <1>20, <1>21,
     <1>22, <1>23, <1>24, <1>25, <1>26, <1>27, <1>28, <1>29, <1>30, <1>31,
     <1>32, <1>33 DEF Next, RequestStep, CoroutineStep, ThreadStep

\* The rows, the keys, the jobs and the requests keep their shapes in every
\* execution, for any number of sessions, syncs, requests and faults.
THEOREM TypeCorrect == Spec => []TypeOK
  BY TypeInit, TypeStep, PTL DEF Spec

-----------------------------------------------------------------------------
\* What a step may do to the rows: close one, claim a pending one, insert one
\* for a session without an active one, or delete a session's.
Closes == \E s, st : st \in {"error", "completed"} /\ Update(s, st) /\ UNCHANGED sess
Claims == \E s \in Syncs :
  /\ status[s] = "pending"
  /\ status' = [status EXCEPT ![s] = "running"]
  /\ conn' = [conn EXCEPT ![s] = FALSE]
  /\ UNCHANGED sess
Inserts == \E s \in Syncs : \E x \in Sessions :
  /\ status[s] = "none" /\ ActiveOf(x) = {}
  /\ status' = [status EXCEPT ![s] = "pending"]
  /\ sess' = [sess EXCEPT ![s] = x]
  /\ conn' = [conn EXCEPT ![s] = TRUE]
Cascades == \E x \in Sessions :
  /\ status' = [s \in Syncs |-> IF s \in RowsOf(x) THEN "deleted" ELSE status[s]]
  /\ conn' = [s \in Syncs |-> conn[s] /\ s \notin RowsOf(x)]
  /\ UNCHANGED sess
RowMove == UNCHANGED <<status, sess, conn>> \/ Closes \/ Claims \/ Inserts \/ Cascades

LEMMA RowMoves == TypeOK /\ [Next]_vars => RowMove
<1> SUFFICES ASSUME TypeOK, [Next]_vars PROVE RowMove
  OBVIOUS
<1> USE DEF RowMove, rows, vars
<1>1. ASSUME NEW r \in Requests, NEW x \in Sessions, ReadStatus(r, x) PROVE RowMove
  BY <1>1 DEF ReadStatus
<1>2. ASSUME NEW r \in Requests, Reconcile(r) PROVE RowMove
  BY <1>2 DEF Reconcile, Closes
<1>3. ASSUME NEW r \in Requests, Answer(r) PROVE RowMove
  BY <1>3 DEF Answer
<1>4. ASSUME NEW r \in Requests, PassGuards(r) PROVE RowMove
  BY <1>4 DEF PassGuards
<1>5. ASSUME NEW r \in Requests, Create(r) PROVE RowMove
  <2>1. CASE UNCHANGED rows
    BY <2>1
  <2>2. CASE ~UNCHANGED rows
    <3>1. req[r].session \in Sessions
      BY <1>5, OpenRequest DEF Create, Open
    <3> QED
      BY <1>5, <2>2, <3>1 DEF Create, Inserts
  <2> QED
    BY <2>1, <2>2
<1>6. ASSUME NEW r \in Requests, Enqueue(r) PROVE RowMove
  BY <1>6 DEF Enqueue
<1>7. ASSUME NEW r \in Requests, CloseUnqueued(r) PROVE RowMove
  BY <1>7 DEF CloseUnqueued, Closes
<1>8. ASSUME NEW r \in Requests, WebCrash(r) PROVE RowMove
  BY <1>8 DEF WebCrash
<1>9. ASSUME NEW s \in Syncs, Start(s) PROVE RowMove
  BY <1>9 DEF Start, Claims
<1>10. ASSUME NEW s \in Syncs, TryLock(s) PROVE RowMove
  BY <1>10 DEF TryLock
<1>11. ASSUME NEW s \in Syncs, Promote(s) PROVE RowMove
  BY <1>11 DEF Promote
<1>12. ASSUME NEW s \in Syncs, StopWaiting(s) PROVE RowMove
  BY <1>12 DEF StopWaiting
<1>13. ASSUME NEW s \in Syncs, BeginThread(s) PROVE RowMove
  BY <1>13 DEF BeginThread
<1>14. ASSUME NEW s \in Syncs, RefuseBody(s) PROVE RowMove
  BY <1>14 DEF RefuseBody
<1>15. ASSUME NEW s \in Syncs, ThreadReturns(s) PROVE RowMove
  BY <1>15 DEF ThreadReturns
<1>16. ASSUME NEW s \in Syncs, Leave(s) PROVE RowMove
  BY <1>16 DEF Leave
<1>17. ASSUME NEW s \in Syncs, Mark(s) PROVE RowMove
  BY <1>17 DEF Mark, Closes
<1>18. ASSUME NEW s \in Syncs, Page(s) PROVE RowMove
  BY <1>18 DEF Page
<1>19. ASSUME NEW s \in Syncs, ReadFails(s) PROVE RowMove
  BY <1>19 DEF ReadFails
<1>20. ASSUME NEW s \in Syncs, ReadWhole(s) PROVE RowMove
  BY <1>20 DEF ReadWhole
<1>21. ASSUME NEW s \in Syncs, Save(s) PROVE RowMove
  BY <1>21 DEF Save
<1>22. ASSUME NEW s \in Syncs, Complete(s) PROVE RowMove
  BY <1>22 DEF Complete, Closes
<1>23. ASSUME NEW s \in Syncs, MarkFailed(s) PROVE RowMove
  BY <1>23 DEF MarkFailed, Closes
<1>24. ASSUME NEW s \in Syncs, Sweep(s) PROVE RowMove
  BY <1>24 DEF Sweep, Closes
<1>25. ASSUME NEW s \in Syncs, OrphanFails(s) PROVE RowMove
  BY <1>25 DEF OrphanFails
<1>26. ASSUME NEW s \in Syncs, StartCancelled(s) PROVE RowMove
  BY <1>26 DEF StartCancelled, Claims
<1>27. ASSUME NEW s \in Syncs, Cancel(s) PROVE RowMove
  BY <1>27 DEF Cancel
<1>28. ASSUME NEW o \in Orgs, KeyExpires(o) PROVE RowMove
  BY <1>28 DEF KeyExpires
<1>29. ASSUME NEW x \in Sessions, Delete(x) PROVE RowMove
  BY <1>29 DEF Delete, Cascades
<1>30. ASSUME NEW x \in Sessions, Recache(x) PROVE RowMove
  BY <1>30 DEF Recache
<1>31. CASE Kill
  BY <1>31 DEF Kill
<1>32. CASE RedisRestart
  BY <1>32 DEF RedisRestart
<1>33. CASE UNCHANGED vars
  BY <1>33
<1> QED
  BY <1>1, <1>2, <1>3, <1>4, <1>5, <1>6, <1>7, <1>8, <1>9, <1>10, <1>11,
     <1>12, <1>13, <1>14, <1>15, <1>16, <1>17, <1>18, <1>19, <1>20, <1>21,
     <1>22, <1>23, <1>24, <1>25, <1>26, <1>27, <1>28, <1>29, <1>30, <1>31,
     <1>32, <1>33 DEF Next, RequestStep, CoroutineStep, ThreadStep

\* The unique index and the joined insert: however the closings, the claims,
\* the deletes and two racing requests interleave, a session has at most one
\* sync in flight.
THEOREM OneActive == Spec => []OneActivePerSession
<1>1. Init => OneActivePerSession
  BY DEF Init, OneActivePerSession, ActiveOf, RowsOf, Exists
<1>2. TypeOK /\ OneActivePerSession /\ [Next]_vars => OneActivePerSession'
  <2> SUFFICES ASSUME TypeOK, OneActivePerSession, RowMove
               PROVE  OneActivePerSession'
    BY RowMoves
  <2> USE DEF TypeOK, OneActivePerSession, ActiveOf, RowsOf, Exists, Active
  <2>1. CASE UNCHANGED <<status, sess, conn>>
    BY <2>1
  <2>2. CASE Closes
    BY <2>2 DEF Closes, Update
  <2>3. CASE Claims
    BY <2>3 DEF Claims
  <2>4. CASE Inserts
    BY <2>4 DEF Inserts
  <2>5. CASE Cascades
    BY <2>5 DEF Cascades
  <2> QED
    BY <2>1, <2>2, <2>3, <2>4, <2>5 DEF RowMove
<1> QED
  BY <1>1, <1>2, TypeCorrect, PTL DEF Spec

\* Whoever closes, claims or deletes a row also drops its connection id, so the
\* session cookie's value never outlives the row's pending status.
THEOREM ConnDropped == Spec => []ConnOnlyWhilePending
<1>1. Init => ConnOnlyWhilePending
  BY DEF Init, ConnOnlyWhilePending
<1>2. TypeOK /\ ConnOnlyWhilePending /\ [Next]_vars => ConnOnlyWhilePending'
  <2> SUFFICES ASSUME TypeOK, ConnOnlyWhilePending, RowMove
               PROVE  ConnOnlyWhilePending'
    BY RowMoves
  <2> USE DEF TypeOK, ConnOnlyWhilePending
  <2>1. CASE UNCHANGED <<status, sess, conn>>
    BY <2>1
  <2>2. CASE Closes
    BY <2>2 DEF Closes, Update
  <2>3. CASE Claims
    BY <2>3 DEF Claims
  <2>4. CASE Inserts
    BY <2>4 DEF Inserts
  <2>5. CASE Cascades
    BY <2>5 DEF Cascades
  <2> QED
    BY <2>1, <2>2, <2>3, <2>4, <2>5 DEF RowMove
<1> QED
  BY <1>1, <1>2, TypeCorrect, PTL DEF Spec

\* The rows implement the promise of JobRows: a step closes, claims, inserts or
\* deletes as it allows, or corrects how a closed row closed.
LEMMA RowsRefine ==
  TypeOK /\ ConnOnlyWhilePending /\ [Next]_vars => [JobRow!Next]_(JobRow!jobRows)
<1> DEFINE life == [s \in Syncs |-> IF status[s] \in {"completed", "error"} THEN "closed"
                                    ELSE status[s]]
<1> SUFFICES ASSUME TypeOK, ConnOnlyWhilePending, RowMove
             PROVE  JobRow!Next \/ UNCHANGED <<life, sess, conn>>
  BY RowMoves DEF JobRow!jobRows
<1> USE DEF TypeOK, RowStatus, JobRow!InFlight
<1>1. CASE UNCHANGED <<status, sess, conn>>
  BY <1>1
<1>2. CASE Closes
  <2>1. PICK s, st : st \in {"error", "completed"} /\ Update(s, st) /\ UNCHANGED sess
    BY <1>2 DEF Closes
  <2>2. CASE s \in Syncs /\ status[s] \in Active
    <3>1. JobRow!Close(s)
      BY <2>1, <2>2 DEF Update, Exists, Active, JobRow!Close
    <3> QED
      BY <2>2, <3>1 DEF JobRow!Next
  <2>3. CASE ~(s \in Syncs /\ status[s] \in Active)
    <3>1. UNCHANGED conn
      BY <2>1, <2>3 DEF Update, ConnOnlyWhilePending, Active
    <3>2. UNCHANGED life
      BY <2>1, <2>3 DEF Update, Exists, Active
    <3> QED
      BY <2>1, <3>1, <3>2
  <2> QED
    BY <2>2, <2>3
<1>3. CASE Claims
  <2>1. PICK s \in Syncs : /\ status[s] = "pending"
                           /\ status' = [status EXCEPT ![s] = "running"]
                           /\ conn' = [conn EXCEPT ![s] = FALSE]
                           /\ UNCHANGED sess
    BY <1>3 DEF Claims
  <2>2. JobRow!Claim(s)
    BY <2>1 DEF JobRow!Claim
  <2> QED
    BY <2>2 DEF JobRow!Next
<1>4. CASE Inserts
  <2>1. PICK s \in Syncs, x \in Sessions :
          /\ status[s] = "none" /\ ActiveOf(x) = {}
          /\ status' = [status EXCEPT ![s] = "pending"]
          /\ sess' = [sess EXCEPT ![s] = x]
          /\ conn' = [conn EXCEPT ![s] = TRUE]
    BY <1>4 DEF Inserts
  <2>2. JobRow!Create(s, x)
    BY <2>1 DEF JobRow!Create, ActiveOf, RowsOf, Exists, Active
  <2> QED
    BY <2>2 DEF JobRow!Next
<1>5. CASE Cascades
  <2>1. PICK x \in Sessions :
          /\ status' = [s \in Syncs |-> IF s \in RowsOf(x) THEN "deleted" ELSE status[s]]
          /\ conn' = [s \in Syncs |-> conn[s] /\ s \notin RowsOf(x)]
          /\ UNCHANGED sess
    BY <1>5 DEF Cascades
  <2>2. JobRow!Delete(x)
    BY <2>1 DEF JobRow!Delete, RowsOf, Exists, ConnOnlyWhilePending
  <2> QED
    BY <2>2 DEF JobRow!Next
<1> QED
  BY <1>1, <1>2, <1>3, <1>4, <1>5 DEF RowMove

\* The sync rows keep the promise docs/jobs.md makes of a job's rows, under
\* every fault and for any number of sessions, syncs and requests.
THEOREM RowsKeepPromise == Spec => JobRowsSpec
<1>1. Init => JobRow!Init
  BY DEF Init, JobRow!Init
<1> QED
  BY <1>1, RowsRefine, TypeCorrect, ConnDropped, PTL DEF Spec, JobRowsSpec, JobRow!Spec

\* A coroutine starts only by claiming a pending row, so a row closed by the
\* sweeper, by a request or by an admin's delete is never run afterwards.
THEOREM ClosedStaysIdle == Spec => ClosedNeverStarts
<1>1. TypeOK /\ [Next]_vars
      => [\A s \in Syncs : status[s] \notin Active /\ co[s] = "none" => co'[s] = "none"]_vars
  <2> SUFFICES ASSUME TypeOK, [Next]_vars, NEW t \in Syncs,
                      status[t] \notin Active, co[t] = "none"
               PROVE  co'[t] = "none"
    OBVIOUS
  <2> USE DEF TypeOK, vars, worker, rows, cache, keys, Goto, End, Active
  <2>1. ASSUME NEW r \in Requests, RequestStep(r) PROVE UNCHANGED co
    BY <2>1 DEF RequestStep, ReadStatus, Reconcile, Answer, PassGuards, Create, Enqueue,
       CloseUnqueued, WebCrash
  <2>2. ASSUME NEW s \in Syncs, CoroutineStep(s) PROVE co'[t] = "none"
    BY <2>2 DEF CoroutineStep, Start, TryLock, Promote, StopWaiting, BeginThread, RefuseBody,
       ThreadReturns, Leave, Mark
  <2>3. ASSUME NEW s \in Syncs, ThreadStep(s) PROVE UNCHANGED co
    BY <2>3 DEF ThreadStep, Page, ReadFails, ReadWhole, Save, Complete, MarkFailed
  <2>4. ASSUME NEW s \in Syncs, Sweep(s) \/ OrphanFails(s) \/ StartCancelled(s) \/ Cancel(s)
        PROVE  co'[t] = "none"
    BY <2>4 DEF Sweep, OrphanFails, StartCancelled, Cancel
  <2>5. ASSUME NEW o \in Orgs, KeyExpires(o) PROVE UNCHANGED co
    BY <2>5 DEF KeyExpires
  <2>6. ASSUME NEW x \in Sessions, Delete(x) \/ Recache(x) PROVE UNCHANGED co
    BY <2>6 DEF Delete, Recache
  <2>7. CASE Kill
    BY <2>7 DEF Kill
  <2>8. CASE RedisRestart
    BY <2>8 DEF RedisRestart
  <2> QED
    BY <2>1, <2>2, <2>3, <2>4, <2>5, <2>6, <2>7, <2>8 DEF Next
<1> QED
  BY <1>1, TypeCorrect, PTL DEF Spec, ClosedNeverStarts

-----------------------------------------------------------------------------
\* What keeps an org's syncs apart when no coroutine is cancelled and Redis
\* does not restart: the owner of the lock is inside it, and a thread's
\* coroutine awaits it there.  A cancelled coroutine breaks the last part.
Busy == {"reading", "saving", "saved", "failing"}

Unclaimed == {"none", "pending"}

CallerInv ==
  /\ \A s \in Syncs : status[s] # "none" => sess[s] \in Sessions
  /\ \A s \in Syncs : co[s] # "none" \/ th[s] # "none" => status[s] \notin Unclaimed
  /\ \A s \in Syncs : co[s] \in {"holding", "syncing"} => lock[Org(s)] = s
  /\ \A s \in Syncs : th[s] \in Busy => co[s] = "syncing"

Spared(kinds) == \A k \in kinds : budget[k] = 0

LEMMA StaysSpared ==
  ASSUME TypeOK, [Next]_vars, NEW kinds \in SUBSET FaultKinds, Spared(kinds)
  PROVE  Spared(kinds)'
<1>1. UNCHANGED budget \/ \E k \in FaultKinds : Spend(k)
  <2> USE DEF vars, rows, cache, keys, worker, FaultKinds
  <2>1. ASSUME NEW r \in Requests, RequestStep(r) PROVE UNCHANGED budget \/ \E k \in FaultKinds : Spend(k)
    BY <2>1 DEF RequestStep, ReadStatus, Reconcile, Answer, PassGuards, Create, Enqueue,
       CloseUnqueued, WebCrash
  <2>2. ASSUME NEW s \in Syncs, CoroutineStep(s) PROVE UNCHANGED budget \/ \E k \in FaultKinds : Spend(k)
    BY <2>2 DEF CoroutineStep, Start, TryLock, Promote, StopWaiting, BeginThread, RefuseBody,
       ThreadReturns, Leave, Mark
  <2>3. ASSUME NEW s \in Syncs, ThreadStep(s) PROVE UNCHANGED budget \/ \E k \in FaultKinds : Spend(k)
    BY <2>3 DEF ThreadStep, Page, ReadFails, ReadWhole, Save, Complete, MarkFailed
  <2> QED
    BY <2>1, <2>2, <2>3 DEF Next, Sweep, OrphanFails, StartCancelled, Cancel, KeyExpires,
       Delete, Recache, Kill, RedisRestart
<1> QED
  BY <1>1 DEF Spared, Spend, TypeOK

\* A row that has been inserted stays so, with its session.
LEMMA RowStays ==
  ASSUME TypeOK, RowMove, NEW s \in Syncs
  PROVE  /\ status[s] # "none" => status'[s] # "none" /\ sess'[s] = sess[s]
         /\ status[s] \notin Unclaimed => status'[s] \notin Unclaimed
         /\ status'[s] # "none" => (status[s] # "none" /\ sess'[s] = sess[s]) \/ sess'[s] \in Sessions
         /\ Exists(s)' => Exists(s) \/ status[s] = "none"
<1> USE DEF TypeOK, Exists, Unclaimed
<1>1. CASE UNCHANGED <<status, sess, conn>>
  BY <1>1
<1>2. CASE Closes
  BY <1>2 DEF Closes, Update
<1>3. CASE Claims
  BY <1>3 DEF Claims
<1>4. CASE Inserts
  BY <1>4 DEF Inserts
<1>5. CASE Cascades
  BY <1>5 DEF Cascades, RowsOf
<1> QED
  BY <1>1, <1>2, <1>3, <1>4, <1>5 DEF RowMove

LEMMA CallerStep ==
  ASSUME TypeOK, CallerInv, Spared({"cancel", "restart"}), [Next]_vars
  PROVE  CallerInv'
<1>1. /\ \A s \in Syncs : status[s] # "none" => status'[s] # "none" /\ sess'[s] = sess[s]
      /\ \A s \in Syncs : status[s] \notin Unclaimed => status'[s] \notin Unclaimed
      /\ \A s \in Syncs : status'[s] # "none" => sess'[s] \in Sessions
  BY RowMoves, RowStays DEF CallerInv
<1>2. ~Spend("cancel") /\ ~Spend("restart")
  BY DEF Spared, Spend
<1> DEFINE Inside(s) == co[s] \in {"holding", "syncing"}
\* The four parts of the invariant, for one sync, from what a step leaves.
<1>3. ASSUME NEW s \in Syncs,
             co'[s] # "none" => co[s] # "none" \/ status'[s] \notin Unclaimed,
             th'[s] # "none" => th[s] # "none" \/ co[s] = "holding"
      PROVE  co'[s] # "none" \/ th'[s] # "none" => status'[s] \notin Unclaimed
  BY <1>1, <1>3 DEF CallerInv
<1>4. ASSUME NEW s \in Syncs,
             Inside(s)' => \/ Inside(s) /\ lock'[Org(s)] \in {s, lock[Org(s)]}
                           \/ co[s] # "none" /\ lock'[Org(s)] = s
      PROVE  Inside(s)' => lock'[Org(s)'] = s
  BY <1>1, <1>4 DEF CallerInv, Org, Unclaimed
<1> DEFINE Part(s) == /\ co'[s] # "none" => co[s] # "none" \/ status'[s] \notin Unclaimed
                      /\ th'[s] # "none" => th[s] # "none" \/ co[s] = "holding"
                      /\ Inside(s)' => \/ Inside(s) /\ lock'[Org(s)] \in {s, lock[Org(s)]}
                                       \/ co[s] # "none" /\ lock'[Org(s)] = s
                      /\ th'[s] \in Busy => co'[s] = "syncing"
<1>5. ASSUME NEW t \in Syncs PROVE Part(t)
  <2> USE DEF vars, rows, cache, keys, worker, Goto, End, Thread, Busy, TypeOK
  <2>0. /\ co[t] # "none" => Org(t) \in Orgs
        /\ Inside(t) => lock[Org(t)] = t
        /\ th[t] \in Busy => co[t] = "syncing"
        /\ status[t] = "pending" => co[t] = "none" /\ th[t] = "none"
    BY PeopleSyncAssumption DEF CallerInv, Org, Unclaimed
  <2>1. ASSUME NEW r \in Requests, RequestStep(r) PROVE Part(t)
    <3>1. UNCHANGED <<co, th, lock>>
      BY <2>1 DEF RequestStep, ReadStatus, Reconcile, Answer, PassGuards, Create, Enqueue,
         CloseUnqueued, WebCrash
    <3> QED
      BY <2>0, <3>1
  <2>2. ASSUME NEW s \in Syncs, Start(s) \/ TryLock(s) \/ StopWaiting(s) \/ RefuseBody(s) PROVE Part(t)
    BY <2>0, <2>2, PeopleSyncAssumption DEF NoSync, Unclaimed, Start, TryLock, StopWaiting, RefuseBody
  <2>3. ASSUME NEW s \in Syncs, BeginThread(s) \/ ThreadReturns(s) \/ Mark(s) PROVE Part(t)
    BY <2>0, <2>3 DEF BeginThread, ThreadReturns, Mark
  <2>4. ASSUME NEW s \in Syncs, Promote(s) PROVE Part(t)
    BY <2>0, <2>4, PeopleSyncAssumption DEF Promote, NoSync
  <2>5. ASSUME NEW s \in Syncs, Leave(s) PROVE Part(t)
    BY <2>0, <2>5 DEF Leave, Release
  <2>6. ASSUME NEW s \in Syncs, ThreadStep(s) PROVE Part(t)
    BY <2>0, <2>6 DEF ThreadStep, Page, ReadFails, ReadWhole, Save, Complete, MarkFailed
  <2>7. ASSUME NEW s \in Syncs, Sweep(s) \/ OrphanFails(s) PROVE Part(t)
    BY <2>0, <2>7 DEF Sweep, OrphanFails
  <2>8. ASSUME NEW o \in Orgs, KeyExpires(o) PROVE Part(t)
    BY <2>0, <2>8 DEF KeyExpires
  <2>9. ASSUME NEW x \in Sessions, Delete(x) \/ Recache(x) PROVE Part(t)
    BY <2>0, <2>9 DEF Delete, Recache
  <2>10. CASE Kill
    BY <2>0, <2>10 DEF Kill
  <2>11. CASE UNCHANGED vars
    BY <2>0, <2>11
  <2> QED
    BY <1>2, <2>1, <2>2, <2>3, <2>4, <2>5, <2>6, <2>7, <2>8, <2>9, <2>10, <2>11
       DEF Next, CoroutineStep, Cancel, StartCancelled, RedisRestart
<1> QED
  BY <1>1, <1>3, <1>4, <1>5 DEF CallerInv

LEMMA InitCaller == Init => CallerInv
  BY DEF Init, CallerInv, Busy

\* As long as no sync's coroutine is cancelled and Redis does not restart, an
\* org's syncs never call Livestorm at the same time, whatever else happens:
\* killed workers, expired keys, failed writes, deletes, any number of syncs.
THEOREM OneCaller ==
  ASSUME Faults["cancel"] = 0, Faults["restart"] = 0
  PROVE  Spec => []OneCallerPerOrg
<1> DEFINE Inv == TypeOK /\ CallerInv /\ Spared({"cancel", "restart"})
<1>1. Init => Inv
  BY TypeInit, InitCaller DEF Init, Spared
<1>2. Inv /\ [Next]_vars => Inv'
  <2> SUFFICES ASSUME Inv, [Next]_vars PROVE Inv'
    OBVIOUS
  <2>1. {"cancel", "restart"} \in SUBSET FaultKinds
    BY DEF FaultKinds
  <2> QED
    BY <2>1, TypeStep, CallerStep, StaysSpared
<1>3. Inv => OneCallerPerOrg
  BY DEF CallerInv, OneCallerPerOrg, Busy
<1> QED
  BY <1>1, <1>2, <1>3, PTL DEF Spec

-----------------------------------------------------------------------------
\* What a thread leaves in its row when, further, no worker is killed and no
\* write fails: nothing before its first call, every call once it is over.
CallsInv ==
  /\ \A s \in Syncs : th[s] = "none" => made[s] = 0 /\ recorded[s] = 0
  /\ \A s \in Syncs : th[s] \in {"over", "raised"} /\ Exists(s) => recorded[s] = made[s]
  /\ \A s \in Syncs : th[s] # "dead"

Failures == {"cancel", "restart", "kill", "database"}

LEMMA CallsStep ==
  ASSUME TypeOK, CallerInv, CallsInv, Spared(Failures), [Next]_vars
  PROVE  CallsInv'
<1>1. ~Spend("kill") /\ ~Spend("database") /\ ~Spend("cancel") /\ ~Spend("restart")
  BY DEF Spared, Spend, Failures
<1>2. \A s \in Syncs : th[s] # "none" /\ Exists(s)' => Exists(s)
  BY RowMoves, RowStays DEF CallerInv, Unclaimed
<1> DEFINE Part(s) == /\ th'[s] = "none" => made'[s] = 0 /\ recorded'[s] = 0
                      /\ th'[s] \in {"over", "raised"} /\ Exists(s)' => recorded'[s] = made'[s]
                      /\ th'[s] # "dead"
<1>3. ASSUME NEW t \in Syncs PROVE Part(t)
  <2> USE DEF vars, rows, cache, keys, worker, Thread, TypeOK
  <2>0. /\ th[t] = "none" => made[t] = 0 /\ recorded[t] = 0
        /\ th[t] \in {"over", "raised"} /\ Exists(t) => recorded[t] = made[t]
        /\ th[t] # "dead"
    BY DEF CallsInv
  <2> DEFINE Kept == th'[t] = th[t] /\ made'[t] = made[t] /\ recorded'[t] = recorded[t]
  <2>1. CASE Kept
    BY <1>2, <2>0, <2>1
  <2>2. ASSUME NEW r \in Requests, RequestStep(r) PROVE Kept
    BY <2>2 DEF RequestStep, ReadStatus, Reconcile, Answer, PassGuards, Create, Enqueue,
       CloseUnqueued, WebCrash
  <2>3. ASSUME NEW s \in Syncs, BeginThread(s) PROVE Part(t)
    BY <1>2, <2>0, <2>3 DEF BeginThread
  <2>4. ASSUME NEW s \in Syncs, CoroutineStep(s), ~BeginThread(s) PROVE Kept
    BY <2>4 DEF CoroutineStep, Start, TryLock, Promote, StopWaiting, RefuseBody,
       ThreadReturns, Leave, Mark
  <2>5. ASSUME NEW s \in Syncs, Page(s) \/ ReadFails(s) \/ ReadWhole(s) PROVE Part(t)
    BY <1>2, <2>0, <2>5 DEF Page, ReadFails, ReadWhole
  <2>6. ASSUME NEW s \in Syncs, Save(s) PROVE Part(t)
    BY <1>2, <2>0, <2>6 DEF Save
  <2>7. ASSUME NEW s \in Syncs, Complete(s) \/ MarkFailed(s) PROVE Part(t)
    BY <1>1, <1>2, <2>0, <2>7 DEF Complete, MarkFailed, Record
  <2>8. ASSUME NEW s \in Syncs, Sweep(s) \/ OrphanFails(s) PROVE Kept
    BY <2>8 DEF Sweep, OrphanFails
  <2>9. ASSUME NEW o \in Orgs, KeyExpires(o) PROVE Kept
    BY <2>9 DEF KeyExpires
  <2>10. ASSUME NEW x \in Sessions, Recache(x) PROVE Kept
    BY <2>10 DEF Recache
  <2>11. ASSUME NEW x \in Sessions, Delete(x) PROVE Part(t)
    BY <1>2, <2>0, <2>11 DEF Delete, Exists
  <2>12. CASE UNCHANGED vars
    BY <2>1, <2>12
  <2> QED
    BY <1>1, <2>1, <2>2, <2>3, <2>4, <2>5, <2>6, <2>7, <2>8, <2>9, <2>10, <2>11, <2>12
       DEF Next, ThreadStep, Cancel, StartCancelled, RedisRestart, Kill
<1> QED
  BY <1>3 DEF CallsInv

LEMMA InitCalls == Init => CallsInv
  BY DEF Init, CallsInv, Exists

\* The worker's cap check is exact, for any cap, any number of syncs, deletes
\* and failed enqueues, as long as no sync is cancelled, killed or fails to
\* write its row, and Redis does not restart.  Each of those four breaks it.
THEOREM CapCheckExact ==
  ASSUME \A kind \in Failures : Faults[kind] = 0
  PROVE  Spec => []CallsRecordedUnderLock
<1> DEFINE Inv == TypeOK /\ CallerInv /\ CallsInv /\ Spared(Failures)
<1>1. Init => Inv
  BY TypeInit, InitCaller, InitCalls DEF Init, Spared
<1>2. Inv /\ [Next]_vars => Inv'
  <2> SUFFICES ASSUME Inv, [Next]_vars PROVE Inv'
    OBVIOUS
  <2>1. Failures \in SUBSET FaultKinds /\ Spared({"cancel", "restart"})
    BY DEF FaultKinds, Failures, Spared
  <2> QED
    BY <2>1, TypeStep, CallerStep, CallsStep, StaysSpared
<1>3. Inv => CallsRecordedUnderLock
  <2> SUFFICES ASSUME Inv, NEW s \in Syncs, NEW t \in Syncs, co[s] = "holding", t # s,
                      Exists(t), Org(t) = Org(s)
               PROVE  recorded[t] = made[t]
    BY DEF CallsRecordedUnderLock
  <2>1. lock[Org(t)] # t
    BY DEF CallerInv
  <2>2. th[t] \notin Busy
    BY <2>1 DEF CallerInv
  <2> QED
    BY <2>2 DEF CallsInv, TypeOK, ThreadState, Busy
<1> QED
  BY <1>1, <1>2, <1>3, PTL DEF Spec

-----------------------------------------------------------------------------
\* Without any assumption on the faults: a coroutine or a thread is never at
\* work on a row nobody has claimed, and no thread runs before its coroutine
\* has got through the lock.
StartInv ==
  /\ \A s \in Syncs : co[s] # "none" \/ th[s] # "none" => status[s] \notin Unclaimed
  /\ \A s \in Syncs : co[s] \in {"claimed", "waiting", "holding"} => th[s] = "none"
  /\ \A s \in Syncs : status[s] # "none" => sess[s] \in Sessions

LEMMA StartStep == TypeOK /\ StartInv /\ [Next]_vars => StartInv'
<1> SUFFICES ASSUME TypeOK, StartInv, [Next]_vars, NEW t \in Syncs
             PROVE  /\ co'[t] # "none" \/ th'[t] # "none" => status'[t] \notin Unclaimed
                    /\ co'[t] \in {"claimed", "waiting", "holding"} => th'[t] = "none"
                    /\ status'[t] # "none" => sess'[t] \in Sessions
  BY DEF StartInv
<1>1. /\ status[t] \notin Unclaimed => status'[t] \notin Unclaimed
      /\ status'[t] # "none" => sess'[t] \in Sessions
  BY RowMoves, RowStays DEF StartInv
<1> DEFINE Before == {"claimed", "waiting", "holding"}
           Part == /\ co'[t] # "none" => co[t] # "none" \/ status'[t] \notin Unclaimed
                   /\ th'[t] # "none" => th[t] # "none" \/ co[t] = "holding"
                   /\ co'[t] \in Before => th'[t] = "none"
<1>2. Part
  <2> USE DEF vars, rows, cache, keys, worker, Goto, End, Thread, TypeOK
  <2>0. /\ co[t] \in Before => th[t] = "none"
        /\ status[t] = "pending" => co[t] = "none" /\ th[t] = "none"
    BY DEF StartInv, Unclaimed
  <2>1. ASSUME NEW r \in Requests, RequestStep(r) PROVE UNCHANGED <<co, th>>
    BY <2>1 DEF RequestStep, ReadStatus, Reconcile, Answer, PassGuards, Create, Enqueue,
       CloseUnqueued, WebCrash
  <2>2. ASSUME NEW s \in Syncs, Start(s) PROVE Part
    BY <2>0, <2>2 DEF Start, Unclaimed
  <2>3. ASSUME NEW s \in Syncs, CoroutineStep(s), ~Start(s) PROVE Part
    BY <2>0, <2>3 DEF CoroutineStep, TryLock, Promote, StopWaiting, BeginThread, RefuseBody,
       ThreadReturns, Leave, Mark
  <2>4. ASSUME NEW s \in Syncs, ThreadStep(s) PROVE Part
    BY <2>0, <2>4 DEF ThreadStep, Page, ReadFails, ReadWhole, Save, Complete, MarkFailed
  <2>5. ASSUME NEW s \in Syncs, Sweep(s) \/ OrphanFails(s) \/ StartCancelled(s) PROVE UNCHANGED <<co, th>>
    BY <2>5 DEF Sweep, OrphanFails, StartCancelled
  <2>6. ASSUME NEW s \in Syncs, Cancel(s) PROVE Part
    BY <2>0, <2>6 DEF Cancel
  <2>7. ASSUME NEW o \in Orgs, KeyExpires(o) PROVE UNCHANGED <<co, th>>
    BY <2>7 DEF KeyExpires
  <2>8. ASSUME NEW x \in Sessions, Delete(x) \/ Recache(x) PROVE UNCHANGED <<co, th>>
    BY <2>8 DEF Delete, Recache
  <2>9. CASE Kill
    BY <2>0, <2>9 DEF Kill
  <2>10. CASE RedisRestart \/ UNCHANGED vars
    BY <2>0, <2>10 DEF RedisRestart
  <2>11. CASE UNCHANGED <<co, th>>
    BY <2>0, <2>11
  <2> QED
    BY <2>1, <2>2, <2>3, <2>4, <2>5, <2>6, <2>7, <2>8, <2>9, <2>10, <2>11 DEF Next
<1> QED
  BY <1>1, <1>2 DEF StartInv, Unclaimed

LEMMA StartInit == Init => StartInv
  BY DEF Init, StartInv

-----------------------------------------------------------------------------
\* A sync that has not saved its list, or has failed without saving it, is not
\* the one whose list a session holds.
Unwritten == {"none", "reading", "saving", "failing", "raised"}
RosterInv == \A s \in Syncs : th[s] \in Unwritten => \A x \in Sessions : roster[x] # s

LEMMA RosterStep ==
  ASSUME TypeOK, StartInv, RosterInv, Spared({"database"}), [Next]_vars
  PROVE  RosterInv'
<1> SUFFICES ASSUME NEW t \in Syncs, NEW x \in Sessions, th'[t] \in Unwritten
             PROVE  roster'[x] # t
  BY DEF RosterInv
<1> USE DEF vars, rows, cache, keys, worker, Thread, TypeOK
<1>0. th[t] \in Unwritten => roster[x] # t
  BY DEF RosterInv
<1>1. CASE th'[t] = th[t] /\ roster'[x] = roster[x]
  BY <1>0, <1>1
<1> DEFINE Same == th'[t] = th[t] /\ roster'[x] = roster[x]
<1>2. ASSUME NEW r \in Requests, RequestStep(r) PROVE Same
  BY <1>2 DEF RequestStep, ReadStatus, Reconcile, Answer, PassGuards, Create, Enqueue,
     CloseUnqueued, WebCrash
<1>3. ASSUME NEW s \in Syncs, BeginThread(s) PROVE roster'[x] # t
  BY <1>0, <1>3 DEF BeginThread, StartInv, Unwritten
<1>4. ASSUME NEW s \in Syncs, CoroutineStep(s), ~BeginThread(s) PROVE Same
  BY <1>4 DEF CoroutineStep, Start, TryLock, Promote, StopWaiting, RefuseBody,
     ThreadReturns, Leave, Mark
<1>5. ASSUME NEW s \in Syncs, Page(s) \/ ReadFails(s) \/ ReadWhole(s) \/ MarkFailed(s)
      PROVE  roster'[x] # t
  BY <1>0, <1>5 DEF Page, ReadFails, ReadWhole, MarkFailed, Unwritten
<1>6. ASSUME NEW s \in Syncs, Save(s) PROVE roster'[x] # t
  BY <1>0, <1>6 DEF Save, Unwritten
<1>7. ASSUME NEW s \in Syncs, Complete(s) PROVE roster'[x] # t
  BY <1>0, <1>7 DEF Complete, Spared, Spend, Unwritten
<1>8. ASSUME NEW s \in Syncs, Sweep(s) \/ OrphanFails(s) \/ StartCancelled(s) \/ Cancel(s) PROVE Same
  BY <1>8 DEF Sweep, OrphanFails, StartCancelled, Cancel
<1>9. ASSUME NEW o \in Orgs, KeyExpires(o) PROVE Same
  BY <1>9 DEF KeyExpires
<1>10. ASSUME NEW y \in Sessions, Delete(y) PROVE roster'[x] # t
  BY <1>0, <1>10, PeopleSyncAssumption DEF Delete, NoSync
<1>11. ASSUME NEW y \in Sessions, Recache(y) PROVE Same
  BY <1>11 DEF Recache
<1>12. CASE Kill
  BY <1>0, <1>12 DEF Kill, Unwritten
<1>13. CASE RedisRestart \/ UNCHANGED vars
  BY <1>0, <1>13 DEF RedisRestart
<1> QED
  BY <1>1, <1>2, <1>3, <1>4, <1>5, <1>6, <1>7, <1>8, <1>9, <1>10, <1>11, <1>12, <1>13
     DEF Next, ThreadStep

\* As long as every write of a row succeeds, a sync that failed has not touched
\* the roster: a list is saved whole, in one transaction, and nothing after it
\* can fail.  Cancelled coroutines, killed workers, restarts, deletes and any
\* number of overlapping threads included; a failed write of the counts breaks
\* it (the run people_sync_write).
THEOREM FailedLeavesRoster ==
  ASSUME Faults["database"] = 0
  PROVE  Spec => []FailedKeepsRoster
<1> DEFINE Inv == TypeOK /\ StartInv /\ RosterInv /\ Spared({"database"})
<1>1. Init => Inv
  BY TypeInit, StartInit, PeopleSyncAssumption DEF Init, RosterInv, Spared, NoSync
<1>2. Inv /\ [Next]_vars => Inv'
  <2> SUFFICES ASSUME Inv, [Next]_vars PROVE Inv'
    OBVIOUS
  <2>1. {"database"} \in SUBSET FaultKinds
    BY DEF FaultKinds
  <2> QED
    BY <2>1, TypeStep, StartStep, RosterStep, StaysSpared
<1>3. Inv => FailedKeepsRoster
  <2> SUFFICES ASSUME Inv, NEW s \in Syncs, th[s] = "raised" PROVE roster[sess[s]] # s
    BY DEF FailedKeepsRoster
  <2>1. sess[s] \in Sessions
    BY DEF StartInv, Unclaimed
  <2> QED
    BY <2>1 DEF RosterInv, Unwritten
<1> QED
  BY <1>1, <1>2, <1>3, PTL DEF Spec

-----------------------------------------------------------------------------
\* How a coroutine's body ended, and what a completed row says of its thread,
\* when every enqueue tells the truth (a failed one closes its row whatever
\* became of it, CloseUnqueued).
EndedInv ==
  /\ \A r \in Requests : req[r].pc # "unqueued"
  /\ \A s \in Syncs : co[s] \in {"leaving", "marking"} => out[s] # "none"
  /\ \A s \in Syncs : co[s] = "marking" => out[s] # "ok"
  /\ \A s \in Syncs : out[s] = "failed" => co[s] \in {"leaving", "marking"}
                                           /\ th[s] \in {"none", "raised"}
  /\ \A s \in Syncs : status[s] = "completed" => th[s] = "over"

LEMMA NoneUnqueued ==
  ASSUME TypeOK, EndedInv, Spared({"enqueue"}), [Next]_vars, NEW t \in Requests
  PROVE  req'[t].pc # "unqueued"
<1> USE DEF vars, rows, cache, keys, worker, TypeOK
<1>0. req[t].pc # "unqueued" /\ ~Spend("enqueue")
  BY DEF EndedInv, Spared, Spend
<1>1. ASSUME NEW r \in Requests, NEW x \in Sessions, ReadStatus(r, x) PROVE req'[t].pc # "unqueued"
  <2>1. PICK s, st, why :
           req' = [req EXCEPT ![r] = [pc |-> "read", session |-> x, sync |-> s, seen |-> st,
                                      reason |-> why]]
    BY <1>1 DEF ReadStatus, Become, RowsOf
  <2> QED
    BY <1>0, <2>1
<1>2. ASSUME NEW r \in Requests, Answer(r) \/ WebCrash(r) \/ CloseUnqueued(r)
      PROVE  req'[t].pc # "unqueued"
  BY <1>0, <1>2 DEF Answer, WebCrash, CloseUnqueued, Become, Idle
<1>3. ASSUME NEW r \in Requests, Reconcile(r) PROVE req'[t].pc # "unqueued"
  <2>1. req[r] \in Open /\ req[r].pc = "read"
    BY <1>3, OpenRequest DEF Reconcile
  <2>2. Become(r, [req[r] EXCEPT !.seen = "error"]) \/ Become(r, Idle)
    BY <1>3 DEF Reconcile
  <2> QED
    BY <1>0, <2>1, <2>2 DEF Become, Idle, Open
<1>4. ASSUME NEW r \in Requests, PassGuards(r) PROVE req'[t].pc # "unqueued"
  <2>1. req[r] \in Open
    BY <1>4, OpenRequest DEF PassGuards
  <2> QED
    BY <1>0, <1>4, <2>1 DEF PassGuards, Advance, Open
<1>5. ASSUME NEW r \in Requests, Create(r) PROVE req'[t].pc # "unqueued"
  <2>1. req[r] \in Open
    BY <1>5, OpenRequest DEF Create
  <2>2. \/ Become(r, Idle)
        \/ \E s \in Syncs : Become(r, [req[r] EXCEPT !.pc = "enqueuing", !.sync = s])
    BY <1>5 DEF Create
  <2>3. \A s : [req[r] EXCEPT !.pc = "enqueuing", !.sync = s].pc = "enqueuing"
    BY <2>1 DEF Open
  <2>4. PICK state : state.pc # "unqueued" /\ req' = [req EXCEPT ![r] = state]
    <3>1. CASE Become(r, Idle)
      BY <3>1 DEF Become, Idle
    <3>2. ASSUME NEW s \in Syncs, Become(r, [req[r] EXCEPT !.pc = "enqueuing", !.sync = s])
          PROVE  \E state : state.pc # "unqueued" /\ req' = [req EXCEPT ![r] = state]
      <4> DEFINE state == [req[r] EXCEPT !.pc = "enqueuing", !.sync = s]
      <4>1. state.pc # "unqueued"
        BY <2>3
      <4>2. req' = [req EXCEPT ![r] = state]
        BY <3>2 DEF Become
      <4> HIDE DEF state
      <4> QED
        BY <4>1, <4>2
    <3> QED
      BY <2>2, <3>1, <3>2
  <2> QED
    BY <1>0, <2>4
<1>6. ASSUME NEW r \in Requests, Enqueue(r) PROVE req'[t].pc # "unqueued"
  <2>1. Become(r, Idle)
    BY <1>0, <1>6 DEF Enqueue
  <2> QED
    BY <1>0, <2>1 DEF Become, Idle
<1>7. ASSUME NEW s \in Syncs, CoroutineStep(s) PROVE UNCHANGED req
  BY <1>7 DEF CoroutineStep, Start, TryLock, Promote, StopWaiting, BeginThread, RefuseBody,
     ThreadReturns, Leave, Mark
<1>8. ASSUME NEW s \in Syncs, ThreadStep(s) PROVE UNCHANGED req
  BY <1>8 DEF ThreadStep, Page, ReadFails, ReadWhole, Save, Complete, MarkFailed
<1>9. ASSUME NEW s \in Syncs, Sweep(s) \/ OrphanFails(s) \/ StartCancelled(s) \/ Cancel(s)
      PROVE  UNCHANGED req
  BY <1>9 DEF Sweep, OrphanFails, StartCancelled, Cancel
<1>10. ASSUME NEW o \in Orgs, KeyExpires(o) PROVE UNCHANGED req
  BY <1>10 DEF KeyExpires
<1>11. ASSUME NEW x \in Sessions, Delete(x) \/ Recache(x) PROVE UNCHANGED req
  BY <1>11 DEF Delete, Recache
<1>12. ASSUME Kill \/ RedisRestart \/ UNCHANGED vars PROVE UNCHANGED req
  BY <1>12 DEF Kill, RedisRestart
<1>13. ASSUME NEW r \in Requests, RequestStep(r) PROVE req'[t].pc # "unqueued"
  BY <1>1, <1>2, <1>3, <1>4, <1>5, <1>6, <1>13 DEF RequestStep
<1> QED
  BY <1>0, <1>7, <1>8, <1>9, <1>10, <1>11, <1>12, <1>13 DEF Next

\* The other parts, for one sync, from a step that is not a failed enqueue's
\* closing; the same cases show that a completed row stays completed.
Kept(t) == status'[t] \in {"completed", "deleted"}
Ended(t) ==
  /\ co[t] \in {"leaving", "marking"} => out[t] # "none"
  /\ co[t] = "marking" => out[t] # "ok"
  /\ out[t] = "failed" => co[t] \in {"leaving", "marking"} /\ th[t] \in {"none", "raised"}
  /\ status[t] = "completed" => th[t] = "over"

LEMMA EndedStep ==
  ASSUME TypeOK, StartInv, EndedInv, [Next]_vars, NEW t \in Syncs
  PROVE  /\ Ended(t)'
         /\ status[t] = "completed" /\ out[t] # "cancelled" => Kept(t)
<1> DEFINE Goal == Ended(t)' /\ (status[t] = "completed" /\ out[t] # "cancelled" => Kept(t))
<1> SUFFICES Goal
  OBVIOUS
<1> USE DEF vars, rows, cache, keys, worker, Goto, End, Thread, TypeOK
<1>0. /\ Ended(t)
      /\ status[t] = "pending" => co[t] = "none" /\ th[t] = "none"
      /\ co[t] \in {"claimed", "waiting", "holding"} => th[t] = "none"
  BY DEF EndedInv, StartInv, Ended, Unclaimed
<1>1. CASE UNCHANGED <<status, co, out, th>>
  BY <1>0, <1>1 DEF Ended, Kept
<1>2. ASSUME NEW r \in Requests, Answer(r) \/ PassGuards(r) \/ Enqueue(r) \/ WebCrash(r)
                                 \/ \E x \in Sessions : ReadStatus(r, x)
      PROVE  UNCHANGED <<status, co, out, th>>
  BY <1>2 DEF ReadStatus, Answer, PassGuards, Enqueue, WebCrash
<1>3. ASSUME NEW r \in Requests, Reconcile(r) PROVE Goal
  BY <1>0, <1>3 DEF Reconcile, Update, Active, Ended, Kept
<1>4. ASSUME NEW r \in Requests, Create(r) PROVE Goal
  BY <1>0, <1>4 DEF Create, Ended, Kept
<1>5. ASSUME NEW r \in Requests, CloseUnqueued(r) PROVE Goal
  BY <1>5 DEF CloseUnqueued, EndedInv
<1>6. ASSUME NEW s \in Syncs, Start(s) \/ StartCancelled(s) PROVE Goal
  BY <1>0, <1>6 DEF Start, StartCancelled, Ended, Kept
<1>7. ASSUME NEW s \in Syncs, TryLock(s) \/ Promote(s) \/ StopWaiting(s) PROVE Goal
  BY <1>0, <1>7 DEF TryLock, Promote, StopWaiting, Ended, Kept
<1>8. ASSUME NEW s \in Syncs, BeginThread(s) \/ RefuseBody(s) \/ ThreadReturns(s) PROVE Goal
  BY <1>0, <1>8 DEF BeginThread, RefuseBody, ThreadReturns, Ended, Kept
<1>9. ASSUME NEW s \in Syncs, Cancel(s) \/ Leave(s) PROVE Goal
  BY <1>0, <1>9 DEF Cancel, Leave, Ended, Kept
<1>10. ASSUME NEW s \in Syncs, Mark(s) PROVE Goal
  BY <1>0, <1>10 DEF Mark, Update, Ended, Kept
<1>11. ASSUME NEW s \in Syncs, Page(s) \/ ReadFails(s) \/ ReadWhole(s) \/ Save(s) PROVE Goal
  BY <1>0, <1>11 DEF Page, ReadFails, ReadWhole, Save, Ended, Kept
<1>12. ASSUME NEW s \in Syncs, Complete(s) \/ MarkFailed(s) PROVE Goal
  BY <1>0, <1>12 DEF Complete, MarkFailed, Update, Ended, Kept
<1>13. ASSUME NEW s \in Syncs, Sweep(s) PROVE Goal
  BY <1>0, <1>13 DEF Sweep, Update, Active, Ended, Kept
<1>14. ASSUME NEW s \in Syncs, OrphanFails(s) PROVE UNCHANGED <<status, co, out, th>>
  BY <1>14 DEF OrphanFails
<1>15. ASSUME NEW o \in Orgs, KeyExpires(o) PROVE UNCHANGED <<status, co, out, th>>
  BY <1>15 DEF KeyExpires
<1>16. ASSUME NEW x \in Sessions, Delete(x) PROVE Goal
  BY <1>0, <1>16 DEF Delete, Ended, Kept
<1>17. ASSUME NEW x \in Sessions, Recache(x) PROVE UNCHANGED <<status, co, out, th>>
  BY <1>17 DEF Recache
<1>18. CASE Kill
  BY <1>0, <1>18 DEF Kill, Ended, Kept
<1>19. CASE RedisRestart \/ UNCHANGED vars
  BY <1>1, <1>19 DEF RedisRestart
<1> QED
  BY <1>1, <1>2, <1>3, <1>4, <1>5, <1>6, <1>7, <1>8, <1>9, <1>10, <1>11, <1>12, <1>13, <1>14,
     <1>15, <1>16, <1>17, <1>18, <1>19 DEF Next, RequestStep, CoroutineStep, ThreadStep

\* A sync that finished keeps its status, under cancelled coroutines, killed
\* workers, restarts, failed writes, deletes, and any number of requests closing
\* what the queue has lost.  Two closings of the code do not look at the status:
\* the cancelled coroutine's own, which the property excepts, and that of an
\* enqueue which reached Redis and reported a failure, which is assumed away.
THEOREM FinishedStays ==
  ASSUME Faults["enqueue"] = 0
  PROVE  Spec => CompletedStays
<1> DEFINE Inv == TypeOK /\ StartInv /\ EndedInv /\ Spared({"enqueue"})
<1>1. Init => Inv
  BY TypeInit, StartInit DEF Init, EndedInv, Spared, Idle
<1>2. Inv /\ [Next]_vars => Inv'
  <2> SUFFICES ASSUME Inv, [Next]_vars PROVE Inv'
    OBVIOUS
  <2>1. {"enqueue"} \in SUBSET FaultKinds
    BY DEF FaultKinds
  <2>2. EndedInv'
    BY NoneUnqueued, EndedStep DEF EndedInv, Ended
  <2> QED
    BY <2>1, <2>2, TypeStep, StartStep, StaysSpared
<1>3. Inv /\ [Next]_vars
      => [\A s \in Syncs : status[s] = "completed" /\ out[s] # "cancelled"
                           => status'[s] \in {"completed", "deleted"}]_vars
  BY EndedStep DEF Kept
<1> QED
  BY <1>1, <1>2, <1>3, PTL DEF Spec, CompletedStays

-----------------------------------------------------------------------------
\* Under the org's lock no list is overtaken by another one, so none that has
\* been overtaken is ever saved: as long as no coroutine is cancelled (its
\* thread would outlive its lock) and Redis does not restart.
THEOREM NoneSavedStale ==
  ASSUME Faults["cancel"] = 0, Faults["restart"] = 0
  PROVE  Spec => NoStaleRoster
<1> DEFINE Inv == TypeOK /\ CallerInv /\ Spared({"cancel", "restart"}) /\ overtaken = {}
<1>1. Init => Inv
  BY TypeInit, InitCaller DEF Init, Spared
<1>2. Inv /\ [Next]_vars => Inv'
  <2> SUFFICES ASSUME Inv, [Next]_vars PROVE Inv'
    OBVIOUS
  <2>1. {"cancel", "restart"} \in SUBSET FaultKinds
    BY DEF FaultKinds
  <2>2. overtaken' = {}
    <3> USE DEF vars, rows, cache, keys, worker
    <3>1. ASSUME NEW s \in Syncs, Save(s) PROVE overtaken' = {}
      <4>1. \A t \in Syncs : sess[t] = sess[s] /\ th[t] \in {"reading", "saving"} => t = s
        <5>1. lock[Org(s)] = s
          BY <3>1 DEF Save, CallerInv, Busy
        <5> QED
          BY <5>1 DEF CallerInv, Busy, Org
      <4> QED
        BY <3>1, <4>1 DEF Save
    <3>2. ASSUME NEW r \in Requests, RequestStep(r) PROVE UNCHANGED overtaken
      BY <3>2 DEF RequestStep, ReadStatus, Reconcile, Answer, PassGuards, Create, Enqueue,
         CloseUnqueued, WebCrash
    <3>3. ASSUME NEW s \in Syncs, CoroutineStep(s) PROVE UNCHANGED overtaken
      BY <3>3 DEF CoroutineStep, Start, TryLock, Promote, StopWaiting, BeginThread, RefuseBody,
         ThreadReturns, Leave, Mark
    <3>4. ASSUME NEW s \in Syncs, ThreadStep(s), ~Save(s) PROVE UNCHANGED overtaken
      BY <3>4 DEF ThreadStep, Page, ReadFails, ReadWhole, Complete, MarkFailed
    <3> QED
      BY <3>1, <3>2, <3>3, <3>4 DEF Next, Sweep, OrphanFails, StartCancelled, Cancel,
         KeyExpires, Delete, Recache, Kill, RedisRestart
  <2> QED
    BY <2>1, <2>2, TypeStep, CallerStep, StaysSpared
<1>3. Inv => [\A x \in Sessions : roster'[x] # roster[x] => roster'[x] \notin overtaken]_vars
  OBVIOUS
<1> QED
  BY <1>1, <1>2, <1>3, PTL DEF Spec, NoStaleRoster

-----------------------------------------------------------------------------
\* What keeps an org within its cap and one sync's calls.  A sync at work that
\* is not exempt stays one that the cap's sum counts; while it reads, the org
\* had less than Cap calls before its own.
CapInv ==
  /\ \A s \in Syncs : th[s] # "none" /\ Exists(s) /\ s \notin exempt => ~FirstInitial(s)
  /\ \A s \in Syncs : th[s] # "none" /\ Cap = 0 => s \in exempt
  /\ \A s \in Syncs : made[s] <= MaxCalls
  /\ \A s \in Syncs : th[s] = "reading" /\ s \notin exempt
                      => CallsMade(Org(s)) < Cap + made[s]
  /\ \A o \in Orgs : Cap > 0 => CallsMade(o) < Cap + MaxCalls

Counted(o) == {s \in Syncs \ exempt : Exists(s) /\ Org(s) = o}

LEMMA CountedFinite ==
  ASSUME IsFiniteSet(Syncs), NEW o
  PROVE  IsFiniteSet(Counted(o)) /\ IsFiniteSet(Counted(o)')
  BY FS_Subset DEF Counted

\* A sync is never made a session's first initial one again: the earlier row
\* that says so goes only with its session's rows.
LEMMA NotFirstStays ==
  ASSUME TypeOK, TypeOK', [Next]_vars, NEW s \in Syncs, status[s] # "none",
         ~FirstInitial(s), Exists(s)'
  PROVE  ~FirstInitial(s)'
<1> USE DEF TypeOK, vars, rows, cache, keys, worker
<1>1. \A e \in Syncs : status[e] # "none"
                       => status'[e] # "none" /\ sess'[e] = sess[e] /\ (Exists(e)' => Exists(e))
  BY RowMoves, RowStays
<1>2. Exists(s)
  BY <1>1
<1>3. UNCHANGED reason \/ \E r \in Requests : Create(r)
  BY DEF Next, RequestStep, ReadStatus, Reconcile, Answer, PassGuards, Enqueue, CloseUnqueued,
     WebCrash, CoroutineStep, Start, TryLock, Promote, StopWaiting, BeginThread, RefuseBody,
     ThreadReturns, Leave, Mark, ThreadStep, Page, ReadFails, ReadWhole, Save, Complete, MarkFailed,
     Sweep, OrphanFails, StartCancelled, Cancel, KeyExpires, Delete, Recache, Kill, RedisRestart
<1>4. \A e \in Syncs : status[e] # "none" => reason'[e] = reason[e]
  <2>1. ASSUME NEW r \in Requests, Create(r) PROVE \/ UNCHANGED reason
                                                 \/ \E n \in Syncs : /\ status[n] = "none"
                                                                     /\ reason' = [reason EXCEPT ![n] = req[r].reason]
    BY <2>1 DEF Create
  <2> QED
    BY <1>3, <2>1
<1>5. \A e \in Syncs : Exists(e) /\ sess[e] = sess[s] => Exists(e)'
  <2> USE DEF Exists
  <2>1. CASE UNCHANGED <<status, sess, conn>>
    BY <2>1
  <2>2. CASE Closes
    BY <2>2 DEF Closes, Update
  <2>3. CASE Claims
    BY <2>3 DEF Claims
  <2>4. CASE Inserts
    BY <2>4 DEF Inserts
  <2>5. CASE Cascades
    BY <1>2, <2>5 DEF Cascades, RowsOf
  <2> QED
    BY RowMoves, <2>1, <2>2, <2>3, <2>4, <2>5 DEF RowMove
<1>6. sess[s] \in past => sess[s] \in past'
  <2>1. UNCHANGED past \/ \E x \in Sessions : Delete(x)
    BY DEF Next, RequestStep, ReadStatus, Reconcile, Answer, PassGuards, Create, Enqueue,
       CloseUnqueued, WebCrash, CoroutineStep, Start, TryLock, Promote, StopWaiting, BeginThread,
       RefuseBody, ThreadReturns, Leave, Mark, ThreadStep, Page, ReadFails, ReadWhole, Save,
       Complete, MarkFailed, Sweep, OrphanFails, StartCancelled, Cancel, KeyExpires, Recache, Kill,
       RedisRestart
  <2>2. ASSUME NEW x \in Sessions, Delete(x) PROVE x # sess[s] /\ past' = past \ {x}
    BY <1>2, <2>2 DEF Delete, RowsOf, Exists
  <2> QED
    BY <2>1, <2>2
<1>7. CASE reason[s] # "initial" \/ sess[s] \in past
  BY <1>1, <1>4, <1>6, <1>7 DEF FirstInitial
<1>8. CASE \E e \in RowsOf(sess[s]) : reason[e] = "initial" /\ ~(s <= e)
  <2>1. PICK e \in Syncs : Exists(e) /\ sess[e] = sess[s] /\ reason[e] = "initial" /\ ~(s <= e)
    BY <1>8 DEF RowsOf
  <2>2. Exists(e)' /\ sess'[e] = sess'[s] /\ reason'[e] = "initial"
    BY <1>1, <1>4, <1>5, <2>1 DEF Exists
  <2> QED
    BY <2>1, <2>2 DEF FirstInitial, RowsOf
<1> QED
  BY <1>2, <1>7, <1>8 DEF FirstInitial

\* The calls an org has made never grow by a step that makes none.
LEMMA CallsFall ==
  ASSUME IsFiniteSet(Syncs), TypeOK, TypeOK', CallsInv, StartInv, [Next]_vars, UNCHANGED made,
         exempt \subseteq exempt', NEW o \in Orgs
  PROVE  CallsMade(o)' <= CallsMade(o)
<1>1. ASSUME NEW s \in Counted(o)' PROVE made'[s] = 0 \/ s \in Counted(o)
  <2>1. s \in Syncs \ exempt /\ Exists(s)' /\ Org(s)' = o
    BY <1>1 DEF Counted
  <2>2. CASE th[s] = "none"
    BY <2>1, <2>2 DEF CallsInv
  <2>3. CASE th[s] # "none"
    <3>1. status[s] # "none"
      BY <2>1, <2>3 DEF StartInv, Unclaimed
    <3>2. sess'[s] = sess[s] /\ Exists(s)
      BY <2>1, <3>1, RowMoves, RowStays
    <3> QED
      BY <2>1, <3>2 DEF Counted, Org
  <2> QED
    BY <2>2, <2>3
<1>2. IsFiniteSet(Counted(o)) /\ IsFiniteSet(Counted(o)')
  BY CountedFinite
<1>3. /\ \A s \in Counted(o) : made[s] \in Nat
      /\ \A s \in Counted(o)' : made'[s] \in Nat
      /\ \A s \in Counted(o)' : made'[s] = 0 \/ (s \in Counted(o) /\ made'[s] <= made[s])
  BY <1>1 DEF TypeOK, Counted
<1> DEFINE A == Counted(o)
           B == Counted(o)'
<1>4. Total(made', B) <= Total(made, A)
  <2> HIDE DEF A, B
  <2> QED
    BY <1>2, <1>3, TotalCovered DEF A, B
<1> QED
  BY <1>4 DEF CallsMade, Counted

\* The check under the lock: every other sync of the org at work has recorded
\* its calls, so a sync that is refused nothing starts below the cap.
LEMMA BegunBelowCap ==
  ASSUME IsFiniteSet(Syncs), TypeOK, StartInv, CallerInv, CallsInv, CapInv,
         NEW s \in Syncs, co[s] = "holding", CallsSince(Org(s)) < Cap
  PROVE  CallsMade(Org(s)) < Cap
<1> DEFINE o == Org(s)
           A == Counted(o)
           B == {t \in Syncs : Exists(t) /\ OrgOf[sess[t]] = o /\ ~FirstInitial(t)}
<1>1. ASSUME NEW t \in A PROVE made[t] = 0 \/ (t \in B /\ made[t] <= recorded[t])
  <2>1. t \in Syncs /\ Exists(t) /\ Org(t) = o /\ t \notin exempt
    BY DEF Counted
  <2>2. CASE th[t] = "none"
    BY <2>1, <2>2 DEF CallsInv
  <2>3. CASE th[t] # "none"
    <3>1. ~FirstInitial(t)
      BY <2>1, <2>3 DEF CapInv
    <3>2. t # s
      BY <2>3 DEF StartInv
    <3>3. th[t] \notin Busy
      BY <2>1, <3>2 DEF CallerInv
    <3>4. th[t] \in {"over", "raised"}
      BY <2>1, <2>3, <3>3 DEF TypeOK, ThreadState, Busy, CallsInv
    <3>5. recorded[t] = made[t] /\ made[t] \in Nat
      BY <2>1, <3>4 DEF CallsInv, TypeOK
    <3> QED
      BY <2>1, <3>1, <3>5 DEF Org
  <2> QED
    BY <2>2, <2>3
<1>2. IsFiniteSet(A) /\ IsFiniteSet(B)
  BY CountedFinite, FS_Subset
<1>3. (\A t \in A : made[t] \in Nat) /\ \A t \in B : recorded[t] \in Nat
  BY DEF TypeOK, Counted
<1> HIDE DEF A, B
<1>4. Total(made, A) <= Total(recorded, B)
  BY <1>1, <1>2, <1>3, TotalCovered
<1>5. Total(made, A) \in Nat /\ Total(recorded, B) \in Nat
  BY <1>2, <1>3, TotalNat
<1>6. CallsMade(o) = Total(made, A) /\ CallsSince(o) = Total(recorded, B)
  BY DEF A, B, CallsMade, CallsSince, Counted
<1> QED
  BY <1>4, <1>5, <1>6, PeopleSyncAssumption

LEMMA CallsMadeNat ==
  ASSUME IsFiniteSet(Syncs), TypeOK, TypeOK', NEW o
  PROVE  CallsMade(o) \in Nat /\ CallsMade(o)' \in Nat
<1>1. /\ IsFiniteSet(Counted(o)) /\ \A s \in Counted(o) : made[s] \in Nat
      /\ IsFiniteSet(Counted(o)') /\ \A s \in Counted(o)' : made'[s] \in Nat
  BY CountedFinite DEF Counted, TypeOK
<1>2. Total(made, Counted(o)) \in Nat /\ Total(made', Counted(o)') \in Nat
  BY <1>1, TotalNat
<1> QED
  BY <1>2 DEF CallsMade, Counted

\* A page counts once, for its own org.
LEMMA PageCounts ==
  ASSUME IsFiniteSet(Syncs), TypeOK, TypeOK', NEW s \in Syncs, Page(s), NEW o
  PROVE  CallsMade(o)' = CallsMade(o) + (IF s \in Counted(o) THEN 1 ELSE 0)
<1>1. Counted(o)' = Counted(o) /\ made' = [made EXCEPT ![s] = @ + 1]
  BY DEF Page, rows, Counted, Exists, Org
<1>2. IsFiniteSet(Counted(o)) /\ \A t \in Counted(o) : made[t] \in Nat
  BY CountedFinite DEF Counted, TypeOK
<1>3. CallsMade(o) = Total(made, Counted(o)) /\ CallsMade(o)' = Total(made', Counted(o))
  BY <1>1 DEF CallsMade, Counted
<1>4. CallsMade(o) \in Nat
  BY CallsMadeNat
<1>5. CASE s \in Counted(o)
  <2>1. \A t \in Counted(o) : t # s => made'[t] = made[t]
    BY <1>1 DEF Counted, TypeOK
  <2>2. made'[s] = made[s] + 1
    BY <1>1 DEF TypeOK
  <2>3. Total(made', Counted(o)) = Total(made, Counted(o)) + 1
    BY <1>2, <1>5, <2>1, <2>2, TotalBump
  <2> QED
    BY <1>3, <1>5, <2>3
<1>6. CASE s \notin Counted(o)
  <2>1. \A t \in Counted(o) : made[t] \in Nat /\ made'[t] = made[t]
    BY <1>1, <1>2, <1>6 DEF Counted, TypeOK
  <2>2. Total(made', Counted(o)) = Total(made, Counted(o))
    BY <1>2, <2>1, TotalSame
  <2> QED
    BY <1>3, <1>4, <1>6, <2>2
<1> QED
  BY <1>5, <1>6

\* Which step does what to the calls, the exemptions and the readers.
LEMMA CallMoves ==
  ASSUME TypeOK, [Next]_vars
  PROVE  \/ \E s \in Syncs : Page(s)
         \/ \E s \in Syncs : BeginThread(s)
         \/ /\ UNCHANGED <<made, exempt>>
            /\ \A t \in Syncs : th'[t] # "none" => th[t] # "none"
            /\ \A t \in Syncs : th'[t] = "reading" => th[t] = "reading"
<1> DEFINE Quiet == /\ UNCHANGED <<made, exempt>>
                    /\ \A t \in Syncs : th'[t] # "none" => th[t] # "none"
                    /\ \A t \in Syncs : th'[t] = "reading" => th[t] = "reading"
<1> USE DEF vars, rows, cache, keys, worker, Thread, TypeOK
<1>1. ASSUME NEW r \in Requests, RequestStep(r) PROVE UNCHANGED <<made, exempt, th>>
  BY <1>1 DEF RequestStep, ReadStatus, Reconcile, Answer, PassGuards, Create, Enqueue,
     CloseUnqueued, WebCrash
<1>2. ASSUME NEW s \in Syncs, CoroutineStep(s), ~BeginThread(s) PROVE UNCHANGED <<made, exempt, th>>
  BY <1>2 DEF CoroutineStep, Start, TryLock, Promote, StopWaiting, RefuseBody,
     ThreadReturns, Leave, Mark
<1>3. ASSUME NEW s \in Syncs, ThreadStep(s), ~Page(s) PROVE Quiet
  BY <1>3 DEF ThreadStep, ReadFails, ReadWhole, Save, Complete, MarkFailed
<1>4. ASSUME NEW s \in Syncs, Sweep(s) \/ OrphanFails(s) \/ StartCancelled(s) \/ Cancel(s)
      PROVE  UNCHANGED <<made, exempt, th>>
  BY <1>4 DEF Sweep, OrphanFails, StartCancelled, Cancel
<1>5. ASSUME NEW o \in Orgs, KeyExpires(o) PROVE UNCHANGED <<made, exempt, th>>
  BY <1>5 DEF KeyExpires
<1>6. ASSUME NEW x \in Sessions, Delete(x) \/ Recache(x) PROVE UNCHANGED <<made, exempt, th>>
  BY <1>6 DEF Delete, Recache
<1>7. CASE Kill
  BY <1>7 DEF Kill
<1>8. CASE RedisRestart \/ UNCHANGED vars
  BY <1>8 DEF RedisRestart
<1>9. CASE UNCHANGED <<made, exempt, th>>
  BY <1>9
<1> QED
  BY <1>1, <1>2, <1>3, <1>4, <1>5, <1>6, <1>7, <1>8, <1>9 DEF Next

LEMMA CapStep ==
  ASSUME IsFiniteSet(Syncs), TypeOK, TypeOK', StartInv, CallerInv, CallerInv', CallsInv, CapInv,
         [Next]_vars
  PROVE  CapInv'
<1>0. \A s \in Syncs : status[s] # "none" => status'[s] # "none" /\ sess'[s] = sess[s]
                                             /\ (Exists(s)' => Exists(s))
  BY RowMoves, RowStays
<1>1. \A s \in Syncs : th[s] # "none" => status[s] # "none" /\ Org(s) \in Orgs /\ Org(s)' = Org(s)
  BY <1>0, PeopleSyncAssumption DEF StartInv, Unclaimed, Org
<1>2. \A o \in Orgs : CallsMade(o) \in Nat /\ CallsMade(o)' \in Nat
  BY CallsMadeNat
<1>3. \A s \in Syncs : made[s] \in Nat /\ made'[s] \in Nat
  BY DEF TypeOK
<1>4. ASSUME NEW s \in Syncs, status[s] # "none", ~FirstInitial(s), Exists(s)'
      PROVE  ~FirstInitial(s)'
  BY <1>4, NotFirstStays
<1>5. CASE /\ UNCHANGED <<made, exempt>>
           /\ \A t \in Syncs : th'[t] # "none" => th[t] # "none"
           /\ \A t \in Syncs : th'[t] = "reading" => th[t] = "reading"
  <2>1. \A o \in Orgs : CallsMade(o)' <= CallsMade(o)
    BY <1>5, CallsFall
  <2>2. \A s \in Syncs : th'[s] # "none" /\ Exists(s)' /\ s \notin exempt' => ~FirstInitial(s)'
    BY <1>0, <1>1, <1>4, <1>5 DEF CapInv
  <2>3. \A s \in Syncs : th'[s] = "reading" /\ s \notin exempt'
                         => CallsMade(Org(s))' < Cap + made'[s]
    <3> SUFFICES ASSUME NEW s \in Syncs, th'[s] = "reading", s \notin exempt'
                 PROVE  CallsMade(Org(s))' < Cap + made'[s]
      OBVIOUS
    <3>1. Org(s) \in Orgs /\ Org(s)' = Org(s) /\ CallsMade(Org(s)) < Cap + made[s]
      BY <1>1, <1>5 DEF CapInv
    <3> DEFINE o == Org(s)
    <3>2. CallsMade(o)' <= CallsMade(o)
      BY <2>1, <3>1
    <3> QED
      BY <1>2, <1>3, <1>5, <3>1, <3>2, PeopleSyncAssumption
  <2>4. \A o \in Orgs : Cap > 0 => CallsMade(o)' < Cap + MaxCalls
    BY <1>2, <2>1, PeopleSyncAssumption DEF CapInv
  <2> QED
    BY <1>5, <2>2, <2>3, <2>4 DEF CapInv
<1>6. ASSUME NEW s \in Syncs, BeginThread(s) PROVE CapInv'
  <2>0. /\ co[s] = "holding" /\ th[s] = "none" /\ made[s] = 0
        /\ FirstInitial(s) \/ CallsSince(Org(s)) < Cap
        /\ exempt' = IF FirstInitial(s) THEN exempt \cup {s} ELSE exempt
        /\ UNCHANGED <<rows, cache, made>> /\ th' = [th EXCEPT ![s] = "reading"]
    BY <1>6 DEF BeginThread, Thread, worker, StartInv, CallsInv
  <2>1. \A o \in Orgs : CallsMade(o)' <= CallsMade(o)
    BY <2>0, CallsFall
  <2>2. FirstInitial(s)' <=> FirstInitial(s)
    BY <2>0 DEF rows, cache, FirstInitial, Exists, RowsOf
  <2>3. s \notin exempt' => ~FirstInitial(s) /\ CallsMade(Org(s)) < Cap
    BY <2>0, BegunBelowCap
  <2>4. Org(s) \in Orgs /\ Org(s)' = Org(s)
    BY <2>0, PeopleSyncAssumption DEF StartInv, Unclaimed, Org, rows
  <2>5. \A t \in Syncs : t # s => th'[t] = th[t] /\ (t \notin exempt' => t \notin exempt)
    BY <2>0 DEF TypeOK
  <2>6. \A t \in Syncs : th'[t] # "none" /\ Exists(t)' /\ t \notin exempt' => ~FirstInitial(t)'
    BY <1>0, <1>1, <1>4, <2>2, <2>3, <2>5 DEF CapInv
  <2>7. \A t \in Syncs : th'[t] # "none" /\ Cap = 0 => t \in exempt'
    <3>1. Cap = 0 => s \in exempt'
      BY <1>2, <2>3, <2>4
    <3>2. \A t \in Syncs \ {s} : th'[t] # "none" /\ Cap = 0 => t \in exempt'
      BY <2>0, <2>5 DEF CapInv
    <3> QED
      BY <3>1, <3>2
  <2>8. \A t \in Syncs : th'[t] = "reading" /\ t \notin exempt'
                         => CallsMade(Org(t))' < Cap + made'[t]
    <3> SUFFICES ASSUME NEW t \in Syncs, th'[t] = "reading", t \notin exempt'
                 PROVE  CallsMade(Org(t))' < Cap + made'[t]
      OBVIOUS
    <3>1. Org(t) \in Orgs /\ Org(t)' = Org(t) /\ CallsMade(Org(t)) < Cap + made[t]
      <4>1. CASE t = s
        <5>1. CallsMade(Org(s)) < Cap
          BY <2>3, <4>1
        <5> QED
          BY <2>0, <2>4, <4>1, <5>1, PeopleSyncAssumption
      <4>2. CASE t # s
        BY <1>1, <2>5, <4>2 DEF CapInv
      <4> QED
        BY <4>1, <4>2
    <3> DEFINE o == Org(t)
    <3>2. CallsMade(o)' <= CallsMade(o)
      BY <2>1, <3>1
    <3> QED
      BY <1>2, <1>3, <2>0, <3>1, <3>2, PeopleSyncAssumption
  <2>9. \A o \in Orgs : Cap > 0 => CallsMade(o)' < Cap + MaxCalls
    BY <1>2, <2>1, PeopleSyncAssumption DEF CapInv
  <2> QED
    BY <2>0, <2>6, <2>7, <2>8, <2>9 DEF CapInv
<1>7. ASSUME NEW s \in Syncs, Page(s) PROVE CapInv'
  <2>0. /\ th[s] = "reading" /\ made[s] < MaxCalls
        /\ made' = [made EXCEPT ![s] = @ + 1]
        /\ UNCHANGED <<rows, cache, exempt>>
        /\ \A t \in Syncs : /\ th'[t] # "none" => th[t] # "none"
                            /\ th'[t] = "reading" => th[t] = "reading"
    BY <1>7 DEF Page, Thread, TypeOK
  <2>1. \A t \in Syncs : th[t] = "reading" /\ Org(t) = Org(s) => t = s
    BY <2>0 DEF CallerInv, Busy
  <2>2. \A o \in Orgs : CallsMade(o)' = CallsMade(o) + (IF s \in Counted(o) THEN 1 ELSE 0)
    BY <1>7, PageCounts
  <2>3. s \in Syncs \ exempt => CallsMade(Org(s)) < Cap + made[s]
    BY <2>0 DEF CapInv
  <2>4. made'[s] = made[s] + 1 /\ made'[s] <= MaxCalls /\ \A t \in Syncs \ {s} : made'[t] = made[t]
    BY <1>3, <2>0, PeopleSyncAssumption DEF TypeOK
  <2>5. \A t \in Syncs : made'[t] <= MaxCalls
    BY <2>4 DEF CapInv
  <2>6. \A t \in Syncs : th'[t] # "none" /\ Exists(t)' /\ t \notin exempt' => ~FirstInitial(t)'
    BY <1>0, <1>1, <1>4, <2>0 DEF CapInv
  <2>7. \A t \in Syncs : th'[t] = "reading" /\ t \notin exempt'
                         => CallsMade(Org(t))' < Cap + made'[t]
    <3> SUFFICES ASSUME NEW t \in Syncs, th'[t] = "reading", t \notin exempt'
                 PROVE  CallsMade(Org(t))' < Cap + made'[t]
      OBVIOUS
    <3>1. Org(t) \in Orgs /\ Org(t)' = Org(t) /\ CallsMade(Org(t)) < Cap + made[t]
      BY <1>1, <2>0 DEF CapInv
    <3> DEFINE o == Org(t)
    <3>2. CallsMade(o)' = CallsMade(o) + (IF s \in Counted(o) THEN 1 ELSE 0)
      BY <2>2, <3>1
    <3>3. t # s => s \notin Counted(o)
      BY <2>0, <2>1 DEF Counted
    <3>4. CallsMade(o)' < Cap + made'[t]
      BY <1>2, <1>3, <2>4, <3>1, <3>2, <3>3, PeopleSyncAssumption
    <3> QED
      BY <3>1, <3>4
  <2>8. \A o \in Orgs : Cap > 0 => CallsMade(o)' < Cap + MaxCalls
    <3> SUFFICES ASSUME NEW o \in Orgs, Cap > 0 PROVE CallsMade(o)' < Cap + MaxCalls
      OBVIOUS
    <3>1. CASE s \in Counted(o)
      <4>1. Org(s) = o /\ s \notin exempt
        BY <3>1 DEF Counted
      <4>2. CallsMade(o) < Cap + made[s]
        BY <2>3, <4>1
      <4>3. CallsMade(o)' = CallsMade(o) + 1
        BY <2>2, <3>1
      <4> QED
        BY <1>2, <1>3, <2>4, <4>2, <4>3, PeopleSyncAssumption
    <3>2. CASE s \notin Counted(o)
      <4>1. CallsMade(o)' = CallsMade(o) + 0
        BY <2>2, <3>2
      <4> QED
        BY <1>2, <4>1 DEF CapInv
    <3> QED
      BY <3>1, <3>2
  <2> QED
    BY <2>0, <2>5, <2>6, <2>7, <2>8 DEF CapInv
<1> QED
  BY <1>5, <1>6, <1>7, CallMoves

\* An org passes its cap by one sync's calls at most, whatever the cap, the
\* number of its syncs and sessions, deletes, refused requests and failed
\* enqueues: the sum of the calls recorded, read under the lock, is at least the
\* sum of the calls made.  With a cap of zero only exempt syncs call Livestorm.
\* The four faults assumed away each leave calls that no row has recorded.
THEOREM CapPassedOnce ==
  ASSUME IsFiniteSet(Syncs), \A kind \in Failures : Faults[kind] = 0
  PROVE  Spec => []CapPassedByOneSync
<1> DEFINE Inv == TypeOK /\ StartInv /\ CallerInv /\ CallsInv /\ CapInv /\ Spared(Failures)
<1>1. Init => Inv
  <2> SUFFICES ASSUME Init PROVE Inv
    OBVIOUS
  <2>1. TypeOK /\ StartInv /\ CallerInv /\ CallsInv /\ Spared(Failures)
    BY TypeInit, StartInit, InitCaller, InitCalls DEF Init, Spared
  <2>2. \A o \in Orgs : CallsMade(o) = 0
    <3> SUFFICES ASSUME NEW o \in Orgs PROVE CallsMade(o) = 0
      OBVIOUS
    <3>1. IsFiniteSet(Counted(o)) /\ \A s \in Counted(o) : made[s] = 0
      BY CountedFinite DEF Counted, Init
    <3>2. Total(made, Counted(o)) = 0
      BY <3>1, TotalZero
    <3> QED
      BY <3>2 DEF CallsMade, Counted
  <2>3. CapInv
    BY <2>2, PeopleSyncAssumption DEF Init, CapInv
  <2> QED
    BY <2>1, <2>3
<1>2. Inv /\ [Next]_vars => Inv'
  <2> SUFFICES ASSUME Inv, [Next]_vars PROVE Inv'
    OBVIOUS
  <2>1. Failures \in SUBSET FaultKinds /\ Spared({"cancel", "restart"})
    BY DEF FaultKinds, Failures, Spared
  <2>2. TypeOK' /\ StartInv' /\ CallerInv' /\ CallsInv' /\ Spared(Failures)'
    BY <2>1, TypeStep, StartStep, CallerStep, CallsStep, StaysSpared
  <2> QED
    BY <2>2, CapStep
<1>3. Inv => CapPassedByOneSync
  <2> SUFFICES ASSUME Inv, NEW o \in Orgs
               PROVE  CallsMade(o) < (IF Cap = 0 THEN 1 ELSE Cap + MaxCalls)
    BY DEF CapPassedByOneSync
  <2>1. CASE Cap = 0
    <3>1. IsFiniteSet(Counted(o)) /\ \A s \in Counted(o) : made[s] = 0
      <4>1. ASSUME NEW s \in Counted(o) PROVE made[s] = 0
        <5>1. s \in Syncs /\ th[s] = "none"
          BY <2>1, <4>1 DEF CapInv, Counted
        <5> QED
          BY <5>1 DEF CallsInv
      <4> QED
        BY <4>1, CountedFinite
    <3>2. Total(made, Counted(o)) = 0
      BY <3>1, TotalZero
    <3>3. CallsMade(o) = 0
      BY <3>2 DEF CallsMade, Counted
    <3> QED
      BY <2>1, <3>3
  <2>2. CASE Cap # 0
    BY <2>2, PeopleSyncAssumption DEF CapInv
  <2> QED
    BY <2>1, <2>2
<1> QED
  BY <1>1, <1>2, <1>3, PTL DEF Spec
=============================================================================
