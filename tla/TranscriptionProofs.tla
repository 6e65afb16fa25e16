------------------------- MODULE TranscriptionProofs ------------------------
EXTENDS Transcription, FiniteSetTheorems, TLAPS

LEMMA TypeInit == Init => TypeOK
  BY TranscriptionAssumption DEF Init, TypeOK, NoJob, RowStatus, ThreadState, AtWork, Unreported

\* A client past its first step carries a session and a job.
Open == [pc : Place, session : Sessions, job : Jobs \cup {NoJob}, poll : BOOLEAN]

LEMMA OpenClient ==
  ASSUME TypeOK, NEW c \in Clients, client[c].pc # "idle"
  PROVE  /\ client[c] \in Open
         /\ \A label \in Place : [client[c] EXCEPT !.pc = label] \in Open
<1>1. client[c] \in Open
  BY DEF TypeOK, Open, Idle
<1> QED
  BY <1>1 DEF Open

LEMMA BecomeTyped ==
  ASSUME TypeOK, NEW c, NEW state \in {Idle} \cup Open, Become(c, state)
  PROVE  client' \in [Clients -> {Idle} \cup Open]
  BY DEF TypeOK, Become, Open

\* The writes the actions share keep the variables they write in their types.
LEMMA UpdateTyped ==
  ASSUME TypeOK, NEW j, NEW st \in RowStatus, Update(j, st) \/ UNCHANGED <<status, conn>>
  PROVE  status' \in [Jobs -> RowStatus] /\ conn' \in [Jobs -> BOOLEAN]
  BY DEF TypeOK, Update

LEMMA SpendTyped ==
  ASSUME TypeOK, NEW kinds, Spend(kinds)
  PROVE  spent' \subseteq FaultKinds
  BY TranscriptionAssumption DEF TypeOK, Spend

LEMMA TryUpdateTyped ==
  ASSUME TypeOK, NEW j, NEW st \in RowStatus, NEW kinds, TryUpdate(j, st, kinds)
  PROVE  /\ status' \in [Jobs -> RowStatus] /\ conn' \in [Jobs -> BOOLEAN]
         /\ spent' \subseteq FaultKinds
  BY UpdateTyped, SpendTyped DEF TryUpdate

\* Every action keeps the type.
LEMMA TypeStep == TypeOK /\ [Next]_vars => TypeOK'
<1> SUFFICES ASSUME TypeOK, [Next]_vars PROVE TypeOK'
  OBVIOUS
<1> USE TranscriptionAssumption DEF TypeOK, rows, cache, worker, vars, Coroutine, Thread,
        Queued, Become, Goto, Report, NoJob, Idle, RowStatus, ThreadState, AtWork, Unreported
<1>1. ASSUME NEW c \in Clients, NEW x \in Sessions, Ask(c, x) PROVE TypeOK'
  BY <1>1 DEF Ask, Place
<1>2. ASSUME NEW c \in Clients, Refused(c) PROVE TypeOK'
  BY <1>2 DEF Refused
<1>3. ASSUME NEW c \in Clients, Look(c) PROVE TypeOK'
  <2>1. client[c].pc # "idle"
    BY <1>3 DEF Look
  <2>2. client[c] \in Open
    BY <2>1, OpenClient
  <2>3. ASSUME NEW j \in Jobs
        PROVE  /\ [client[c] EXCEPT !.pc = "following", !.job = j] \in Open
               /\ \A b \in BOOLEAN :
                    [client[c] EXCEPT !.pc = "closing", !.job = j, !.poll = b] \in Open
    BY <2>2 DEF Open, Place
  <2>4. [client[c] EXCEPT !.pc = "creating"] \in Open
    BY <2>2 DEF Open, Place
  <2>5. client' \in [Clients -> {Idle} \cup Open]
    <3>1. CASE LatestActive(client[c].session) = {}
      BY <1>3, <2>4, <3>1 DEF Look, Open
    <3>2. CASE LatestActive(client[c].session) # {}
      <4>1. PICK j \in LatestActive(client[c].session) :
              \/ Become(c, [client[c] EXCEPT !.pc = "closing", !.job = j,
                                             !.poll = client[c].pc = "following"])
              \/ Become(c, [client[c] EXCEPT !.pc = "following", !.job = j])
        BY <1>3, <3>2 DEF Look
      <4>2. j \in Jobs
        BY DEF LatestActive, ActiveOf, RowsOf
      <4>3. (client[c].pc = "following") \in BOOLEAN
        OBVIOUS
      <4>4. CASE Become(c, [client[c] EXCEPT !.pc = "closing", !.job = j,
                                             !.poll = client[c].pc = "following"])
        <5> DEFINE me == [client[c] EXCEPT !.pc = "closing", !.job = j,
                                           !.poll = client[c].pc = "following"]
        <5>1. me \in Open
          BY <2>3, <4>2, <4>3
        <5> HIDE DEF me
        <5> QED
          BY <4>4, <5>1, BecomeTyped DEF me
      <4>5. CASE Become(c, [client[c] EXCEPT !.pc = "following", !.job = j])
        BY <2>3, <4>2, <4>5, BecomeTyped
      <4> QED
        BY <4>1, <4>4, <4>5
    <3> QED
      BY <3>1, <3>2
  <2> QED
    BY <1>3, <2>5 DEF Look, Open
<1>4. ASSUME NEW c \in Clients, CloseDead(c) PROVE TypeOK'
  <2>1. client[c].pc = "closing"
    BY <1>4 DEF CloseDead
  <2>2. [client[c] EXCEPT !.pc = "creating"] \in Open
    BY <2>1, OpenClient DEF Place
  <2>3. client' \in [Clients -> {Idle} \cup Open]
    BY <1>4, <2>2 DEF CloseDead, Open
  <2> QED
    BY <1>4, <2>3, TryUpdateTyped DEF CloseDead, Open
<1>5. ASSUME NEW c \in Clients, Create(c) PROVE TypeOK'
  <2>1. client[c].pc = "creating"
    BY <1>5 DEF Create
  <2>2. client[c] \in Open
    BY <2>1, OpenClient
  <2>3. ASSUME NEW j \in Jobs, NEW label \in {"following", "enqueuing"}
        PROVE  [client[c] EXCEPT !.pc = label, !.job = j] \in Open
    BY <2>2 DEF Open, Place
  <2>4. client' \in [Clients -> {Idle} \cup Open]
    <3>1. ActiveOf(client[c].session) \subseteq Jobs
      BY DEF ActiveOf, RowsOf
    <3>2. CASE Become(c, Idle)
      BY <3>2, BecomeTyped
    <3>3. ASSUME NEW j \in Jobs, NEW label \in {"following", "enqueuing"},
                 Become(c, [client[c] EXCEPT !.pc = label, !.job = j])
          PROVE  client' \in [Clients -> {Idle} \cup Open]
      BY <2>3, <3>3, BecomeTyped
    <3> QED
      BY <1>5, <3>1, <3>2, <3>3 DEF Create
  <2>5. cached' \in [Sessions -> {"absent", "unstamped", "stamped"}]
    BY <1>5 DEF Create
  <2>6. spent' \subseteq FaultKinds
    BY <1>5, SpendTyped DEF Create
  <2>7. /\ status' \in [Jobs -> RowStatus] /\ conn' \in [Jobs -> BOOLEAN]
        /\ sess' \in [Jobs -> Sessions \cup {NoSession}]
    BY <1>5, <2>2 DEF Create, Open
  <2> QED
    BY <1>5, <2>4, <2>5, <2>6, <2>7 DEF Create, Open
<1>6. ASSUME NEW c \in Clients, Enqueue(c) PROVE TypeOK'
  <2>1. client[c].pc = "enqueuing"
    BY <1>6 DEF Enqueue
  <2>2. /\ [client[c] EXCEPT !.pc = "following"] \in Open
        /\ [client[c] EXCEPT !.pc = "unqueued"] \in Open
    BY <2>1, OpenClient DEF Place
  <2>3. client' \in [Clients -> {Idle} \cup Open]
    BY <1>6, <2>2 DEF Enqueue, Open
  <2>4. spent' \subseteq FaultKinds
    BY <1>6, SpendTyped DEF Enqueue
  <2>5. queue' \in [Jobs -> {"none", "queued", "running", "finished", "failed"}]
    BY <1>6 DEF Enqueue
  <2> QED
    BY <1>6, <2>3, <2>4, <2>5 DEF Enqueue, Open
<1>7. ASSUME NEW c \in Clients, CloseUnqueued(c) PROVE TypeOK'
  BY <1>7, TryUpdateTyped DEF CloseUnqueued
<1>8. ASSUME NEW c \in Clients, Show(c) PROVE TypeOK'
  BY <1>8 DEF Show
<1>9. ASSUME NEW c \in Clients, NotFound(c) PROVE TypeOK'
  BY <1>9 DEF NotFound
<1>10. ASSUME NEW c \in Clients, WebCrash(c) PROVE TypeOK'
  BY <1>10, SpendTyped DEF WebCrash
<1>11. ASSUME NEW j \in Jobs, Start(j) PROVE TypeOK'
  <2>1. spent' \subseteq FaultKinds
    BY <1>11, SpendTyped DEF Start
  <2>2. /\ queue' \in [Jobs -> {"none", "queued", "running", "finished", "failed"}]
        /\ co' \in [Jobs -> {"none", "waiting", "holding", "working", "saved"}]
        /\ status' \in [Jobs -> RowStatus] /\ conn' \in [Jobs -> BOOLEAN]
    BY <1>11 DEF Start
  <2> QED
    BY <1>11, <2>1, <2>2 DEF Start
<1>12. ASSUME NEW j \in Jobs, TakeSlot(j) PROVE TypeOK'
  BY <1>12 DEF TakeSlot
<1>13. ASSUME NEW j \in Jobs, BeginThread(j) PROVE TypeOK'
  BY <1>13 DEF BeginThread
<1>14. ASSUME NEW j \in Jobs, Fail(j) PROVE TypeOK'
  BY <1>14, TryUpdateTyped DEF Fail
<1>15. ASSUME NEW j \in Jobs, Persist(j) PROVE TypeOK'
  <2>1. status' \in [Jobs -> RowStatus] /\ conn' \in [Jobs -> BOOLEAN]
    BY <1>15, UpdateTyped DEF Persist
  <2>2. spent' \subseteq FaultKinds
    BY <1>15, SpendTyped DEF Persist
  <2>3. /\ cached' \in [Sessions -> {"absent", "unstamped", "stamped"}]
        /\ has' \in [Sessions -> BOOLEAN] /\ source' \in [Sessions -> Jobs \cup {NoJob}]
    <3>1. CASE UNCHANGED cache
      BY <3>1
    <3>2. CASE /\ cached' = [cached EXCEPT ![sess[j]] = IF @ = "absent" THEN "unstamped" ELSE @]
               /\ has' = [has EXCEPT ![sess[j]] = TRUE]
               /\ source' = [source EXCEPT ![sess[j]] = j]
      <4>1. cached' \in [Sessions -> {"absent", "unstamped", "stamped"}]
        BY <3>2
      <4>2. has' \in [Sessions -> BOOLEAN]
        BY <3>2
      <4>3. source' \in [Sessions -> Jobs \cup {NoJob}]
        BY <3>2
      <4> QED
        BY <4>1, <4>2, <4>3
    <3>3. UNCHANGED cache
          \/ /\ cached' = [cached EXCEPT ![sess[j]] = IF @ = "absent" THEN "unstamped" ELSE @]
             /\ has' = [has EXCEPT ![sess[j]] = TRUE]
             /\ source' = [source EXCEPT ![sess[j]] = j]
      BY <1>15 DEF Persist
    <3> QED
      BY <3>1, <3>2, <3>3
  <2>4. /\ queue' \in [Jobs -> {"none", "queued", "running", "finished", "failed"}]
        /\ co' \in [Jobs -> {"none", "waiting", "holding", "working", "saved"}]
    BY <1>15 DEF Persist
  <2> QED
    BY <1>15, <2>1, <2>2, <2>3, <2>4 DEF Persist
<1>16. ASSUME NEW j \in Jobs, Finish(j) PROVE TypeOK'
  BY <1>16, TryUpdateTyped DEF Finish
<1>17. ASSUME NEW j \in Jobs, Cancel(j) PROVE TypeOK'
  BY <1>17, TryUpdateTyped DEF Cancel
<1>18. ASSUME NEW j \in Jobs, Downloaded(j) PROVE TypeOK'
  BY <1>18 DEF Downloaded
<1>19. ASSUME NEW j \in Jobs, Extracted(j) PROVE TypeOK'
  BY <1>19 DEF Extracted
<1>20. ASSUME NEW j \in Jobs, Uploaded(j) PROVE TypeOK'
  BY <1>20 DEF Uploaded
<1>21. ASSUME NEW j \in Jobs, Transcribed(j) PROVE TypeOK'
  BY <1>21 DEF Transcribed
<1>22. ASSUME NEW j \in Jobs, ThreadFails(j) PROVE TypeOK'
  BY <1>22 DEF ThreadFails
<1>23. ASSUME NEW j \in Jobs, Sweep(j) PROVE TypeOK'
  BY <1>23, UpdateTyped DEF Sweep
<1>24. ASSUME NEW j \in Jobs, SweepQuiet(j) PROVE TypeOK'
  BY <1>24, UpdateTyped, SpendTyped DEF SweepQuiet
<1>25. ASSUME NEW j \in Jobs, OrphanFails(j) PROVE TypeOK'
  BY <1>25 DEF OrphanFails
<1>26. ASSUME NEW x \in Sessions, Delete(x) PROVE TypeOK'
  BY <1>26, SpendTyped DEF Delete
<1>27. CASE Kill
  BY <1>27, SpendTyped DEF Kill
<1>28. CASE RedisRestart
  BY <1>28, SpendTyped DEF RedisRestart
<1>29. CASE UNCHANGED vars
  BY <1>29
<1> QED
  BY <1>1, <1>2, <1>3, <1>4, <1>5, <1>6, <1>7, <1>8, <1>9, <1>10, <1>11,
     <1>12, <1>13, <1>14, <1>15, <1>16, <1>17, <1>18, <1>19, <1>20, <1>21,
     <1>22, <1>23, <1>24, <1>25, <1>26, <1>27, <1>28, <1>29 DEF Next,
     ClientStep, CoroutineStep, ThreadStep

\* The rows, the cache, the jobs, the threads and the clients keep their shapes
\* in every execution, for any sessions, jobs, clients, slots and faults.
THEOREM TypeCorrect == Spec => []TypeOK
  BY TypeInit, TypeStep, PTL DEF Spec

-----------------------------------------------------------------------------
\* The rows.  What any step does to them, given that whoever closes a row
\* closes one that was inserted.
Referring == {"closing", "enqueuing", "unqueued"}

Referred ==
  /\ \A j \in Jobs : co[j] # "none" => status[j] # "none"
  /\ \A c \in Clients : client[c].pc \in Referring =>
       client[c].job \in Jobs /\ status[client[c].job] # "none"

Closes ==
  \E j \in Jobs, st \in {"error", "completed"} :
    status[j] # "none" /\ Update(j, st) /\ UNCHANGED sess

Claims ==
  \E j \in Jobs :
    /\ status[j] = "pending"
    /\ status' = [status EXCEPT ![j] = "running"]
    /\ conn' = [conn EXCEPT ![j] = FALSE]
    /\ UNCHANGED sess

Inserts ==
  \E j \in Jobs, x \in Sessions :
    /\ status[j] = "none" /\ \A k \in Jobs : status[k] = "none" => j <= k
    /\ ActiveOf(x) = {}
    /\ status' = [status EXCEPT ![j] = "pending"]
    /\ sess' = [sess EXCEPT ![j] = x]
    /\ conn' = [conn EXCEPT ![j] = TRUE]

RowMove == UNCHANGED rows \/ Closes \/ Claims \/ Inserts

LEMMA TryUpdateMoves ==
  ASSUME NEW j \in Jobs, status[j] # "none", NEW st \in {"error", "completed"}, NEW kinds,
         TryUpdate(j, st, kinds), UNCHANGED sess
  PROVE  RowMove
  BY DEF TryUpdate, RowMove, Closes, rows

LEMMA RowMoves == TypeOK /\ Referred /\ [Next]_vars => RowMove
<1> SUFFICES ASSUME TypeOK, Referred, [Next]_vars PROVE RowMove
  OBVIOUS
<1> USE DEF vars, rows
<1>1. ASSUME NEW c \in Clients, CloseDead(c) PROVE RowMove
  BY <1>1, TryUpdateMoves DEF CloseDead, Referred, Referring
<1>2. ASSUME NEW c \in Clients, CloseUnqueued(c) PROVE RowMove
  BY <1>2, TryUpdateMoves DEF CloseUnqueued, Referred, Referring
<1>3. ASSUME NEW c \in Clients, Create(c) PROVE RowMove
  <2>1. client[c].session \in Sessions
    BY <1>3, OpenClient DEF Create, Open
  <2> QED
    BY <1>3, <2>1 DEF Create, RowMove, Inserts
<1>4. ASSUME NEW c \in Clients, NEW x \in Sessions,
             Ask(c, x)
      PROVE  RowMove
  BY <1>4 DEF RowMove, Ask
<1>11. ASSUME NEW c \in Clients,
              Refused(c) \/ Look(c) \/ Enqueue(c) \/ Show(c) \/ NotFound(c) \/ WebCrash(c)
       PROVE  RowMove
  BY <1>11 DEF RowMove, Refused, Look, Enqueue, Show, NotFound, WebCrash
<1>12. ASSUME NEW x \in Sessions, Delete(x) PROVE RowMove
  BY <1>12 DEF RowMove, Delete
<1>5. ASSUME NEW j \in Jobs, Start(j) PROVE RowMove
  BY <1>5 DEF Start, RowMove, Claims
<1>6. ASSUME NEW j \in Jobs, Fail(j) \/ Finish(j) \/ Cancel(j) PROVE RowMove
  BY <1>6, TryUpdateMoves DEF Fail, Finish, Cancel, Referred
<1>7. ASSUME NEW j \in Jobs, Persist(j) PROVE RowMove
  BY <1>7 DEF Persist, Referred, RowMove, Closes
<1>8. ASSUME NEW j \in Jobs, Sweep(j) \/ SweepQuiet(j) PROVE RowMove
  BY <1>8 DEF Sweep, SweepQuiet, Active, RowMove, Closes
<1>9. ASSUME NEW j \in Jobs, TakeSlot(j) \/ BeginThread(j) \/ ThreadStep(j) \/ OrphanFails(j)
      PROVE  RowMove
  BY <1>9 DEF TakeSlot, BeginThread, ThreadStep, Downloaded, Extracted, Uploaded, Transcribed,
     ThreadFails, OrphanFails, RowMove
<1>10. CASE Kill \/ RedisRestart \/ UNCHANGED vars
  BY <1>10 DEF Kill, RedisRestart, RowMove
<1> QED
  BY <1>1, <1>2, <1>3, <1>4, <1>5, <1>6, <1>7, <1>8, <1>9, <1>10,
     <1>11, <1>12 DEF Next, ClientStep, CoroutineStep

\* A row that has been inserted stays so, with its session.
LEMMA RowStays ==
  ASSUME TypeOK, RowMove, NEW j \in Jobs, status[j] # "none"
  PROVE  status'[j] # "none" /\ sess'[j] = sess[j]
  BY DEF TypeOK, RowMove, rows, Closes, Update, Claims, Inserts

\* The rows' own invariant: a connection id only before the claim, ids given
\* in order, and a session's job in flight is its only one and its latest.
RowInv ==
  /\ \A j \in Jobs : conn[j] => status[j] = "pending"
  /\ \A j \in Jobs : status[j] # "none" => sess[j] \in Sessions
  /\ \A j, k \in Jobs : status[j] # "none" /\ status[k] = "none" => j < k
  /\ \A j, k \in Jobs :
       status[j] \in Active /\ status[k] # "none" /\ sess[k] = sess[j] => k <= j
  /\ \A j, k \in Jobs :
       status[j] \in Active /\ status[k] \in Active /\ sess[k] = sess[j] => k = j

LEMMA RowInvStep == TypeOK /\ RowInv /\ RowMove => RowInv'
<1> SUFFICES ASSUME TypeOK, RowInv, RowMove PROVE RowInv'
  OBVIOUS
<1> USE TranscriptionAssumption DEF TypeOK, RowInv, Active
<1>1. CASE UNCHANGED rows
  BY <1>1 DEF rows
<1>2. CASE Closes
  BY <1>2 DEF Closes, Update
<1>3. CASE Claims
  BY <1>3 DEF Claims
<1>4. CASE Inserts
  <2>1. PICK j \in Jobs, x \in Sessions :
          /\ status[j] = "none" /\ \A k \in Jobs : status[k] = "none" => j <= k
          /\ ActiveOf(x) = {}
          /\ status' = [status EXCEPT ![j] = "pending"]
          /\ sess' = [sess EXCEPT ![j] = x]
          /\ conn' = [conn EXCEPT ![j] = TRUE]
    BY <1>4 DEF Inserts
  <2>2. \A k \in Jobs : status[k] \in Active => sess[k] # x
    BY <2>1 DEF ActiveOf, RowsOf
  <2>3. \A k \in Jobs : status[k] # "none" => k < j
    BY <2>1
  <2>4. \A k \in Jobs : k # j => status'[k] = status[k] /\ sess'[k] = sess[k] /\ conn'[k] = conn[k]
    BY <2>1
  <2>5. status'[j] = "pending" /\ sess'[j] = x
    BY <2>1
  <2>6. \A m, k \in Jobs : status'[m] # "none" /\ status'[k] = "none" => m < k
    BY <2>1, <2>3, <2>4, <2>5
  <2>7. \A m, k \in Jobs :
          status'[m] \in Active /\ status'[k] # "none" /\ sess'[k] = sess'[m] => k <= m
    <3> SUFFICES ASSUME NEW m \in Jobs, NEW k \in Jobs, status'[m] \in Active,
                        status'[k] # "none", sess'[k] = sess'[m]
                 PROVE  k <= m
      OBVIOUS
    <3>1. CASE m = j
      BY <2>3, <2>4, <3>1
    <3>2. CASE m # j
      <4>1. k # j
        BY <2>2, <2>4, <2>5, <3>2
      <4> QED
        BY <2>4, <3>2, <4>1
    <3> QED
      BY <3>1, <3>2
  <2>8. \A m, k \in Jobs :
          status'[m] \in Active /\ status'[k] \in Active /\ sess'[k] = sess'[m] => k = m
    <3> SUFFICES ASSUME NEW m \in Jobs, NEW k \in Jobs, status'[m] \in Active,
                        status'[k] \in Active, sess'[k] = sess'[m], k # m
                 PROVE  FALSE
      OBVIOUS
    <3>1. m # j
      BY <2>2, <2>4, <2>5
    <3>2. k # j
      BY <2>2, <2>4, <2>5, <3>1
    <3>3. status[m] \in Active /\ status[k] \in Active /\ sess[k] = sess[m]
      BY <2>4, <3>1, <3>2
    <3>4. \A a, b \in Jobs :
            status[a] \in Active /\ status[b] \in Active /\ sess[b] = sess[a] => b = a
      BY DEF RowInv
    <3> HIDE DEF RowInv, TypeOK, Active
    <3> QED
      BY <3>3, <3>4
  <2>9. \A k \in Jobs : (conn'[k] => status'[k] = "pending")
                        /\ (status'[k] # "none" => sess'[k] \in Sessions)
    BY <2>4, <2>5, <2>1
  <2> QED
    BY <2>6, <2>7, <2>8, <2>9
<1> QED
  BY <1>1, <1>2, <1>3, <1>4 DEF RowMove

LEMMA ReferredStep == TypeOK /\ Referred /\ [Next]_vars => Referred'
<1> SUFFICES ASSUME TypeOK, Referred, [Next]_vars PROVE Referred'
  OBVIOUS
<1>1. \A j \in Jobs : status[j] # "none" => status'[j] # "none"
  BY RowMoves, RowStays
<1> USE DEF TypeOK, vars, rows, cache, worker
<1> DEFINE Moves(j) == co'[j] # "none" => co[j] # "none" \/ status'[j] # "none"
<1>2. ASSUME NEW t \in Jobs PROVE Moves(t)
  <2> USE DEF Coroutine
  <2>1. ASSUME NEW c \in Clients, NEW x \in Sessions, Ask(c, x) PROVE UNCHANGED co
    BY <2>1 DEF Ask
  <2>2. ASSUME NEW c \in Clients, Refused(c) \/ ClientStep(c) \/ WebCrash(c) PROVE UNCHANGED co
    BY <2>2 DEF Refused, ClientStep, Look, CloseDead, Create, Enqueue, CloseUnqueued, Show,
       NotFound, WebCrash
  <2>3. ASSUME NEW j \in Jobs, Start(j) PROVE Moves(t)
    BY <2>3 DEF Start
  <2>4. ASSUME NEW j \in Jobs, TakeSlot(j) \/ BeginThread(j) \/ Fail(j) \/ Finish(j) \/ Cancel(j)
        PROVE  Moves(t)
    BY <2>4 DEF TakeSlot, BeginThread, Fail, Finish, Cancel
  <2>5. ASSUME NEW j \in Jobs, Persist(j) PROVE Moves(t)
    BY <2>5 DEF Persist
  <2>6. ASSUME NEW j \in Jobs, ThreadStep(j) \/ Sweep(j) \/ SweepQuiet(j) \/ OrphanFails(j)
        PROVE  UNCHANGED co
    BY <2>6 DEF ThreadStep, Downloaded, Extracted, Uploaded, Transcribed, ThreadFails, Sweep,
       SweepQuiet, OrphanFails
  <2>7. ASSUME NEW x \in Sessions, Delete(x) PROVE UNCHANGED co
    BY <2>7 DEF Delete
  <2>8. CASE Kill \/ RedisRestart \/ UNCHANGED vars
    BY <2>8 DEF Kill, RedisRestart
  <2> QED
    BY <2>1, <2>2, <2>3, <2>4, <2>5, <2>6, <2>7, <2>8 DEF Next, CoroutineStep
<1> DEFINE Names(c) ==
      client'[c].pc \in Referring =>
        \/ client[c].pc \in Referring /\ client'[c].job = client[c].job
        \/ client'[c].job \in Jobs /\ status'[client'[c].job] # "none"
<1>3. ASSUME NEW d \in Clients PROVE Names(d)
  <2> USE DEF Become, Goto, Referring, Idle
  <2>1. ASSUME NEW c \in Clients, NEW x \in Sessions, Ask(c, x) PROVE Names(d)
    BY <2>1 DEF Ask
  <2>0. ASSUME NEW c \in Clients, NEW state, Become(c, state),
               state.pc \in Referring => state.job \in Jobs /\ status'[state.job] # "none"
        PROVE  Names(d)
    BY <2>0
  <2>2. ASSUME NEW c \in Clients, Look(c) PROVE Names(d)
    <3>1. client[c] \in Open
      BY <2>2, OpenClient DEF Look
    <3>2. CASE LatestActive(client[c].session) = {}
      <4>1. [client[c] EXCEPT !.pc = "creating"].pc \notin Referring
        BY <3>1 DEF Open
      <4> QED
        BY <2>0, <2>2, <3>2, <4>1 DEF Look
    <3>3. ASSUME NEW j \in LatestActive(client[c].session),
                 Become(c, [client[c] EXCEPT !.pc = "closing", !.job = j,
                                             !.poll = client[c].pc = "following"])
          PROVE  Names(d)
      <4>1. j \in Jobs /\ status'[j] # "none"
        BY <1>1 DEF LatestActive, ActiveOf, RowsOf
      <4>2. [client[c] EXCEPT !.pc = "closing", !.job = j,
                              !.poll = client[c].pc = "following"].job = j
        BY <3>1 DEF Open
      <4> QED
        BY <2>0, <3>3, <4>1, <4>2
    <3>4. ASSUME NEW j \in Jobs, Become(c, [client[c] EXCEPT !.pc = "following", !.job = j])
          PROVE  Names(d)
      <4>1. [client[c] EXCEPT !.pc = "following", !.job = j].pc \notin Referring
        BY <3>1 DEF Open
      <4> QED
        BY <2>0, <3>4, <4>1
    <3>5. LatestActive(client[c].session) \subseteq Jobs
      BY DEF LatestActive, ActiveOf, RowsOf
    <3> QED
      BY <2>2, <3>2, <3>3, <3>4, <3>5 DEF Look
  <2>3. ASSUME NEW c \in Clients, Create(c) PROVE Names(d)
    <3>1. client[c] \in Open
      BY <2>3, OpenClient DEF Create
    <3>2. ASSUME NEW j \in Jobs,
                 Become(c, [client[c] EXCEPT !.pc = "following", !.job = j])
                 \/ /\ Become(c, [client[c] EXCEPT !.pc = "enqueuing", !.job = j])
                    /\ status' = [status EXCEPT ![j] = "pending"]
          PROVE  Names(d)
      BY <2>0, <3>1, <3>2 DEF Open
    <3>3. ActiveOf(client[c].session) \subseteq Jobs
      BY DEF ActiveOf, RowsOf
    <3>4. CASE Become(c, Idle)
      BY <2>0, <3>4
    <3> QED
      BY <2>3, <3>2, <3>3, <3>4 DEF Create
  <2>4. ASSUME NEW c \in Clients, CloseDead(c) PROVE Names(d)
    <3>1. client[c] \in Open
      BY <2>4, OpenClient DEF CloseDead
    <3> QED
      BY <2>4, <3>1 DEF CloseDead, Open
  <2>5. ASSUME NEW c \in Clients, Enqueue(c) PROVE Names(d)
    <3>1. client[c] \in Open
      BY <2>5, OpenClient DEF Enqueue
    <3> QED
      BY <2>5, <3>1 DEF Enqueue, Open
  <2>6. ASSUME NEW c \in Clients,
               Refused(c) \/ CloseUnqueued(c) \/ Show(c) \/ NotFound(c) \/ WebCrash(c)
        PROVE  Names(d)
    BY <2>6 DEF Refused, CloseUnqueued, Show, NotFound, WebCrash
  <2>7. ASSUME NEW j \in Jobs, CoroutineStep(j) \/ Cancel(j) PROVE UNCHANGED client
    BY <2>7 DEF CoroutineStep, Start, TakeSlot, BeginThread, Fail, Persist, Finish, Cancel
  <2>8. ASSUME NEW j \in Jobs, ThreadStep(j) \/ Sweep(j) \/ SweepQuiet(j) \/ OrphanFails(j)
        PROVE  UNCHANGED client
    BY <2>8 DEF ThreadStep, Downloaded, Extracted, Uploaded, Transcribed, ThreadFails, Sweep,
       SweepQuiet, OrphanFails
  <2>9. ASSUME NEW x \in Sessions, Delete(x) PROVE UNCHANGED client
    BY <2>9 DEF Delete
  <2>10. CASE Kill \/ RedisRestart \/ UNCHANGED vars
    BY <2>10 DEF Kill, RedisRestart
  <2> QED
    BY <2>1, <2>2, <2>3, <2>4, <2>5, <2>6, <2>7, <2>8, <2>9, <2>10 DEF Next, ClientStep
<1> QED
  BY <1>1, <1>2, <1>3 DEF Referred

\* The invariant of the rows and of whoever will write them.
Inv == TypeOK /\ Referred /\ RowInv

LEMMA InvInit == Init => Inv
  BY TypeInit DEF Init, Inv, Referred, Referring, RowInv, Active, Idle

LEMMA InvStep == Inv /\ [Next]_vars => Inv'
  BY TypeStep, ReferredStep, RowMoves, RowInvStep DEF Inv

LEMMA RowsRefine == Inv /\ [Next]_vars => [JobRow!Next]_(JobRow!jobRows)
<1> DEFINE life == [j \in Jobs |-> IF status[j] \in {"completed", "error"} THEN "closed"
                                   ELSE status[j]]
<1> SUFFICES ASSUME TypeOK, RowInv, RowMove
             PROVE  JobRow!Next \/ UNCHANGED <<life, sess, conn>>
  BY RowMoves DEF JobRow!jobRows, Inv
<1> USE DEF TypeOK, RowStatus, JobRow!InFlight
<1>1. CASE UNCHANGED rows
  BY <1>1 DEF rows
<1>2. CASE Closes
  <2>1. PICK j \in Jobs, st \in {"error", "completed"} :
          status[j] # "none" /\ Update(j, st) /\ UNCHANGED sess
    BY <1>2 DEF Closes
  <2>2. CASE status[j] \in Active
    <3>1. JobRow!Close(j)
      BY <2>1, <2>2 DEF Update, Active, JobRow!Close
    <3> QED
      BY <3>1 DEF JobRow!Next
  <2>3. CASE status[j] \notin Active
    <3>1. UNCHANGED conn
      BY <2>1, <2>3 DEF Update, RowInv, Active
    <3>2. UNCHANGED life
      BY <2>1, <2>3 DEF Update, Active
    <3> QED
      BY <2>1, <3>1, <3>2
  <2> QED
    BY <2>2, <2>3
<1>3. CASE Claims
  <2>1. PICK j \in Jobs : /\ status[j] = "pending"
                          /\ status' = [status EXCEPT ![j] = "running"]
                          /\ conn' = [conn EXCEPT ![j] = FALSE]
                          /\ UNCHANGED sess
    BY <1>3 DEF Claims
  <2>2. JobRow!Claim(j)
    BY <2>1 DEF JobRow!Claim
  <2> QED
    BY <2>2 DEF JobRow!Next
<1>4. CASE Inserts
  <2>1. PICK j \in Jobs, x \in Sessions :
          /\ status[j] = "none" /\ ActiveOf(x) = {}
          /\ status' = [status EXCEPT ![j] = "pending"]
          /\ sess' = [sess EXCEPT ![j] = x]
          /\ conn' = [conn EXCEPT ![j] = TRUE]
    BY <1>4 DEF Inserts
  <2>2. JobRow!Create(j, x)
    BY <2>1 DEF JobRow!Create, ActiveOf, RowsOf, Active
  <2> QED
    BY <2>2 DEF JobRow!Next
<1> QED
  BY <1>1, <1>2, <1>3, <1>4 DEF RowMove

\* Whoever creates, claims and closes transcript_jobs rows, in any order and
\* under every fault, keeps the promise of JobRows: one job in flight per
\* session, claimed once, a connection id dropped by the claim.
THEOREM RowsKeepPromise == Spec => JobRowsSpec
<1>1. Init => JobRow!Init
  BY DEF Init, JobRow!Init
<1> QED
  BY <1>1, InvInit, InvStep, RowsRefine, PTL DEF Spec, JobRowsSpec, JobRow!Spec

-----------------------------------------------------------------------------
\* Why nobody closes the row of a job at work: arq knows the job as running,
\* and whoever is about to close a row read that arq had lost or failed its
\* job, which no enqueue under way can then revive.
Untaken == spent \cap RowTakers = {}

AboutTo(c, label, j) == client[c].pc = label /\ client[c].job = j

LiveInv ==
  /\ \A j \in Jobs : co[j] # "none" => status[j] = "running" /\ queue[j] = "running"
  /\ \A j \in Jobs : status[j] = "none" => queue[j] = "none"
  /\ \A c \in Clients, j \in Jobs :
       /\ AboutTo(c, "closing", j) => queue[j] \in {"none", "failed"}
       /\ AboutTo(c, "enqueuing", j) => queue[j] = "none"
       /\ client[c].pc # "unqueued"
  /\ \A c, d \in Clients, j \in Jobs :
       AboutTo(c, "enqueuing", j) /\ (AboutTo(d, "enqueuing", j) \/ AboutTo(d, "closing", j))
       => c = d

\* A step of the worker, its threads or its queue moves the job it is about.
LEMMA LiveWorkerStep ==
  ASSUME Inv, LiveInv, Untaken', UNCHANGED client, NEW t \in Jobs,
         \/ \E j \in Jobs : \/ CoroutineStep(j) \/ Cancel(j) \/ ThreadStep(j)
                            \/ Sweep(j) \/ SweepQuiet(j) \/ OrphanFails(j)
         \/ Kill \/ RedisRestart \/ \E x \in Sessions : Delete(x)
         \/ UNCHANGED vars
  PROVE  /\ co'[t] # "none" => status'[t] = "running" /\ queue'[t] = "running"
         /\ status'[t] = "none" => queue'[t] = "none"
         /\ queue[t] = "none" => queue'[t] = "none"
         /\ queue[t] = "failed" => queue'[t] = "failed"
<1> DEFINE Part == /\ co'[t] # "none" => status'[t] = "running" /\ queue'[t] = "running"
                   /\ status'[t] = "none" => queue'[t] = "none"
                   /\ queue[t] = "none" => queue'[t] = "none"
                   /\ queue[t] = "failed" => queue'[t] = "failed"
<1>0. /\ co[t] # "none" => status[t] = "running" /\ queue[t] = "running"
      /\ status[t] = "none" => queue[t] = "none"
  BY DEF LiveInv
<1> USE DEF Inv, TypeOK, vars, rows, cache, worker, Coroutine, Queued, Thread
<1>1. ASSUME NEW j \in Jobs, Start(j) PROVE Part
  BY <1>0, <1>1 DEF Start
<1>2. ASSUME NEW j \in Jobs, TakeSlot(j) \/ BeginThread(j) PROVE Part
  BY <1>0, <1>2 DEF TakeSlot, BeginThread
<1>3. ASSUME NEW j \in Jobs, Fail(j) \/ Finish(j) \/ Cancel(j) PROVE Part
  <2>1. /\ co[j] # "none" /\ UNCHANGED <<sess, client>>
        /\ queue' = [queue EXCEPT ![j] = "failed"] \/ queue' = [queue EXCEPT ![j] = "finished"]
        /\ co' = [co EXCEPT ![j] = "none"]
        /\ UNCHANGED status \/ status' = [status EXCEPT ![j] = "error"]
           \/ status' = [status EXCEPT ![j] = "completed"]
    BY <1>3 DEF Fail, Finish, Cancel, TryUpdate, Update
  <2>2. queue[j] = "running" /\ status[j] = "running"
    BY <2>1 DEF LiveInv
  <2> QED
    BY <1>0, <2>1, <2>2
<1>4. ASSUME NEW j \in Jobs, Persist(j) PROVE Part
  <2>1. queue[j] = "running" /\ status[j] = "running"
    BY <1>4 DEF LiveInv, Persist
  <2> QED
    BY <1>0, <1>4, <2>1 DEF Persist, Update
<1>5. ASSUME NEW j \in Jobs, ThreadStep(j) PROVE Part
  BY <1>0, <1>5 DEF ThreadStep, Downloaded, Extracted, Uploaded, Transcribed, ThreadFails
<1>6. ASSUME NEW j \in Jobs, Sweep(j) PROVE Part
  BY <1>0, <1>6 DEF Sweep, Update, Active
<1>7. ASSUME NEW j \in Jobs, OrphanFails(j) PROVE Part
  BY <1>0, <1>7 DEF OrphanFails
<1>8. ~Spend({"slow"}) /\ ~Spend({"restart"})
  BY DEF Spend, Untaken, RowTakers
<1>9. ASSUME NEW x \in Sessions, Delete(x) PROVE Part
  BY <1>0, <1>9 DEF Delete
<1>10. CASE Kill
  BY <1>0, <1>10 DEF Kill
<1>11. CASE UNCHANGED vars
  BY <1>0, <1>11
<1> QED
  BY <1>1, <1>2, <1>3, <1>4, <1>5, <1>6, <1>7, <1>8, <1>9, <1>10, <1>11
     DEF CoroutineStep, SweepQuiet, RedisRestart

\* A client that goes on without naming a job to close or enqueue.
LEMMA LiveQuietClient ==
  ASSUME Inv, LiveInv, NEW c \in Clients, NEW state, Become(c, state),
         state.pc \notin Referring, UNCHANGED <<status, queue, co>>
  PROVE  LiveInv'
  BY DEF Inv, TypeOK, LiveInv, AboutTo, Become, Referring

LEMMA LiveStep == Inv /\ LiveInv /\ Untaken' /\ [Next]_vars => LiveInv'
<1> SUFFICES ASSUME Inv, LiveInv, Untaken', [Next]_vars PROVE LiveInv'
  OBVIOUS
<1> USE DEF vars, rows, cache, worker
<1>1. ASSUME UNCHANGED client,
             \/ \E j \in Jobs : \/ CoroutineStep(j) \/ Cancel(j) \/ ThreadStep(j)
                                \/ Sweep(j) \/ SweepQuiet(j) \/ OrphanFails(j)
             \/ Kill \/ RedisRestart \/ \E x \in Sessions : Delete(x)
             \/ UNCHANGED vars
      PROVE  LiveInv'
  <2>1. \A t \in Jobs : /\ co'[t] # "none" => status'[t] = "running" /\ queue'[t] = "running"
                        /\ status'[t] = "none" => queue'[t] = "none"
                        /\ queue[t] = "none" => queue'[t] = "none"
                        /\ queue[t] = "failed" => queue'[t] = "failed"
    BY <1>1, LiveWorkerStep
  <2> QED
    BY <1>1, <2>1 DEF LiveInv, AboutTo
<1>2. ASSUME NEW c \in Clients, NEW x \in Sessions, Ask(c, x) PROVE LiveInv'
  BY <1>2, LiveQuietClient DEF Ask, Referring
<1>3. ASSUME NEW c \in Clients, Refused(c) \/ Show(c) \/ NotFound(c) PROVE LiveInv'
  BY <1>3, LiveQuietClient DEF Refused, Show, NotFound, Referring, Idle
<1>4. ASSUME NEW c \in Clients, WebCrash(c) PROVE LiveInv'
  BY <1>4, LiveQuietClient DEF WebCrash, Referring, Idle
<1>5. ASSUME NEW c \in Clients, Look(c) PROVE LiveInv'
  <2>1. client[c] \in Open
    BY <1>5, OpenClient DEF Look, Inv
  <2>2. UNCHANGED <<status, queue, co>>
    BY <1>5 DEF Look
  <2>3. CASE LatestActive(client[c].session) = {}
    <3>1. [client[c] EXCEPT !.pc = "creating"].pc \notin Referring
      BY <2>1 DEF Open, Referring
    <3> QED
      BY <1>5, <2>2, <2>3, <3>1, LiveQuietClient DEF Look, Referring, Idle
  <2>4. ASSUME NEW j \in Jobs, Become(c, [client[c] EXCEPT !.pc = "following", !.job = j])
        PROVE  LiveInv'
    <3>1. [client[c] EXCEPT !.pc = "following", !.job = j].pc \notin Referring
      BY <2>1 DEF Open, Referring
    <3> QED
      BY <2>2, <2>4, <3>1, LiveQuietClient
  <2>5. ASSUME NEW j \in Jobs, Dead(j),
               Become(c, [client[c] EXCEPT !.pc = "closing", !.job = j,
                                           !.poll = client[c].pc = "following"])
        PROVE  LiveInv'
    <3>1. client'[c].pc = "closing" /\ client'[c].job = j
      BY <2>1, <2>5 DEF Become, Open, Inv, TypeOK
    <3>2. \A d \in Clients : d # c => client'[d] = client[d]
      BY <2>5 DEF Become, Inv, TypeOK
    <3>3. /\ queue[j] \in {"none", "failed"}
          /\ \A d \in Clients : ~AboutTo(d, "enqueuing", j)
      BY <2>5 DEF Dead, Enqueuing, AboutTo, LiveInv
    <3> QED
      BY <2>2, <3>1, <3>2, <3>3 DEF LiveInv, AboutTo
  <2>6. LatestActive(client[c].session) \subseteq Jobs
    BY DEF LatestActive, ActiveOf, RowsOf
  <2> QED
    BY <1>5, <2>3, <2>4, <2>5, <2>6 DEF Look
<1>6. ASSUME NEW c \in Clients, CloseDead(c) PROVE LiveInv'
  <2>1. client[c] \in Open /\ client[c].pc = "closing"
    BY <1>6, OpenClient DEF CloseDead, Inv
  <2> DEFINE j == client[c].job
  <2>2. j \in Jobs /\ status[j] # "none" /\ queue[j] \in {"none", "failed"} /\ co[j] = "none"
    BY <2>1 DEF LiveInv, Inv, Referred, Referring, AboutTo
  <2>3. UNCHANGED <<queue, co>>
    BY <1>6 DEF CloseDead
  <2>4. \A k \in Jobs : (k # j => status'[k] = status[k]) /\ (status[k] # "none" => status'[k] # "none")
    BY <1>6, <2>2 DEF CloseDead, TryUpdate, Update, Inv, TypeOK
  <2>5. /\ client'[c].pc \notin Referring
        /\ \A d \in Clients : d # c => client'[d] = client[d]
    BY <1>6, <2>1 DEF CloseDead, Goto, Become, Open, Idle, Referring, Inv, TypeOK
  <2> QED
    BY <2>2, <2>3, <2>4, <2>5 DEF LiveInv, AboutTo, Referring
<1>7. ASSUME NEW c \in Clients, Create(c) PROVE LiveInv'
  <2>1. client[c] \in Open
    BY <1>7, OpenClient DEF Create, Inv
  <2>2. UNCHANGED <<queue, co>>
    BY <1>7 DEF Create
  <2>3. CASE Become(c, Idle) /\ UNCHANGED rows
    BY <2>2, <2>3, LiveQuietClient DEF Idle, Referring
  <2>4. ASSUME NEW j \in Jobs, Become(c, [client[c] EXCEPT !.pc = "following", !.job = j]),
               UNCHANGED rows
        PROVE  LiveInv'
    <3>1. [client[c] EXCEPT !.pc = "following", !.job = j].pc \notin Referring
      BY <2>1 DEF Open, Referring
    <3> QED
      BY <2>2, <2>4, <3>1, LiveQuietClient
  <2>5. ASSUME NEW j \in Jobs, status[j] = "none", status' = [status EXCEPT ![j] = "pending"],
               Become(c, [client[c] EXCEPT !.pc = "enqueuing", !.job = j])
        PROVE  LiveInv'
    <3>1. client'[c].pc = "enqueuing" /\ client'[c].job = j
      BY <2>1, <2>5 DEF Become, Open, Inv, TypeOK
    <3>2. \A d \in Clients : d # c => client'[d] = client[d]
      BY <2>5 DEF Become, Inv, TypeOK
    <3>3. queue[j] = "none" /\ co[j] = "none"
      BY <2>5 DEF LiveInv
    <3>4. \A d \in Clients : ~AboutTo(d, "enqueuing", j) /\ ~AboutTo(d, "closing", j)
      BY <2>5 DEF AboutTo, Inv, Referred, Referring
    <3>5. \A k \in Jobs : (k # j => status'[k] = status[k]) /\ status'[j] = "pending"
      BY <2>5 DEF Inv, TypeOK
    <3> QED
      BY <2>2, <3>1, <3>2, <3>3, <3>4, <3>5 DEF LiveInv, AboutTo
  <2>6. ActiveOf(client[c].session) \subseteq Jobs
    BY DEF ActiveOf, RowsOf
  <2> QED
    BY <1>7, <2>3, <2>4, <2>5, <2>6 DEF Create
<1>8. ASSUME NEW c \in Clients, Enqueue(c) PROVE LiveInv'
  <2>1. client[c] \in Open /\ client[c].pc = "enqueuing"
    BY <1>8, OpenClient DEF Enqueue, Inv
  <2> DEFINE j == client[c].job
  <2>2. /\ j \in Jobs /\ status[j] # "none" /\ co[j] = "none"
        /\ \A d \in Clients : d # c => ~AboutTo(d, "enqueuing", j) /\ ~AboutTo(d, "closing", j)
    BY <2>1 DEF LiveInv, Inv, Referred, Referring, AboutTo
  <2>3. ~Spend({"enqueue"})
    BY DEF Spend, Untaken, RowTakers
  <2>4. UNCHANGED <<status, co>> /\ \A k \in Jobs : k # j => queue'[k] = queue[k]
    BY <1>8, <2>3 DEF Enqueue, Inv, TypeOK
  <2>5. /\ client'[c].pc \notin Referring
        /\ \A d \in Clients : d # c => client'[d] = client[d]
    BY <1>8, <2>1, <2>3 DEF Enqueue, Goto, Open, Referring, Inv, TypeOK
  <2> QED
    BY <2>2, <2>4, <2>5 DEF LiveInv, AboutTo, Referring
<1>9. ASSUME NEW c \in Clients, CloseUnqueued(c) PROVE LiveInv'
  <2>1. client[c] \in Open /\ client[c].pc = "unqueued"
    BY <1>9, OpenClient DEF CloseUnqueued, Inv
  <2>2. client[c].job \in Jobs
    BY <2>1 DEF Inv, Referred, Referring
  <2> QED
    BY <2>1, <2>2 DEF LiveInv
<1>10. ASSUME NEW j \in Jobs, \/ CoroutineStep(j) \/ Cancel(j) \/ ThreadStep(j)
                              \/ Sweep(j) \/ SweepQuiet(j) \/ OrphanFails(j)
       PROVE  UNCHANGED client
  BY <1>10 DEF CoroutineStep, Start, TakeSlot, BeginThread, Fail, Persist, Finish, Cancel,
     ThreadStep, Downloaded, Extracted, Uploaded, Transcribed, ThreadFails, Sweep, SweepQuiet,
     OrphanFails
<1>11. ASSUME Kill \/ RedisRestart \/ (\E x \in Sessions : Delete(x)) \/ UNCHANGED vars
       PROVE  UNCHANGED client
  BY <1>11 DEF Kill, RedisRestart, Delete
<1> QED
  BY <1>1, <1>2, <1>3, <1>4, <1>5, <1>6, <1>7, <1>8, <1>9, <1>10, <1>11 DEF Next, ClientStep

LEMMA LiveInit == Init => LiveInv
  BY DEF Init, LiveInv, AboutTo, Idle

LEMMA FaultsStay ==
  ASSUME TypeOK, [Next]_vars
  PROVE  spent \subseteq spent'
<1>1. UNCHANGED spent \/ \E kinds : Spend(kinds)
  <2> USE DEF vars, rows, cache, worker
  <2>1. ASSUME NEW c \in Clients, NEW x \in Sessions, Ask(c, x) PROVE UNCHANGED spent
    BY <2>1 DEF Ask
  <2>2. ASSUME NEW c \in Clients, Refused(c) \/ ClientStep(c) \/ WebCrash(c)
        PROVE  UNCHANGED spent \/ \E kinds : Spend(kinds)
    BY <2>2 DEF Refused, ClientStep, Look, CloseDead, Create, Enqueue, CloseUnqueued, Show,
       NotFound, WebCrash, TryUpdate
  <2>3. ASSUME NEW j \in Jobs, CoroutineStep(j) \/ Cancel(j) \/ SweepQuiet(j)
        PROVE  UNCHANGED spent \/ \E kinds : Spend(kinds)
    BY <2>3 DEF CoroutineStep, Start, TakeSlot, BeginThread, Fail, Persist, Finish, Cancel,
       SweepQuiet, TryUpdate
  <2>4. ASSUME NEW j \in Jobs, ThreadStep(j) \/ Sweep(j) \/ OrphanFails(j)
        PROVE  UNCHANGED spent
    BY <2>4 DEF ThreadStep, Downloaded, Extracted, Uploaded, Transcribed, ThreadFails, Sweep,
       OrphanFails
  <2>5. ASSUME NEW x \in Sessions, Delete(x) PROVE UNCHANGED spent \/ \E kinds : Spend(kinds)
    BY <2>5 DEF Delete
  <2>6. CASE Kill \/ RedisRestart \/ UNCHANGED vars
    BY <2>6 DEF Kill, RedisRestart
  <2> QED
    BY <2>1, <2>2, <2>3, <2>4, <2>5, <2>6 DEF Next
<1> QED
  BY <1>1 DEF Spend

\* As long as Redis forgets nothing, no enqueue fails and no stage outlasts
\* the sweeper's hour, a job at work keeps its row: for any number of clients,
\* and with cancellations, killed workers, failed writes and deletes.
THEOREM LiveKeepsRow == Spec => []LiveJobKeepsRow
<1> DEFINE I == Inv /\ (Untaken => LiveInv)
<1>1. Init => I
  BY InvInit, LiveInit
<1>2. I /\ [Next]_vars => I'
  <2> SUFFICES ASSUME I, [Next]_vars PROVE I'
    OBVIOUS
  <2>1. Untaken' => Untaken
    BY FaultsStay DEF Untaken, Inv
  <2> QED
    BY <2>1, InvStep, LiveStep
<1>3. I => LiveJobKeepsRow
  BY DEF LiveJobKeepsRow, Untaken, LiveInv
<1> QED
  BY <1>1, <1>2, <1>3, PTL DEF Spec

-----------------------------------------------------------------------------
\* The threads.  A thread starts from a claimed row, and works for Gladia only
\* while its coroutine awaits it with a slot, as long as nothing is cancelled.
WorkInv ==
  /\ \A j \in Jobs : status[j] \in {"none", "pending"} => co[j] = "none" /\ th[j] = "none"
  /\ "cancel" \notin spent => \A j \in Jobs : th[j] \in AtWork => co[j] = "working"

LEMMA WorkInit == Init => WorkInv
  BY DEF Init, WorkInv, AtWork, Unreported

LEMMA WorkStep == Inv /\ WorkInv /\ [Next]_vars => WorkInv'
<1> SUFFICES ASSUME Inv, WorkInv, [Next]_vars PROVE WorkInv'
  OBVIOUS
<1> USE DEF vars, rows, cache, worker
<1>1. \A j \in Jobs : status'[j] \in {"none", "pending"} => status[j] \in {"none", "pending"}
  <2>1. RowMove
    BY RowMoves DEF Inv
  <2> QED
    BY <2>1 DEF RowMove, Closes, Update, Claims, Inserts, Inv, TypeOK
<1>2. "cancel" \notin spent' => "cancel" \notin spent
  BY FaultsStay DEF Inv
<1> DEFINE Part(t) ==
      /\ co'[t] # "none" \/ th'[t] # "none" =>
           co[t] # "none" \/ th[t] # "none" \/ status'[t] = "running"
      /\ "cancel" \notin spent' /\ th'[t] \in AtWork => co'[t] = "working"
<1>3. ASSUME NEW t \in Jobs PROVE Part(t)
  <2>0. /\ "cancel" \notin spent /\ th[t] \in AtWork => co[t] = "working"
        /\ status[t] \in {"none", "pending"} => co[t] = "none" /\ th[t] = "none"
    BY DEF WorkInv
  <2> USE DEF Inv, TypeOK, Coroutine, Thread, Report, AtWork, Unreported
  <2>1. CASE UNCHANGED <<co, th>>
    BY <1>2, <2>0, <2>1
  <2>2. ASSUME NEW c \in Clients, NEW x \in Sessions, Ask(c, x) PROVE UNCHANGED <<co, th>>
    BY <2>2 DEF Ask
  <2>3. ASSUME NEW c \in Clients, Refused(c) \/ ClientStep(c) \/ WebCrash(c)
        PROVE  UNCHANGED <<co, th>>
    BY <2>3 DEF Refused, ClientStep, Look, CloseDead, Create, Enqueue, CloseUnqueued, Show,
       NotFound, WebCrash
  <2>4. ASSUME NEW j \in Jobs, Start(j) PROVE Part(t)
    BY <1>2, <2>0, <2>4 DEF Start
  <2>5. ASSUME NEW j \in Jobs, TakeSlot(j) \/ BeginThread(j) \/ Fail(j) PROVE Part(t)
    BY <1>2, <2>0, <2>5 DEF TakeSlot, BeginThread, Fail
  <2>6. ASSUME NEW j \in Jobs, Persist(j) \/ Finish(j) PROVE Part(t)
    BY <1>2, <2>0, <2>6 DEF Persist, Finish
  <2>7. ASSUME NEW j \in Jobs, Cancel(j) PROVE Part(t)
    <3>1. "cancel" \in spent'
      BY <2>7 DEF Cancel, TryUpdate, Spend
    <3> QED
      BY <2>0, <2>7, <3>1 DEF Cancel
  <2>8. ASSUME NEW j \in Jobs, ThreadStep(j) PROVE Part(t)
    BY <1>2, <2>0, <2>8 DEF ThreadStep, Downloaded, Extracted, Uploaded, Transcribed, ThreadFails
  <2>9. ASSUME NEW j \in Jobs, Sweep(j) \/ SweepQuiet(j) \/ OrphanFails(j)
        PROVE  UNCHANGED <<co, th>>
    BY <2>9 DEF Sweep, SweepQuiet, OrphanFails
  <2>10. ASSUME NEW x \in Sessions, Delete(x) PROVE UNCHANGED <<co, th>>
    BY <2>10 DEF Delete
  <2>11. CASE Kill
    BY <2>0, <2>11 DEF Kill
  <2>12. CASE RedisRestart \/ UNCHANGED vars
    BY <2>1, <2>12 DEF RedisRestart
  <2> QED
    BY <2>1, <2>2, <2>3, <2>4, <2>5, <2>6, <2>7, <2>8, <2>9, <2>10, <2>11, <2>12
       DEF Next, CoroutineStep
<1> QED
  BY <1>1, <1>3 DEF WorkInv, Inv, TypeOK

\* Nobody pays Gladia twice at once for one session, for any number of
\* clients and sessions and any slots, unless one of the four faults the
\* property names lets the first job's row go: the thread's coroutine awaits
\* it, its row is therefore running, and a session has one such row.
THEOREM OnePaid == Spec => []OnePaidPerSession
<1> DEFINE I == Inv /\ WorkInv /\ (Untaken => LiveInv)
<1>1. Init => I
  BY InvInit, WorkInit, LiveInit
<1>2. I /\ [Next]_vars => I'
  <2> SUFFICES ASSUME I, [Next]_vars PROVE I'
    OBVIOUS
  <2>1. Untaken' => Untaken
    BY FaultsStay DEF Untaken, Inv
  <2> QED
    BY <2>1, InvStep, WorkStep, LiveStep
<1>3. I => OnePaidPerSession
  <2> SUFFICES ASSUME I, spent \cap (RowTakers \cup {"cancel"}) = {},
                      NEW j \in Jobs, NEW k \in Jobs,
                      th[j] = "transcribing", th[k] = "transcribing", sess[j] = sess[k]
               PROVE  j = k
    BY DEF OnePaidPerSession
  <2>1. Untaken /\ "cancel" \notin spent
    BY DEF Untaken
  <2>2. status[j] = "running" /\ status[k] = "running"
    BY <2>1 DEF WorkInv, LiveInv, AtWork
  <2> QED
    BY <2>2 DEF Inv, RowInv, Active
<1> QED
  BY <1>1, <1>2, <1>3, PTL DEF Spec

\* The semaphore's count.
SlotInv == IsFiniteSet(Holders) /\ Cardinality(Holders) <= Slots

LEMMA FewerHolders ==
  ASSUME SlotInv, Holders' \subseteq Holders
  PROVE  SlotInv'
<1>1. IsFiniteSet(Holders') /\ Cardinality(Holders') <= Cardinality(Holders)
  BY FS_Subset DEF SlotInv
<1>2. Cardinality(Holders) \in Nat /\ Cardinality(Holders') \in Nat
  BY <1>1, FS_CardinalityType DEF SlotInv
<1> QED
  BY <1>1, <1>2, TranscriptionAssumption DEF SlotInv

LEMMA SlotStep == TypeOK /\ SlotInv /\ [Next]_vars => SlotInv'
<1> SUFFICES ASSUME TypeOK, SlotInv, [Next]_vars PROVE SlotInv'
  OBVIOUS
<1> USE DEF TypeOK, vars, rows, cache, worker, Coroutine
<1>1. CASE UNCHANGED co
  BY <1>1, FewerHolders DEF Holders
<1>2. ASSUME NEW c \in Clients, NEW x \in Sessions, Ask(c, x) PROVE UNCHANGED co
  BY <1>2 DEF Ask
<1>3. ASSUME NEW c \in Clients, Refused(c) \/ ClientStep(c) \/ WebCrash(c) PROVE UNCHANGED co
  BY <1>3 DEF Refused, ClientStep, Look, CloseDead, Create, Enqueue, CloseUnqueued, Show,
     NotFound, WebCrash
<1>4. ASSUME NEW j \in Jobs, TakeSlot(j) PROVE SlotInv'
  <2>1. Holders' = Holders \cup {j} /\ j \notin Holders
    BY <1>4 DEF TakeSlot, Holders
  <2>2. IsFiniteSet(Holders') /\ Cardinality(Holders') = Cardinality(Holders) + 1
    BY <2>1, FS_AddElement DEF SlotInv
  <2>3. Cardinality(Holders) \in Nat
    BY FS_CardinalityType DEF SlotInv
  <2> QED
    BY <1>4, <2>2, <2>3, TranscriptionAssumption DEF TakeSlot, SlotInv
<1>5. ASSUME NEW j \in Jobs, Start(j) \/ BeginThread(j) \/ Fail(j) \/ Persist(j) \/ Finish(j)
             \/ Cancel(j)
      PROVE  Holders' \subseteq Holders
  BY <1>5 DEF Start, BeginThread, Fail, Persist, Finish, Cancel, Holders
<1>6. ASSUME NEW j \in Jobs, ThreadStep(j) \/ Sweep(j) \/ SweepQuiet(j) \/ OrphanFails(j)
      PROVE  UNCHANGED co
  BY <1>6 DEF ThreadStep, Downloaded, Extracted, Uploaded, Transcribed, ThreadFails, Sweep,
     SweepQuiet, OrphanFails
<1>7. ASSUME NEW x \in Sessions, Delete(x) PROVE UNCHANGED co
  BY <1>7 DEF Delete
<1>8. CASE Kill
  BY <1>8, FewerHolders DEF Kill, Holders
<1>9. CASE RedisRestart \/ UNCHANGED vars
  BY <1>9, <1>1 DEF RedisRestart
<1> QED
  BY <1>1, <1>2, <1>3, <1>4, <1>5, <1>6, <1>7, <1>8, <1>9, FewerHolders DEF Next, CoroutineStep

\* Without cancellations no more threads than slots download, extract, upload
\* or wait for Gladia, for any number of jobs and slots.
THEOREM SlotsHold == Spec => []WithinSlots
<1> DEFINE I == Inv /\ WorkInv /\ SlotInv
<1>1. Init => I
  <2> SUFFICES ASSUME Init PROVE SlotInv
    BY InvInit, WorkInit
  <2>1. Holders = {}
    BY DEF Init, Holders
  <2> QED
    BY <2>1, FS_EmptySet, TranscriptionAssumption DEF SlotInv
<1>2. I /\ [Next]_vars => I'
  BY InvStep, WorkStep, SlotStep DEF Inv
<1>3. I => WithinSlots
  <2> SUFFICES ASSUME I, "cancel" \notin spent
               PROVE  Cardinality({j \in Jobs : th[j] \in AtWork}) <= Slots
    BY DEF WithinSlots
  <2>1. {j \in Jobs : th[j] \in AtWork} \subseteq Holders
    BY DEF WorkInv, Holders
  <2>2. /\ Cardinality({j \in Jobs : th[j] \in AtWork}) <= Cardinality(Holders)
        /\ IsFiniteSet({j \in Jobs : th[j] \in AtWork})
    BY <2>1, FS_Subset DEF SlotInv
  <2>3. /\ Cardinality({j \in Jobs : th[j] \in AtWork}) \in Nat
        /\ Cardinality(Holders) \in Nat
    BY <2>2, FS_CardinalityType DEF SlotInv
  <2> QED
    BY <2>2, <2>3, TranscriptionAssumption DEF SlotInv
<1> QED
  BY <1>1, <1>2, <1>3, PTL DEF Spec

-----------------------------------------------------------------------------
\* The cache.  A row's session is stamped before the row exists, a job says
\* completed only after its transcript is saved, and a transcript is the work
\* of one of the session's own jobs.
SaveInv ==
  /\ "delete" \notin spent =>
       /\ \A j \in Jobs : status[j] # "none" => Visible(sess[j])
       /\ \A j \in Jobs : status[j] = "completed" \/ co[j] = "saved" => has[sess[j]]
  /\ \A x \in Sessions :
       source[x] # NoJob => status[source[x]] # "none" /\ sess[source[x]] = x

LEMMA SaveInit == Init => SaveInv
  BY DEF Init, SaveInv

LEMMA SaveStep == Inv /\ SaveInv /\ [Next]_vars => SaveInv'
<1> SUFFICES ASSUME Inv, SaveInv, [Next]_vars PROVE SaveInv'
  OBVIOUS
<1> USE DEF vars, rows, cache, worker
<1>0. RowMove
  BY RowMoves DEF Inv
<1>1. \A j \in Jobs : status[j] # "none" => status'[j] # "none" /\ sess'[j] = sess[j]
  BY <1>0, RowStays DEF Inv
<1>2. \A j \in Jobs : status'[j] # "none" /\ status[j] = "none" => status'[j] = "pending"
  BY <1>0 DEF RowMove, Closes, Update, Claims, Inserts, Inv, TypeOK
<1>3. "delete" \notin spent' => "delete" \notin spent
  BY FaultsStay DEF Inv
<1>4. \A j \in Jobs : /\ status[j] # "none" => sess[j] \in Sessions
                      /\ co[j] # "none" => status[j] # "none"
  BY DEF Inv, RowInv, Referred
\* A step that writes neither the cache nor a row's completion.
<1>5. ASSUME UNCHANGED <<has, source>>, \A x \in Sessions : Visible(x) => Visible(x)',
             \A j \in Jobs : status'[j] # "none" /\ status[j] = "none" =>
                               cached'[sess'[j]] = "stamped",
             \A j \in Jobs : status'[j] = "completed" \/ co'[j] = "saved" =>
                               status[j] = "completed" \/ co[j] = "saved"
      PROVE  SaveInv'
  <2>1. ASSUME "delete" \notin spent', NEW j \in Jobs, status'[j] # "none"
        PROVE  cached'[sess'[j]] = "stamped"
    BY <1>1, <1>3, <1>4, <1>5, <2>1 DEF SaveInv, Visible
  <2>2. ASSUME "delete" \notin spent', NEW j \in Jobs, status'[j] = "completed" \/ co'[j] = "saved"
        PROVE  has'[sess'[j]]
    BY <1>1, <1>3, <1>4, <1>5, <2>2 DEF SaveInv
  <2>3. ASSUME NEW x \in Sessions, source'[x] # NoJob
        PROVE  status'[source'[x]] # "none" /\ sess'[source'[x]] = x
    BY <1>1, <1>5, <2>3 DEF SaveInv, Inv, TypeOK
  <2> QED
    BY <2>1, <2>2, <2>3 DEF SaveInv, Visible
<1>6. ASSUME UNCHANGED <<has, source, cached>>,
             \A j \in Jobs : status'[j] # "none" => status[j] # "none",
             \A j \in Jobs : status'[j] = "completed" \/ co'[j] = "saved" =>
                               status[j] = "completed" \/ co[j] = "saved"
      PROVE  SaveInv'
  BY <1>5, <1>6 DEF Visible
<1> USE DEF Inv, TypeOK, Coroutine
<1>7. CASE UNCHANGED <<status, co, cached, has, source>>
  BY <1>6, <1>7
<1>8. ASSUME NEW c \in Clients, NEW x \in Sessions, Ask(c, x)
      PROVE  UNCHANGED <<status, co, cached, has, source>>
  BY <1>8 DEF Ask
<1>9. ASSUME NEW c \in Clients,
             Refused(c) \/ Look(c) \/ Enqueue(c) \/ Show(c) \/ NotFound(c) \/ WebCrash(c)
      PROVE  UNCHANGED <<status, co, cached, has, source>>
  BY <1>9 DEF Refused, Look, Enqueue, Show, NotFound, WebCrash
<1>10. ASSUME NEW c \in Clients, CloseDead(c) \/ CloseUnqueued(c) PROVE SaveInv'
  <2>1. UNCHANGED <<co, cached, has, source>>
    BY <1>10 DEF CloseDead, CloseUnqueued
  <2>2. client[c].job \in Jobs /\ status[client[c].job] # "none"
    BY <1>10 DEF CloseDead, CloseUnqueued, Referred, Referring
  <2>3. \A j \in Jobs : 
          status'[j] = status[j] \/ (status'[j] = "error" /\ status[j] # "none")
    BY <1>10, <2>2 DEF CloseDead, CloseUnqueued, TryUpdate, Update
  <2> QED
    BY <1>6, <2>1, <2>3
<1>11. ASSUME NEW c \in Clients, Create(c) PROVE SaveInv'
  <2>1. client[c] \in Open /\ client[c].session \in Sessions
    BY <1>11, OpenClient DEF Create, Open
  <2>2. UNCHANGED <<co, has, source>>
    BY <1>11 DEF Create
  <2>3. \A x \in Sessions : Visible(x) => Visible(x)'
    BY <1>11 DEF Create, Visible
  <2>4. \A j \in Jobs : status'[j] # "none" /\ status[j] = "none" =>
          cached'[sess'[j]] = "stamped"
    <3> SUFFICES ASSUME NEW j \in Jobs, status'[j] # "none", status[j] = "none"
                 PROVE  cached'[sess'[j]] = "stamped"
      OBVIOUS
    <3>1. /\ sess' = [sess EXCEPT ![j] = client[c].session]
          /\ cached' = [cached EXCEPT ![client[c].session] = "stamped"]
      BY <1>11 DEF Create
    <3> QED
      BY <2>1, <3>1
  <2>5. \A j \in Jobs : status'[j] = status[j] \/ status'[j] = "pending"
    BY <1>11 DEF Create
  <2> QED
    BY <1>5, <2>2, <2>3, <2>4, <2>5 DEF Visible
<1>12. ASSUME NEW j \in Jobs, Start(j) \/ TakeSlot(j) \/ BeginThread(j) PROVE SaveInv'
  BY <1>6, <1>12 DEF Start, TakeSlot, BeginThread
<1>13. ASSUME NEW j \in Jobs, Fail(j) \/ Cancel(j) PROVE SaveInv'
  <2>1. /\ UNCHANGED <<cached, has, source>> /\ co[j] # "none"
        /\ co' = [co EXCEPT ![j] = "none"]
        /\ UNCHANGED status \/ status' = [status EXCEPT ![j] = "error"]
    BY <1>13 DEF Fail, Cancel, TryUpdate, Update
  <2> QED
    BY <1>4, <1>6, <2>1
<1>14. ASSUME NEW j \in Jobs, Finish(j) PROVE SaveInv'
  <2>1. /\ UNCHANGED <<cached, has, source>> /\ co[j] = "saved"
        /\ co' = [co EXCEPT ![j] = "none"]
        /\ UNCHANGED status \/ status' = [status EXCEPT ![j] = "completed"]
    BY <1>14 DEF Finish, TryUpdate, Update
  <2> QED
    BY <1>4, <1>6, <2>1
<1>15. ASSUME NEW j \in Jobs, Persist(j) PROVE SaveInv'
  <2>1. co[j] = "working" /\ status[j] # "none" /\ sess[j] \in Sessions
    BY <1>4, <1>15 DEF Persist
  <2>2. CASE /\ cached' = [cached EXCEPT ![sess[j]] = IF @ = "absent" THEN "unstamped" ELSE @]
             /\ has' = [has EXCEPT ![sess[j]] = TRUE]
             /\ source' = [source EXCEPT ![sess[j]] = j]
             /\ co' = [co EXCEPT ![j] = "saved"]
             /\ UNCHANGED <<status, sess>>
    <3>1. \A x \in Sessions : Visible(x) => Visible(x)'
      BY <2>1, <2>2 DEF Visible
    <3>2. \A x \in Sessions : has[x] => has'[x]
      BY <2>1, <2>2
    <3>3. has'[sess[j]]
      BY <2>1, <2>2
    <3>4. ASSUME "delete" \notin spent', NEW k \in Jobs, status'[k] # "none"
          PROVE  cached'[sess'[k]] = "stamped"
      BY <1>3, <1>4, <2>2, <3>1, <3>4 DEF SaveInv, Visible
    <3>5. ASSUME "delete" \notin spent', NEW k \in Jobs, status'[k] = "completed" \/ co'[k] = "saved"
          PROVE  has'[sess'[k]]
      BY <1>3, <1>4, <2>2, <3>2, <3>3, <3>5 DEF SaveInv
    <3>6. ASSUME NEW x \in Sessions, source'[x] # NoJob
          PROVE  status'[source'[x]] # "none" /\ sess'[source'[x]] = x
      BY <2>1, <2>2, <3>6 DEF SaveInv
    <3> QED
      BY <3>4, <3>5, <3>6 DEF SaveInv, Visible
  <2>3. CASE /\ UNCHANGED cache /\ co' = [co EXCEPT ![j] = "none"]
             /\ UNCHANGED status \/ status' = [status EXCEPT ![j] = "error"]
    BY <1>6, <2>1, <2>3
  <2> QED
    BY <1>15, <2>2, <2>3 DEF Persist, Update
<1>16. ASSUME NEW j \in Jobs, ThreadStep(j) \/ OrphanFails(j)
       PROVE  UNCHANGED <<status, co, cached, has, source>>
  BY <1>16 DEF ThreadStep, Downloaded, Extracted, Uploaded, Transcribed, ThreadFails, OrphanFails
<1>17. ASSUME NEW j \in Jobs, Sweep(j) \/ SweepQuiet(j) PROVE SaveInv'
  BY <1>6, <1>17 DEF Sweep, SweepQuiet, Update, Active
<1>18. ASSUME NEW x \in Sessions, Delete(x) PROVE SaveInv'
  <2>1. "delete" \in spent' /\ UNCHANGED <<status, sess>>
        /\ source' = [source EXCEPT ![x] = NoJob]
    BY <1>18 DEF Delete, Spend
  <2> QED
    BY <2>1 DEF SaveInv
<1>19. CASE Kill
  BY <1>6, <1>19 DEF Kill
<1>20. CASE RedisRestart \/ UNCHANGED vars
  BY <1>7, <1>20 DEF RedisRestart
<1> QED
  BY <1>7, <1>8, <1>9, <1>10, <1>11, <1>12, <1>13, <1>14, <1>15, <1>16, <1>17, <1>18, <1>19,
     <1>20 DEF Next, ClientStep, CoroutineStep

LEMMA SaveCorrect == Spec => [](Inv /\ SaveInv)
<1>1. Init => Inv /\ SaveInv
  BY InvInit, SaveInit
<1>2. (Inv /\ SaveInv) /\ [Next]_vars => (Inv /\ SaveInv)'
  BY InvStep, SaveStep
<1> QED
  BY <1>1, <1>2, PTL DEF Spec

\* Unless an admin deletes a session, a job that says completed has its
\* transcript in the cache, even when saves, closes and claims fail.
THEOREM CompletedSaved == Spec => []CompletedIsSaved
<1>1. SaveInv => CompletedIsSaved
  BY DEF SaveInv, CompletedIsSaved
<1> QED
  BY <1>1, SaveCorrect, PTL

\* And a transcript lands on a row its organization can see.
THEOREM SavedIsVisible == Spec => []SavedUnderOrg
<1>1. Inv /\ SaveInv => SavedUnderOrg
  <2> SUFFICES ASSUME Inv, SaveInv, "delete" \notin spent, NEW x \in Sessions, source[x] # NoJob
               PROVE  Visible(x)
    BY DEF SavedUnderOrg
  <2>1. source[x] \in Jobs /\ status[source[x]] # "none" /\ sess[source[x]] = x
    BY DEF SaveInv, Inv, TypeOK
  <2> QED
    BY <2>1 DEF SaveInv
<1> QED
  BY <1>1, SaveCorrect, PTL

LEMMA JobNumbers == NoJob = 0 /\ Jobs \subseteq Nat /\ \A n \in Jobs \cup {NoJob} : n \in Nat
<1>1. Jobs \subseteq Nat
  BY TranscriptionAssumption
<1>2. NoJob = 0
  BY DEF NoJob
<1>3. NoJob \in Nat
  BY <1>2
<1> QED
  BY <1>1, <1>2, <1>3

\* A session's transcript is never replaced by that of an earlier job: the job
\* that saves has its row running, hence is the session's latest.
THEOREM NewestKept == Spec => NewestStays
<1> DEFINE I == Inv /\ SaveInv /\ (Untaken => LiveInv)
<1>1. Init => I
  BY InvInit, SaveInit, LiveInit
<1>2. I /\ [Next]_vars => I'
  <2> SUFFICES ASSUME I, [Next]_vars PROVE I'
    OBVIOUS
  <2>1. Untaken' => Untaken
    BY FaultsStay DEF Untaken, Inv
  <2> QED
    BY <2>1, InvStep, SaveStep, LiveStep
<1>3. I /\ [Next]_vars
      => [spent \cap RowTakers = {} =>
            \A x \in Sessions : source'[x] # NoJob => source'[x] >= source[x]]_vars
  <2> SUFFICES ASSUME I, [Next]_vars, Untaken, NEW x \in Sessions, source'[x] # NoJob
               PROVE  source'[x] >= source[x]
    BY DEF Untaken
  <2>0. source[x] \in Nat
    <3>1. source[x] \in Jobs \cup {NoJob}
      BY DEF Inv, TypeOK
    <3> QED
      BY <3>1, JobNumbers
  <2> USE DEF vars, rows, cache, worker
  <2>1. CASE UNCHANGED source
    BY <2>0, <2>1
  <2>2. ASSUME NEW j \in Jobs, Persist(j) PROVE source'[x] >= source[x]
    <3>1. co[j] = "working" /\ status[j] = "running"
      BY <2>2 DEF Persist, LiveInv
    <3>2. CASE x = sess[j] /\ source' = [source EXCEPT ![sess[j]] = j]
      <4>1. source'[x] = j
        BY <3>2 DEF Inv, TypeOK
      <4>2. CASE source[x] = NoJob
        BY <4>1, <4>2, TranscriptionAssumption DEF NoJob
      <4>3. CASE source[x] # NoJob
        <5>1. source[x] \in Jobs /\ status[source[x]] # "none" /\ sess[source[x]] = sess[j]
          BY <3>2, <4>3 DEF SaveInv, Inv, TypeOK
        <5> QED
          BY <3>1, <4>1, <5>1, TranscriptionAssumption DEF Inv, RowInv, Active
      <4> QED
        BY <4>2, <4>3
    <3>3. CASE x # sess[j] \/ UNCHANGED source
      BY <2>0, <2>2, <3>3 DEF Persist, Inv, TypeOK
    <3> QED
      BY <2>2, <3>2, <3>3 DEF Persist
  <2>3. ASSUME NEW c \in Clients, NEW y \in Sessions, Ask(c, y) PROVE UNCHANGED source
    BY <2>3 DEF Ask
  <2>4. ASSUME NEW c \in Clients, Refused(c) \/ ClientStep(c) \/ WebCrash(c)
        PROVE  UNCHANGED source
    BY <2>4 DEF Refused, ClientStep, Look, CloseDead, Create, Enqueue, CloseUnqueued, Show,
       NotFound, WebCrash
  <2>5. ASSUME NEW j \in Jobs, CoroutineStep(j) \/ Cancel(j), ~Persist(j)
        PROVE  UNCHANGED source
    BY <2>5 DEF CoroutineStep, Start, TakeSlot, BeginThread, Fail, Finish, Cancel
  <2>6. ASSUME NEW j \in Jobs, ThreadStep(j) \/ Sweep(j) \/ SweepQuiet(j) \/ OrphanFails(j)
        PROVE  UNCHANGED source
    BY <2>6 DEF ThreadStep, Downloaded, Extracted, Uploaded, Transcribed, ThreadFails, Sweep,
       SweepQuiet, OrphanFails
  <2>7. ASSUME NEW y \in Sessions, Delete(y) PROVE source'[x] >= source[x]
    <3>1. source'[x] = source[x]
      BY <2>7 DEF Delete, Inv, TypeOK
    <3> QED
      BY <2>0, <3>1
  <2>8. CASE Kill \/ RedisRestart \/ UNCHANGED vars
    BY <2>1, <2>8 DEF Kill, RedisRestart
  <2> QED
    BY <2>1, <2>2, <2>3, <2>4, <2>5, <2>6, <2>7, <2>8 DEF Next
<1> QED
  BY <1>1, <1>2, <1>3, PTL DEF Spec, NewestStays
=============================================================================
