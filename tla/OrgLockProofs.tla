--------------------------- MODULE OrgLockProofs ---------------------------
(***************************************************************************)
(* OrgLock's safety for any number of jobs and any time limit, lock life    *)
(* and sweeper threshold in the relation the code gives them.               *)
(***************************************************************************)
EXTENDS OrgLock, TLAPS

\* A key's remaining life and its owner's running time never add up to less
\* than the full life: this is what the time limit turns into "not expired".
LockLife ==
  \A j \in Jobs \ robbed : HoldsLock(j) => lock = j /\ lockTtl + elapsed[j] >= LockTTL
PlaceLife ==
  \A j \in Jobs \ robbed : Waits(j) => place = j /\ placeTtl + elapsed[j] >= LockTTL

\* A row is never silent for longer than its live job has run.
SilentWithinElapsed == \A j \in Jobs : Live(j) => silent[j] <= elapsed[j]

\* The clock of a job starts with the job, and only a job that held a key
\* can have been robbed of it.
QueuedFresh == \A j \in Jobs : pc[j] = "queued" => elapsed[j] = 0
RobbedHeldKeys == \A j \in robbed : pc[j] \notin {"queued", "started", "refused"}

IInv ==
  /\ TypeOK
  /\ LockLife
  /\ PlaceLife
  /\ SilentWithinElapsed
  /\ QueuedFresh
  /\ RobbedHeldKeys

LEMMA InitIInv == Init => IInv
  BY OrgLockAssumption
  DEF Init, IInv, TypeOK, LockLife, PlaceLife, SilentWithinElapsed, QueuedFresh,
      RobbedHeldKeys, PC, HoldsLock, Waits, Live

LEMMA NextIInv == IInv /\ [Next]_vars => IInv'
<1> SUFFICES ASSUME IInv, [Next]_vars PROVE IInv'
  OBVIOUS
<1> USE OrgLockAssumption
    DEF IInv, TypeOK, LockLife, PlaceLife, SilentWithinElapsed, QueuedFresh,
        RobbedHeldKeys, PC, HoldsLock, Waits, Live, Goto, keys,
        SetLock, SetPlace, ReleaseLock, ReleasePlace, KeepLock, KeepPlace
<1>1. ASSUME NEW j \in Jobs, Start(j) PROVE IInv'
  BY <1>1 DEF Start
<1>2. ASSUME NEW j \in Jobs, TakeLock(j) PROVE IInv'
  BY <1>2 DEF TakeLock
<1>3. ASSUME NEW j \in Jobs, Refused(j) PROVE IInv'
  BY <1>3 DEF Refused
<1>4. ASSUME NEW j \in Jobs, TakePlace(j) PROVE IInv'
  BY <1>4 DEF TakePlace
<1>5. ASSUME NEW j \in Jobs, Busy(j) PROVE IInv'
  BY <1>5 DEF Busy
<1>6. ASSUME NEW j \in Jobs, Heartbeat(j) PROVE IInv'
  BY <1>6 DEF Heartbeat
<1>7. ASSUME NEW j \in Jobs, Promote(j) PROVE IInv'
  BY <1>7 DEF Promote
<1>8. ASSUME NEW j \in Jobs, LeavePlace(j) PROVE IInv'
  BY <1>8 DEF LeavePlace
<1>9. ASSUME NEW j \in Jobs, EndBody(j) PROVE IInv'
  BY <1>9 DEF EndBody
<1>10. ASSUME NEW j \in Jobs, LeaveLock(j) PROVE IInv'
  BY <1>10 DEF LeaveLock
<1>11. ASSUME NEW j \in Jobs, CloseUp(j) PROVE IInv'
  BY <1>11 DEF CloseUp
<1>12. ASSUME NEW j \in Jobs, Cancel(j) PROVE IInv'
  BY <1>12 DEF Cancel
<1>13. ASSUME NEW j \in Jobs, Sweep(j) PROVE IInv'
  BY <1>13 DEF Sweep
<1>14. ASSUME NEW j \in Jobs, CloseRow(j) PROVE IInv'
  BY <1>14 DEF CloseRow
<1>15. CASE Kill
  BY <1>15 DEF Kill
<1>16. CASE RedisRestart
  BY <1>16 DEF RedisRestart
<1>17. CASE Tick
  BY <1>17 DEF Tick
<1>18. CASE UNCHANGED vars
  BY <1>18 DEF vars
<1> QED
  BY <1>1, <1>2, <1>3, <1>4, <1>5, <1>6, <1>7, <1>8, <1>9, <1>10, <1>11, <1>12,
     <1>13, <1>14, <1>15, <1>16, <1>17, <1>18 DEF Next, JobStep

LEMMA Inductive == Spec => []IInv
  BY InitIInv, NextIInv, PTL DEF Spec

-----------------------------------------------------------------------------
\* Every variable keeps its type; in particular a live job never outruns the
\* time limit arq gives it.
THEOREM TypeCorrect == Spec => []TypeOK
<1>1. IInv => TypeOK
  BY DEF IInv
<1> QED
  BY <1>1, Inductive, PTL

\* Under the time limit a key outlives its owner: while a job is inside, the
\* lock is its own and has life left, unless a Redis restart dropped it.
THEOREM HolderKeepsLock == Spec => []HolderOwnsLock
<1>1. IInv => HolderOwnsLock
  BY OrgLockAssumption DEF IInv, TypeOK, LockLife, HolderOwnsLock
<1> QED
  BY <1>1, Inductive, PTL

\* At most one people sync of an organization runs at a time.
THEOREM MutualExclusion == Spec => []OneSyncPerOrg
<1>1. IInv => OneSyncPerOrg
  BY DEF IInv, LockLife, OneSyncPerOrg
<1> QED
  BY <1>1, Inductive, PTL

\* At most one more waits.
THEOREM OneWaiter == Spec => []OneWaitsPerOrg
<1>1. IInv => OneWaitsPerOrg
  BY DEF IInv, PlaceLife, OneWaitsPerOrg
<1> QED
  BY <1>1, Inductive, PTL

\* The sweeper leaves every live job's row alone.
THEOREM SweeperSparesLiveJobs == Spec => []LiveRowsFresh
<1>1. IInv => LiveRowsFresh
  BY OrgLockAssumption DEF IInv, TypeOK, SilentWithinElapsed, LiveRowsFresh
<1> QED
  BY <1>1, Inductive, PTL

-----------------------------------------------------------------------------
\* A lock that is free has nobody inside, a place that is free nobody waiting:
\* what lets a job's SET NX stand for its entry in SyncSlots.
LEMMA FreeKeys ==
  ASSUME IInv
  PROVE  /\ lock = NoJob => Inside = {}
         /\ place = NoJob => AtDoor = {}
  BY OrgLockAssumption DEF IInv, LockLife, PlaceLife, Inside, AtDoor

LEMMA StepRefines ==
  ASSUME IInv, [Next]_vars
  PROVE  [Slots!Next]_(Slots!slots)
<1> DEFINE Stutter == UNCHANGED <<Inside, AtDoor>>
           Gone == {k \in Jobs : Live(k) \/ pc[k] = "closing"}
<1> USE DEF IInv, TypeOK, Inside, AtDoor, HoldsLock, Waits, Goto, PC
<1>1. ASSUME NEW j \in Jobs, TakeLock(j) \/ Promote(j) PROVE Slots!Enter(j)
  BY <1>1, FreeKeys DEF TakeLock, Promote, SetLock, Slots!Enter, RobbedHeldKeys
<1>2. ASSUME NEW j \in Jobs, TakePlace(j) PROVE Slots!Queue(j)
  BY <1>2, FreeKeys DEF TakePlace, SetPlace, Slots!Queue, RobbedHeldKeys
<1>3. ASSUME NEW j \in Jobs, LeaveLock(j) PROVE Slots!Leave({j})
  BY <1>3 DEF LeaveLock, Slots!Leave
<1>4. ASSUME NEW j \in Jobs, LeavePlace(j) PROVE Slots!Leave({j}) \/ Stutter
  BY <1>4 DEF LeavePlace, Slots!Leave
<1>5. ASSUME NEW j \in Jobs, Cancel(j) PROVE Slots!Leave({j}) \/ Stutter
  <2>1. CASE pc[j] \in {"waiting", "holding"}
    BY <1>5, <2>1 DEF Cancel
  <2>2. CASE pc[j] \notin {"waiting", "holding"}
    BY <1>5, <2>2 DEF Cancel, Slots!Leave
  <2> QED
    BY <2>1, <2>2
<1>6. ASSUME NEW j \in Jobs,
             \/ Start(j) \/ Refused(j) \/ Busy(j) \/ Heartbeat(j) \/ EndBody(j)
             \/ CloseUp(j) \/ Sweep(j) \/ CloseRow(j)
      PROVE Stutter
  BY <1>6 DEF Start, Refused, Busy, Heartbeat, EndBody, CloseUp, Sweep, CloseRow
<1>7. CASE Kill
  <2>1. Slots!Leave(Gone)
    BY <1>7 DEF Kill, Slots!Leave, Live
  <2>2. Gone \in SUBSET Jobs
    OBVIOUS
  <2> HIDE DEF Inside, AtDoor, Gone
  <2> QED
    BY <2>1, <2>2 DEF Slots!Next, Slots!Leave
<1>8. CASE RedisRestart
  <2>1. Slots!Leave(robbed')
    BY <1>8 DEF RedisRestart, Slots!Leave
  <2>2. robbed' \in SUBSET Jobs
    BY <1>8 DEF RedisRestart
  <2> HIDE DEF Inside, AtDoor
  <2> QED
    BY <2>1, <2>2 DEF Slots!Next, Slots!Leave
<1>9. CASE Tick \/ UNCHANGED vars
  <2>1. Stutter
    BY <1>9 DEF Tick, vars
  <2> QED
    BY <2>1 DEF Slots!slots
<1>10. ASSUME NEW j \in Jobs, Slots!Enter(j) \/ Slots!Queue(j) \/ Slots!Leave({j}) \/ Stutter
       PROVE [Slots!Next]_(Slots!slots)
  <2> HIDE DEF Inside, AtDoor
  <2>1. {j} \in SUBSET Jobs
    OBVIOUS
  <2>2. CASE Stutter
    BY <2>2 DEF Slots!slots
  <2> QED
    BY <1>10, <2>1, <2>2 DEF Slots!Next
<1> HIDE DEF IInv, TypeOK, Inside, AtDoor, HoldsLock, Waits, Goto, PC, Stutter
<1> QED
  BY <1>1, <1>2, <1>3, <1>4, <1>5, <1>6, <1>7, <1>8, <1>9, <1>10 DEF Next, JobStep

\* The lock implements the promise of SyncSlots to the organization: every
\* step, a cancellation, a kill or a Redis restart included, lets nobody in
\* while another is inside and nobody queue while another queues.
THEOREM LockKeepsPromise == Spec => SlotsSpec
<1>1. Init => Slots!Init
  BY DEF Init, Slots!Init, Inside, AtDoor, HoldsLock, Waits
<1> QED
  BY <1>1, StepRefines, Inductive, PTL DEF Spec, SlotsSpec, Slots!Spec
=============================================================================
