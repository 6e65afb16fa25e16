----------------------------- MODULE SyncSlots -----------------------------
(***************************************************************************)
(* What one organization's people syncs are promised about the worker      *)
(* (docs/jobs.md, "Waits for the org's lock"): at most one of them runs, at *)
(* most one more waits for its turn, and any other is turned away.          *)
(***************************************************************************)
CONSTANT Jobs

VARIABLES running,  \* the sync jobs inside the org's lock
          queueing  \* the sync jobs in the org's waiting place

slots == <<running, queueing>>

Init == running = {} /\ queueing = {}

\* A sync starts to run, from the waiting place or straight away.
Enter(j) ==
  /\ running = {}
  /\ running' = {j}
  /\ queueing' = queueing \ {j}

\* A sync takes the one waiting place.
Queue(j) ==
  /\ queueing = {}
  /\ queueing' = {j}
  /\ UNCHANGED running

\* Syncs end, give up, or die with their worker.
Leave(gone) ==
  /\ running' = running \ gone
  /\ queueing' = queueing \ gone

Next ==
  \/ \E j \in Jobs : Enter(j) \/ Queue(j)
  \/ \E gone \in SUBSET Jobs : Leave(gone)

Spec == Init /\ [][Next]_slots
=============================================================================
