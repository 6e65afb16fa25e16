------------------------------ MODULE JobRows ------------------------------
(***************************************************************************)
(* What the rows of a job promise (docs/jobs.md, "Transcription" and       *)
(* "People sync"): one job in flight per session, claimed once and only    *)
(* while pending, never in flight again once closed, and a connection id   *)
(* held only until the claim.  Which way it closed may still be corrected. *)
(***************************************************************************)
CONSTANTS Jobs, Sessions

VARIABLES life,   \* none, pending, running, closed or deleted
          owner,  \* the session a job belongs to
          token   \* whether the row holds a connection id

jobRows == <<life, owner, token>>

InFlight == {"pending", "running"}

Init ==
  /\ life = [j \in Jobs |-> "none"]
  /\ token = [j \in Jobs |-> FALSE]

Create(j, x) ==
  /\ life[j] = "none"
  /\ \A k \in Jobs : life[k] \in InFlight => owner[k] # x
  /\ life' = [life EXCEPT ![j] = "pending"]
  /\ owner' = [owner EXCEPT ![j] = x]
  /\ token' = [token EXCEPT ![j] = TRUE]

Claim(j) ==
  /\ life[j] = "pending"
  /\ life' = [life EXCEPT ![j] = "running"]
  /\ token' = [token EXCEPT ![j] = FALSE]
  /\ UNCHANGED owner

Close(j) ==
  /\ life[j] \in InFlight
  /\ life' = [life EXCEPT ![j] = "closed"]
  /\ token' = [token EXCEPT ![j] = FALSE]
  /\ UNCHANGED owner

\* The rows of a deleted session go with it, where the schema cascades.
Delete(x) ==
  LET gone == {j \in Jobs : life[j] # "none" /\ owner[j] = x} IN
  /\ life' = [j \in Jobs |-> IF j \in gone THEN "deleted" ELSE life[j]]
  /\ token' = [j \in Jobs |-> token[j] /\ j \notin gone]
  /\ UNCHANGED owner

Next ==
  \/ \E j \in Jobs, x \in Sessions : Create(j, x)
  \/ \E j \in Jobs : Claim(j) \/ Close(j)
  \/ \E x \in Sessions : Delete(x)

Spec == Init /\ [][Next]_jobRows
=============================================================================
