------------------------------ MODULE Backfills ------------------------------
(***************************************************************************)
(* The maintenance scripts (src/scripts) that walk the cached sessions     *)
(* while the app goes on saving and deleting them: remove the join links   *)
(* of old payloads, and fill in events, recaps, covers, and the            *)
(* organization and author of rows older than those columns.               *)
(*                                                                         *)
(* A session id is its place in session_id order.  A row's base payloads   *)
(* are known by the number of their fetch (0: before this model), NoBase   *)
(* when the row has none.  One script runs at a time; an operator may stop *)
(* one and start it again.  Reading the providers is external.  Left out:  *)
(* dry runs, --limit, the organization script's choice of an account       *)
(* (--account-key-hash) and its step over oauth_connections.               *)
(***************************************************************************)
EXTENDS Integers, FiniteSets

CONSTANTS
    Sessions,   \* a set of numbers
    Legacy,     \* the rows a database may hold before
    BatchSize,  \* --batch-size
    MaxSaves    \* bound: saves that move updated_at

VARIABLES
    row,      \* row[s]: the cached row, or None
    latest,   \* latest[s]: the last base fetched for the row
    now,      \* the last updated_at
    script,   \* the script that runs, or "none"
    after,    \* where its scan goes on
    todo,     \* what it has not dealt with yet: session -> its row as read (links)
    skipped,  \* rows of this run it left for the next
    clean     \* the last join-link run went to the end and left none

vars == <<row, latest, now, script, after, todo, skipped, clean>>

None == [base |-> -2]
NoBase == -1
Scripts == {"links", "events", "recaps", "covers", "organization"}
Empty == [s \in {} |-> None]
There == {s \in Sessions : row[s] # None}

Init ==
    /\ row \in [Sessions -> Legacy]
    /\ latest = [s \in Sessions |-> row[s].base]
    /\ now = 0
    /\ script = "none" /\ after = 0 /\ todo = Empty
    /\ skipped = FALSE /\ clean = FALSE

-----------------------------------------------------------------------------
\* The app: a base fetch saves payloads without join links, and who fetched them.
Fetch(s) ==
    /\ now < MaxSaves
    /\ now' = now + 1
    /\ latest' = [latest EXCEPT ![s] = now + 1]
    /\ LET was == IF row[s] = None THEN [recap |-> FALSE, cover |-> FALSE] ELSE row[s]
       IN  row' = [row EXCEPT ![s] = [base |-> now + 1, links |-> FALSE, stamp |-> now + 1,
                                      event |-> TRUE, recap |-> was.recap, cover |-> was.cover, org |-> TRUE]]
    /\ UNCHANGED <<script, after, todo, skipped, clean>>

\* An AI result is merged into a row that is there, by a job or by a script's call.
Merge(s) ==
    /\ now < MaxSaves
    /\ now' = now + 1
    /\ row' = [row EXCEPT ![s].recap = TRUE, ![s].stamp = now + 1]

JobSaves(s) ==
    /\ s \in There
    /\ Merge(s)
    /\ UNCHANGED <<latest, script, after, todo, skipped, clean>>

Delete(s) ==
    /\ s \in There
    /\ row' = [row EXCEPT ![s] = None]
    /\ latest' = [latest EXCEPT ![s] = None.base]
    /\ UNCHANGED <<now, script, after, todo, skipped, clean>>

-----------------------------------------------------------------------------
\* What a script sets out to fill in, read once.
Needs(k) ==
    {s \in There :
        CASE k = "events" -> row[s].base # NoBase /\ ~row[s].event
          [] k = "recaps" -> ~row[s].recap
          [] k = "covers" -> row[s].recap /\ ~row[s].cover
          [] OTHER        -> FALSE}

Start(k) ==
    /\ script = "none"
    /\ script' = k
    /\ after' = 0 /\ skipped' = FALSE
    /\ todo' = [s \in Needs(k) |-> None]
    /\ clean' = (clean /\ k # "links")
    /\ UNCHANGED <<row, latest, now>>

\* Stopped by the operator, or by a database error.
Stop ==
    /\ script # "none"
    /\ script' = "none" /\ todo' = Empty
    /\ UNCHANGED <<row, latest, now, after, skipped, clean>>

Finish ==
    /\ script # "none" /\ todo = Empty
    /\ script = "links" => \A s \in There : s <= after
    /\ script' = "none"
    /\ clean' = (clean \/ (script = "links" /\ ~skipped))
    /\ UNCHANGED <<row, latest, now, after, todo, skipped>>

Done(s) == todo' = [t \in DOMAIN todo \ {s} |-> todo[t]]

-----------------------------------------------------------------------------
\* scan_base_payloads: the next rows in session_id order.
Batch == {s \in There : s > after /\ Cardinality({t \in There : after < t /\ t <= s}) <= BatchSize}

ScanBatch ==
    /\ script = "links" /\ todo = Empty /\ Batch # {}
    /\ todo' = [s \in Batch |-> row[s]]
    /\ after' = CHOOSE s \in Batch : \A t \in Batch : t <= s
    /\ UNCHANGED <<row, latest, now, script, skipped, clean>>

\* Wrong: the payloads read are written back whatever was saved since.
UnchangedSinceAnyway(s) == row[s] # None

\* rewrite_base_payloads: only the row as it was read.
UnchangedSince(s) == row[s] # None /\ row[s].stamp = todo[s].stamp

\* One row of the batch: nothing to strip, stripped, or saved again since.
Strip(s) ==
    /\ script = "links" /\ s \in DOMAIN todo
    /\ IF ~todo[s].links THEN UNCHANGED <<row, skipped>>
       ELSE IF UnchangedSince(s)
       THEN row' = [row EXCEPT ![s].base = todo[s].base, ![s].links = FALSE] /\ UNCHANGED skipped
       ELSE skipped' = TRUE /\ UNCHANGED row
    /\ Done(s)
    /\ UNCHANGED <<latest, now, script, after, clean>>

-----------------------------------------------------------------------------
\* upsert_cached_session: a row that was deleted meanwhile is made again, with
\* nothing but what is passed.
Ghost == [base |-> NoBase, links |-> FALSE, stamp |-> 0, event |-> FALSE,
          recap |-> FALSE, cover |-> FALSE, org |-> FALSE]

Upsert(s, event, cover) ==
    LET was == IF row[s] = None THEN Ghost ELSE row[s]
    IN  /\ now < MaxSaves
        /\ now' = now + 1
        /\ row' = [row EXCEPT ![s] = [was EXCEPT !.stamp = now + 1, !.event = @ \/ event, !.cover = @ \/ cover]]
        /\ latest' = [latest EXCEPT ![s] = was.base]

\* One session of a filling script: filled, or left for the next run.
Fill(s) ==
    /\ script \in {"events", "recaps", "covers"} /\ s \in DOMAIN todo
    /\ \/ /\ skipped' = TRUE
          /\ UNCHANGED <<row, latest, now>>
       \/ script = "events" /\ Upsert(s, TRUE, FALSE) /\ UNCHANGED skipped
       \/ script = "recaps" /\ s \in There /\ Merge(s) /\ UNCHANGED <<latest, skipped>>
       \/ script = "covers" /\ Upsert(s, FALSE, TRUE) /\ UNCHANGED skipped
    /\ Done(s)
    /\ UNCHANGED <<script, after, clean>>

\* _apply_backfill and _apply_generator_backfill: every row without, at once.
FillOrganization ==
    /\ script = "organization"
    /\ row' = [s \in Sessions |-> IF s \in There THEN [row[s] EXCEPT !.org = TRUE] ELSE None]
    /\ script' = "none"
    /\ UNCHANGED <<latest, now, after, todo, skipped, clean>>

Next ==
    \/ \E s \in Sessions : Fetch(s) \/ JobSaves(s) \/ Delete(s) \/ Strip(s) \/ Fill(s)
    \/ \E k \in Scripts : Start(k)
    \/ Stop \/ Finish \/ ScanBatch \/ FillOrganization

Spec == Init /\ [][Next]_vars

-----------------------------------------------------------------------------
\* However the app's saves fall between a script's read of a row and its write,
\* no script puts back a payload that a fetch has replaced; and once a run has
\* gone through every row and skipped none, no join link is left, whatever was
\* saved, deleted or fetched on the way.
NothingPutBack ==
    /\ \A s \in There : row[s].base = latest[s]
    /\ clean => \A s \in There : ~row[s].links
=============================================================================
