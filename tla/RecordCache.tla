---------------------------- MODULE RecordCache -----------------------------
(***************************************************************************)
(* A cache of what one web process computes from a session (api_logic.py),  *)
(* the record blocks or the transcript's insights: keyed by the session and *)
(* the updated_at of the row they were built from, shared by all requests,  *)
(* the least recently used dropped.  The two caches are alike and apart.    *)
(* A session has one block at most: each new one takes the old one's place. *)
(*                                                                         *)
(* A row's version stands for its updated_at.  The versions of the code and *)
(* of the inputs outside the row are constants today.                       *)
(***************************************************************************)
EXTENDS Naturals, Sequences, SequencesExt

CONSTANTS
  Sessions, Requests,
  Size,         \* RECORD_CACHE_SIZE, TRANSCRIPT_INSIGHTS_CACHE_SIZE
  MaxVersions   \* bound: writes to a row

VARIABLES
  cache,    \* "record" or "insights"
  row,      \* session -> its version
  blocks,   \* the cache, least recently used first: session, key, built from
  req,      \* requests between two of their reads
  served    \* request -> the session's version when it began, and the answer's

vars == <<cache, row, blocks, req, served>>

Idle == [pc |-> "idle", session |-> CHOOSE x \in Sessions : TRUE, began |-> 0, key |-> 0]
Unanswered == [began |-> 0, answer |-> 0]

Init ==
  /\ cache \in {"record", "insights"}
  /\ row = [x \in Sessions |-> 1]
  /\ blocks = << >>
  /\ req = [r \in Requests |-> Idle]
  /\ served = [r \in Requests |-> Unanswered]

Holds(x, key) == {i \in DOMAIN blocks : blocks[i].session = x /\ blocks[i].key = key}

\* The stamp of the row, within the caller's scope, or a 404.  For insights
\* the caller has the whole row.
Stamp(r, x) ==
  /\ req[r].pc = "idle"
  /\ req' = [req EXCEPT ![r] = [pc |-> "lookup", session |-> x, began |-> row[x], key |-> row[x]]]
  /\ served' = [served EXCEPT ![r] = Unanswered]
  /\ UNCHANGED <<cache, row, blocks>>

\* A miss reads the whole row for a record, and has it for insights.
Missed == IF cache = "record" THEN "read" ELSE "build"

\* A hit moves to the end.
Lookup(r) ==
  /\ req[r].pc = "lookup"
  /\ LET hits == Holds(req[r].session, req[r].key) IN
     \/ \E i \in hits :
          /\ blocks' = Append(RemoveAt(blocks, i), blocks[i])
          /\ served' = [served EXCEPT ![r] = [began |-> req[r].began, answer |-> blocks[i].built]]
          /\ req' = [req EXCEPT ![r] = Idle]
     \/ hits = {} /\ req' = [req EXCEPT ![r].pc = Missed] /\ UNCHANGED <<blocks, served>>
  /\ UNCHANGED <<cache, row>>

\* The base payloads, the transcript and updated_at, in one read; a 404 when the
\* row is gone by now.
ReadRow(r) ==
  /\ req[r].pc = "read"
  /\ req' \in {[req EXCEPT ![r] = Idle],
              [req EXCEPT ![r].pc = "build", ![r].key = row[req[r].session]]}
  /\ UNCHANGED <<cache, row, blocks, served>>

\* Stored in the place of the session's own block, as the dict keeps it: the
\* same version's where it is, another's last.  A block too many drops the
\* first one.
Put(block) ==
  LET same == Holds(block.session, block.key)
      older == {i \in DOMAIN blocks : blocks[i].session = block.session} \ same
      all == Append(blocks, block)
  IN  \/ \E i \in same : blocks' = [blocks EXCEPT ![i] = block]
      \/ same = {} /\ \E i \in older : blocks' = Append(RemoveAt(blocks, i), block)
      \/ same = {} /\ older = {} /\ blocks' = IF Len(all) > Size THEN Tail(all) ELSE all

\* Wrong: stored under the row's version by now.
StoreAsCurrent(r) ==
  /\ req[r].pc = "build"
  /\ Put([session |-> req[r].session, key |-> row[req[r].session], built |-> req[r].key])
  /\ served' = [served EXCEPT ![r] = [began |-> req[r].began, answer |-> req[r].key]]
  /\ req' = [req EXCEPT ![r] = Idle]
  /\ UNCHANGED <<cache, row>>

\* The block is built and stored under the version it was read with, in the
\* place of the session's other versions, newer ones included.
Store(r) ==
  /\ req[r].pc = "build"
  /\ Put([session |-> req[r].session, key |-> req[r].key, built |-> req[r].key])
  /\ served' = [served EXCEPT ![r] = [began |-> req[r].began, answer |-> req[r].key]]
  /\ req' = [req EXCEPT ![r] = Idle]
  /\ UNCHANGED <<cache, row>>

\* Any write to the row, a delete and a new fetch included, bumps updated_at.
WriteRow(x) ==
  /\ row[x] < MaxVersions
  /\ row' = [row EXCEPT ![x] = @ + 1]
  /\ UNCHANGED <<cache, blocks, req, served>>

Next ==
  \/ \E r \in Requests : \E x \in Sessions : Stamp(r, x)
  \/ \E r \in Requests : Lookup(r) \/ ReadRow(r) \/ Store(r)
  \/ \E x \in Sessions : WriteRow(x)

Spec == Init /\ [][Next]_vars

\* A request is never answered with a record older than the session was when
\* it asked, whatever other requests store and evict meanwhile.
NeverServedOlder ==
  \A r \in Requests : served[r].answer >= served[r].began
=============================================================================
