------------------------------ MODULE Settings ------------------------------
(***************************************************************************)
(* One admin setting, read through a cache of a minute in every process     *)
(* (db.get_setting, set_setting).  A reader that misses reads the database  *)
(* and stores what it read, whatever was written meanwhile.                 *)
(*                                                                         *)
(* A value is known by the number of its write.  Time is counted in steps   *)
(* of a Tick; ages stop counting where no decision tells them apart.        *)
(***************************************************************************)
EXTENDS Naturals

CONSTANTS
  Processes,
  TTL,        \* SETTINGS_CACHE_TTL_SECONDS
  ReadTime,   \* longest a database read takes
  MaxWrites   \* bound: admin changes

VARIABLES
  value,      \* the number of the last write
  since,      \* write -> the time since the next one replaced it
  entry,      \* process -> its cached value and its age
  reader      \* process -> a read that missed: its place, its value, its age

vars == <<value, since, entry, reader>>

Writes == 0..MaxWrites
Long == TTL + ReadTime + 1
Older(age, most) == IF age = most THEN most ELSE age + 1
Idle == [pc |-> "idle", value |-> 0, age |-> 0]
None == [value |-> 0, age |-> TTL]     \* as good as an expired entry

Init ==
  /\ value = 0
  /\ since = [w \in Writes |-> 0]
  /\ entry = [p \in Processes |-> None]
  /\ reader = [p \in Processes |-> Idle]

Fresh(p) == entry[p].age < TTL

\* get_setting answers from a fresh entry; otherwise it reads.
Miss(p) ==
  /\ reader[p] = Idle /\ ~Fresh(p)
  /\ reader' = [reader EXCEPT ![p] = [pc |-> "read", value |-> value, age |-> 0]]
  /\ UNCHANGED <<value, since, entry>>

\* The value is stored under the time it is stored at.
Store(p) ==
  /\ reader[p].pc = "read"
  /\ entry' = [entry EXCEPT ![p] = [value |-> reader[p].value, age |-> 0]]
  /\ reader' = [reader EXCEPT ![p] = Idle]
  /\ UNCHANGED <<value, since>>

\* Wrong: serving the last known value renews it.
ReadFailsRenewing(p) ==
  /\ reader[p].pc = "read"
  /\ entry' = [entry EXCEPT ![p].age = 0]
  /\ reader' = [reader EXCEPT ![p] = Idle]
  /\ UNCHANGED <<value, since>>

\* A failed read serves the last known value and stores nothing.
ReadFails(p) ==
  /\ reader[p].pc = "read"
  /\ reader' = [reader EXCEPT ![p] = Idle]
  /\ UNCHANGED <<value, since, entry>>

\* set_setting: the row, then this process's entry.  A reader of the same
\* process may still store an older value after it.
Write(p) ==
  /\ value < MaxWrites
  /\ value' = value + 1
  /\ entry' = [entry EXCEPT ![p] = [value |-> value + 1, age |-> 0]]
  /\ UNCHANGED <<since, reader>>

Tick ==
  /\ \A p \in Processes : reader[p].pc = "read" => reader[p].age < ReadTime
  /\ since' = [w \in Writes |-> IF w < value THEN Older(since[w], Long) ELSE 0]
  /\ entry' = [p \in Processes |-> [entry[p] EXCEPT !.age = Older(@, TTL)]]
  /\ reader' = [p \in Processes |-> IF reader[p] = Idle THEN Idle ELSE [reader[p] EXCEPT !.age = @ + 1]]
  /\ UNCHANGED value

Next ==
  \/ \E p \in Processes : Miss(p) \/ Store(p) \/ ReadFails(p) \/ Write(p)
  \/ Tick

Spec == Init /\ [][Next]_vars

\* Every process sees an admin's change within the cache's minute and the time
\* of one read: no answer from the cache is older, the writer's own included.
ChangeSeenInTime ==
  \A p \in Processes : Fresh(p) => since[entry[p].value] <= TTL + ReadTime
=============================================================================
