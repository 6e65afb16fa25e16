-------------------------------- MODULE Pages -------------------------------
(***************************************************************************)
(* One paginated list of Livestorm's, fetched page by page                 *)
(* (livestorm/client.py, livestorm/payloads.py) while it grows: the people  *)
(* of a session or their labels, whose pager ends on the last page or with  *)
(* an error, and chat, questions or past sessions, whose pager keeps what   *)
(* it has when Livestorm points back at a page.                            *)
(*                                                                         *)
(* Livestorm is external: it lists in some order, new records at either     *)
(* end, never more a page than its maximum, and points at the next page,    *)
(* wrongly at times, or says nothing.  A call's own retries are one call.   *)
(***************************************************************************)
EXTENDS Naturals, Sequences, FiniteSets, FiniteSetsExt

CONSTANTS
  Records,
  Requested,   \* the page size asked for
  Largest,     \* LIVESTORM_MAX_PAGE_SIZE
  MaxPages,    \* MAX_PAGES
  None

VARIABLES
  kind,     \* what is fetched
  states,   \* Livestorm says which page is next, null on the last
  list,     \* Livestorm's list
  first,    \* the list when the fetch began
  page, seen,      \* the page to ask for, those asked for
  kept,     \* the records read, each once
  count, counted,  \* record_count as last sent, and the list it was of
  result    \* "none", "reading", or how the fetch ended

vars == <<kind, states, list, first, page, seen, kept, count, counted, result>>

Kinds == {"people", "attributes", "chat"}
Strict == kind # "chat"
NoCount == Cardinality(Records) + 1
Listed == {list[i] : i \in DOMAIN list}
Least(a, b) == IF a < b THEN a ELSE b

Init ==
  /\ kind \in Kinds /\ states \in BOOLEAN
  /\ list \in {s \in UNION {[1..n -> Records] : n \in 0..Cardinality(Records)} :
                 \A i, j \in DOMAIN s : s[i] = s[j] => i = j}
  /\ first = Listed
  /\ page = 0 /\ seen = {}
  /\ kept = {}
  /\ count = NoCount /\ counted = {}
  /\ result = "reading"

\* Someone registers, or writes.
Grow(x) ==
  /\ result = "reading"
  /\ x \notin Listed
  /\ list' \in {<<x>> \o list, Append(list, x)}
  /\ UNCHANGED <<kind, states, first, page, seen, kept, count, counted, result>>

-----------------------------------------------------------------------------
\* Wrong: asks for as many as it was told to.
Uncapped(size) == size

\* _page_size: a larger page would come back short.
PageSize(size) == Least(size, Largest)

\* What Livestorm answers: a page of the list, where the next one is.
Answer ==
  LET size == Least(PageSize(Requested), Largest)
      from == page * size
      data == SubSeq(list, from + 1, Least(from + size, Len(list)))
      onward == from + size < Len(list)
  IN  {[data |-> data, next |-> next] :
         next \in IF states /\ onward THEN {page, page + 1} \cup seen ELSE {None}}

\* _extract_next_page, _states_last_page: where to go on, or None at the end.
Onward(answer) ==
  IF answer.next # None THEN answer.next
  ELSE IF states \/ Len(answer.data) < PageSize(Requested) THEN None ELSE page + 1

\* _pages raises before the request it will not send.
Refuse ==
  /\ result = "reading" /\ Strict
  /\ page \in seen \/ Cardinality(seen) >= MaxPages
  /\ result' = "raised"
  /\ UNCHANGED <<kind, states, list, first, page, seen, kept, count, counted>>

\* The others keep what they have.
Stop ==
  /\ result = "reading" /\ ~Strict
  /\ page \in seen \/ Cardinality(seen) >= MaxPages
  /\ result' = "stopped"
  /\ UNCHANGED <<kind, states, list, first, page, seen, kept, count, counted>>

\* The deadline has passed.
Late ==
  /\ result = "reading" /\ Strict
  /\ page \notin seen /\ Cardinality(seen) < MaxPages
  /\ result' = "raised"
  /\ UNCHANGED <<kind, states, list, first, page, seen, kept, count, counted>>

\* A page, its retries included, fails; a workspace that may not read its labels
\* has none.
PageFails ==
  /\ result = "reading"
  /\ page \notin seen /\ Cardinality(seen) < MaxPages
  /\ result' \in IF kind = "attributes" THEN {"raised", "forbidden"} ELSE {"raised"}
  /\ UNCHANGED <<kind, states, list, first, page, seen, kept, count, counted>>

\* One page, read: a record listed again is kept once, as last listed.  (The
\* pager of the chat keeps both copies; the record drops the second.)
Read ==
  /\ result = "reading"
  /\ page \notin seen /\ Cardinality(seen) < MaxPages
  /\ \E answer \in Answer :
       /\ kept' = kept \cup {answer.data[i] : i \in DOMAIN answer.data}
       /\ \/ states /\ count' = Len(list) /\ counted' = Listed
          \/ UNCHANGED <<count, counted>>
       /\ seen' = seen \cup {page}
       /\ IF Onward(answer) = None
          THEN result' = "listed" /\ UNCHANGED page
          ELSE page' = Onward(answer) /\ UNCHANGED result
  /\ UNCHANGED <<kind, states, list, first>>

Complete == count # NoCount /\ Cardinality(kept) = count

Next == Refuse \/ Stop \/ Late \/ PageFails \/ Read \/ \E x \in Records : Grow(x)

Spec == Init /\ [][Next]_vars

-----------------------------------------------------------------------------
\* A fetch that ends is whole: nobody listed when it began is missing, whatever
\* Livestorm adds meanwhile, and one called complete holds exactly who is on the
\* list, unless someone joined it after the last page that had a count.
ListWhole ==
  result = "listed" =>
    /\ first \subseteq kept
    /\ kind = "people" /\ Complete => kept = counted \/ counted # Listed
=============================================================================
