-------------------------------- MODULE Roster ------------------------------
(***************************************************************************)
(* The people of a session (record/roster.py), who wrote what               *)
(* (record/authors.py), and the table of chat, questions and answers        *)
(* (record/evidence.py).                                                    *)
(*                                                                         *)
(* A person has Livestorm's role, flags and what decides a channel.  Ids    *)
(* are naturals; NoId is an item's missing id.  A digest is a sequence of   *)
(* digits, Short of which make a ref.                                      *)
(***************************************************************************)
EXTENDS Integers, Sequences, SequencesExt

CONSTANTS
  Digest,   \* person id -> digits of its hash within the session
  Short     \* PERSON_REF_HEX

NoId == 0

\* A finite set in a strict order of all its elements: each has its rank.
InOrder(S, before(_, _)) ==
  [k \in 1..Cardinality(S) |-> CHOOSE x \in S : Cardinality({y \in S : before(y, x)}) = k - 1]

\* _unique_people, _unique_records: the first copy of an id is kept.  A person
\* without an id is not, an item is.
FirstCopies(items, keepUnnamed) ==
  LET first(i) == \A j \in 1..i - 1 : items[j].id # items[i].id
      kept == {i \in DOMAIN items : IF items[i].id = NoId THEN keepUnnamed ELSE first(i)}
  IN  [k \in 1..Cardinality(kept) |-> items[InOrder(kept, <)[k]]]

-----------------------------------------------------------------------------
\* Roles.

NoSignals == [team |-> FALSE, guest |-> FALSE, answered |-> FALSE]
Rank(role) == CASE role = "team" -> 3 [] role = "guest_speaker" -> 2 [] role = "audience" -> 1

\* classify_role: Livestorm's role, raised by what the person did.
ClassifyRole(person, signals) ==
  IF person.team \/ signals.team \/ signals.answered THEN "team"
  ELSE IF person.guest \/ signals.guest THEN "guest_speaker" ELSE "audience"

\* is_internal_session: most of those who came, or of all when nobody did, are
\* team members; a guest speaker is not one.
Internal(people) ==
  LET came == {i \in DOMAIN people : people[i].attended}
      counted == IF came = {} THEN DOMAIN people ELSE came
  IN  2 * Cardinality({i \in counted : people[i].team /\ ~people[i].guest}) > Cardinality(counted)

\* build_roster: the source's claim to be complete holds only when its count
\* is the number of people.
BuildRoster(list, claimed, count) ==
  LET people == FirstCopies(list, FALSE) IN
  [people |-> people,
   role |-> [i \in DOMAIN people |-> ClassifyRole(people[i], NoSignals)],
   complete |-> claimed /\ count = Len(people),
   internal |-> Internal(people)]

\* escalate_roles: never on an internal session.
EscalateRoles(roster, signals) ==
  IF roster.internal THEN roster ELSE
  [roster EXCEPT !.role = [i \in DOMAIN roster.people |->
     LET id == roster.people[i].id
     IN  ClassifyRole(roster.people[i], IF id \in DOMAIN signals THEN signals[id] ELSE NoSignals)]]

\* lead_time_bucket, in days: a day's border belongs to the later bucket.
LeadBucket(seconds, day) ==
  IF seconds < 0 THEN "after_start" ELSE
  LET days == seconds \div day IN
  CASE days < 1 -> "same_day" [] days \in 1..3 -> "1-3" [] days \in 4..7 -> "4-7"
    [] days \in 8..14 -> "8-14" [] OTHER -> "15+"

\* derive_channel: the first source that says something, if any; Livestorm's
\* own hosts say nothing.
Channel(person, own) ==
  SelectSeq(<<person.utm, IF person.referrer \in own THEN "" ELSE person.referrer,
              person.registration>>, LAMBDA source : source # "")

-----------------------------------------------------------------------------
\* Refs.

\* Wrong: everyone of a group keeps the short ref.
ShortRefs(ids) == [id \in ids |-> SubSeq(Digest[id], 1, Short)]

\* assign_person_refs: of the people whose short refs collide, the smallest id
\* keeps it; the others get the shortest prefix that tells them apart.
Refs(ids) ==
  LET prefix(id, n) == SubSeq(Digest[id], 1, n)
      group(id) == {other \in ids : prefix(other, Short) = prefix(id, Short)}
      others(id) == group(id) \ {Min(group(id))}
      apart(id, n) == \A a, b \in others(id) : a # b => prefix(a, n) # prefix(b, n)
      length(id) == IF id = Min(group(id)) THEN Short
                    ELSE Min({n \in Short + 1..Len(Digest[id]) : apart(id, n)})
  IN  [id \in ids |-> prefix(id, length(id))]

-----------------------------------------------------------------------------
\* Authors.

\* _source_items: chat messages, questions, and the questions with an answer.
SourceItems(chat, questions) ==
  LET asked == FirstCopies(questions, TRUE)
      as(item, author) == [author |-> author, team |-> FALSE, guest |-> FALSE, at |-> item.at, id |-> item.id]
      answered == SelectSeq(asked, LAMBDA q : q.answered)
  IN  [chat |-> FirstCopies(chat, TRUE),
       question |-> [i \in DOMAIN asked |-> as(asked[i], asked[i].asker)],
       answer |-> [i \in DOMAIN answered |-> as(answered[i], answered[i].responder)]]

Ids(roster) == {roster.people[i].id : i \in DOMAIN roster.people}
PersonOf(roster, id) == roster.people[CHOOSE i \in DOMAIN roster.people : roster.people[i].id = id]

\* Wrong: an internal session's people give signals too.
RoleSignalsAlways(items, roster) ==
  LET by(source, Test(_)) ==
        {id \in Ids(roster) : \E i \in DOMAIN source : source[i].author = id /\ Test(source[i])}
      team == by(items.chat, LAMBDA m : m.team)
      guest == by(items.chat, LAMBDA m : m.guest)
      answered == by(items.answer, LAMBDA a : TRUE)
  IN  [id \in team \cup guest \cup answered |->
         [team |-> id \in team, guest |-> id \in guest, answered |-> id \in answered]]

\* _role_signals: only what resolved to a person, and nothing on an internal
\* session.
RoleSignals(items, roster) ==
  IF roster.internal THEN [id \in {} |-> NoSignals] ELSE RoleSignalsAlways(items, roster)

\* resolve_authors: by people id only.  The role of an author that does not
\* resolve comes from the flags of its messages, or from the source.
ResolveAuthors(items, roster) ==
  LET signals == RoleSignals(items, roster)
      authors(kind) == {items[kind][i].author : i \in DOMAIN items[kind]} \ {NoId}
      flagged(id, Test(_)) == \E i \in DOMAIN items.chat : items.chat[i].author = id /\ Test(items.chat[i])
      unresolved(kind, id) ==
        IF kind = "answer" \/ (kind = "chat" /\ flagged(id, LAMBDA m : m.team)) THEN "team"
        ELSE IF kind = "chat" /\ flagged(id, LAMBDA m : m.guest) THEN "guest_speaker" ELSE "audience"
      role(kind, id) ==
        IF id \notin Ids(roster) THEN unresolved(kind, id)
        ELSE ClassifyRole(PersonOf(roster, id), IF id \in DOMAIN signals THEN signals[id] ELSE NoSignals)
  IN  [kind \in DOMAIN items |-> [id \in authors(kind) |-> role(kind, id)]]

\* _coverage.
Coverage(source, roster) ==
  LET resolved == {i \in DOMAIN source : source[i].author \in Ids(roster)} IN
  IF source = << >> THEN "empty" ELSE IF resolved = DOMAIN source THEN "resolved"
  ELSE IF resolved = {} THEN "unresolved" ELSE "partial"

\* audience_events: who counts as team in the table.
IsTeam(kind, item, roster, authors) ==
  CASE kind = "chat" -> item.team \/ item.guest
    [] kind = "question" -> item.author \in Ids(roster) /\ authors.question[item.author] # "audience"
    [] kind = "answer" -> TRUE

\* _assign_ids: numbered by time, the unreadable (0) last, then by id, then by
\* text, then as they were given.
Earlier(a, b) ==
  IF a.at # b.at THEN b.at = 0 \/ (a.at # 0 /\ a.at < b.at)
  ELSE a.id < b.id \/ (a.id = b.id /\ a.text < b.text)
Numbered(source) ==
  LET before(i, j) == Earlier(source[i], source[j]) \/ (~Earlier(source[j], source[i]) /\ i < j)
  IN  [k \in DOMAIN source |-> source[InOrder(DOMAIN source, before)[k]]]

-----------------------------------------------------------------------------
\* The two roles a person has, the roster's and its authors', are one, and no
\* signal ever lowers Livestorm's role or touches an internal session.
RolesAgree(list, chat, questions) ==
  LET roster == BuildRoster(list, TRUE, Len(list))
      items == SourceItems(chat, questions)
      authors == ResolveAuthors(items, roster)
      raised == EscalateRoles(roster, RoleSignals(items, roster))
      roleOf(r, id) == r.role[CHOOSE i \in DOMAIN r.people : r.people[i].id = id]
  IN  \A id \in Ids(roster) :
        /\ \A kind \in DOMAIN authors : id \in DOMAIN authors[kind] => authors[kind][id] = roleOf(raised, id)
        /\ Rank(roleOf(raised, id)) >= Rank(roleOf(roster, id))
        /\ roster.internal => roleOf(raised, id) = roleOf(roster, id)
        /\ \A i \in DOMAIN items.question : items.question[i].author = id =>
             IsTeam("question", items.question[i], roster, authors) = (roleOf(raised, id) # "audience")
        /\ \A kind \in DOMAIN items : id \in DOMAIN authors[kind] =>
             Coverage(items[kind], roster) \in {"resolved", "partial"}

\* The numbers of a table's rows do not depend on the order the API sent them in.
IdsStable(source) ==
  \A order \in Bijection(DOMAIN source, DOMAIN source) :
    Numbered(FirstCopies(source, TRUE)) =
      Numbered(FirstCopies([i \in DOMAIN source |-> source[order[i]]], TRUE))

\* Refs are apart within a session, and a person who joins changes only the
\* refs that collide with its own.
RefsApart(ids, joining) ==
  LET refs == Refs(ids)
      after == Refs(ids \cup {joining})
      short(id) == SubSeq(Digest[id], 1, Short)
  IN  \A a, b \in ids : /\ refs[a] = refs[b] => a = b
                        /\ short(a) # short(joining) => after[a] = refs[a]
=============================================================================
