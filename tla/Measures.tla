------------------------------- MODULE Measures -----------------------------
(***************************************************************************)
(* The Report's measures (record/measures.py): their states, what a state   *)
(* hides, and the rows of the grouped ones.                                 *)
(*                                                                         *)
(* The facts of a session: its people, whether it is internal, who wrote,   *)
(* whether a source's authors are all unresolved, whether the roster is     *)
(* partial, the session's length.  A ratio is a pair; None is what is hidden *)
(* or undivided, and 0 an unknown time.  Every lead time is known.           *)
(* Livestorm's own figures and coverage are left out, and one minimum        *)
(* stands for all gates.                                                   *)
(***************************************************************************)
EXTENDS Roster

CONSTANTS
  Few,    \* the least a gate or a group asks for
  Day,    \* seconds in one
  Own     \* Livestorm's hosts

None == << >>
Other == "(other)"
Direct == "direct_or_unknown"
NoTime == 0
Ratio(num, den) == IF den = 0 THEN None ELSE <<num, den>>

\* _Facts: on an internal session everyone is audience.
Audience(f) == {i \in DOMAIN f.people : f.internal \/ f.people[i].role = "audience"}
Came(f, members) == {i \in members : f.people[i].attended = "yes"}

-----------------------------------------------------------------------------
\* _finish: the first state that applies; every gate but an unresolved
\* measure's is asked.
State(flags, passed) ==
  IF "unresolved" \in flags THEN "unresolved" ELSE IF ~passed THEN "insufficient"
  ELSE IF "approximation" \in flags THEN "approximation"
  ELSE IF "partial" \in flags THEN "partial" ELSE "ok"

Hides(state) == state \in {"unresolved", "insufficient"}

Flags(f, writes) ==
  {flag \in {"unresolved", "partial"} :
     CASE flag = "unresolved" -> writes /\ f.unresolved
       [] flag = "partial" -> f.partial \/ \E i \in Audience(f) : f.people[i].attended = "unknown"}

\* _show_up_rate and _replay_caught_up: who came, and of those whose attendance
\* and replay flag are known, who viewed the replay.
ShowUp(f) == [num |-> Cardinality(Came(f, Audience(f))), den |-> Cardinality(Audience(f))]
Replay(f) ==
  LET known == {i \in Audience(f) : f.people[i].replay # "unknown"}
      of(attended) == {i \in known : f.people[i].attended = attended}
      viewed(group) == {i \in group : f.people[i].replay = "yes"}
  IN  [noShows |-> <<Cardinality(viewed(of("no"))), Cardinality(of("no"))>>,
       attendees |-> <<Cardinality(viewed(of("yes"))), Cardinality(of("yes"))>>,
       replayUnknown |-> Cardinality(Audience(f)) - Cardinality(known)]

\* _time_in_room: the median of the times of those who came, each at most the
\* length of the session, doubled; none when that is unknown.
TimeInRoom(f) ==
  LET known == {i \in Came(f, Audience(f)) : f.people[i].seconds >= 0}
      capped == SortSeq([k \in 1..Cardinality(known) |->
                  LET t == f.people[SetToSortSeq(known, <)[k]].seconds
                  IN  IF t < f.length THEN t ELSE f.length], <)
      n == Len(capped)
  IN  [known |-> n, den |-> IF f.length = 0 THEN 0 ELSE n, unknown |-> Cardinality(Came(f, Audience(f))) - n,
       median |-> IF n = 0 \/ f.length = 0 THEN None
                  ELSE <<capped[(n + 1) \div 2] + capped[(n + 2) \div 2]>>]

\* _wrote_rate.
WroteRate(f) ==
  LET came == Came(f, Audience(f))
      num == Cardinality(came \cap f.wrote)
      state == State(Flags(f, TRUE), Cardinality(came) >= Few)
  IN  [state |-> state,
       value |-> IF Hides(state) THEN None ELSE Ratio(num, Cardinality(came)),
       num |-> IF state = "unresolved" THEN None ELSE <<num>>]

\* _room_map: attendees with a known time, by whether they stayed three
\* quarters of the session and whether they wrote.
Placed(f) == {i \in Came(f, Audience(f)) : f.length # 0 /\ f.people[i].seconds >= 0}
RoomState(f) == State(Flags(f, TRUE) \cup {"approximation"}, Cardinality(Placed(f)) >= Few)
Cell(f, stayed, wrote) ==
  {i \in Placed(f) : (4 * f.people[i].seconds >= 3 * f.length) = stayed /\ (i \in f.wrote) = wrote}
RoomMap(f) ==
  [state |-> RoomState(f), placed |-> Cardinality(Placed(f)),
   cells |-> [c \in BOOLEAN \X BOOLEAN |->
     [people |-> IF RoomState(f) = "unresolved" THEN None ELSE <<Cardinality(Cell(f, c[1], c[2]))>>,
      share |-> IF Hides(RoomState(f)) THEN None
                ELSE Ratio(Cardinality(Cell(f, c[1], c[2])), Cardinality(Placed(f)))]]]

-----------------------------------------------------------------------------
\* Channels and segments.

\* Wrong: unresolved authors hide the rate and not the count.
QualityCounted(f, members, gated) ==
  LET came == Came(f, members) IN
  [registrants |-> Cardinality(members), attendees |-> Cardinality(came),
   showUp |-> IF gated THEN None ELSE Ratio(Cardinality(came), Cardinality(members)),
   wrote |-> <<Cardinality(came \cap f.wrote)>>,
   wroteRate |-> IF gated \/ f.unresolved THEN None ELSE Ratio(Cardinality(came \cap f.wrote), Cardinality(came))]

\* _quality: a group under its gate keeps its counts; unresolved authors hide
\* who wrote.
Quality(f, members, gated) ==
  LET came == Came(f, members) IN
  [registrants |-> Cardinality(members), attendees |-> Cardinality(came),
   showUp |-> IF gated THEN None ELSE Ratio(Cardinality(came), Cardinality(members)),
   wrote |-> IF f.unresolved THEN None ELSE <<Cardinality(came \cap f.wrote)>>,
   wroteRate |-> IF gated \/ f.unresolved THEN None ELSE Ratio(Cardinality(came \cap f.wrote), Cardinality(came))]

Row(f, key, members, gated) == [key |-> key, members |-> members, quality |-> Quality(f, members, gated)]

\* The groups of a name that have a row of their own: the others, too small or
\* named like a row that is none, are folded into one.
Named(group, reserved) ==
  {n \in DOMAIN group \ reserved : Cardinality(group[n]) >= Few}

\* _channel_quality: the audience by the source of each; no rows when nobody
\* has one.
Source(f, i) == Channel(f.people[i], Own)
Sourced(f) == {i \in Audience(f) : Source(f, i) # << >>}
ByChannel(f) ==
  [n \in {Head(Source(f, i)) : i \in Sourced(f)} |-> {i \in Sourced(f) : Head(Source(f, i)) = n}]
ChannelNames(f) == Named(ByChannel(f), {Other, Direct})
SmallChannels(f) == {i \in Sourced(f) : Head(Source(f, i)) \notin ChannelNames(f)}
Unknown(f) == IF Sourced(f) = {} THEN {} ELSE Audience(f) \ Sourced(f)
ChannelRows(f) ==
  {Row(f, n, ByChannel(f)[n], FALSE) : n \in ChannelNames(f)}
  \cup {Row(f, Other, g, Cardinality(g) < Few) : g \in {SmallChannels(f)} \ {{}}}
  \cup {Row(f, Direct, g, Cardinality(g) < Few) : g \in {Unknown(f)} \ {{}}}

\* _segment_field: a person who chose two small values counts once among them.
ByChoice(f) ==
  [n \in UNION {f.people[i].choices : i \in Audience(f)} |-> {i \in Audience(f) : n \in f.people[i].choices}]
ChoiceNames(f) == Named(ByChoice(f), {Other})
FewChoices(f) == Cardinality(ChoiceNames(f)) < 2
SmallChoices(f) == {i \in Audience(f) : f.people[i].choices \ ChoiceNames(f) # {}}
SegmentRows(f) ==
  {Row(f, n, ByChoice(f)[n], FewChoices(f)) : n \in ChoiceNames(f)}
  \cup {Row(f, Other, g, FewChoices(f) \/ Cardinality(g) < Few) : g \in {SmallChoices(f)} \ {{}}}

-----------------------------------------------------------------------------
\* Lead times.

Buckets == <<"same_day", "1-3", "4-7", "8-14", "15+">>

\* How many people a group of buckets has.
Weight(group, size) == MapThenSumSet(LAMBDA bucket : size[bucket], ToSet(group))

\* The smallest group, the earliest of them, merges with its smaller neighbour.
MergeStep(groups, size) ==
  LET weight(i) == Weight(groups[i], size)
      least(places) == Min({i \in places : \A j \in places : weight(i) <= weight(j)})
      smallest == least(DOMAIN groups)
      first == Min({smallest, least({smallest - 1, smallest + 1} \cap DOMAIN groups)})
  IN  IF Len(groups) < 2 \/ weight(smallest) >= Few THEN groups
      ELSE [k \in 1..Len(groups) - 1 |->
              IF k < first THEN groups[k]
              ELSE IF k = first THEN groups[k] \o groups[k + 1] ELSE groups[k + 1]]

\* _merge_small: until every group is large enough or one is left.
MergeSmall(groups, size) == FoldLeft(LAMBDA merged, g : MergeStep(merged, size), groups, groups)

\* _lead_time_show_up: the buckets before the start, merged; who came to
\* register after it is apart.
BucketOf(f, i) == LeadBucket(f.people[i].lead, Day)
LeadSizes(f) ==
  [b \in ToSet(Buckets) \cup {"after_start"} |-> Cardinality({i \in Audience(f) : BucketOf(f, i) = b})]
Filled(f) ==
  LET places == {k \in DOMAIN Buckets : LeadSizes(f)[Buckets[k]] > 0}
  IN  [k \in 1..Cardinality(places) |-> <<Buckets[InOrder(places, <)[k]]>>]
LeadGroups(f) ==
  MergeSmall(Filled(f), LeadSizes(f))
  \o (IF LeadSizes(f)["after_start"] > 0 THEN <<<<"after_start">>>> ELSE << >>)

LeadRows(f) ==
  [k \in DOMAIN LeadGroups(f) |->
     {i \in Audience(f) : BucketOf(f, i) \in ToSet(LeadGroups(f)[k])}]

-----------------------------------------------------------------------------
\* _chat_concentration: the most active authors, until they have half of the
\* messages.
Concentration(counts) ==
  LET sorted == SortSeq(counts, >)
      sum(s) == FoldLeft(+, 0, s)
  IN  Min({k \in 0..Len(counts) : 2 * sum(SubSeq(sorted, 1, k)) >= sum(counts)})

\* _questions_qa, _time_to_answer: how each question was answered, and the
\* delays of the answers that come after their question.
Answered(q) == q.written \/ q.oral \/ q.marked
QuestionsQA(questions) ==
  LET number(test(_)) == Len(SelectSeq(questions, test)) IN
  [written |-> number(LAMBDA q : q.written), oral |-> number(LAMBDA q : q.oral /\ ~q.written),
   marked |-> number(LAMBDA q : q.marked /\ ~(q.written \/ q.oral)), open |-> number(LAMBDA q : ~Answered(q))]
TimeToAnswer(questions) == SelectSeq(questions, LAMBDA q : q.marked /\ q.asked # NoTime /\ q.at >= q.asked)

-----------------------------------------------------------------------------
\* Every grouped measure counts everyone it is about, and once: no row has
\* another's key, no channel, cell or segment loses a person, no channel or
\* cell repeats one, and those whose attendance and replay are known or not
\* are all.
GroupsAddUp(f) ==
  LET keysApart(rows) == \A a, b \in rows : a.key = b.key => a = b
      cell(stayed, wrote) == RoomMap(f).cells[<<stayed, wrote>>].people[1]
      attendanceUnknown == {i \in Audience(f) : f.people[i].attended = "unknown" /\ f.people[i].replay # "unknown"}
  IN  /\ keysApart(ChannelRows(f)) /\ keysApart(SegmentRows(f))
      /\ \A i \in Audience(f) :
           /\ Sourced(f) # {} => Cardinality({r \in ChannelRows(f) : i \in r.members}) = 1
           /\ f.people[i].choices # {} => \E r \in SegmentRows(f) : i \in r.members
      /\ RoomMap(f).state # "unresolved" =>
           RoomMap(f).placed = cell(TRUE, TRUE) + cell(TRUE, FALSE) + cell(FALSE, TRUE) + cell(FALSE, FALSE)
      /\ Replay(f).attendees[2] <= ShowUp(f).num
      /\ Replay(f).noShows[2] + Replay(f).attendees[2] + Replay(f).replayUnknown
           + Cardinality(attendanceUnknown) = ShowUp(f).den

\* Nobody is lost or repeated among the lead times, and their small groups are
\* merged as far as they must be.
LeadsAddUp(f) ==
  LET lead == LeadRows(f)
      merged == Len(lead) - (IF \E i \in Audience(f) : f.people[i].lead < 0 THEN 1 ELSE 0)
  IN  /\ \A i \in Audience(f) : Cardinality({k \in DOMAIN lead : i \in lead[k]}) = 1
      /\ \A k \in 1..merged : merged > 1 => Cardinality(lead[k]) >= Few

\* A median lies within the session and is of all who came; a question has one
\* row, and only an answered one has a delay.
AnswersAddUp(f, questions) ==
  LET qa == QuestionsQA(questions)
  IN  /\ TimeInRoom(f).known + TimeInRoom(f).unknown = ShowUp(f).num
      /\ \A i \in DOMAIN TimeInRoom(f).median : TimeInRoom(f).median[i] \in 0..2 * f.length
      /\ qa.written + qa.oral + qa.marked + qa.open = Len(questions)
      /\ Len(TimeToAnswer(questions)) <= Len(questions) - qa.open

\* The fewest authors who wrote half of the messages, whoever they are.
FewestAuthors(counts) ==
  LET sum(group) == MapThenSumSet(LAMBDA i : counts[i], group) IN
  Concentration(counts) =
    Min({Cardinality(group) : group \in {g \in SUBSET DOMAIN counts : 2 * sum(g) >= sum(DOMAIN counts)}})

\* While a source's authors are unresolved nothing served depends on the
\* writers the other source gave.
WritersHidden(f, others) ==
  LET g == [f EXCEPT !.wrote = others] IN
  f.unresolved => /\ WroteRate(f) = WroteRate(g) /\ RoomMap(f) = RoomMap(g)
                  /\ ChannelRows(f) = ChannelRows(g) /\ SegmentRows(f) = SegmentRows(g)
=============================================================================
