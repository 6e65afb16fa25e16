------------------------------ MODULE Audience ------------------------------
(***************************************************************************)
(* The audience's figures (analytics/audience.py,                           *)
(* analytics/session_overview.py) and what it reacted to                    *)
(* (analytics/cross_source.py).                                            *)
(*                                                                         *)
(* A person adds counts, a country, an attendance rate and its seconds, or   *)
(* None, to a roster's.                                                     *)
(* A message has its time, or None, and the team's flags; a question its     *)
(* time, its responder and the two spellings of "answered live".  Texts and  *)
(* labels are left out.                                                    *)
(***************************************************************************)
EXTENDS Roster

CONSTANTS
  Step,        \* bucket_size_pct
  TopRows,     \* rows of a ranking
  TopMoments   \* rows of the moments

None == -1
Sum(s, f(_)) == FoldLeft(LAMBDA sum, x : sum + f(x), 0, s)
Top(s, n) == SubSeq(s, 1, IF Len(s) < n THEN Len(s) ELSE n)
\* A set in the order of a key, the least first.
By(S, key(_)) ==
  SetToSortSeq(S, LAMBDA a, b : \E k \in DOMAIN key(a) : key(a)[k] < key(b)[k]
                                    /\ \A j \in 1..k - 1 : key(a)[j] = key(b)[j])

-----------------------------------------------------------------------------
\* Who counts.

\* Wrong: an internal session leaves the team out as well.
NoTeam(item, internal) == ~item.team /\ ~item.guest

\* audience_chat_mask
AudienceMessage(m, internal) == internal \/ (~m.team /\ ~m.guest)
\* audience_people_mask
AudiencePerson(p, internal) == internal \/ (~p.team /\ ~p.guest)

\* split_audience_chat
SplitChat(chat, internal) ==
  LET kept == SelectSeq(chat, LAMBDA m : AudienceMessage(m, internal))
  IN  [kept |-> kept, left |-> Len(chat) - Len(kept)]

\* _answered_orally_series: the specification's spelling wins when it is there.
AnsweredLive(q) == IF q.response # "null" THEN q.response = "true" ELSE q.responded = "true"
\* build_question_stats
Answered(q) == q.responder # NoId \/ AnsweredLive(q)
QuestionStats(questions) ==
  [total |-> Len(questions), answered |-> Len(SelectSeq(questions, Answered)),
   askers |-> Cardinality({q.asker : q \in ToSet(questions)} \ {NoId})]

-----------------------------------------------------------------------------
\* The overview.

\* The score of build_session_people_df
Engagement(p) == p.messages + 3 * p.questions + 2 * p.votes

\* build_session_stats: messages are counted in the chat when there is one,
\* and otherwise are those the people are said to have written.
SessionStats(people, chats, internal) ==
  LET ours == SelectSeq(people, LAMBDA p : AudiencePerson(p, internal))
      written(list) == Sum(list, LAMBDA p : p.messages)
      heard(chat) == Len(SelectSeq(chat, LAMBDA m : AudienceMessage(m, internal)))
      total == IF chats = << >> THEN written(ours) ELSE heard(chats[1])
      all == IF chats = << >> THEN written(people) ELSE Len(chats[1])
  IN  [people |-> Len(people), attended |-> Len(SelectSeq(people, LAMBDA p : p.attended)),
       messages |-> total, team |-> all - total]

\* country_df: the countries someone came from, by those who came.
Countries(people) ==
  LET of(c) == {i \in DOMAIN people : people[i].country = c}
      came(c) == {i \in of(c) : people[i].attended}
      names == {c \in {people[i].country : i \in DOMAIN people} \ {None} : came(c) # {}}
  IN  Top(By(names, LAMBDA c : <<-Cardinality(came(c)), -Cardinality(of(c)), c>>), TopRows)

\* attendance_distribution_df: nobody in a band without a rate of 0 to 100.
Bands == <<-1, 0, 25, 50, 75, 100>>
InBand(people, k) == SelectSeq(people, LAMBDA p : Bands[k] < p.rate /\ p.rate <= Bands[k + 1])

\* engagement_top_df
MostEngaged(people, internal) ==
  Top(By({i \in DOMAIN people : AudiencePerson(people[i], internal)},
         LAMBDA i : <<-Engagement(people[i]), -people[i].messages, -people[i].questions,
                      -people[i].seconds, i>>), TopRows)

\* build_session_overview_data: whether the session is internal is decided once.
Overview(people, chats) ==
  LET internal == Internal(people)
  IN  [internal |-> internal, stats |-> SessionStats(people, chats, internal),
       countries |-> Countries(people), engaged |-> MostEngaged(people, internal)]

-----------------------------------------------------------------------------
\* Reactions.

\* In hundredths of a percent, rounded.
Percent(t, whole) == (20000 * t + whole) \div (2 * whole)

\* _normalize_series_to_progress: between the first and the last of the series;
\* half way when they are one moment.
Progress(times) ==
  LET known == ToSet(times) \ {None}
      first == CHOOSE t \in known : \A u \in known : t <= u
      last == CHOOSE t \in known : \A u \in known : t >= u
  IN  [i \in DOMAIN times |->
         IF times[i] = None THEN None
         ELSE IF first = last THEN 5000 ELSE Percent(times[i] - first, last - first)]

\* Wrong: the end has a bucket of its own.
OpenBucket(progress) == (progress \div (100 * Step)) * Step

\* _bucket_start: the end belongs to the last bucket.
BucketStart(progress) ==
  LET bucket == (progress \div (100 * Step)) * Step
      last == (99 \div Step) * Step
  IN  IF bucket < last THEN bucket ELSE last

Buckets == {b \in 0..99 : b % Step = 0}
InBucket(progress, b) == {i \in DOMAIN progress : progress[i] # None /\ BucketStart(progress[i]) = b}

\* The chat, the questions and the segments of every bucket; the segments by
\* the transcript's last end, each list by its own first and last.
Timeline(chat, questions, segments, length, internal) ==
  LET ours == SplitChat(chat, internal).kept
      times(list) == [i \in DOMAIN list |-> list[i].at]
      spoken == [i \in DOMAIN segments |->
                   IF segments[i].start = None THEN None ELSE Percent(segments[i].start, length)]
  IN  [b \in Buckets |->
         [chat |-> Cardinality(InBucket(Progress(times(ours)), b)),
          questions |-> Cardinality(InBucket(Progress(times(questions)), b)),
          segments |-> InBucket(spoken, b)]]

\* build_cross_source_insights: the timeline needs a transcript that lasts, and
\* a chat or questions.
CrossTimeline(chat, questions, segments, internal) ==
  LET ends == {s.end : s \in ToSet(segments)} \ {None}
      length == CHOOSE t \in ends : \A u \in ends : t >= u
  IN  IF ends = {} \/ chat \o questions = << >> THEN << >>
      ELSE IF length = 0 THEN << >> ELSE Timeline(chat, questions, segments, length, internal)

\* reaction_moments_df: the buckets with a reaction to something said.
ReactionMoments(timeline) ==
  LET reactions(b) == timeline[b].chat + timeline[b].questions
  IN  Top(By({b \in DOMAIN timeline : reactions(b) > 0 /\ timeline[b].segments # {}},
             LAMBDA b : <<-reactions(b), -timeline[b].questions, -timeline[b].chat, b>>), TopMoments)

-----------------------------------------------------------------------------
\* The card and the timeline tell the same of a chat: the audience's messages
\* with a time are each in one bucket, as the questions and the segments are,
\* and with those that have none they are the card's; the card and the team's
\* messages are all.
ReactionsAddUp(people, chat, questions, segments) ==
  LET overview == Overview(people, <<chat>>)
      timeline == CrossTimeline(chat, questions, segments, overview.internal)
      timed(list) == Len(SelectSeq(list, LAMBDA x : x.at # None))
      ours == SplitChat(chat, overview.internal).kept
      total(f(_)) == Sum(SetToSeq(DOMAIN timeline), LAMBDA b : f(timeline[b]))
  IN  /\ overview.stats.messages + overview.stats.team = Len(chat)
      /\ overview.stats.messages = Len(ours)
      /\ overview.internal => overview.stats.team = 0
      /\ timeline # << >> =>
           /\ total(LAMBDA row : row.chat) = timed(ours)
           /\ total(LAMBDA row : row.questions) = timed(questions)
           /\ total(LAMBDA row : Cardinality(row.segments)) =
                Len(SelectSeq(segments, LAMBDA s : s.start # None))
=============================================================================
