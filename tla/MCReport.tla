------------------------------ MODULE MCReport ------------------------------
(* The Report's algorithms for TLC: each over a set of small inputs, one of   *)
(* which a state holds.  Lengths of time are cut down to a few seconds.      *)
EXTENDS Report, SequencesExt

Digits == << <<1, 1, 1>>, <<1, 1, 2>>, <<1, 2, 1>>, <<2, 1, 1>>, <<1, 2, 2>> >>

\* One step that divides 100 and one that does not.
Aud == INSTANCE Audience WITH Step <- 25, TopRows <- 2, TopMoments <- 2
Odd == INSTANCE Audience WITH Step <- 30, TopRows <- 2, TopMoments <- 2
Ali == INSTANCE Alignment WITH
  SearchBound <- 6, GapMargin <- 2, DurationSlack <- 2, LinkBefore <- 1, LinkAfter <- 2,
  WaveWindow <- 2, WaveMin <- 2, WaveFactor <- 1, WaveMinLag <- 1, WaveMaxLag <- 3,
  ReadMinLag <- 1, ReadMaxLag <- 9, ReadAnswerSlack <- 1, MaxPlusMinus <- 2, ZeroSlack <- 1, MaxGap <- 2,
  DriftTolerance <- 1, HalfWidth <- 3

No == -1   \* None

-----------------------------------------------------------------------------
\* Clock.
ClockCases ==
  [of : {"clock"}, events : {<<e, f>> : e \in {0, 1, 4}, f \in {4, 7, 8}},
   speech : {<<[start |-> a, end |-> b]>> : a \in {-1, 0, 3, 5}, b \in {-1, 1, 4, 6, 7}},
   base : {Clk!ClockBase(s, e, d) : s \in {0, 3}, e \in {0, 7, 8}, d \in {0, 3}}]

-----------------------------------------------------------------------------
\* Roster.
Person(i, t, g, a) == [id |-> i, team |-> t, guest |-> g, attended |-> a]
RoleCases ==
  [of : {"roles"},
   list : {<<Person(1, t, g, a), Person(i, u, FALSE, TRUE)>> : t, g, a, u \in BOOLEAN, i \in {1, 2}},
   chat : {<< >>} \cup {<<[id |-> 1, at |-> 1, author |-> w, team |-> t, guest |-> g]>> :
             w \in {0, 1, 3}, t, g \in BOOLEAN},
   questions : {<< >>} \cup {<<[id |-> 1, at |-> 1, asker |-> w, responder |-> r, answered |-> b]>> :
             w \in {1, 2}, r \in {1, 3}, b \in BOOLEAN}]
RefCases == [of : {"refs"}, ids : SUBSET (1..5), joining : 1..5]
Item(i, t, x) == [id |-> i, at |-> IF i = 0 THEN t ELSE i \div 2, text |-> IF i = 0 THEN x ELSE 1]
NumberCases ==
  [of : {"numbers"}, items : {<<Item(i, 0, 1), Item(j, 1, 1), Item(k, 0, x)>> : i, j, k \in 0..3, x \in 1..2}]

-----------------------------------------------------------------------------
\* Measures: four people out of five.
Guest(came, seconds, utm, choices, lead, replay) ==
  [role |-> "audience", attended |-> came, seconds |-> seconds, utm |-> utm, referrer |-> "own",
   registration |-> "", choices |-> choices, lead |-> lead, replay |-> replay]
Guests == <<Guest("yes", 4, "x", {"u"}, 0, "yes"), Guest("yes", 1, "x", {"u", "v"}, 2, "no"),
            Guest("no", -1, "", {}, 9, "unknown"), Guest("yes", 2, "(other)", {"(other)", "w"}, -1, "yes"),
            [Guest("unknown", -1, "y", {"w"}, 20, "no") EXCEPT !.role = "team"]>>
MeasureCases ==
  [of : {"measures"},
   facts : [people : {<<Guests[a], Guests[b], Guests[c], Guests[d]>> : a \in 1..3, b \in 2..4, c, d \in 3..5}
                     \cup {<<Guests[a], Guests[1], Guests[b], Guests[2]>> : a, b \in 1..5},
            internal : BOOLEAN, length : {0, 4}, wrote : {{}, {1, 3}}, unresolved : BOOLEAN, partial : {FALSE}],
   others : {{2}},
   questions : {<<[written |-> w, oral |-> o, marked |-> TRUE, asked |-> t, at |-> 2],
                  [written |-> FALSE, oral |-> o, marked |-> FALSE, asked |-> 1, at |-> 0]>> :
                  w, o \in {TRUE}, t \in {0, 3}}]
CountCases == [of : {"counts"}, counts : [1..3 -> 0..3]]

-----------------------------------------------------------------------------
\* Audience.
Viewer(t, g, a) == [id |-> 1, team |-> t, guest |-> g, attended |-> a, messages |-> 2, questions |-> 1,
                    votes |-> 0, country |-> 1, rate |-> 50, seconds |-> IF a THEN 9 ELSE No]
Message(at, t, g) == [at |-> at, team |-> t, guest |-> g]
Question(at) == [at |-> at, asker |-> 1, responder |-> 0, response |-> "null", responded |-> "true"]
Segment(a, b) == [start |-> a, end |-> b]
ReactionCases ==
  [of : {"reactions"},
   people : {<<Viewer(t, g, a), Viewer(FALSE, FALSE, b)>> : t, g, a, b \in BOOLEAN},
   chat : {<< >>} \cup {<<Message(a, t, FALSE), Message(b, FALSE, t), Message(9, t, TRUE)>> :
                          a \in {No, 0}, b \in {5, 9}, t \in BOOLEAN},
   questions : {<< >>, <<Question(1)>>, <<Question(No), Question(0), Question(3)>>},
   segments : {<<Segment(0, a), Segment(b, c)>> : a \in {No, 4}, b \in {2, 9}, c \in {No, 0, 1}}]

-----------------------------------------------------------------------------
\* Alignment: at most three anchors of one width, and small sessions.
Ranges == {[name |-> 1, lo |-> a, hi |-> b] : a \in -3..2, b \in {-2, 0, 2}}
SweepCases ==
  [of : {"sweep"}, anchors : {{[r EXCEPT !.name = 1], [s EXCEPT !.name = 2], [t EXCEPT !.name = 3]} :
     r, s, t \in {x \in Ranges : x.lo <= x.hi}}]
Msg(t, b) == [t |-> t, kind |-> "chat", team |-> b, link |-> b, answered |-> Ali!NoAnswer]
Question3(b, at) == [Msg(3, b) EXCEPT !.kind = "question", !.link = FALSE, !.answered = at]
Thirds == {Msg(3, FALSE), Question3(FALSE, Ali!NoAnswer), Question3(FALSE, 4), Question3(TRUE, Ali!NoAnswer)}
\* The utterances start at 0, 3 and 7.  A message is read nowhere, in one place or
\* in two; of one place, by the words found or by their order.
Read(first, length, found, order, r) ==
  [first |-> first, length |-> length, found |-> found, order |-> order, r |-> r]
Once1 == {Read(1, 1, 2, 2, 0)}
Twice == {Read(1, 1, 2, 2, 1), Read(3, 1, 2, 2, 8)}
MoreWords == {Read(2, 1, 2, 2, 4), Read(1, 2, 3, 1, 1)}
BetterOrder == {Read(3, 1, 2, 1, 7), Read(2, 2, 2, 2, 4)}
ProbeCases ==
  [of : {"probe"}, session : [
     messages : {<<Msg(a, x), Msg(b, y), m>> : a \in {1, 2}, b \in {3, 5}, x, y \in BOOLEAN, m \in Thirds},
     cues : {<<[r |-> 0, u |-> 1, kind |-> k], [r |-> 3, u |-> 2, kind |-> l]>> : k, l \in {"link", "wave"}},
     reads : {<<a, b, c>> : a \in {{}, Once1}, b \in {Once1, Twice}, c \in {{}, MoreWords, BetterOrder}},
     end : {0, 10}, audio : {0, 8}, last : {9}, internal : BOOLEAN]]

-----------------------------------------------------------------------------
\* Transcript: two chunks, and files of subtitles.
Word(a, b, low) == [start |-> a, end |-> b, low |-> low]
WordsFrom(s) == {<< >>, <<Word(s, s + 1, TRUE)>>, <<Word(s + 1, s + 1, TRUE), Word(s + 1, s + 2, FALSE)>>}
Utterances(s) == [start : {s}, end : {s + 2}, speaker : {-1, 0, 1}, words : WordsFrom(s)]
Chunk(offset, utterances) ==
  [offset |-> offset, duration |-> 4, utterances |-> utterances, direct |-> << >>, listed |-> FALSE]
ChunkCases ==
  [of : {"chunks"}, chunks : {<<Chunk(0, <<u>>), Chunk(10, <<v, w>>)>> :
     u, v \in Utterances(0) \cup Utterances(1),
     w \in [start : {1}, end : {2}, speaker : {1}, words : {<< >>, <<Word(1, 1, TRUE)>>}]}]
OwnerCases ==
  [of : {"owner"}, word : {[start |-> x, end |-> x + d] : x \in 0..9, d \in -1..2},
   utterances : {<<[start |-> 0, end |-> b], [start |-> 1, end |-> d], [start |-> e, end |-> f]>> :
                   b \in {0, 8}, d \in {0, 4}, e \in {2, 3}, f \in {3, 5}}]
Cue(from, to) == [kind |-> "cue", number |-> 7, start |-> from, end |-> to, text |-> 1]
Header == [kind |-> "header", number |-> 0, start |-> << >>, end |-> << >>, text |-> 0]
Blocks == {<< >>, <<Header, Cue(<<0, 2>>, <<1, 5>>)>>, <<Cue(<<0, 59, 58>>, <<1, 0, 3>>), Cue(<<1, 0, 4>>, <<1, 0, 5>>)>>}
SubtitleCases ==
  [of : {"subtitles"}, format : {"srt", "vtt"},
   files : {<<[offset |-> 0, blocks |-> a], [offset |-> o, blocks |-> b]>> : a, b \in Blocks, o \in {1, 3600}}]

-----------------------------------------------------------------------------
\* Insights.
Speech(a, d, v, w) == [start |-> a, end |-> IF d = No THEN No ELSE a + d, speaker |-> v, words |-> w]
Said(a, d) == [start |-> a, end |-> a + d, speaker |-> 1]
SpeechCases ==
  [of : {"speech"}, segments : {<<Speech(a, d, 1, 2), Speech(b, e, v, 3), Speech(c, 2, 1, 1)>> :
     a \in {0, 3}, d \in {No, 0, 5, 9}, b \in {2, 4, 8}, e \in {0, 4}, v \in {1, 2}, c \in {No, 1, 9}}]
PauseCases ==
  [of : {"pauses"}, words : {<< >>} \cup {<<Said(a, 2), Said(b, 1), Said(c, d)>> :
                               a \in {0, 4}, b \in {1, 6}, c \in {3, 9}, d \in {0, 4}},
   segments : {<<Speech(2, 1, 1, 1), Speech(0, 1, 1, 1)>>}, duration : {No, 9, 20}]
Sentence(a, b, terms) == [start |-> a, end |-> b, terms |-> terms, strong |-> FALSE, words |-> 1, speaker |-> 1]
Some == {Sentence(a, b, terms) : a \in {No, 0, 3}, b \in {No, 5}, terms \in {{}, {1}}}
MentionCases ==
  [of : {"mention"}, term : {1}, at : {No, 3, 4}, list : {Ins!Sentences(<<a, b, Sentence(4, 6, {1})>>) : a, b \in Some}]

-----------------------------------------------------------------------------
\* The small inputs are inputs.
ASSUME SmallInputs ==
  /\ ClockCases \subseteq ClockInputs /\ OwnerCases \subseteq OwnerInputs /\ MentionCases \subseteq MentionInputs
  /\ RoleCases \subseteq RoleInputs /\ RefCases \subseteq RefInputs /\ NumberCases \subseteq NumberInputs
  /\ MeasureCases \subseteq MeasureInputs

InputInit ==
  \/ case \in ClockCases \/ case \in RoleCases \/ case \in RefCases \/ case \in NumberCases
  \/ case \in MeasureCases \/ case \in CountCases \/ case \in ReactionCases
  \/ case \in SweepCases \/ case \in ProbeCases
  \/ case \in ChunkCases \/ case \in OwnerCases \/ case \in SubtitleCases
  \/ case \in SpeechCases \/ case \in PauseCases \/ case \in MentionCases

-----------------------------------------------------------------------------
\* No figure of the Report loses or repeats what it counts: answers to the
\* questions, the fewest authors of half the messages, reactions in the tenths of a session, seconds of speech in the
\* minutes of the transcript, words in bursts.
FiguresAddUp ==
  /\ case.of = "measures" => Mea!AnswersAddUp(case.facts, case.questions)
  /\ case.of = "counts" => Mea!FewestAuthors(case.counts)
  /\ case.of = "reactions" => /\ Aud!ReactionsAddUp(case.people, case.chat, case.questions, case.segments)
                              /\ Odd!ReactionsAddUp(case.people, case.chat, case.questions, case.segments)
  /\ case.of = "speech" => Ins!MinutesAddUp(case.segments) /\ Ins!BurstsWhole(case.segments)
  /\ case.of = "pauses" => Ins!PausesApart(case.segments, case.words, case.duration)

\* What a recording gives the Report is what was recorded: its words, times,
\* speakers and subtitles come through the merge of its chunks and what reads it,
\* and its offset is the one most moments agree on, each of them counted once,
\* and only applied when enough of both directions allow it.
RecordingKept ==
  /\ case.of = "chunks" => /\ Trs!ChunksKept(case.chunks)
                           /\ (\A i \in DOMAIN case.chunks : \E u \in ToSet(case.chunks[i].utterances) : u.words # << >>)
                                => Trs!OldMergeRead(case.chunks)
                           /\ Trs!HealthCounts(Trs!Parse(Trs!Merge(case.chunks)))
  /\ case.of = "subtitles" => Trs!SubtitlesKept(case.files, case.format)
  /\ case.of = "sweep" => Ali!SweepFindsMost(case.anchors, [lo |-> -2, hi |-> 2])
  /\ case.of = "probe" => Ali!OffsetsEarned(case.session)
=============================================================================
