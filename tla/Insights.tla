------------------------------ MODULE Insights ------------------------------
(***************************************************************************)
(* What a transcript says of its session (analytics/transcript.py): speech  *)
(* by the minute, pauses, who follows whom, bursts, airtime, mentions in     *)
(* their sentence, the score of a minute and the key moments.               *)
(*                                                                         *)
(* Times are whole seconds or None.  A segment has its speaker and number   *)
(* of words, a sentence the terms in it.  Scores are out of 100; quantiles   *)
(* are in tenths.  Labels, excerpts, fillers and histograms are left out.    *)
(***************************************************************************)
EXTENDS Integers, Sequences, SequencesExt

CONSTANTS
  Minute,          \* bucket_size_seconds
  Pause,           \* pause_threshold_seconds
  Rapid,           \* of a handoff
  Quick, Steady,   \* lengths of a segment
  Watch, Low,      \* pauses in a minute of little energy
  Moments          \* key moments kept

None == -1
Infinite == -1   \* a distance greater than every other
Known(s) == s.start # None /\ s.end # None
Seconds(s) == IF Known(s) THEN Max({0, s.end - s.start}) ELSE 0
MinuteOf(t) == t \div Minute
Over(s, f(_)) == FoldLeft(LAMBDA sum, x : sum + f(x), 0, s)

-----------------------------------------------------------------------------
\* Rows.

\* Wrong: in the order of the utterances.
AsGiven(rows) == rows

\* sort_values: by start, then end, missing ones last.
Sorted(rows) ==
  LET late(t) == IF t = None THEN 1 ELSE 0
      key(i) == <<late(rows[i].start), rows[i].start, late(rows[i].end), rows[i].end, i>>
      before(i, j) == \E k \in 1..5 : /\ key(i)[k] < key(j)[k]
                                      /\ \A l \in 1..k - 1 : key(i)[l] = key(j)[l]
      order == SetToSortSeq(DOMAIN rows, before)
  IN  [i \in DOMAIN rows |-> rows[order[i]]]

\* The words with both times.  0 is no time: `start or start_time` takes the
\* other key, which Gladia does not send.
Words(words) == Sorted(SelectSeq(words, LAMBDA w : w.start \notin {None, 0} /\ w.end \notin {None, 0}))

\* The sentences; one that starts at 0 has no time either.
Sentences(list) ==
  LET time(t) == IF t = 0 THEN None ELSE t
  IN  Sorted([i \in DOMAIN list |-> [list[i] EXCEPT !.start = time(@), !.end = time(@)]])

-----------------------------------------------------------------------------
\* Speech by the minute.

\* Wrong: a segment without length says nothing.
OnlySpans(s) ==
  {p \in {[minute |-> k, seconds |-> Min({s.end, (k + 1) * Minute}) - Max({s.start, k * Minute})] :
            k \in MinuteOf(s.start)..MinuteOf(s.end)} : p.seconds > 0}

\* A segment's share of each minute it is in; one without an end or a length
\* is in the minute it starts in.
Shares(s) ==
  IF s.start = None THEN {}
  ELSE IF Seconds(s) = 0 THEN {[minute |-> MinuteOf(s.start), seconds |-> 0]}
  ELSE {p \in {[minute |-> k, seconds |-> Min({s.end, (k + 1) * Minute}) - Max({s.start, k * Minute})] :
                 k \in MinuteOf(s.start)..MinuteOf(s.end - 1)} : p.seconds > 0}

\* timeline_df: words go with the seconds, in tenths.
Timeline(rows) ==
  LET shares(s, m) == {p \in Shares(s) : p.minute = m}
      tenths(s, p) == IF Seconds(s) = 0 THEN 10 * s.words ELSE (10 * s.words * p.seconds) \div Seconds(s)
      sum(m, f(_, _)) == Over(rows, LAMBDA s : MapThenSumSet(LAMBDA p : f(s, p), shares(s, m)))
  IN  [m \in UNION {{p.minute : p \in Shares(s)} : s \in ToSet(rows)} |->
         [words |-> sum(m, tenths), seconds |-> sum(m, LAMBDA s, p : p.seconds),
          segments |-> sum(m, LAMBDA s, p : 1)]]

\* words_per_minute
Pace(row) == IF row.seconds > 0 THEN (row.words * 6) \div row.seconds ELSE 0
SegmentPace(s) == IF Seconds(s) > 0 THEN (60 * s.words) \div Seconds(s) ELSE 0

-----------------------------------------------------------------------------
\* Pauses.

\* silence_df: before the first row, between one row and the next, and after
\* the last end.  The one before counts in the minute it ends in.
Silences(rows, duration) ==
  LET starts == {s.start : s \in ToSet(rows)} \ {None}
      ends == {s.end : s \in ToSet(rows)} \ {None}
      gap(from, to, at, turn) == [from |-> from, to |-> to, minute |-> MinuteOf(at), turn |-> turn]
      lead == {gap(0, t, t, FALSE) : t \in IF starts = {} THEN {} ELSE {Min(starts)}}
      between == {gap(rows[i - 1].end, rows[i].start, rows[i - 1].end, rows[i].speaker # rows[i - 1].speaker) :
                    i \in {j \in 2..Len(rows) : rows[j - 1].end # None /\ rows[j].start # None}}
      trail == {gap(t, duration, t, FALSE) : t \in IF duration = None \/ ends = {} THEN {} ELSE {Max(ends)}}
  IN  {g \in lead \cup between \cup trail : g.to - g.from >= Pause}

\* Rows of words when there are any.
PauseRows(segments, words) == IF Words(words) # << >> THEN Words(words) ELSE Sorted(segments)

PauseSeconds(gaps, m) == MapThenSumSet(LAMBDA g : g.to - g.from, {g \in gaps : g.minute = m})

-----------------------------------------------------------------------------
\* Turns.

\* A change of speaker with both times: the answer's delay.
Responses(rows) ==
  {i \in 2..Len(rows) : /\ rows[i].speaker # rows[i - 1].speaker
                        /\ rows[i - 1].end # None /\ rows[i].start # None}
Interruptions(rows) == {i \in Responses(rows) : rows[i].start - rows[i - 1].end <= Rapid}

\* Wrong: the last burst is left open.
ClosedBursts(state) == state.done

\* The burst under way is closed by the end of the transcript.
AllBursts(state) == state.done \o state.open

\* burst_df: a speaker's rows, one soon after the other.  A burst ends where
\* its last row does.
Bursts(rows) ==
  LET new(s) == <<[speaker |-> s.speaker, start |-> s.start, end |-> s.end, words |-> s.words]>>
      goesOn(b, s) == b.speaker = s.speaker /\ s.start - b.end < Pause
      step(state, s) ==
        IF state.open # << >> /\ goesOn(state.open[1], s)
        THEN [state EXCEPT !.open[1] = [@ EXCEPT !.end = s.end, !.words = @ + s.words]]
        ELSE [done |-> state.done \o state.open, open |-> new(s)]
  IN  AllBursts(FoldLeft(step, [done |-> << >>, open |-> << >>], SelectSeq(rows, Known)))

\* speaker_df
Airtime(rows) ==
  [v \in {s.speaker : s \in ToSet(rows)} |->
     LET own == SelectSeq(rows, LAMBDA s : s.speaker = v)
     IN  [seconds |-> Over(own, Seconds), segments |-> Len(own), words |-> Over(own, LAMBDA s : s.words)]]

\* segment_mix_df: a segment without a length is a long stretch.
Styles == <<"quick", "steady", "long">>
Style(s) == IF ~Known(s) THEN "long"
            ELSE IF Seconds(s) < Quick THEN "quick" ELSE IF Seconds(s) < Steady THEN "steady" ELSE "long"
Mix(rows) == [v \in ToSet(Styles) |-> SelectSeq(rows, LAMBDA s : Style(s) = v)]

\* summary: the first style there is, however little of it.
DominantStyle(rows) == SelectSeq(Styles, LAMBDA v : Mix(rows)[v] # << >>)[1]

-----------------------------------------------------------------------------
\* Mentions.

Spans(s, t) == t # None /\ Known(s) /\ s.start <= t /\ t <= s.end
Distance(s, t) == IF t = None \/ s.start = None THEN Infinite
                  ELSE IF s.start < t THEN t - s.start ELSE s.start - t
AsNear(d, e) == e = Infinite \/ (d # Infinite /\ d <= e)

\* Wrong: a sentence that has the term at another time is as good.
FirstContaining(list, term, t) == Min({i \in DOMAIN list : term \in list[i].terms})

\* _EntityContextFinder.find, once some sentence has the term
AmongContaining(list, term, t) ==
  LET has == {i \in DOMAIN list : term \in list[i].terms}
      spanning == {i \in has : Spans(list[i], t)}
  IN  IF spanning # {} THEN Min(spanning)
      ELSE Min({i \in has : \A j \in has : AsNear(Distance(list[i], t), Distance(list[j], t))})

Context(list, term, t) ==
  LET spanning == {i \in DOMAIN list : Spans(list[i], t)}
      among == IF spanning = {} THEN DOMAIN list ELSE spanning
  IN  IF \E i \in DOMAIN list : term \in list[i].terms THEN AmongContaining(list, term, t)
      ELSE Min({i \in among : \A j \in among : AsNear(Distance(list[i], t), Distance(list[j], t))})

\* numbers_df: a mention without a time takes its sentence's.
Mention(list, m) ==
  LET i == Context(list, m.term, m.at)
  IN  [context |-> i, time |-> IF m.at = None THEN list[i].start ELSE m.at, numeric |-> m.numeric]

\* extract_meaningful_terms_from_series: a term said in 80% of the texts that
\* have any is no topic of theirs, so one text has none.
Topics(texts) ==
  LET some == SelectSeq(texts, LAMBDA terms : terms # {})
      frequency(term) == Len(SelectSeq(some, LAMBDA terms : term \in terms))
  IN  {term \in UNION ToSet(some) : 10 * frequency(term) < 8 * Len(some)}

-----------------------------------------------------------------------------
\* The score of a minute.

\* _safe_quantile, of q tenths, in tenths
Quantile(values, q, default) ==
  LET s == SortSeq(values, <)
      at == q * (Len(s) - 1)
      k == 1 + at \div 10
  IN  IF s = << >> THEN 10 * default
      ELSE 10 * s[k] + IF at % 10 = 0 THEN 0 ELSE (at % 10) * (s[k + 1] - s[k])

\* _min_max_scale, out of 100: half when there is nothing to tell apart.
Scale(v, low, high) == IF high <= low THEN 50 ELSE Min({100, Max({0, (100 * (v - low)) \div (high - low)})})

\* What the score is made of, minute by minute.  The pauses and interruptions of
\* a minute nobody starts in are not joined.
Series(rows, gaps) ==
  LET timeline == Timeline(rows)
      minutes == SetToSortSeq(DOMAIN timeline, <)
      pace(k) == Pace(timeline[minutes[k]])
  IN  [minute |-> minutes,
       pace |-> [k \in DOMAIN minutes |-> pace(k)],
       change |-> [k \in DOMAIN minutes |-> IF k = 1 THEN 0 ELSE Max({pace(k) - pace(k - 1), pace(k - 1) - pace(k)})],
       pauses |-> [k \in DOMAIN minutes |-> PauseSeconds(gaps, minutes[k])],
       cuts |-> [k \in DOMAIN minutes |->
                   Cardinality({i \in Interruptions(rows) : MinuteOf(rows[i].start) = minutes[k]})]]

Engagement(series) ==
  LET low == Quantile(series.pace, 1, 0)
      paceScore(k) == Scale(10 * series.pace[k], low, Quantile(series.pace, 9, 1))
      penalty(k) == Scale(10 * series.pauses[k], 0, Quantile(series.pauses, 9, 1))
      variation(k) == Scale(10 * series.change[k], 0, Quantile(series.change, 9, 1))
      cutScore(k) == Scale(series.cuts[k], 0, Max({1} \cup ToSet(series.cuts)))
      energy(k) == IF series.pauses[k] >= Low \/ (10 * series.pace[k] <= low /\ series.pauses[k] >= Watch) THEN "low"
                   ELSE IF series.pauses[k] >= Watch THEN "watch" ELSE ""
  IN  [k \in DOMAIN series.minute |->
         [minute |-> series.minute[k], interruptions |-> series.cuts[k], energy |-> energy(k),
          engagement |-> (45 * paceScore(k) + 35 * (100 - penalty(k)) + 20 * cutScore(k)) \div 100,
          load |-> (45 * penalty(k) + 20 * (100 - paceScore(k)) + 20 * variation(k)) \div 100,
          clarity |-> (30 * (100 - penalty(k)) + 35 * paceScore(k) + 10 * (100 - variation(k))) \div 100]]

\* key_moments_df: a numeric mention counts for its sentence only when it comes
\* in the second the sentence starts in; an entity alone counts for nothing.
KeyMoments(list, mentions, named, fast) ==
  LET numeric(i) == \E m \in mentions : m.numeric /\ m.context = i /\ m.time = list[i].start
      pace(i) == SegmentPace(list[i])
      one(b) == IF b THEN 1 ELSE 0
      signals(i) == one(numeric(i)) + one(list[i].strong) + one(fast > 0 /\ 10 * pace(i) >= fast)
      score(i) == signals(i) + one(numeric(i)) + one(list[i].strong) + one(list[i].terms \cap named # {})
      chosen == {i \in DOMAIN list : signals(i) >= 2 \/ score(i) >= 3}
      order == SetToSortSeq(chosen, LAMBDA i, j : score(i) > score(j) \/ (score(i) = score(j) /\ i < j))
  IN  SubSeq(order, 1, Min({Moments, Len(order)}))

\* replay_navigation_df
Highlight(row, moments) ==
  IF \E s \in moments : s.start # None /\ MinuteOf(s.start) = row.minute THEN "key moment"
  ELSE IF row.energy # "" THEN "low energy" ELSE "steady"

-----------------------------------------------------------------------------
\* The seconds of a segment are spread over minutes without loss, every
\* interruption is in a minute that has a score, and of two minutes that differ
\* only in their pauses the one with more has no more engagement.
MinutesAddUp(segments) ==
  \A series \in {Series(Sorted(segments), Silences(Sorted(segments), None))} :
    LET rows == Sorted(segments)
        timed == SelectSeq(rows, LAMBDA s : s.start # None)
        scored == Engagement(series)
        alike(j, k) == series.pace[j] = series.pace[k] /\ series.cuts[j] = series.cuts[k]
    IN  /\ MapThenSumSet(LAMBDA m : Timeline(rows)[m].seconds, DOMAIN Timeline(rows)) = Over(timed, Seconds)
        /\ Over(scored, LAMBDA row : row.interruptions) = Cardinality(Interruptions(rows))
        /\ \A j, k \in DOMAIN scored : alike(j, k) /\ series.pauses[j] > series.pauses[k] =>
             scored[j].engagement <= scored[k].engagement

\* Pauses are apart, and nobody starts to speak in one.
PausesApart(segments, words, duration) ==
  LET rows == PauseRows(segments, words)
      gaps == Silences(rows, duration)
  IN  /\ \A g, h \in gaps : g = h \/ g.to <= h.from \/ h.to <= g.from
      /\ \A g \in gaps, s \in ToSet(rows) : s.start <= g.from \/ s.start >= g.to

\* Bursts have every word of the timed segments, and one that follows another
\* of the same speaker comes after a pause.
BurstsWhole(segments) ==
  LET rows == Sorted(segments)
      bursts == Bursts(rows)
  IN  /\ Over(bursts, LAMBDA b : b.words) = Over(SelectSeq(rows, Known), LAMBDA s : s.words)
      /\ \A k \in 2..Len(bursts) : bursts[k].speaker = bursts[k - 1].speaker =>
           bursts[k].start - bursts[k - 1].end >= Pause

\* The sentence of a mention is the best by the finder's four rules: it has the
\* term, it spans the moment, it starts nearest to it, it is the earliest.  Two
\* sentences that have the term and span the moment are told apart by rank alone.
BestContext(list, term, t) ==
  LET has(i) == term \in list[i].terms
      spans(i) == Spans(list[i], t)
      far(i) == IF has(i) /\ spans(i) THEN 0 ELSE Distance(list[i], t)
      better(i, j) == \/ has(i) /\ ~has(j)
                      \/ /\ has(i) <=> has(j)
                         /\ \/ spans(i) /\ ~spans(j)
                            \/ /\ spans(i) <=> spans(j)
                               /\ AsNear(far(i), far(j)) /\ (AsNear(far(j), far(i)) => i < j)
  IN  \A i \in DOMAIN list : ~better(i, Context(list, term, t))
=============================================================================
