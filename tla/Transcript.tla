----------------------------- MODULE Transcript -----------------------------
(***************************************************************************)
(* The transcript of a recording: the results of its chunks merged          *)
(* (gladia/transcriber.py), read back (record/transcript.py) and judged     *)
(* (record/transcript_health.py).                                          *)
(*                                                                         *)
(* A chunk's result has utterances with their words and maybe a list of     *)
(* words of its own.  Times are known, whole seconds; a word is unclear or   *)
(* not.  Texts, entities, labels and languages are left out; a    *)
(* sentence is merged as an utterance is.                                  *)
(***************************************************************************)
EXTENDS Integers, Sequences, SequencesExt

CONSTANTS
  Tolerance,                        \* of a word outside its utterance
  ChunkGap,                         \* between the shifts of two chunks
  Window, WindowMin, Clusters,      \* stretches of unclear words
  SubstantialS                      \* speech of a substantial speaker

NoSpeaker == -1
NoOne == 0
Span(s) == [start |-> s.start, end |-> Max({s.start, s.end})]
Ordered(s, key(_)) ==
  LET less(a, b) == \E k \in DOMAIN key(a) :
        key(a)[k] < key(b)[k] /\ \A j \in 1..k - 1 : key(a)[j] = key(b)[j]
  IN  SetToSortSeq(s, less)
Over(s, f(_)) == FoldLeft(LAMBDA sum, x : sum + f(x), 0, s)

-----------------------------------------------------------------------------
\* _shift_utterance: an entry and its words on the recording's clock.
ShiftSpeaker(speaker, base) == IF speaker = NoSpeaker THEN NoSpeaker ELSE speaker + base
ShiftWord(w, offset) == [w EXCEPT !.start = @ + offset, !.end = @ + offset]
Shift(u, offset, base) ==
  [u EXCEPT !.start = @ + offset, !.end = @ + offset, !.speaker = ShiftSpeaker(@, base),
            !.words = [i \in DOMAIN @ |-> ShiftWord(@[i], offset)]]

\* _chunk_speaker_ids
ChunkSpeakers(c) == {e.speaker : e \in ToSet(c.utterances) \cup ToSet(c.direct)} \ {NoSpeaker}

\* Wrong: every chunk's speakers count from 0.
NoBase(base, c) == 0

\* The numbers of the next chunk's speakers are above those of this one.
NextBase(base, c) ==
  IF ChunkSpeakers(c) = {} THEN base ELSE Max({base, base + Max(ChunkSpeakers(c)) + 1})

\* _merge_chunk_results: one result is kept as it is; more are put one after the
\* other.  A list of words is written only when a chunk had one.
Merge(chunks) ==
  LET add(m, c) ==
        [m EXCEPT !.utterances = @ \o [i \in DOMAIN c.utterances |-> Shift(c.utterances[i], c.offset, m.base)],
                  !.direct = @ \o [i \in DOMAIN c.direct |-> Shift(c.direct[i], c.offset, m.base)],
                  !.audio = Max({@, c.offset + c.duration}), !.base = NextBase(@, c)]
      all == FoldLeft(add, [utterances |-> << >>, direct |-> << >>, audio |-> 0, base |-> 0], chunks)
      one == chunks[1]
  IN  IF Len(chunks) = 1
      THEN [utterances |-> one.utterances, direct |-> one.direct, listed |-> one.listed,
            audio |-> one.duration, mapped |-> TRUE, entries |-> 1]
      ELSE [utterances |-> all.utterances, direct |-> all.direct, listed |-> all.direct # << >>,
            audio |-> all.audio, mapped |-> TRUE, entries |-> Len(chunks)]

-----------------------------------------------------------------------------
\* Subtitles: a file is a sequence of blocks, cues with their time and others.

\* _format_subtitle_timestamp, which writes the hours, and its reader, which
\* need not find them.
Stamp(t) == <<t \div 3600, (t % 3600) \div 60, t % 60>>
Time(stamp) == IF Len(stamp) = 3 THEN 3600 * stamp[1] + 60 * stamp[2] + stamp[3]
               ELSE 60 * stamp[1] + stamp[2]

\* _parse_subtitle_cues: a cue's number is dropped, and every other block.
ParseCues(blocks) ==
  LET cues == SelectSeq(blocks, LAMBDA b : b.kind = "cue")
  IN  [k \in DOMAIN cues |-> [start |-> Time(cues[k].start), end |-> Time(cues[k].end), text |-> cues[k].text]]

\* _render_subtitle_cues: the header of a vtt file, the numbers of an srt's.
RenderCues(cues, format) ==
  LET header == [kind |-> "header", number |-> 0, start |-> << >>, end |-> << >>, text |-> 0]
      cue(k) == [kind |-> "cue", number |-> IF format = "srt" THEN k ELSE 0,
                 start |-> Stamp(cues[k].start), end |-> Stamp(cues[k].end), text |-> cues[k].text]
  IN  (IF format = "vtt" THEN <<header>> ELSE << >>) \o [k \in DOMAIN cues |-> cue(k)]

\* The subtitles of _merge_chunk_results, in one format; without a cue the
\* first chunk's stay.
ChunkCues(file) == LET moved(c) == [c EXCEPT !.start = @ + file.offset, !.end = @ + file.offset]
                   IN  [k \in DOMAIN ParseCues(file.blocks) |-> moved(ParseCues(file.blocks)[k])]
MergeSubtitles(files, format) ==
  LET cues == FlattenSeq([i \in DOMAIN files |-> ChunkCues(files[i])])
  IN  IF cues = << >> THEN files[1].blocks ELSE RenderCues(cues, format)

-----------------------------------------------------------------------------
\* _rebase_delta: how far an old transcript's words are moved onto their
\* utterance; not at all when they lie in it.
RebaseDelta(u) ==
  LET low == Min({w.start : w \in ToSet(u.words)})
      high == Max({w.start : w \in ToSet(u.words)} \cup {w.end : w \in ToSet(u.words)})
  IN  IF u.words = << >> \/ (low >= u.start - Tolerance /\ high <= Span(u).end + Tolerance) THEN 0
      ELSE u.start - u.words[1].start

\* _chunks_from_offsets
ChunksFromOffsets(offsets) ==
  1 + Cardinality({x \in offsets : \A y \in offsets : y < x => x - y > ChunkGap})

\* Wrong: the walk back stops at the first utterance that does not reach.
OwnReach(utterances, i) == Span(utterances[i]).end

\* The furthest any of the utterances up to this one reaches.
Furthest(utterances, i) == Max({Span(utterances[j]).end : j \in 1..i})

\* _assign_by_time: from the last utterance that starts by the word's middle
\* back to one that reaches it, while any before may.  Times are doubled.
Owner(w, utterances) ==
  LET middle == w.start + Span(w).end
      started == {i \in DOMAIN utterances : 2 * utterances[i].start <= middle}
      reached(i) == middle <= 2 * (Span(utterances[i]).end + Tolerance)
      walked == {i \in started : \A j \in started :
                   j >= i => middle <= 2 * (Furthest(utterances, j) + Tolerance)}
  IN  Max({i \in walked : reached(i)} \cup {NoOne})

\* parse_transcript: utterances in order of time, words with the utterance they
\* are of and its speaker, how many chunks it was made of (0 when unknown).
Parse(p) ==
  LET legacy == ~p.mapped /\ p.listed
      key(i) == <<p.utterances[i].start, p.utterances[i].end, i>>
      order == Ordered(DOMAIN p.utterances, key)
      utterances == [k \in DOMAIN order |-> p.utterances[order[k]]]
      delta(u) == IF legacy THEN RebaseDelta(u) ELSE 0
      offsets == {delta(u) : u \in ToSet(utterances)} \ {0}
      word(w, u, speaker) == [u |-> u, start |-> w.start, end |-> w.end, low |-> w.low, speaker |-> speaker]
      inner(k) == [i \in DOMAIN utterances[k].words |->
                     word(ShiftWord(utterances[k].words[i], delta(utterances[k])), k, utterances[k].speaker)]
      direct(w) == LET u == Owner(w, utterances) IN
        word(w, u, IF w.speaker # NoSpeaker \/ u = NoOne THEN w.speaker ELSE utterances[u].speaker)
  IN  [utterances |-> utterances, audio |-> p.audio,
       words |-> IF p.direct # << >> THEN [i \in DOMAIN p.direct |-> direct(p.direct[i])]
                 ELSE FlattenSeq([k \in DOMAIN utterances |-> inner(k)]),
       chunks |-> IF p.mapped THEN p.entries ELSE IF ~legacy THEN 1
                  ELSE IF offsets # {} THEN ChunksFromOffsets(offsets)
                  ELSE IF \E u \in ToSet(utterances) : u.words # << >> THEN 1 ELSE 0]

-----------------------------------------------------------------------------
\* _spans: clipped to the recording.  union_seconds: overlaps count once.
Spans(t) ==
  LET low(u) == Max({u.start, 0})
      high(u) == IF t.audio = 0 THEN Max({Span(u).end, 0}) ELSE Min({Max({Span(u).end, 0}), t.audio})
  IN  [i \in DOMAIN t.utterances |->
         [start |-> low(t.utterances[i]), end |-> Max({low(t.utterances[i]), high(t.utterances[i])})]]

UnionSeconds(spans) ==
  LET sorted == Ordered(DOMAIN spans, LAMBDA i : <<spans[i].start, spans[i].end, i>>)
      step(acc, i) ==
        IF acc.open /\ spans[i].start <= acc.end THEN [acc EXCEPT !.end = Max({@, spans[i].end})]
        ELSE [total |-> acc.total + acc.end - acc.start, open |-> TRUE, start |-> spans[i].start, end |-> spans[i].end]
      last == FoldLeft(step, [total |-> 0, open |-> FALSE, start |-> 0, end |-> 0], sorted)
  IN  last.total + last.end - last.start

\* unclear_clusters: windows of enough unclear words, those that share a word
\* merged; the largest, the first of them on a tie.
UnclearClusters(words) ==
  LET low == Ordered({i \in DOMAIN words : words[i].low}, LAMBDA i : <<words[i].start, i>>)
      start(k) == words[low[k]].start
      last(k) == Max({j \in k..Len(low) : start(j) < start(k) + Window})
      join(windows, k) ==
        IF last(k) - k + 1 < WindowMin THEN windows
        ELSE IF windows # << >> /\ k <= windows[Len(windows)][2]
             THEN [windows EXCEPT ![Len(windows)][2] = Max({@, last(k)})]
             ELSE Append(windows, <<k, last(k)>>)
      windows == FoldLeft(join, << >>, [k \in DOMAIN low |-> k])
      cluster(w) == [from |-> start(w[1]), to |-> Max({Span(words[low[k]]).end : k \in w[1]..w[2]}),
                     n |-> w[2] - w[1] + 1, u |-> {words[low[k]].u : k \in w[1]..w[2]} \ {NoOne}]
      all == {cluster(w) : w \in ToSet(windows)}
      ranked == Ordered(all, LAMBDA c : <<-c.n, c.from>>)
  IN  ToSet(SubSeq(ranked, 1, Min({Clusters, Len(ranked)})))

\* _speakers: those heard for long enough (the share of the speech is left
\* out), and whether one of them may be two.  0 people expected is unknown.
Speakers(t, expected, labelled) ==
  LET heard == {u.speaker : u \in ToSet(t.utterances)} \ {NoSpeaker}
      seconds(s) == Over(t.utterances, LAMBDA u : IF u.speaker = s THEN Span(u).end - u.start ELSE 0)
      substantial == {s \in heard : seconds(s) >= SubstantialS}
  IN  [heard |-> heard, substantial |-> substantial, labelled |-> substantial \cap labelled,
       split |-> (expected # 0 /\ Cardinality(substantial) > expected + 1) \/ t.chunks > 1]

\* _state and the gates: the mean confidence and the language are left out.
Health(t, expected, labelled) ==
  LET unclear == Cardinality({i \in DOMAIN t.words : t.words[i].low})
      n == Len(t.words)
      spoken == UnionSeconds(Spans(t))
      speakers == Speakers(t, expected, labelled)
      poor == n > 0 /\ 4 * unclear >= n
      degraded == \/ n = 0 \/ 10 * unclear >= n \/ speakers.heard = {} \/ speakers.split
                  \/ (t.audio # 0 /\ 10 * spoken < 6 * t.audio)
      speech == t.utterances # << >>
  IN  [state |-> IF poor \/ ~speech THEN "poor" ELSE IF degraded THEN "degraded" ELSE "ok",
       pace |-> speech /\ t.audio # 0 /\ 10 * spoken >= 6 * t.audio,
       shares |-> speech /\ speakers.substantial # {} /\
                    (~speakers.split \/ speakers.substantial = speakers.labelled)]

-----------------------------------------------------------------------------
\* Merging loses nothing: reading the merged result gives, word for word, what
\* reading each chunk gives, on the recording's clock, and no speaker of one
\* chunk has the number of a speaker of another.
ChunksKept(chunks) ==
  LET part(i) == Parse(Merge(<<chunks[i]>>))
      merged == Parse(Merge(chunks))
      before(i) == Over(SubSeq(chunks, 1, i - 1), LAMBDA c : Len(c.utterances))
      base == [i \in DOMAIN chunks |-> FoldLeft(NextBase, 0, SubSeq(chunks, 1, i - 1))]
      moved(i) == [k \in DOMAIN part(i).words |->
        LET w == part(i).words[k] IN
        [ShiftWord(w, chunks[i].offset) EXCEPT !.u = @ + before(i), !.speaker = ShiftSpeaker(@, base[i])]]
      speakers(i) == {w.speaker : w \in ToSet(moved(i))} \ {NoSpeaker}
  IN  /\ merged.words = FlattenSeq([i \in DOMAIN chunks |-> moved(i)])
      /\ \A i, j \in DOMAIN chunks : i = j \/ speakers(i) \cap speakers(j) = {}
      /\ merged.chunks = Len(chunks)

\* A result of the old merge, which left the words on their chunk's clock, is
\* read as the new one: each word is of the same utterance, and off by no more
\* than the silence before its first word.
OldMergeRead(chunks) ==
  LET new == Parse(Merge(chunks))
      raw == FlattenSeq([i \in DOMAIN chunks |-> chunks[i].utterances])
      old == Parse([Merge(chunks) EXCEPT !.mapped = FALSE, !.listed = TRUE,
                      !.utterances = [i \in DOMAIN @ |-> [@[i] EXCEPT !.words = raw[i].words]]])
      silence(u) == new.utterances[u].words[1].start - new.utterances[u].start
  IN  /\ Len(old.words) = Len(new.words) /\ old.chunks = new.chunks
      /\ \A k \in DOMAIN new.words :
           /\ old.words[k].u = new.words[k].u
           /\ new.words[k].start - old.words[k].start \in 0..silence(new.words[k].u)

\* The merged subtitles, read, are the chunks', one after the other on the
\* recording's clock; a file has one header and numbers that count up.
SubtitlesKept(files, format) ==
  LET merged == MergeSubtitles(files, format)
      cues == SelectSeq(merged, LAMBDA b : b.kind = "cue")
  IN  /\ ParseCues(merged) = FlattenSeq([i \in DOMAIN files |-> ChunkCues(files[i])])
      /\ cues # << >> => Len(merged) - Len(cues) = IF format = "vtt" THEN 1 ELSE 0
      /\ cues # << >> /\ format = "srt" => \A k \in DOMAIN cues : cues[k].number = k

\* A word of a list is of the last utterance that starts by its middle and
\* reaches it: the walk back misses none.
OwnerFound(w, utterances) ==
  LET fits == {i \in DOMAIN utterances :
        /\ 2 * utterances[i].start <= w.start + Span(w).end
        /\ w.start + Span(w).end <= 2 * (Span(utterances[i]).end + Tolerance)}
  IN  Owner(w, utterances) = Max(fits \cup {NoOne})

\* Speech is counted second by second, and an unclear word is in a cluster
\* exactly when some window holds enough of them around it.
HealthCounts(t) ==
  LET spans == Spans(t)
      seconds == UNION {spans[i].start..spans[i].end - 1 : i \in DOMAIN spans}
      low == {i \in DOMAIN t.words : t.words[i].low}
      near(x) == {j \in low : x <= t.words[j].start /\ t.words[j].start < x + Window}
      crowded == {i \in low : \E j \in low : i \in near(t.words[j].start) /\ Cardinality(near(t.words[j].start)) >= WindowMin}
      found == UnclearClusters(t.words)
  IN  /\ UnionSeconds(spans) = Cardinality(seconds)
      /\ Cardinality(found) < Clusters =>
           /\ Over(SetToSeq(found), LAMBDA c : c.n) = Cardinality(crowded)
           /\ \A i \in crowded : \E c \in found : c.from <= t.words[i].start /\ t.words[i].start <= c.to
=============================================================================
