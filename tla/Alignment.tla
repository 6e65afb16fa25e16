------------------------------ MODULE Alignment -----------------------------
(***************************************************************************)
(* The alignment probe (record/alignment.py): where the recording sits on   *)
(* the session clock, from moments where speech and chat meet.              *)
(*                                                                         *)
(* A message has a time, a cue of the speakers the utterance it is in and   *)
(* its place in the recording.  The runs of utterances that pass for a       *)
(* reading of a message are an input, each with the words found, how well    *)
(* they keep their order, and the time of the first.  Every anchor is a      *)
(* range of offsets.  media_time is off in the code and left out.           *)
(***************************************************************************)
EXTENDS Integers, Sequences, SequencesExt

CONSTANTS
  SearchBound, GapMargin, DurationSlack,      \* the offsets searched
  LinkBefore, LinkAfter,                      \* a link and its announcement
  WaveWindow, WaveMin, WaveFactor,            \* a burst of chat
  WaveMinLag, WaveMaxLag,                     \* and the call before it
  ReadMinLag, ReadMaxLag, ReadAnswerSlack,    \* a message read aloud
  MaxPlusMinus, ZeroSlack, MaxGap,            \* verified, assumed
  DriftTolerance, HalfWidth                   \* the halves of the recording

NoEnd == 0
NoAnswer == -1000   \* of no question: before every session
Abs(n) == IF n < 0 THEN -n ELSE n
Sorted(s, key(_)) ==
  LET less(a, b) == \E k \in DOMAIN key(a) :
        key(a)[k] < key(b)[k] /\ \A j \in 1..k - 1 : key(a)[j] = key(b)[j]
  IN  SetToSortSeq(s, less)

-----------------------------------------------------------------------------
\* Durations: the offsets one continuous recording allows, and those searched.
GapKnown(s) == s.end # NoEnd /\ s.audio # NoEnd
Gap(s) == s.end - s.audio
Bound(s) == IF GapKnown(s) THEN Max({SearchBound, Abs(Gap(s)) + GapMargin}) ELSE SearchBound
Domain(s) ==
  IF GapKnown(s) THEN [lo |-> Min({0, Gap(s)}) - DurationSlack, hi |-> Max({0, Gap(s)}) + DurationSlack]
  ELSE [lo |-> -Bound(s), hi |-> Bound(s)]

Within(range, bound) == range.lo <= range.hi /\ range.hi >= -bound /\ range.lo <= bound
FromZero(range) == Max({range.lo, 0, -range.hi})

-----------------------------------------------------------------------------
\* Anchors: kind, message, utterances, place in the recording, range.
Anchor(kind, e, u, r, lo, hi) == [kind |-> kind, e |-> e, u |-> u, r |-> r, lo |-> lo, hi |-> hi]

\* _greedy: one-to-one, the ranges nearest to no offset first.
Greedy(pairs) ==
  LET key(p) == <<FromZero(p.anchor), Abs(p.anchor.lo + p.anchor.hi), p.left, p.right>>
      add(chosen, p) == IF \E q \in chosen : q.left = p.left \/ q.right = p.right
                        THEN chosen ELSE chosen \cup {p}
  IN  {p.anchor : p \in FoldLeft(add, {}, Sorted(pairs, key))}

Pair(left, right, anchor) == [left |-> left, right |-> right, anchor |-> anchor]
CuesOf(s, kind) == {i \in DOMAIN s.cues : s.cues[i].kind = kind}

\* _link_anchors: a team message with a link, and the first cue of an
\* utterance that announces one.
LinkAnchors(s) ==
  LET messages == {e \in DOMAIN s.messages : s.messages[e].kind = "chat" /\ s.messages[e].team /\ s.messages[e].link}
      first == {i \in CuesOf(s, "link") : \A j \in CuesOf(s, "link") :
                  s.cues[i].u = s.cues[j].u => s.cues[i].r <= s.cues[j].r}
      anchor(e, i) == LET gap == s.messages[e].t - s.cues[i].r IN
        Anchor("link", e, {s.cues[i].u}, s.cues[i].r, gap - LinkAfter, gap + LinkBefore)
  IN  Greedy({p \in {Pair(e, i, anchor(e, i)) : e \in messages, i \in first} : Within(p.anchor, Bound(s))})

\* _bursts: messages of the audience close together, three at least and more
\* than usual.
Bursts(s) ==
  LET chat == Sorted({e \in DOMAIN s.messages : s.messages[e].kind = "chat" /\ (s.internal \/ ~s.messages[e].team)},
                     LAMBDA e : <<s.messages[e].t, e>>)
      t(i) == s.messages[chat[i]].t
      live == Cardinality({i \in DOMAIN chat : t(i) >= 0 /\ (s.end # NoEnd => t(i) <= s.end)})
      size(i) == Cardinality({j \in i..Len(chat) : t(j) <= t(i) + WaveWindow})
      enough(n) == n >= WaveMin /\ (s.end # NoEnd => n * s.end >= WaveFactor * live * WaveWindow)
      step(acc, i) ==
        IF i < acc.next \/ ~enough(size(i)) THEN acc
        ELSE [next |-> i + size(i), found |-> acc.found \cup {chat[i]}]
  IN  FoldLeft(step, [next |-> 1, found |-> {}], [i \in DOMAIN chat |-> i]).found

\* _wave_anchors: a burst and a call to the chat before it; an utterance's
\* calls are one, which ends with the last.
WaveAnchors(s) ==
  LET last == {i \in CuesOf(s, "wave") : \A j \in CuesOf(s, "wave") :
                 s.cues[i].u = s.cues[j].u => s.cues[i].r >= s.cues[j].r}
      anchor(e, i) == LET lag == s.messages[e].t - s.cues[i].r IN
        Anchor("wave", e, {s.cues[i].u}, s.cues[i].r, lag - WaveMaxLag, lag - WaveMinLag)
  IN  Greedy({p \in {Pair(e, i, anchor(e, i)) : e \in Bursts(s), i \in last} : Within(p.anchor, Bound(s))})

\* _match_read: a message read in several separate places (_groups) is not
\* matched.
Run(w) == w.first..w.first + w.length - 1
Places(windows) ==
  {w.first : w \in {w \in windows : \A v \in windows : v.first < w.first => Max(Run(v)) < w.first}}
OnePlace(windows) == Cardinality(Places(windows)) = 1

\* Of one place, the run with the most words, then the best order, the
\* shortest, the first.
Reading(windows) == Sorted(windows, LAMBDA w : <<-w.found, -w.order, w.length, w.first, w.r>>)[1]

\* _read_aloud_anchors: the audience's messages, and any question of an
\* internal session; a place counts for the earliest message.  A question
\* answered aloud was read before the answer was marked.
ReadAnchors(s) ==
  LET eligible == {e \in DOMAIN s.messages :
        (~s.messages[e].team \/ (s.internal /\ s.messages[e].kind = "question")) /\ OnePlace(s.reads[e])}
      read == [e \in eligible |-> Reading(s.reads[e])]
      step(acc, e) ==
        IF Run(read[e]) \cap acc.claimed # {} THEN acc
        ELSE [claimed |-> acc.claimed \cup Run(read[e]), found |-> acc.found \cup {e}]
      kept == FoldLeft(step, [claimed |-> {}, found |-> {}],
                       Sorted(eligible, LAMBDA e : <<s.messages[e].t, e>>)).found
      hi(m, r) == Min({m.t - r + ReadMaxLag} \cup
                      {at - r + ReadAnswerSlack : at \in {m.answered} \ {NoAnswer}})
      anchor(e) == LET r == read[e].r
                       m == s.messages[e] IN
        Anchor("read_aloud", e, Run(read[e]), r, m.t - r + ReadMinLag, hi(m, r))
  IN  {a \in {anchor(e) : e \in kept} : Within(a, Bound(s))}

\* Wrong: one moment may give several anchors.
AllAnchors(anchors) == ToSet(anchors)

\* _distinct: a message or an utterance feeds one anchor, links first, then
\* waves, then readings.
Distinct(anchors) ==
  LET add(kept, a) == IF \E b \in kept : b.e = a.e \/ b.u \cap a.u # {} THEN kept ELSE kept \cup {a}
  IN  FoldLeft(add, {}, anchors)

Anchors(s) ==
  Distinct(SetToSeq(LinkAnchors(s)) \o SetToSeq(WaveAnchors(s)) \o SetToSeq(ReadAnchors(s)))

-----------------------------------------------------------------------------
\* Wrong: a range that starts where another ends does not meet it.
SweepOrderOpen(e) == <<e.x, -e.ends>>

\* Ranges are closed: at one point they start before others end.
SweepOrder(e) == <<e.x, e.ends>>

\* sweep: the range the most anchors agree on within the domain, the one that
\* holds no offset or is nearest to it; none when none reaches the domain.
Sweep(anchors, domain) ==
  LET lo(a) == Max({a.lo, domain.lo})
      hi(a) == Min({a.hi, domain.hi})
      event(x, ends, a) == [x |-> x, ends |-> ends, anchor |-> a]
      events == UNION {{event(lo(a), 0, a), event(hi(a), 1, a)} : a \in {a \in anchors : lo(a) <= hi(a)}}
      start(acc, e) ==
        LET active == acc.active \cup {e.anchor} IN
        IF Cardinality(active) > acc.best
        THEN [active |-> active, best |-> Cardinality(active), open |-> TRUE, from |-> e.x, found |-> {}]
        ELSE IF Cardinality(active) = acc.best /\ ~acc.open
             THEN [acc EXCEPT !.active = active, !.open = TRUE, !.from = e.x]
             ELSE [acc EXCEPT !.active = active]
      stop(acc, e) ==
        [acc EXCEPT !.active = @ \ {e.anchor}, !.open = @ /\ Cardinality(acc.active) # acc.best,
           !.found = IF acc.open /\ Cardinality(acc.active) = acc.best
                     THEN @ \cup {[lo |-> acc.from, hi |-> e.x, members |-> acc.active]} ELSE @]
      end == FoldLeft(LAMBDA acc, e : IF e.ends = 0 THEN start(acc, e) ELSE stop(acc, e),
                      [active |-> {}, best |-> 0, open |-> FALSE, from |-> 0, found |-> {}],
                      Sorted(events, SweepOrder))
      nearest == Sorted(end.found, LAMBDA w : <<FromZero(w), Abs(w.lo + w.hi), w.lo>>)
  IN  IF nearest = << >> THEN {} ELSE {nearest[1]}

\* Window.choice and plusminus, twice over.
Choice2(w) == IF w.lo <= 0 /\ 0 <= w.hi THEN 0 ELSE w.lo + w.hi
PlusMinus2(w) == Max({Choice2(w) - 2 * w.lo, 2 * w.hi - Choice2(w)})

\* _halves, _drift: both halves of the recording bounded, and apart.  Without
\* its length, it ends with the last utterance.
Half(s, early) ==
  LET length == IF s.audio # NoEnd THEN s.audio ELSE s.last
      range == [lo |-> -Bound(s), hi |-> Bound(s)]
  IN  {w \in Sweep({a \in Anchors(s) : (2 * a.r < length) = early}, range) :
         length > 0 /\ Cardinality(w.members) >= 2 /\ w.hi - w.lo <= HalfWidth}
Drift(s) ==
  \E a \in Half(s, TRUE), b \in Half(s, FALSE) : Max({a.lo, b.lo}) - Min({a.hi, b.hi}) > DriftTolerance

Directions(kind) ==
  CASE kind = "wave" -> {"upper"} [] kind = "read_aloud" -> {"lower"} [] kind = "link" -> {"lower", "upper"}

\* probe_alignment: the status, and twice the offset to apply.
Probe(s) ==
  LET n == Cardinality(Anchors(s))
      best == Sweep(Anchors(s), Domain(s))
      agree(w) == Cardinality(w.members)
      verified == {w \in best :
                     /\ agree(w) >= 2 /\ 4 * agree(w) >= 3 * n /\ ~Drift(s)
                     /\ PlusMinus2(w) <= 2 * MaxPlusMinus
                     /\ UNION {Directions(a.kind) : a \in w.members} = {"lower", "upper"}}
      assumed == /\ GapKnown(s) /\ 50 * Abs(Gap(s)) <= Max({50 * MaxGap, s.end}) /\ ~Drift(s)
                 /\ n = 0 \/ \E w \in best : 2 * agree(w) >= n /\ FromZero(w) <= ZeroSlack
  IN  IF verified # {}
      THEN [status |-> "verified", offset2 |-> Max({Choice2(w) : w \in verified})]
      ELSE [status |-> IF assumed THEN "assumed" ELSE "misaligned", offset2 |-> 0]

-----------------------------------------------------------------------------
\* The sweep finds what its definition asks for: every point of its range is
\* agreed on by the most anchors, by the same ones, and no other point so agreed
\* on is nearer to no offset.
SweepFindsMost(anchors, domain) ==
  LET at(x) == {a \in anchors : a.lo <= x /\ x <= a.hi}
      points == domain.lo..domain.hi
      most == {x \in points : \A y \in points : Cardinality(at(y)) <= Cardinality(at(x))}
  IN  IF \A x \in points : at(x) = {} THEN Sweep(anchors, domain) = {}
      ELSE \E w \in Sweep(anchors, domain) :
             /\ w.lo..w.hi = {x \in most : at(x) = w.members}
             /\ \A x \in most : Abs(x) >= FromZero(w)

\* No moment confirms itself: anchors share no message and no utterance.  And an
\* offset is only applied in seconds when three anchors of four allow it, both
\* ways, within what the durations allow.
OffsetsEarned(s) ==
  \A probe \in {Probe(s)}, anchors \in {Anchors(s)} :
    LET fit == {a \in anchors : 2 * a.lo <= probe.offset2 /\ probe.offset2 <= 2 * a.hi}
    IN  /\ \A a, b \in anchors : a = b \/ (a.e # b.e /\ a.u \cap b.u = {})
        /\ probe.status = "verified" =>
             /\ 4 * Cardinality(fit) >= 3 * Cardinality(anchors) /\ Cardinality(UNION {a.u : a \in fit}) >= 2
             /\ \E a \in fit : a.kind # "wave"
             /\ \E a \in fit : a.kind # "read_aloud"
             /\ 2 * Domain(s).lo <= probe.offset2 /\ probe.offset2 <= 2 * Domain(s).hi
=============================================================================
