-------------------------------- MODULE Clock -------------------------------
(***************************************************************************)
(* The session clock (record/clock.py): where a session starts and ends,    *)
(* and its events and speech binned into minutes.                          *)
(*                                                                         *)
(* Times are whole seconds; 0 is a time that is missing or unreadable, as   *)
(* in the API.  Words follow their seconds in proportion and are left out.  *)
(***************************************************************************)
EXTENDS Integers, Sequences, FiniteSetsExt, Sums

CONSTANT Minute   \* seconds in one

Lesser(a, b) == IF a < b THEN a ELSE b
Larger(a, b) == IF a < b THEN b ELSE a

\* clock_base: without started_at there is no clock, but there may be an end.
ClockBase(started, ended, duration) ==
  [t0 |-> started,
   end |-> IF started # 0 /\ ended > started THEN ended - started ELSE duration]

HasClock(base) == base.t0 # 0
EndKnown(base) == base.end # 0

\* phase: the end itself is live.
Phase(t, base) ==
  IF t < 0 THEN "before" ELSE IF EndKnown(base) /\ t > base.end THEN "after" ELSE "live"

MinuteCount(base) == Larger(1, (base.end + Minute - 1) \div Minute)

\* Wrong: what happens at the very end has a minute of its own.
UncappedMinute(minute, base) == minute

\* The end belongs to the last minute.
CappedMinute(minute, base) ==
  IF EndKnown(base) THEN Lesser(minute, MinuteCount(base) - 1) ELSE minute

\* minute_index: no minute but for a live time.
NoMinute == -1
MinuteIndex(t, base) ==
  IF Phase(t, base) = "live" THEN CappedMinute(t \div Minute, base) ELSE NoMinute

\* _speech_pieces: a span cut at the start, the end and every minute.
Pieces(s, base) ==
  LET from == Larger(s.start, 0)
      to == IF EndKnown(base) THEN Lesser(s.end, base.end) ELSE s.end
      piece(where, minute, seconds) == [phase |-> where, minute |-> minute, seconds |-> seconds]
      inside(k) == Lesser(to, (k + 1) * Minute) - Larger(from, k * Minute)
  IN  IF s.end <= s.start THEN {piece(Phase(s.start, base), MinuteIndex(s.start, base), 0)}
      ELSE {p \in {piece("before", NoMinute, Lesser(s.end, 0) - s.start),
                   piece("after", NoMinute, s.end - Larger(s.start, to))}
                  \cup {piece("live", CappedMinute(k, base), inside(k)) :
                          k \in (from \div Minute)..(to \div Minute)} : p.seconds > 0}

Spoken(pieces) == Total([p \in pieces |-> p.seconds], pieces)

\* minute_bins: events and seconds of speech per minute, before, after, and
\* the events that have no place.  Without an end, minutes run to the last one
\* anything falls in.
MinuteBins(events, speech, base) ==
  LET placed == IF HasClock(base) THEN {i \in DOMAIN events : events[i] # 0} ELSE {}
      spoken == IF HasClock(base) THEN DOMAIN speech ELSE {}
      minute(i) == MinuteIndex(events[i] - base.t0, base)
      lane(where, m) ==
        [events |-> Cardinality({i \in placed : Phase(events[i] - base.t0, base) = where /\ minute(i) = m}),
         speaking |-> Total([i \in spoken |->
             Spoken({p \in Pieces(speech[i], base) : p.phase = where /\ p.minute = m})], spoken)]
      live == {minute(i) : i \in placed} \cup
              UNION {{p.minute : p \in Pieces(speech[i], base)} : i \in spoken}
      count == IF ~HasClock(base) THEN 0
               ELSE IF EndKnown(base) THEN MinuteCount(base) ELSE 1 + Max(live \cup {NoMinute})
  IN  [minutes |-> [m \in 0..count - 1 |-> lane("live", m)],
       before |-> lane("before", NoMinute), after |-> lane("after", NoMinute),
       unplaced |-> Len(events) - Cardinality(placed)]

\* Nothing is lost or counted twice: every event is in one minute, at an edge or
\* unplaced, and the seconds of every span add up to its length.
NothingLost(events, speech, base) ==
  LET bins == MinuteBins(events, speech, base)
      total(at(_)) == at(bins.before) + at(bins.after) +
                      Total([m \in DOMAIN bins.minutes |-> at(bins.minutes[m])], DOMAIN bins.minutes)
  IN  /\ total(LAMBDA lane : lane.events) + bins.unplaced = Len(events)
      /\ HasClock(base) => total(LAMBDA lane : lane.speaking) =
           Total([i \in DOMAIN speech |-> Larger(0, speech[i].end - speech[i].start)], DOMAIN speech)
=============================================================================
