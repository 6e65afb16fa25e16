---------------------------- MODULE ReportProofs ----------------------------
(***************************************************************************)
(* Theorems about Report, for any input and any value of its constants.    *)
(***************************************************************************)
EXTENDS Report, SumProofs, SequenceTheorems

\* A set of natural numbers has a least one.
LEMMA LeastNat ==
  ASSUME NEW S, S \subseteq Nat, S # {}
  PROVE  \E x \in S : \A y \in S : x <= y
<1> DEFINE Less == OpToRel(<, Nat)
<1>1. IsWellFoundedOn(Less, Nat)
  BY NatLessThanWellFounded
<1>2. PICK x \in S : \A y \in S : ~ (<<y, x>> \in Less)
  <2> HIDE DEF Less
  <2> QED
    BY <1>1, WFMin
<1>3. \A y \in S : ~(y < x)
  BY <1>2 DEF OpToRel
<1> QED
  BY <1>3

\* Min and Max, of the library's, in the modules that use them.
LEMMA RstMin ==
  ASSUME NEW S, S \subseteq Nat, S # {}
  PROVE  Rst!Min(S) \in S /\ \A y \in S : Rst!Min(S) <= y
  BY LeastNat DEF Rst!Min

LEMMA InsMin ==
  ASSUME NEW S, S \subseteq Nat, S # {}
  PROVE  Ins!Min(S) \in S /\ \A y \in S : Ins!Min(S) <= y
  BY LeastNat DEF Ins!Min

\* A finite set of integers has a greatest one.
LEMMA GreatestInt ==
  ASSUME NEW S, \A x \in S : x \in Int, S # {}, IsFiniteSet(S)
  PROVE  \E x \in S : \A y \in S : x >= y
<1> DEFINE B == {T \in SUBSET S : T # {} /\ ~ \E x \in T : \A y \in T : x >= y}
<1>1. CASE B # {}
  <2>1. B \subseteq SUBSET S
    OBVIOUS
  <2>2. PICK T \in B : \A U \in B : U \subseteq T => U = T
    <3> HIDE DEF B
    <3> QED
      BY <1>1, <2>1, MinimalSubset
  <2>3. PICK z \in T : TRUE
    BY <2>2
  <2>4. CASE T \ {z} = {}
    <3>1. T = {z} /\ z \in Int
      BY <2>3, <2>4
    <3> QED
      BY <2>2, <3>1
  <2>5. CASE T \ {z} # {}
    <3>1. T \ {z} \notin B
      BY <2>2, <2>3
    <3>2. PICK x \in T \ {z} : \A y \in T \ {z} : x >= y
      BY <2>5, <3>1
    <3>3. x \in Int /\ z \in Int /\ \A y \in T : y \in Int
      BY <2>3, <3>2
    <3>4. \A y \in T : IF x >= z THEN x >= y ELSE z >= y
      BY <3>2, <3>3
    <3> QED
      BY <2>2, <2>3, <3>2, <3>4
  <2> QED
    BY <2>4, <2>5
<1> QED
  BY <1>1

LEMMA TrsMax ==
  ASSUME NEW S, \A x \in S : x \in Int, S # {}, IsFiniteSet(S)
  PROVE  Trs!Max(S) \in S /\ \A y \in S : Trs!Max(S) >= y
  BY GreatestInt DEF Trs!Max

LEMMA ClkMax ==
  ASSUME NEW S, \A x \in S : x \in Int, S # {}, IsFiniteSet(S)
  PROVE  Clk!Max(S) \in S /\ \A y \in S : Clk!Max(S) >= y
  BY GreatestInt DEF Clk!Max

\* The values of a function on a finite set are finitely many.
LEMMA ImageFinite ==
  ASSUME NEW S, IsFiniteSet(S), NEW f
  PROVE  IsFiniteSet({f[x] : x \in S})
<1> DEFINE h == [x \in S |-> f[x]]
           T == {f[x] : x \in S}
<1>1. h \in Surjection(S, T)
  BY DEF Surjection
<1> HIDE DEF h, T
<1>2. IsFiniteSet(T)
  BY <1>1, FS_Surjection
<1> QED
  BY <1>2 DEF T

-----------------------------------------------------------------------------
\* Moments.

\* An element of a sequence is of the set the sequence is over.
LEMMA Entry ==
  ASSUME NEW S, NEW s \in Seq(S), NEW i \in DOMAIN s
  PROVE  s[i] \in S
<1>1. i \in 1..Len(s)
  BY LenProperties
<1> QED
  BY <1>1, ElementOfSeq

LEMMA SpanEnds ==
  ASSUME NEW u, u.start \in Int, u.end \in Int
  PROVE  Trs!Span(u).end \in Int
<1> DEFINE one == {u.start}
<1>0. IsFiniteSet(one) /\ {u.start, u.end} = one \cup {u.end}
  BY FS_Singleton
<1>1. IsFiniteSet({u.start, u.end})
  <2> HIDE DEF one
  <2> QED
    BY <1>0, FS_AddElement
<1>2. Trs!Max({u.start, u.end}) \in {u.start, u.end}
  BY <1>1, TrsMax
<1> QED
  BY <1>2 DEF Trs!Span

LEMMA FurthestReaches ==
  ASSUME NEW us \in Seq([start : Int, end : Int]), NEW j \in DOMAIN us, NEW i \in 1..j
  PROVE  Trs!Furthest(us, j) \in Int /\ Trs!Furthest(us, j) >= Trs!Span(us[i]).end
<1> DEFINE ends == {Trs!Span(us[k]).end : k \in 1..j}
<1>1. ASSUME NEW k \in 1..j PROVE k \in DOMAIN us /\ Trs!Span(us[k]).end \in Int
  <2>1. k \in DOMAIN us
    BY LenProperties
  <2>2. us[k] \in [start : Int, end : Int]
    BY <2>1, Entry
  <2> QED
    BY <2>1, <2>2, SpanEnds
<1>2. IsFiniteSet(ends)
  <2> DEFINE f == [k \in 1..j |-> Trs!Span(us[k]).end]
  <2>1. IsFiniteSet(1..j)
    BY FS_Interval
  <2>2. IsFiniteSet({f[x] : x \in 1..j})
    <3> HIDE DEF f
    <3> QED
      BY <2>1, ImageFinite
  <2> QED
    BY <2>2
<1>3. \A x \in ends : x \in Int
  BY <1>1
<1>4. ends # {}
  OBVIOUS
<1>5. Trs!Max(ends) \in ends /\ \A y \in ends : Trs!Max(ends) >= y
  <2> HIDE DEF ends
  <2> QED
    BY <1>2, <1>3, <1>4, TrsMax
<1> QED
  BY <1>3, <1>5 DEF Trs!Furthest

LEMMA Further ==
  ASSUME NEW m \in Int, NEW own \in Int, NEW far \in Int, NEW t \in Int, far >= own, m <= 2 * (own + t)
  PROVE  m <= 2 * (far + t)
  OBVIOUS

\* The walk back meets every utterance that reaches the word.
LEMMA WalkMissesNone ==
  ASSUME NEW us \in Seq([start : Int, end : Int]), NEW w \in [start : Int, end : Int]
  PROVE  Trs!OwnerFound(w, us)
<1> DEFINE middle == w.start + Trs!Span(w).end
           started == {i \in DOMAIN us : 2 * us[i].start <= middle}
           reached(i) == middle <= 2 * (Trs!Span(us[i]).end + Tolerance)
           walked == {i \in started : \A j \in started :
                        j >= i => middle <= 2 * (Trs!Furthest(us, j) + Tolerance)}
           fits == {i \in DOMAIN us : /\ 2 * us[i].start <= w.start + Trs!Span(w).end
                                      /\ w.start + Trs!Span(w).end <= 2 * (Trs!Span(us[i]).end + Tolerance)}
<1>0. Trs!Span(w).end \in Int
  BY SpanEnds
<1>1. ASSUME NEW i \in DOMAIN us PROVE Trs!Span(us[i]).end \in Int /\ us[i].start \in Int
  <2>1. us[i] \in [start : Int, end : Int]
    BY Entry
  <2> QED
    BY <2>1, SpanEnds
<1>2. ASSUME NEW i \in started, reached(i), NEW j \in started, j >= i
      PROVE  middle <= 2 * (Trs!Furthest(us, j) + Tolerance)
  <2>1. i \in 1..j /\ j \in DOMAIN us
    BY <1>2, LenProperties
  <2>2. Trs!Furthest(us, j) \in Int /\ Trs!Furthest(us, j) >= Trs!Span(us[i]).end
    BY <2>1, FurthestReaches
  <2>3. Trs!Span(us[i]).end \in Int /\ middle \in Int /\ Tolerance \in Int
    BY <1>0, <1>1, <2>1, ReportAssumption
  <2>4. middle <= 2 * (Trs!Span(us[i]).end + Tolerance)
    BY <1>2
  <2> QED
    BY <2>2, <2>3, <2>4, Further
<1>3. {i \in walked : reached(i)} = fits
  BY <1>0, <1>1, <1>2
<1>4. Trs!Owner(w, us) = Trs!Max({i \in walked : reached(i)} \cup {Trs!NoOne})
  BY DEF Trs!Owner
<1> QED
  BY <1>3, <1>4 DEF Trs!OwnerFound

Distances == Nat \cup {Ins!Infinite}

LEMMA DistanceIs ==
  ASSUME NEW s \in SentenceRow, NEW t \in Times
  PROVE  Ins!Distance(s, t) \in Distances
<1>1. s.start \in Nat \cup {-1} /\ t \in Nat \cup {-1}
  BY DEF SentenceRow, Times, Ins!None
<1> QED
  BY <1>1 DEF Ins!Distance, Ins!None, Distances

\* Distances are in a linear order, the infinite one last.
LEMMA NearOrders ==
  ASSUME NEW d \in Distances, NEW e \in Distances
  PROVE  /\ Ins!AsNear(d, d)
         /\ Ins!AsNear(d, e) \/ Ins!AsNear(e, d)
         /\ \A g \in Distances : Ins!AsNear(d, e) /\ Ins!AsNear(e, g) => Ins!AsNear(d, g)
  BY DEF Ins!AsNear, Distances, Ins!Infinite

NearestOf(f, S) == {i \in S : \A j \in S : Ins!AsNear(f[i], f[j])}

\* Some place is the nearest.
LEMMA SomeNearest ==
  ASSUME NEW f, NEW S, S # {}, \A i \in S : f[i] \in Distances
  PROVE  NearestOf(f, S) # {}
<1> DEFINE known == {f[i] : i \in S} \ {Ins!Infinite}
<1>1. CASE known = {}
  <2>1. \A i \in S : f[i] = Ins!Infinite
    BY <1>1
  <2> QED
    BY <2>1 DEF NearestOf, Ins!AsNear
<1>2. CASE known # {}
  <2>1. known \subseteq Nat
    BY DEF Distances
  <2>2. PICK d \in known : \A e \in known : d <= e
    <3> HIDE DEF known
    <3> QED
      BY <1>2, <2>1, LeastNat
  <2>3. PICK i \in S : f[i] = d
    BY <2>2
  <2>4. \A j \in S : Ins!AsNear(f[i], f[j])
    BY <2>2, <2>3 DEF Ins!AsNear
  <2> QED
    BY <2>3, <2>4 DEF NearestOf
<1> QED
  BY <1>1, <1>2

\* Of the places of S, the nearest, and the earliest of those.
LEMMA Nearest ==
  ASSUME NEW f, NEW S, S # {}, \A i \in S : i \in Nat /\ f[i] \in Distances,
         NEW x, x = Ins!Min(NearestOf(f, S))
  PROVE  x \in S /\ \A j \in S : Ins!AsNear(f[x], f[j]) /\ (Ins!AsNear(f[j], f[x]) => x <= j)
<1> DEFINE near == NearestOf(f, S)
<1>1. near # {} /\ near \subseteq Nat
  BY SomeNearest DEF NearestOf
<1>2. x \in near /\ \A y \in near : x <= y
  <2> HIDE DEF near
  <2> QED
    BY <1>1, InsMin DEF near
<1>3. x \in S /\ \A j \in S : Ins!AsNear(f[x], f[j])
  BY <1>2 DEF NearestOf
<1>4. ASSUME NEW j \in S, Ins!AsNear(f[j], f[x]) PROVE j \in near
  <2>1. \A k \in S : Ins!AsNear(f[j], f[k])
    BY <1>3, <1>4, NearOrders
  <2> QED
    BY <2>1 DEF NearestOf
<1> QED
  BY <1>2, <1>3, <1>4

\* No sentence is better, by the finder's rules, than the one it gives.
LEMMA ContextIsBest ==
  ASSUME NEW list \in Seq(SentenceRow), list # << >>, NEW term, NEW t \in Times
  PROVE  Ins!BestContext(list, term, t)
<1> DEFINE has(i) == term \in list[i].terms
           spans(i) == Ins!Spans(list[i], t)
           f == [i \in DOMAIN list |-> Ins!Distance(list[i], t)]
           D(i) == Ins!Distance(list[i], t)
           c == Ins!Context(list, term, t)
           H == {i \in DOMAIN list : has(i)}
           HS == {i \in H : spans(i)}
           SP == {i \in DOMAIN list : spans(i)}
           among == IF SP = {} THEN DOMAIN list ELSE SP
           far(i) == IF has(i) /\ spans(i) THEN 0 ELSE D(i)
           better(i, j) == \/ has(i) /\ ~has(j)
                           \/ /\ has(i) <=> has(j)
                              /\ \/ spans(i) /\ ~spans(j)
                                 \/ /\ spans(i) <=> spans(j)
                                    /\ Ins!AsNear(far(i), far(j)) /\ (Ins!AsNear(far(j), far(i)) => i < j)
<1>0. DOMAIN list = 1..Len(list) /\ Len(list) \in Nat \ {0}
  BY LenProperties, EmptySeq
<1>1. ASSUME NEW i \in DOMAIN list PROVE D(i) \in Distances
  <2>1. list[i] \in SentenceRow
    BY Entry
  <2> QED
    BY <2>1, DistanceIs
<1>2. c = IF H # {} THEN IF HS # {} THEN Ins!Min(HS)
                         ELSE Ins!Min({i \in H : \A j \in H : Ins!AsNear(D(i), D(j))})
          ELSE Ins!Min({i \in among : \A j \in among : Ins!AsNear(D(i), D(j))})
  BY DEF Ins!Context, Ins!AmongContaining
<1>3. ASSUME NEW S, S # {}, S \subseteq DOMAIN list,
             c = Ins!Min({x \in S : \A y \in S : Ins!AsNear(D(x), D(y))})
      PROVE  /\ c \in S
             /\ \A j \in S : Ins!AsNear(D(c), D(j)) /\ (Ins!AsNear(D(j), D(c)) => c <= j)
  <2>1. \A j \in S : j \in DOMAIN list /\ j \in Nat /\ f[j] \in Distances /\ f[j] = D(j)
    BY <1>0, <1>1, <1>3
  <2>2. c = Ins!Min(NearestOf(f, S))
    BY <1>3, <2>1 DEF NearestOf
  <2>3. c \in S /\ \A j \in S : Ins!AsNear(f[c], f[j]) /\ (Ins!AsNear(f[j], f[c]) => c <= j)
    <3> HIDE DEF f, c
    <3> QED
      BY <1>3, <2>1, <2>2, Nearest
  <2> QED
    BY <2>1, <2>3
<1> HIDE DEF c
<1>4. ASSUME NEW i \in DOMAIN list PROVE ~better(i, c)
  <2>1. CASE HS # {}
    <3>1. HS \subseteq Nat
      BY <1>0
    <3>2. c = Ins!Min(HS)
      BY <1>2, <2>1
    <3>3. c \in HS /\ \A y \in HS : c <= y
      <4> HIDE DEF HS
      <4> QED
        BY <2>1, <3>1, <3>2, InsMin
    <3>4. far(c) = 0 /\ (has(i) /\ spans(i) => far(i) = 0 /\ c <= i)
      BY <3>3
    <3>5. Ins!AsNear(0, 0)
      BY DEF Ins!AsNear, Ins!Infinite
    <3> QED
      BY <1>0, <3>3, <3>4, <3>5
  <2>2. CASE H # {} /\ HS = {}
    <3>1. c = Ins!Min({x \in H : \A y \in H : Ins!AsNear(D(x), D(y))})
      BY <1>2, <2>2
    <3>2. c \in H /\ \A j \in H : Ins!AsNear(D(c), D(j)) /\ (Ins!AsNear(D(j), D(c)) => c <= j)
      BY <1>3, <2>2, <3>1
    <3>3. ~spans(c) /\ \A j \in H : ~spans(j)
      BY <2>2, <3>2
    <3> HIDE DEF D, spans
    <3> QED
      BY <1>0, <3>2, <3>3
  <2>3. CASE H = {}
    <3>1. c = Ins!Min({x \in among : \A y \in among : Ins!AsNear(D(x), D(y))})
      BY <1>2, <2>3
    <3>2. c \in among /\ \A j \in among : Ins!AsNear(D(c), D(j)) /\ (Ins!AsNear(D(j), D(c)) => c <= j)
      <4>1. among # {} /\ among \subseteq DOMAIN list
        BY <1>0
      <4> HIDE DEF among, D
      <4> QED
        BY <1>3, <3>1, <4>1
    <3>3. \A j \in DOMAIN list : ~has(j)
      BY <2>3
    <3> HIDE DEF D, spans, has
    <3> QED
      BY <1>0, <3>2, <3>3
  <2> QED
    BY <2>1, <2>2, <2>3
<1> QED
  BY <1>4 DEF c, Ins!BestContext

-----------------------------------------------------------------------------
\* The clock.

\* Clock's sums and counts are the ones the laws are about.
LEMMA ClkTotal ==
  ASSUME NEW f, NEW S
  PROVE  Clk!Total(f, S) = Total(f, S)
<1>1. Clk!Total(f, S) = Iter(f, S)[S]
  BY DEF Clk!Total, Clk!MapThenSumSet, Clk!MapThenFoldSet, Iter, Sums, Step, First
<1> QED
  BY <1>1, TotalIsIter

LEMMA ClkCardinality ==
  ASSUME NEW S
  PROVE  Clk!Cardinality(S) = Cardinality(S)
  BY Zenon DEF Clk!Cardinality, Cardinality

Spans == [start : Int, end : Int]
Clocks == [t0 : Nat, end : Nat]
\* Where a piece of s is, on a clock of that base.
FromOf(s) == Clk!Larger(s.start, 0)
ToOf(s, base) == IF Clk!EndKnown(base) THEN Clk!Lesser(s.end, base.end) ELSE s.end
Inside(s, base, k) == Clk!Lesser(ToOf(s, base), (k + 1) * Minute) - Clk!Larger(FromOf(s), k * Minute)
Piece(where, minute, seconds) == [phase |-> where, minute |-> minute, seconds |-> seconds]
Length(s) == Clk!Larger(0, s.end - s.start)

\* The pieces of a span, written with those.
LEMMA PiecesAre ==
  ASSUME NEW s, NEW base
  PROVE  Clk!Pieces(s, base) =
    IF s.end <= s.start THEN {Piece(Clk!Phase(s.start, base), Clk!MinuteIndex(s.start, base), 0)}
    ELSE {p \in {Piece("before", -1, Clk!Lesser(s.end, 0) - s.start),
                 Piece("after", -1, s.end - Clk!Larger(s.start, ToOf(s, base)))}
                \cup {Piece("live", Clk!CappedMinute(k, base), Inside(s, base, k)) :
                          k \in (FromOf(s) \div Minute)..(ToOf(s, base) \div Minute)} : p.seconds > 0}
  BY DEF Clk!Pieces, Clk!NoMinute, Piece, Inside, FromOf, ToOf

\* Division by Minute.
LEMMA Division ==
  ASSUME ReportAssumption, NEW t \in Int
  PROVE  /\ t \div Minute \in Int /\ Minute \in Nat \ {0}
         /\ (t \div Minute) * Minute <= t /\ t < (t \div Minute + 1) * Minute
         /\ t >= 0 => t \div Minute \in Nat
  BY DEF ReportAssumption

LEMMA Order ==
  ASSUME ReportAssumption, NEW a \in Int, NEW b \in Int
  PROVE  /\ a * Minute \in Int
         /\ a <= b => a * Minute <= b * Minute
         /\ a * Minute < b * Minute => a < b
         /\ (a + 1) * Minute = a * Minute + Minute
<1>1. Minute \in Nat /\ Minute > 0
  BY DEF ReportAssumption
<1>2. a <= b => a * Minute <= b * Minute
  BY <1>1
<1>3. b <= a => b * Minute <= a * Minute
  BY <1>1
<1> QED
  BY <1>1, <1>2, <1>3

\* The minutes of a clock reach its end, and none is empty but the first.
LEMMA Counted ==
  ASSUME ReportAssumption, NEW base \in Clocks, Clk!EndKnown(base)
  PROVE  /\ Clk!MinuteCount(base) \in Nat \ {0}
         /\ base.end <= Clk!MinuteCount(base) * Minute
         /\ \A k \in Int : k * Minute < base.end => k <= Clk!MinuteCount(base) - 1
<1> DEFINE e == base.end
           n == (e + Minute - 1) \div Minute
<1>1. e \in Nat /\ e # 0 /\ Minute \in Nat \ {0} /\ e + Minute - 1 \in Int /\ e + Minute - 1 >= 0
  BY DEF Clocks, Clk!EndKnown, ReportAssumption
<1>2. n \in Nat /\ n * Minute <= e + Minute - 1 /\ e + Minute - 1 < (n + 1) * Minute
  <2> DEFINE t == e + Minute - 1
  <2>1. t \in Int /\ t >= 0
    BY <1>1
  <2> HIDE DEF t
  <2> QED
    BY <2>1, Division DEF t
<1>3. (n + 1) * Minute = n * Minute + Minute /\ n * Minute \in Int
  <2> HIDE DEF n
  <2> QED
    BY <1>2, Order
<1>4. e <= n * Minute
  <2> HIDE DEF n, e
  <2> QED
    BY <1>1, <1>2, <1>3
<1>5. n # 0
  <2>1. 0 * Minute = 0
    BY <1>1
  <2> HIDE DEF n, e
  <2> QED
    BY <1>1, <1>4, <2>1
<1>6. Clk!MinuteCount(base) = n
  <2>1. Clk!MinuteCount(base) = Clk!Larger(1, n)
    BY DEF Clk!MinuteCount
  <2> HIDE DEF n
  <2> QED
    BY <1>2, <1>5, <2>1 DEF Clk!Larger
<1>7. ASSUME NEW k \in Int, k * Minute < e PROVE k <= n - 1
  <2>1. k * Minute < n * Minute
    <3>1. k * Minute \in Int
      BY Order
    <3> HIDE DEF n, e
    <3> QED
      BY <1>1, <1>3, <1>4, <1>7, <3>1
  <2>2. k < n
    <3> HIDE DEF n
    <3> QED
      BY <1>2, <2>1, Order
  <2> HIDE DEF n
  <2> QED
    BY <1>2, <2>2
<1> HIDE DEF n
<1> QED
  BY <1>2, <1>4, <1>5, <1>6, <1>7

\* How much of a span is left of t seconds.
Until(s, base, t) == Clk!Larger(0, Clk!Lesser(ToOf(s, base), t) - FromOf(s))

LEMMA Ends ==
  ASSUME NEW s \in Spans, NEW base \in Clocks
  PROVE  /\ s.start \in Int /\ s.end \in Int /\ base.end \in Nat /\ base.t0 \in Nat
         /\ FromOf(s) \in Nat /\ ToOf(s, base) \in Int /\ Length(s) \in Nat
  BY DEF Spans, Clocks, FromOf, ToOf, Length, Clk!Larger, Clk!Lesser

\* What a span has in a minute, if anything.
LEMMA InMinute ==
  ASSUME ReportAssumption, NEW s \in Spans, NEW base \in Clocks, NEW k \in Nat
  PROVE  /\ Inside(s, base, k) \in Int
         /\ Inside(s, base, k) > 0 => /\ k \in (FromOf(s) \div Minute)..(ToOf(s, base) \div Minute)
                                      /\ k * Minute < ToOf(s, base)
         /\ Until(s, base, k * Minute) \in Nat
         /\ Clk!Larger(0, Inside(s, base, k)) =
              Until(s, base, (k + 1) * Minute) - Until(s, base, k * Minute)
<1> DEFINE from == FromOf(s)
           to == ToOf(s, base)
           a == k * Minute
           b == (k + 1) * Minute
<1>1. from \in Nat /\ to \in Int
  BY Ends
<1>2. a \in Int /\ b = a + Minute /\ Minute \in Nat \ {0}
  BY Order DEF ReportAssumption
<1>3. Inside(s, base, k) = Clk!Lesser(to, b) - Clk!Larger(from, a)
  BY DEF Inside
<1>4. Until(s, base, a) = Clk!Larger(0, Clk!Lesser(to, a) - from) /\ Until(s, base, b) = Clk!Larger(0, Clk!Lesser(to, b) - from)
  BY DEF Until
<1>5. /\ from \div Minute \in Int /\ (from \div Minute) * Minute <= from
      /\ to \div Minute \in Int /\ to < (to \div Minute + 1) * Minute
  <2> HIDE DEF from, to
  <2> QED
    BY <1>1, Division
<1>6. (from \div Minute) * Minute \in Int /\ (to \div Minute + 1) * Minute \in Int
      /\ ((from \div Minute) * Minute < b => from \div Minute < k + 1)
      /\ (a < (to \div Minute + 1) * Minute => k < to \div Minute + 1)
  <2> DEFINE x == from \div Minute
             y == to \div Minute + 1
  <2>1. x \in Int /\ y \in Int
    BY <1>5
  <2> HIDE DEF x, y
  <2>2. /\ x * Minute \in Int /\ y * Minute \in Int
        /\ x * Minute < (k + 1) * Minute => x < k + 1
        /\ k * Minute < y * Minute => k < y
    BY <2>1, Order
  <2> QED
    BY <2>2 DEF x, y
<1> HIDE DEF from, to, a, b
<1>7. Clk!Lesser(to, b) - Clk!Larger(from, a) > 0 => from < b /\ a < to
  BY <1>1, <1>2 DEF Clk!Lesser, Clk!Larger
<1>8. /\ Clk!Lesser(to, b) - Clk!Larger(from, a) \in Int
      /\ Clk!Larger(0, Clk!Lesser(to, a) - from) \in Nat
      /\ Clk!Larger(0, Clk!Lesser(to, b) - Clk!Larger(from, a)) =
           Clk!Larger(0, Clk!Lesser(to, b) - from) - Clk!Larger(0, Clk!Lesser(to, a) - from)
  BY <1>1, <1>2 DEF Clk!Lesser, Clk!Larger
<1>9. Inside(s, base, k) > 0 => from \div Minute <= k /\ k <= to \div Minute
  <2> SUFFICES ASSUME Inside(s, base, k) > 0 PROVE from \div Minute <= k /\ k <= to \div Minute
    OBVIOUS
  <2>1. from < b /\ a < to
    BY <1>3, <1>7
  <2>2. (from \div Minute) * Minute < b /\ a < (to \div Minute + 1) * Minute
    BY <1>1, <1>2, <1>5, <1>6, <2>1
  <2>3. from \div Minute < k + 1 /\ k < to \div Minute + 1
    BY <1>6, <2>2
  <2> QED
    BY <1>5, <2>3
<1> QED
  BY <1>1, <1>2, <1>3, <1>4, <1>5, <1>7, <1>8, <1>9 DEF from, to, a, b

\* A minute with speech in it is not the capped one.
LEMMA NotCapped ==
  ASSUME ReportAssumption, NEW s \in Spans, NEW base \in Clocks, NEW k \in Nat, Inside(s, base, k) > 0
  PROVE  Clk!CappedMinute(k, base) = k /\ (Clk!EndKnown(base) => k <= Clk!MinuteCount(base) - 1)
<1>1. CASE Clk!EndKnown(base)
  <2>1. k * Minute < ToOf(s, base) /\ ToOf(s, base) <= base.end
    <3>1. ToOf(s, base) <= base.end
      BY <1>1, Ends DEF ToOf, Clk!Lesser
    <3> QED
      BY <3>1, InMinute
  <2>2. k * Minute < base.end
    <3>1. k * Minute \in Int
      BY Order
    <3> QED
      BY <2>1, <3>1, Ends
  <2>3. k <= Clk!MinuteCount(base) - 1 /\ Clk!MinuteCount(base) \in Nat
    BY <1>1, <2>2, Counted
  <2> QED
    BY <1>1, <2>3 DEF Clk!CappedMinute, Clk!Lesser
<1>2. CASE ~Clk!EndKnown(base)
  BY <1>2 DEF Clk!CappedMinute
<1> QED
  BY <1>1, <1>2


\* The pieces of s that belong to one bin.
Lane(s, base, where, m) == {p \in Clk!Pieces(s, base) : p.phase = where /\ p.minute = m}

\* Of one piece, its seconds.
LEMMA SpokenOne ==
  ASSUME NEW X, NEW p \in X, \A q \in X : q = p, p.seconds \in Nat
  PROVE  Clk!Spoken(X) = p.seconds
<1> DEFINE f == [q \in X |-> q.seconds]
<1>0. Clk!Spoken(X) = Total(f, X)
  BY ClkTotal DEF Clk!Spoken
<1>1. X = {p}
  OBVIOUS
<1>2. IsFiniteSet(X) /\ X \ {p} = {} /\ f[p] = p.seconds /\ \A q \in X : f[q] \in Nat
  BY <1>1, FS_Singleton
<1> HIDE DEF f
<1>3. Total(f, X) = f[p] + Total(f, X \ {p})
  BY <1>2, TotalSplit
<1>4. Total(f, X \ {p}) = 0
  BY <1>2, TotalEmpty
<1> QED
  BY <1>0, <1>2, <1>3, <1>4

\* Of none, none.
LEMMA SpokenNone == Clk!Spoken({}) = 0
<1> DEFINE f == [q \in {} |-> q.seconds]
<1>1. Clk!Spoken({}) = Total(f, {})
  BY ClkTotal DEF Clk!Spoken
<1> QED
  BY <1>1, TotalEmpty

\* What a span says before the clock, after it and in each of its minutes.
LEMMA LaneSeconds ==
  ASSUME ReportAssumption, NEW s \in Spans, NEW base \in Clocks, NEW m \in Nat
  PROVE  /\ Clk!Spoken(Lane(s, base, "before", -1)) = Clk!Larger(0, Clk!Lesser(s.end, 0) - s.start)
         /\ Clk!Spoken(Lane(s, base, "after", -1)) = Clk!Larger(0, s.end - Clk!Larger(s.start, ToOf(s, base)))
         /\ Clk!Spoken(Lane(s, base, "live", m)) = Clk!Larger(0, Inside(s, base, m))
<1> DEFINE early == Clk!Larger(0, Clk!Lesser(s.end, 0) - s.start)
           late == Clk!Larger(0, s.end - Clk!Larger(s.start, ToOf(s, base)))
           live == Clk!Larger(0, Inside(s, base, m))
<1>0. /\ early \in Nat /\ late \in Nat /\ live \in Nat
      /\ s.end <= s.start => early = 0 /\ late = 0 /\ live = 0
  <2>1. /\ Inside(s, base, m) \in Int /\ s.start \in Int /\ s.end \in Int /\ ToOf(s, base) \in Int /\ FromOf(s) \in Nat
    BY Ends, InMinute
  <2>2. early \in Nat /\ late \in Nat /\ live \in Nat
    <3>1. \A k \in Int : Clk!Larger(0, k) \in Nat
      BY DEF Clk!Larger
    <3>2. Clk!Lesser(s.end, 0) - s.start \in Int /\ s.end - Clk!Larger(s.start, ToOf(s, base)) \in Int
      BY <2>1 DEF Clk!Larger, Clk!Lesser
    <3> QED
      BY <2>1, <3>1, <3>2
  <2>3. s.end <= s.start => early = 0 /\ late = 0
    BY <2>1 DEF Clk!Larger, Clk!Lesser, ToOf
  <2>4. s.end <= s.start => live = 0
    <3>1. s.end <= s.start => ToOf(s, base) <= FromOf(s)
      BY Ends DEF ToOf, FromOf, Clk!Larger, Clk!Lesser
    <3>2. m * Minute \in Int /\ (m + 1) * Minute \in Int
      BY Order
    <3>3. ToOf(s, base) <= FromOf(s) => Inside(s, base, m) <= 0
      BY <2>1, <3>2 DEF Inside, Clk!Larger, Clk!Lesser
    <3> QED
      BY <2>1, <3>1, <3>3 DEF Clk!Larger
  <2> QED
    BY <2>2, <2>3, <2>4
<1>1. CASE s.end <= s.start
  <2>1. PICK p : Clk!Pieces(s, base) = {p} /\ p.seconds = 0
    <3> DEFINE q == Piece(Clk!Phase(s.start, base), Clk!MinuteIndex(s.start, base), 0)
    <3>1. Clk!Pieces(s, base) = {q}
      BY <1>1, PiecesAre
    <3>2. q.seconds = 0
      BY DEF Piece
    <3> QED
      BY <3>1, <3>2
  <2>2. \A where, k : Lane(s, base, where, k) = {p} \/ Lane(s, base, where, k) = {}
    BY <2>1 DEF Lane
  <2>3. \A where, k : Clk!Spoken(Lane(s, base, where, k)) = 0
    <3>1. ASSUME NEW where, NEW k PROVE Clk!Spoken(Lane(s, base, where, k)) = 0
      <4>1. CASE Lane(s, base, where, k) = {}
        BY <4>1, SpokenNone
      <4>2. CASE Lane(s, base, where, k) = {p}
        <5> DEFINE X == Lane(s, base, where, k)
        <5>1. p \in X /\ (\A q \in X : q = p) /\ p.seconds \in Nat
          BY <2>1, <4>2
        <5> HIDE DEF X
        <5>2. Clk!Spoken(X) = p.seconds
          BY <5>1, SpokenOne
        <5> QED
          BY <2>1, <5>2 DEF X
      <4> QED
        BY <2>2, <4>1, <4>2
    <3> QED
      BY <3>1
  <2> QED
    BY <1>0, <1>1, <2>3
<1>2. CASE ~(s.end <= s.start)
  <2> DEFINE x == Piece("before", -1, Clk!Lesser(s.end, 0) - s.start)
             y == Piece("after", -1, s.end - Clk!Larger(s.start, ToOf(s, base)))
             z(k) == Piece("live", Clk!CappedMinute(k, base), Inside(s, base, k))
             ks == (FromOf(s) \div Minute)..(ToOf(s, base) \div Minute)
  <2>1. Clk!Pieces(s, base) = {p \in {x, y} \cup {z(k) : k \in ks} : p.seconds > 0}
    BY <1>2, PiecesAre
  <2>2. ks \subseteq Nat
    <3>1. FromOf(s) \in Nat /\ ToOf(s, base) \in Int
      BY Ends
    <3>2. FromOf(s) \div Minute \in Nat
      BY <3>1, Division
    <3> QED
      BY <3>2
  <2>3. /\ x.phase = "before" /\ x.minute = -1 /\ x.seconds = Clk!Lesser(s.end, 0) - s.start
        /\ y.phase = "after" /\ y.minute = -1 /\ y.seconds = s.end - Clk!Larger(s.start, ToOf(s, base))
        /\ \A k : z(k).phase = "live" /\ z(k).minute = Clk!CappedMinute(k, base) /\ z(k).seconds = Inside(s, base, k)
    BY DEF Piece
  <2>4. \A k \in ks : z(k).seconds > 0 => z(k).minute = k
    BY <2>2, <2>3, NotCapped
  <2>5. Lane(s, base, "before", -1) = IF x.seconds > 0 THEN {x} ELSE {}
    <3> HIDE DEF x, y, z, ks
    <3> QED
      BY <2>1, <2>3 DEF Lane
  <2>6. Lane(s, base, "after", -1) = IF y.seconds > 0 THEN {y} ELSE {}
    <3> HIDE DEF x, y, z, ks
    <3> QED
      BY <2>1, <2>3 DEF Lane
  <2>7. Lane(s, base, "live", m) = IF Inside(s, base, m) > 0 THEN {z(m)} ELSE {}
    <3>1. Inside(s, base, m) > 0 => m \in ks /\ z(m).minute = m
      <4>1. Inside(s, base, m) > 0 => m \in ks
        BY InMinute
      <4> HIDE DEF ks, z
      <4> QED
        BY <2>3, <2>4, <4>1
    <3> HIDE DEF x, y, z, ks
    <3> QED
      BY <2>1, <2>3, <2>4, <3>1 DEF Lane
  <2>8. s.end \in Int /\ s.start \in Int /\ ToOf(s, base) \in Int /\ Inside(s, base, m) \in Int
    BY Ends, InMinute
  <2>9. x.seconds \in Int /\ y.seconds \in Int /\ z(m).seconds \in Int
    BY <2>3, <2>8 DEF Clk!Larger, Clk!Lesser
  <2>10. ASSUME NEW p, p.seconds \in Int, NEW X, X = IF p.seconds > 0 THEN {p} ELSE {}
         PROVE  Clk!Spoken(X) = Clk!Larger(0, p.seconds)
    <3>1. CASE p.seconds > 0
      <4>1. p \in X /\ (\A q \in X : q = p) /\ p.seconds \in Nat
        BY <2>10, <3>1
      <4>2. Clk!Spoken(X) = p.seconds
        BY <4>1, SpokenOne
      <4>3. p.seconds = Clk!Larger(0, p.seconds)
        <5> DEFINE n == p.seconds
        <5>1. n \in Int /\ n > 0
          BY <2>10, <3>1
        <5> HIDE DEF n
        <5>2. n = Clk!Larger(0, n)
          BY <5>1 DEF Clk!Larger
        <5> QED
          BY <5>2 DEF n
      <4> QED
        BY <4>2, <4>3
    <3>2. CASE ~(p.seconds > 0)
      <4>1. X = {}
        BY <2>10, <3>2
      <4>2. Clk!Spoken(X) = 0
        BY <4>1, SpokenNone
      <4> QED
        BY <2>10, <3>2, <4>2 DEF Clk!Larger
    <3> QED
      BY <3>1, <3>2
  <2>11. Clk!Spoken(Lane(s, base, "before", -1)) = Clk!Larger(0, x.seconds)
    <3> HIDE DEF x
    <3> QED
      BY <2>5, <2>9, <2>10
  <2>12. Clk!Spoken(Lane(s, base, "after", -1)) = Clk!Larger(0, y.seconds)
    <3> HIDE DEF y
    <3> QED
      BY <2>6, <2>9, <2>10
  <2>13. Clk!Spoken(Lane(s, base, "live", m)) = Clk!Larger(0, z(m).seconds)
    <3> DEFINE w == z(m)
    <3>1. w.seconds \in Int /\ Lane(s, base, "live", m) = IF w.seconds > 0 THEN {w} ELSE {}
      BY <2>3, <2>7, <2>8
    <3> HIDE DEF w
    <3>2. Clk!Spoken(Lane(s, base, "live", m)) = Clk!Larger(0, w.seconds)
      BY <2>10, <3>1
    <3> QED
      BY <3>2 DEF w
  <2> HIDE DEF x, y, z
  <2> QED
    BY <2>3, <2>11, <2>12, <2>13
<1> QED
  BY <1>1, <1>2

\* Before, after and in between is the whole span, if the minutes reach so far.
LEMMA Whole ==
  ASSUME NEW s \in Spans, NEW base \in Clocks, NEW t \in Int, Clk!Larger(0, ToOf(s, base) - FromOf(s)) > 0 => ToOf(s, base) <= t
  PROVE  Clk!Larger(0, Clk!Lesser(s.end, 0) - s.start) + Clk!Larger(0, s.end - Clk!Larger(s.start, ToOf(s, base)))
           + Until(s, base, t) = Length(s)
<1>1. /\ s.start \in Int /\ s.end \in Int /\ base.end \in Nat
  BY Ends
<1> QED
  BY <1>1 DEF Until, Length, ToOf, FromOf, Clk!Larger, Clk!Lesser, Clk!EndKnown


\* The minutes that speech reaches into.
Reached(s, base, n) == Clk!Larger(0, ToOf(s, base) - FromOf(s)) > 0 => ToOf(s, base) <= n * Minute

\* A span's seconds are all somewhere, once.
LEMMA SpanPlaced ==
  ASSUME ReportAssumption, NEW s \in Spans, NEW base \in Clocks, NEW n \in Nat, Reached(s, base, n),
         NEW d, \A m \in 0..n - 1 : d[m] = Clk!Spoken(Lane(s, base, "live", m))
  PROVE  /\ Clk!Spoken(Lane(s, base, "before", -1)) \in Nat
         /\ Clk!Spoken(Lane(s, base, "after", -1)) \in Nat
         /\ \A m \in 0..n - 1 : d[m] \in Nat
         /\ Length(s) = Clk!Spoken(Lane(s, base, "before", -1)) + Clk!Spoken(Lane(s, base, "after", -1)) + Total(d, 0..n - 1)
<1> DEFINE f == [m \in 0..n |-> Until(s, base, m * Minute)]
           t == n * Minute
<1>1. \A m \in 0..n : f[m] \in Nat
  <2> TAKE m \in 0..n
  <2>1. m \in Nat
    OBVIOUS
  <2>2. Until(s, base, m * Minute) \in Nat
    BY <2>1, InMinute
  <2> QED
    BY <2>2
<1>2. \A m \in 0..n - 1 : d[m] \in Nat /\ d[m] = f[m + 1] - f[m]
  <2> TAKE m \in 0..n - 1
  <2>1. m \in Nat /\ m \in 0..n /\ m + 1 \in 0..n /\ m + 1 \in Nat
    OBVIOUS
  <2>2. d[m] = Clk!Larger(0, Inside(s, base, m)) /\ Inside(s, base, m) \in Int
    BY <2>1, LaneSeconds, InMinute
  <2>3. d[m] \in Nat
    BY <2>2 DEF Clk!Larger
  <2>4. d[m] = Until(s, base, (m + 1) * Minute) - Until(s, base, m * Minute)
    BY <2>1, <2>2, InMinute
  <2> QED
    BY <2>1, <2>3, <2>4
<1>3. f[0] = 0 /\ f[n] = Until(s, base, t)
  <2>1. Until(s, base, 0) = 0
    BY Ends DEF Until, Clk!Larger, Clk!Lesser
  <2>2. 0 * Minute = 0
    BY DEF ReportAssumption
  <2> QED
    BY <2>1, <2>2
<1>4. t \in Int /\ f[n] \in Nat
  BY <1>1, Order
<1>5. Clk!Larger(0, Clk!Lesser(s.end, 0) - s.start) + Clk!Larger(0, s.end - Clk!Larger(s.start, ToOf(s, base)))
           + Until(s, base, t) = Length(s)
  <2> HIDE DEF t
  <2> QED
    BY <1>4, Whole DEF Reached, t
<1> HIDE DEF f, t
<1>6. Total(d, 0..n - 1) = f[n] - f[0]
  BY <1>1, <1>2, TotalSteps
<1>7. /\ Clk!Spoken(Lane(s, base, "before", -1)) = Clk!Larger(0, Clk!Lesser(s.end, 0) - s.start)
      /\ Clk!Spoken(Lane(s, base, "after", -1)) = Clk!Larger(0, s.end - Clk!Larger(s.start, ToOf(s, base)))
  <2>1. 0 \in Nat
    OBVIOUS
  <2> QED
    BY <2>1, LaneSeconds
<1>8. Clk!Larger(0, Clk!Lesser(s.end, 0) - s.start) \in Nat /\ Clk!Larger(0, s.end - Clk!Larger(s.start, ToOf(s, base))) \in Nat
  BY Ends DEF Clk!Larger, Clk!Lesser
<1> QED
  BY <1>2, <1>3, <1>4, <1>5, <1>6, <1>7, <1>8

\* And so are those of a whole transcript.
LEMMA SpeechPlaced ==
  ASSUME ReportAssumption, NEW speech \in Seq(Spans), NEW base \in Clocks, NEW n \in Nat,
         \A i \in 1..Len(speech) : Reached(speech[i], base, n)
  PROVE  LET D == 1..Len(speech)
             at(where, m) == Total([i \in D |-> Clk!Spoken(Lane(speech[i], base, where, m))], D)
         IN  at("before", -1) + at("after", -1) + Total([m \in 0..n - 1 |-> at("live", m)], 0..n - 1) =
               Total([i \in D |-> Length(speech[i])], D)
<1> DEFINE D == 1..Len(speech)
           K == 0..n - 1
           b == [i \in D |-> Clk!Spoken(Lane(speech[i], base, "before", -1))]
           a == [i \in D |-> Clk!Spoken(Lane(speech[i], base, "after", -1))]
           h == [i \in D |-> [m \in K |-> Clk!Spoken(Lane(speech[i], base, "live", m))]]
           g == [m \in K |-> [i \in D |-> Clk!Spoken(Lane(speech[i], base, "live", m))]]
           r == [i \in D |-> Total(h[i], K)]
           c == [m \in K |-> Total(g[m], D)]
           e == [i \in D |-> b[i] + a[i]]
           l == [i \in D |-> Length(speech[i])]
<1>1. IsFiniteSet(D) /\ IsFiniteSet(K)
  BY FS_Interval, LenProperties
<1>2. ASSUME NEW i \in D
      PROVE  /\ b[i] \in Nat /\ a[i] \in Nat /\ (\A m \in K : h[i][m] \in Nat)
             /\ l[i] = b[i] + a[i] + Total(h[i], K)
  <2> DEFINE s == speech[i]
             d == h[i]
  <2>1. s \in Spans /\ Reached(s, base, n)
    BY ElementOfSeq
  <2>2. \A m \in 0..n - 1 : d[m] = Clk!Spoken(Lane(s, base, "live", m))
    OBVIOUS
  <2>3. b[i] = Clk!Spoken(Lane(s, base, "before", -1)) /\ a[i] = Clk!Spoken(Lane(s, base, "after", -1)) /\ l[i] = Length(s)
    OBVIOUS
  <2> HIDE DEF s, d, b, a, l
  <2>4. /\ Clk!Spoken(Lane(s, base, "before", -1)) \in Nat
        /\ Clk!Spoken(Lane(s, base, "after", -1)) \in Nat
        /\ \A m \in 0..n - 1 : d[m] \in Nat
        /\ Length(s) = Clk!Spoken(Lane(s, base, "before", -1)) + Clk!Spoken(Lane(s, base, "after", -1)) + Total(d, 0..n - 1)
    BY <2>1, <2>2, SpanPlaced
  <2> HIDE DEF h
  <2> QED
    BY <2>3, <2>4 DEF d
<1>3. \A i \in D, m \in K : h[i][m] \in Nat /\ g[m][i] = h[i][m]
  BY <1>2
<1>4. \A i \in D : r[i] = Total(h[i], K)
  OBVIOUS
<1>5. \A m \in K : c[m] = Total(g[m], D)
  OBVIOUS
<1>6. \A i \in D : r[i] \in Nat
  <2> HIDE DEF h, K, D, r
  <2> QED
    BY <1>1, <1>3, <1>4, TotalNat
<1>7. \A i \in D : e[i] = b[i] + a[i]
  OBVIOUS
<1>8. Total(c, K) = Total(r, D)
  <2> HIDE DEF h, K, D, r, g, c
  <2>1. Turned(h, g, D, K) /\ RowSums(r, h, D, K) /\ RowSums(c, g, K, D)
    BY <1>3, <1>4, <1>5 DEF Turned, RowSums
  <2> QED
    BY <1>1, <2>1, TotalSwap
<1>9. \A i \in D : b[i] \in Nat /\ a[i] \in Nat /\ l[i] = e[i] + r[i] /\ e[i] \in Nat
  <2> HIDE DEF h, K, D, r, g, c, b, a, e, l
  <2> QED
    BY <1>2, <1>4, <1>6, <1>7
<1>10. Total(b, D) + Total(a, D) + Total(c, K) = Total(l, D)
  <2> HIDE DEF h, K, D, r, g, c, b, a, e, l
  <2>1. Total(e, D) = Total(b, D) + Total(a, D)
    BY <1>1, <1>7, <1>9, TotalPlus
  <2>2. Total(l, D) = Total(e, D) + Total(r, D)
    BY <1>1, <1>6, <1>9, TotalPlus
  <2> QED
    BY <1>8, <2>1, <2>2
<1>11. c = [m \in K |-> Total([i \in D |-> Clk!Spoken(Lane(speech[i], base, "live", m))], D)]
  <2>1. \A m \in K : g[m] = [i \in D |-> Clk!Spoken(Lane(speech[i], base, "live", m))]
    OBVIOUS
  <2> HIDE DEF g, D, K
  <2> QED
    BY <2>1
<1> QED
  BY <1>10, <1>11


\* Things with a phase and a minute each: those of one bin, and that each has a bin.
Those(P, where, minute, w, m) == {i \in P : where[i] = w /\ minute[i] = m}
InLanes(P, where, minute, n) ==
  \A i \in P : \/ where[i] \in {"before", "after"} /\ minute[i] = -1
               \/ where[i] = "live" /\ minute[i] \in 0..n - 1

\* Things that are before, after or in one of n minutes, counted there.
LEMMA EventsPlaced ==
  ASSUME NEW P, IsFiniteSet(P), NEW n \in Nat, NEW where, NEW minute, InLanes(P, where, minute, n),
         NEW d, \A m \in 0..n - 1 : d[m] = Cardinality(Those(P, where, minute, "live", m))
  PROVE  Cardinality(Those(P, where, minute, "before", -1)) + Cardinality(Those(P, where, minute, "after", -1))
           + Total(d, 0..n - 1) = Cardinality(P)
<1> USE DEF Those, InLanes
<1> DEFINE B == {i \in P : where[i] = "before" /\ minute[i] = -1}
           A == {i \in P : where[i] = "after" /\ minute[i] = -1}
           L == {i \in P : where[i] = "live"}
           one == [i \in P |-> 1]
           K == 0..n - 1
<1>1. IsFiniteSet(B) /\ IsFiniteSet(A) /\ IsFiniteSet(L) /\ IsFiniteSet(K) /\ IsFiniteSet(A \cup L)
  <2>1. IsFiniteSet(B) /\ IsFiniteSet(A) /\ IsFiniteSet(L)
    BY FS_Subset
  <2>2. IsFiniteSet(K)
    BY FS_Interval
  <2> HIDE DEF A, L, B, K
  <2> QED
    BY <2>1, <2>2, FS_Union
<1>2. P = B \cup (A \cup L) /\ B \cap (A \cup L) = {} /\ A \cap L = {}
  OBVIOUS
<1>3. \A i \in P : one[i] = 1 /\ one[i] \in Nat
  OBVIOUS
<1>4. \A i \in L : one[i] \in Nat /\ minute[i] \in K
  OBVIOUS
<1>5. ASSUME NEW m \in K PROVE d[m] = Total(one, PutAt(L, minute, m))
  <2> DEFINE X == {i \in L : minute[i] = m}
  <2>1. X = {i \in P : where[i] = "live" /\ minute[i] = m} /\ X \subseteq P
    OBVIOUS
  <2>2. d[m] = Cardinality(X)
    BY <2>1
  <2>3. IsFiniteSet(X) /\ \A i \in X : one[i] = 1
    BY <2>1, FS_Subset
  <2> HIDE DEF X, one
  <2>4. Total(one, X) = Cardinality(X)
    BY <2>3, TotalOnes
  <2> QED
    BY <2>2, <2>4 DEF X, PutAt
<1> HIDE DEF one, K
<1>6. Total(d, K) = Total(one, L)
  <2> HIDE DEF L
  <2> QED
    BY <1>1, <1>4, <1>5, TotalByPart
<1> HIDE DEF A, B, L
<1>7. Total(one, A \cup L) = Total(one, A) + Total(one, L)
  BY <1>1, <1>2, <1>3, TotalUnion
<1>8. Total(one, P) = Total(one, B) + Total(one, A \cup L)
  <2> DEFINE R == A \cup L
  <2>1. P = B \cup R /\ B \cap R = {} /\ IsFiniteSet(R) /\ \A x \in B \cup R : one[x] \in Nat
    BY <1>1, <1>2, <1>3
  <2> HIDE DEF R
  <2>2. Total(one, B \cup R) = Total(one, B) + Total(one, R)
    BY <1>1, <2>1, TotalUnion
  <2> QED
    BY <2>1, <2>2 DEF R
<1>9. Total(one, P) = Cardinality(P) /\ Total(one, A) = Cardinality(A) /\ Total(one, B) = Cardinality(B)
  <2>1. A \subseteq P /\ B \subseteq P
    BY <1>2
  <2>2. (\A i \in P : one[i] = 1) /\ (\A i \in A : one[i] = 1) /\ (\A i \in B : one[i] = 1)
    BY <1>3, <2>1
  <2> QED
    BY <1>1, <2>2, TotalOnes
<1>10. Cardinality(P) \in Nat /\ Cardinality(A) \in Nat /\ Cardinality(B) \in Nat /\ Total(one, L) \in Nat
  <2>1. \A i \in L : one[i] \in Nat
    BY <1>4
  <2> QED
    BY <1>1, <2>1, FS_CardinalityType, TotalNat
<1>11. Cardinality(B) + Cardinality(A) + Total(d, K) = Cardinality(P)
  BY <1>6, <1>7, <1>8, <1>9, <1>10
<1> QED
  BY <1>11 DEF A, B, K

\* A time is before the clock, after it, or in a minute of it.
LEMMA TimePlaced ==
  ASSUME ReportAssumption, NEW t \in Int, NEW base \in Clocks
  PROVE  /\ Clk!MinuteIndex(t, base) \in Int
         /\ \/ Clk!Phase(t, base) \in {"before", "after"} /\ Clk!MinuteIndex(t, base) = -1
            \/ Clk!Phase(t, base) = "live" /\ Clk!MinuteIndex(t, base) \in Nat
         /\ Clk!EndKnown(base) => Clk!MinuteIndex(t, base) <= Clk!MinuteCount(base) - 1
<1>1. Clk!EndKnown(base) => Clk!MinuteCount(base) \in Nat \ {0}
  BY Counted
<1>2. t >= 0 => t \div Minute \in Nat
  BY Division
<1>3. Clk!Phase(t, base) \in {"before", "after"} \/ (Clk!Phase(t, base) = "live" /\ t >= 0)
  BY DEF Clk!Phase
<1>4. CASE Clk!Phase(t, base) \in {"before", "after"}
  <2>1. Clk!MinuteIndex(t, base) = -1
    BY <1>4 DEF Clk!MinuteIndex, Clk!NoMinute
  <2> QED
    BY <1>1, <1>4, <2>1
<1>5. CASE Clk!Phase(t, base) = "live" /\ t >= 0
  <2> DEFINE k == t \div Minute
  <2>1. k \in Nat /\ Clk!MinuteIndex(t, base) = Clk!CappedMinute(k, base)
    BY <1>2, <1>5 DEF Clk!MinuteIndex
  <2> HIDE DEF k
  <2>2. Clk!CappedMinute(k, base) \in Nat /\ (Clk!EndKnown(base) => Clk!CappedMinute(k, base) <= Clk!MinuteCount(base) - 1)
    BY <1>1, <2>1 DEF Clk!CappedMinute, Clk!Lesser
  <2> QED
    BY <1>5, <2>1, <2>2
<1> QED
  BY <1>3, <1>4, <1>5

\* A span's pieces are in finitely many minutes.
LEMMA PiecesFinite ==
  ASSUME ReportAssumption, NEW s \in Spans, NEW base \in Clocks
  PROVE  IsFiniteSet({p.minute : p \in Clk!Pieces(s, base)}) /\ \A p \in Clk!Pieces(s, base) : p.minute \in Int
<1>1. CASE s.end <= s.start
  <2> DEFINE q == Piece(Clk!Phase(s.start, base), Clk!MinuteIndex(s.start, base), 0)
  <2>1. Clk!Pieces(s, base) = {q}
    BY <1>1, PiecesAre
  <2>2. q.minute \in Int
    <3>1. q.minute = Clk!MinuteIndex(s.start, base)
      BY DEF Piece
    <3> QED
      BY <3>1, Ends, TimePlaced
  <2> HIDE DEF q
  <2>3. {p.minute : p \in Clk!Pieces(s, base)} = {q.minute}
    BY <2>1
  <2>4. IsFiniteSet({q.minute})
    BY FS_Singleton
  <2>5. \A p \in Clk!Pieces(s, base) : p.minute \in Int
    BY <2>1, <2>2
  <2>6. IsFiniteSet({p.minute : p \in Clk!Pieces(s, base)})
    BY <2>3, <2>4
  <2> QED
    BY <2>5, <2>6
<1>2. CASE ~(s.end <= s.start)
  <2> DEFINE x == Piece("before", -1, Clk!Lesser(s.end, 0) - s.start)
             y == Piece("after", -1, s.end - Clk!Larger(s.start, ToOf(s, base)))
             z(k) == Piece("live", Clk!CappedMinute(k, base), Inside(s, base, k))
             ks == (FromOf(s) \div Minute)..(ToOf(s, base) \div Minute)
             f == [k \in ks |-> Clk!CappedMinute(k, base)]
             T == {f[k] : k \in ks}
  <2>1. Clk!Pieces(s, base) = {p \in {x, y} \cup {z(k) : k \in ks} : p.seconds > 0}
    BY <1>2, PiecesAre
  <2>2. x.minute = -1 /\ y.minute = -1 /\ \A k \in ks : z(k).minute = f[k]
    BY DEF Piece
  <2>3. \A k \in ks : f[k] \in Int
    <3>1. Clk!EndKnown(base) => Clk!MinuteCount(base) \in Nat
      BY Counted
    <3> QED
      BY <3>1 DEF Clk!CappedMinute, Clk!Lesser
  <2>4. IsFiniteSet(T)
    <3>1. FromOf(s) \div Minute \in Int /\ ToOf(s, base) \div Minute \in Int
      BY Ends, Division
    <3>2. IsFiniteSet(ks)
      BY <3>1, FS_Interval
    <3> HIDE DEF ks, f
    <3> QED
      BY <3>2, ImageFinite
  <2> HIDE DEF x, y, z, f, ks
  <2>5. \A p \in Clk!Pieces(s, base) : p.minute = -1 \/ p.minute \in T
    BY <2>1, <2>2
  <2>6. \A k \in T : k \in Int
    BY <2>3
  <2> HIDE DEF T
  <2>7. IsFiniteSet(T \cup {-1})
    BY <2>4, FS_AddElement
  <2>8. {p.minute : p \in Clk!Pieces(s, base)} \subseteq T \cup {-1}
    BY <2>5
  <2>9. IsFiniteSet({p.minute : p \in Clk!Pieces(s, base)})
    BY <2>7, <2>8, FS_Subset
  <2>10. \A p \in Clk!Pieces(s, base) : p.minute \in Int
    BY <2>5, <2>6
  <2> QED
    BY <2>9, <2>10
<1> QED
  BY <1>1, <1>2

\* A clock whose end is not known reaches the minute a span ends in.
LEMMA LastPiece ==
  ASSUME ReportAssumption, NEW s \in Spans, NEW base \in Clocks, ~Clk!EndKnown(base), NEW n \in Nat,
         \A p \in Clk!Pieces(s, base) : p.minute <= n - 1
  PROVE  Reached(s, base, n)
<1> SUFFICES ASSUME Clk!Larger(0, ToOf(s, base) - FromOf(s)) > 0 PROVE ToOf(s, base) <= n * Minute
  BY DEF Reached
<1> DEFINE from == FromOf(s)
           to == ToOf(s, base)
           k == (to - 1) \div Minute
           z == Piece("live", Clk!CappedMinute(k, base), Inside(s, base, k))
<1>1. /\ from \in Nat /\ to \in Int /\ from < to /\ to = s.end /\ s.start <= from /\ s.start \in Int
  BY Ends DEF ToOf, FromOf, Clk!Larger
<1>2. to - 1 \in Int /\ to - 1 >= 0
  BY <1>1
<1>3. k \in Nat /\ k * Minute <= to - 1 /\ to - 1 < (k + 1) * Minute
  <2> DEFINE t == to - 1
  <2>1. t \in Int /\ t >= 0
    BY <1>2
  <2> HIDE DEF t
  <2> QED
    BY <2>1, Division DEF t
<1> HIDE DEF k
<1>4. k * Minute \in Int /\ (k + 1) * Minute \in Int
  BY <1>3, Order
<1>5. Inside(s, base, k) > 0
  BY <1>1, <1>3, <1>4 DEF Inside, Clk!Lesser, Clk!Larger
<1>6. k \in (from \div Minute)..(to \div Minute) /\ Clk!CappedMinute(k, base) = k
  BY <1>3, <1>5, InMinute DEF Clk!CappedMinute
<1>7. z \in Clk!Pieces(s, base)
  <2>1. z.seconds > 0
    BY <1>5 DEF Piece
  <2>2. ~(s.end <= s.start)
    BY <1>1
  <2>3. z \in {Piece("live", Clk!CappedMinute(j, base), Inside(s, base, j)) : j \in (from \div Minute)..(to \div Minute)}
    BY <1>6
  <2> HIDE DEF z, from, to
  <2>4. Clk!Pieces(s, base) =
    {p \in {Piece("before", -1, Clk!Lesser(s.end, 0) - s.start),
                 Piece("after", -1, s.end - Clk!Larger(s.start, ToOf(s, base)))}
                \cup {Piece("live", Clk!CappedMinute(j, base), Inside(s, base, j)) :
                          j \in (FromOf(s) \div Minute)..(ToOf(s, base) \div Minute)} : p.seconds > 0}
    BY <2>2, PiecesAre
  <2> QED
    BY <2>1, <2>3, <2>4 DEF from, to
<1>8. z.minute = k
  BY <1>6 DEF Piece
<1> HIDE DEF z, from, to
<1>9. k + 1 <= n
  BY <1>3, <1>7, <1>8
<1>10. (k + 1) * Minute <= n * Minute /\ n * Minute \in Int
  BY <1>3, <1>9, Order
<1>11. to <= n * Minute
  <2> DEFINE b == (k + 1) * Minute
             c == n * Minute
  <2>1. b \in Int /\ c \in Int /\ to - 1 < b /\ b <= c
    BY <1>3, <1>4, <1>10
  <2> HIDE DEF b, c
  <2>2. to <= c
    BY <1>1, <2>1
  <2> QED
    BY <2>2 DEF c
<1> QED
  BY <1>11 DEF to


\* What MinuteBins is made of: the events and the speech of each bin, the minutes
\* anything falls in, and how many of them there are.
PlacedIn(events, base) == IF Clk!HasClock(base) THEN {i \in DOMAIN events : events[i] # 0} ELSE {}
SpokenIn(speech, base) == IF Clk!HasClock(base) THEN DOMAIN speech ELSE {}
WhereOf(events, base) == [i \in PlacedIn(events, base) |-> Clk!Phase(events[i] - base.t0, base)]
MinuteOf(events, base) == [i \in PlacedIn(events, base) |-> Clk!MinuteIndex(events[i] - base.t0, base)]
EventsAt(events, base, where, m) ==
  Cardinality(Those(PlacedIn(events, base), WhereOf(events, base), MinuteOf(events, base), where, m))
SpeechAt(speech, base, where, m) ==
  Total([i \in SpokenIn(speech, base) |-> Clk!Spoken(Lane(speech[i], base, where, m))], SpokenIn(speech, base))
LiveIn(events, speech, base) ==
  {MinuteOf(events, base)[i] : i \in PlacedIn(events, base)} \cup
  UNION {{p.minute : p \in Clk!Pieces(speech[i], base)} : i \in SpokenIn(speech, base)}
CountOf(events, speech, base) ==
  IF ~Clk!HasClock(base) THEN 0
  ELSE IF Clk!EndKnown(base) THEN Clk!MinuteCount(base) ELSE 1 + Clk!Max(LiveIn(events, speech, base) \cup {-1})
BinAt(events, speech, base, where, m) ==
  [events |-> EventsAt(events, base, where, m), speaking |-> SpeechAt(speech, base, where, m)]

\* MinuteBins, written with those.
LEMMA BinsAre ==
  ASSUME NEW events, NEW speech, NEW base
  PROVE  Clk!MinuteBins(events, speech, base) =
    [minutes |-> [m \in 0..CountOf(events, speech, base) - 1 |-> BinAt(events, speech, base, "live", m)],
     before |-> BinAt(events, speech, base, "before", -1), after |-> BinAt(events, speech, base, "after", -1),
     unplaced |-> Len(events) - Cardinality(PlacedIn(events, base))]
<1> DEFINE placed == PlacedIn(events, base)
           spoken == SpokenIn(speech, base)
           eventsAt(where, m) == {i \in placed : Clk!Phase(events[i] - base.t0, base) = where
                                                 /\ Clk!MinuteIndex(events[i] - base.t0, base) = m}
           bin(where, m) ==
             [events |-> Clk!Cardinality(eventsAt(where, m)),
              speaking |-> Clk!Total([i \in spoken |->
                 Clk!Spoken({p \in Clk!Pieces(speech[i], base) : p.phase = where /\ p.minute = m})], spoken)]
           live == {Clk!MinuteIndex(events[i] - base.t0, base) : i \in placed} \cup
                   UNION {{p.minute : p \in Clk!Pieces(speech[i], base)} : i \in spoken}
           count == IF ~Clk!HasClock(base) THEN 0
                    ELSE IF Clk!EndKnown(base) THEN Clk!MinuteCount(base) ELSE 1 + Clk!Max(live \cup {-1})
<1>1. Clk!MinuteBins(events, speech, base) =
        [minutes |-> [m \in 0..count - 1 |-> bin("live", m)],
         before |-> bin("before", -1), after |-> bin("after", -1),
         unplaced |-> Len(events) - Clk!Cardinality(placed)]
  BY DEF Clk!MinuteBins, Clk!NoMinute, PlacedIn, SpokenIn
<1>2. ASSUME NEW where, NEW m PROVE bin(where, m) = BinAt(events, speech, base, where, m)
  <2>1. eventsAt(where, m) = {i \in placed : WhereOf(events, base)[i] = where /\ MinuteOf(events, base)[i] = m}
    BY DEF WhereOf, MinuteOf
  <2>2. \A i \in spoken : {p \in Clk!Pieces(speech[i], base) : p.phase = where /\ p.minute = m} = Lane(speech[i], base, where, m)
    BY DEF Lane
  <2>3. [i \in spoken |-> Clk!Spoken({p \in Clk!Pieces(speech[i], base) : p.phase = where /\ p.minute = m})] =
        [i \in spoken |-> Clk!Spoken(Lane(speech[i], base, where, m))]
    BY <2>2
  <2> DEFINE x == eventsAt(where, m)
             f == [i \in spoken |-> Clk!Spoken({p \in Clk!Pieces(speech[i], base) : p.phase = where /\ p.minute = m})]
  <2>4. x = {i \in placed : WhereOf(events, base)[i] = where /\ MinuteOf(events, base)[i] = m}
    BY <2>1
  <2>5. f = [i \in spoken |-> Clk!Spoken(Lane(speech[i], base, where, m))]
    BY <2>3
  <2>6. bin(where, m) = [events |-> Clk!Cardinality(x), speaking |-> Clk!Total(f, spoken)]
    OBVIOUS
  <2> HIDE DEF x, f, bin, spoken, placed
  <2>7. bin(where, m) = [events |-> Cardinality(x), speaking |-> Total(f, spoken)]
    BY <2>6, ClkTotal, ClkCardinality
  <2>8. Cardinality(x) = EventsAt(events, base, where, m) /\ Total(f, spoken) = SpeechAt(speech, base, where, m)
    BY <2>4, <2>5 DEF EventsAt, SpeechAt, spoken, placed, Those
  <2> QED
    BY <2>7, <2>8 DEF BinAt
<1>3. count = CountOf(events, speech, base)
  <2>1. live = LiveIn(events, speech, base)
    BY DEF LiveIn, MinuteOf
  <2> HIDE DEF live
  <2> QED
    BY <2>1 DEF CountOf
<1>4. Clk!Cardinality(placed) = Cardinality(PlacedIn(events, base))
  BY ClkCardinality
<1> HIDE DEF count, bin, placed
<1>5. [m \in 0..count - 1 |-> bin("live", m)] =
      [m \in 0..CountOf(events, speech, base) - 1 |-> BinAt(events, speech, base, "live", m)]
  BY <1>2, <1>3
<1> QED
  BY <1>1, <1>2, <1>4, <1>5

\* What is left to show of NothingLost.
LEMMA LostUnless ==
  ASSUME NEW events, NEW speech, NEW base, NEW n, n = CountOf(events, speech, base),
         NEW e, e = [m \in 0..n - 1 |-> EventsAt(events, base, "live", m)],
         NEW d, d = [m \in 0..n - 1 |-> SpeechAt(speech, base, "live", m)],
         EventsAt(events, base, "before", -1) + EventsAt(events, base, "after", -1) + Total(e, 0..n - 1)
           + (Len(events) - Cardinality(PlacedIn(events, base))) = Len(events),
         Clk!HasClock(base) =>
           SpeechAt(speech, base, "before", -1) + SpeechAt(speech, base, "after", -1) + Total(d, 0..n - 1) =
             Total([i \in DOMAIN speech |-> Length(speech[i])], DOMAIN speech)
  PROVE  Clk!NothingLost(events, speech, base)
<1> DEFINE bins == Clk!MinuteBins(events, speech, base)
<1>1. /\ DOMAIN bins.minutes = 0..n - 1
      /\ \A m \in 0..n - 1 : bins.minutes[m] = BinAt(events, speech, base, "live", m)
      /\ bins.before = BinAt(events, speech, base, "before", -1)
      /\ bins.after = BinAt(events, speech, base, "after", -1)
      /\ bins.unplaced = Len(events) - Cardinality(PlacedIn(events, base))
  BY BinsAre
<1>2. \A where, m : /\ BinAt(events, speech, base, where, m).events = EventsAt(events, base, where, m)
                    /\ BinAt(events, speech, base, where, m).speaking = SpeechAt(speech, base, where, m)
  BY DEF BinAt
<1> HIDE DEF bins
<1>3. /\ [m \in DOMAIN bins.minutes |-> bins.minutes[m].events] = e
      /\ [m \in DOMAIN bins.minutes |-> bins.minutes[m].speaking] = d
  BY <1>1, <1>2
<1>4. /\ bins.before.events + bins.after.events +
           Clk!Total([m \in DOMAIN bins.minutes |-> bins.minutes[m].events], DOMAIN bins.minutes) + bins.unplaced = Len(events)
      /\ Clk!HasClock(base) =>
           bins.before.speaking + bins.after.speaking +
             Clk!Total([m \in DOMAIN bins.minutes |-> bins.minutes[m].speaking], DOMAIN bins.minutes) =
               Clk!Total([i \in DOMAIN speech |-> Length(speech[i])], DOMAIN speech)
  <2>1. /\ Clk!Total([m \in DOMAIN bins.minutes |-> bins.minutes[m].events], DOMAIN bins.minutes) = Total(e, 0..n - 1)
        /\ Clk!Total([m \in DOMAIN bins.minutes |-> bins.minutes[m].speaking], DOMAIN bins.minutes) = Total(d, 0..n - 1)
    <3>1. Clk!Total(e, 0..n - 1) = Total(e, 0..n - 1) /\ Clk!Total(d, 0..n - 1) = Total(d, 0..n - 1)
      BY ClkTotal
    <3>2. DOMAIN bins.minutes = 0..n - 1
      BY <1>1
    <3> QED
      BY <1>3, <3>1, <3>2, Zenon
  <2>2. Clk!Total([i \in DOMAIN speech |-> Length(speech[i])], DOMAIN speech) =
        Total([i \in DOMAIN speech |-> Length(speech[i])], DOMAIN speech)
    BY ClkTotal, Zenon
  <2>3. bins.before.events = EventsAt(events, base, "before", -1) /\ bins.after.events = EventsAt(events, base, "after", -1)
    BY <1>1, <1>2
  <2>4. bins.before.speaking = SpeechAt(speech, base, "before", -1) /\ bins.after.speaking = SpeechAt(speech, base, "after", -1)
    BY <1>1, <1>2
  <2>5. bins.before.events + bins.after.events +
           Clk!Total([m \in DOMAIN bins.minutes |-> bins.minutes[m].events], DOMAIN bins.minutes) + bins.unplaced = Len(events)
    <3>1. bins.unplaced = Len(events) - Cardinality(PlacedIn(events, base))
      BY <1>1
    <3> QED
      BY <2>1, <2>3, <3>1, Zenon
  <2>6. Clk!HasClock(base) =>
           bins.before.speaking + bins.after.speaking +
             Clk!Total([m \in DOMAIN bins.minutes |-> bins.minutes[m].speaking], DOMAIN bins.minutes) =
               Clk!Total([i \in DOMAIN speech |-> Length(speech[i])], DOMAIN speech)
    BY <2>1, <2>2, <2>4, Zenon
  <2> QED
    BY <2>5, <2>6
<1> QED
  BY <1>4 DEF Clk!NothingLost, Length, bins


\* The minutes counted are enough for every event and every piece of speech.
LEMMA MinutesEnough ==
  ASSUME ReportAssumption, NEW events \in Seq(Nat), NEW speech \in Seq(Spans), NEW base \in Clocks, Clk!HasClock(base)
  PROVE  /\ CountOf(events, speech, base) \in Nat
         /\ InLanes(PlacedIn(events, base), WhereOf(events, base), MinuteOf(events, base), CountOf(events, speech, base))
         /\ \A i \in 1..Len(speech) : Reached(speech[i], base, CountOf(events, speech, base))
<1> DEFINE n == CountOf(events, speech, base)
           P == PlacedIn(events, base)
           w == WhereOf(events, base)
           f == MinuteOf(events, base)
           g == [i \in 1..Len(speech) |-> {p.minute : p \in Clk!Pieces(speech[i], base)}]
           live == LiveIn(events, speech, base)
           L == live \cup {-1}
<1>1. P \subseteq 1..Len(events) /\ \A i \in 1..Len(events) : events[i] \in Nat
  BY ElementOfSeq, LenProperties DEF PlacedIn
<1>2. ASSUME NEW i \in P
      PROVE  /\ f[i] \in Int /\ (Clk!EndKnown(base) => f[i] <= Clk!MinuteCount(base) - 1)
             /\ \/ w[i] \in {"before", "after"} /\ f[i] = -1
                \/ w[i] = "live" /\ f[i] \in Nat
  <2> DEFINE t == events[i] - base.t0
  <2>1. t \in Int
    BY <1>1 DEF Clocks
  <2>2. w[i] = Clk!Phase(t, base) /\ f[i] = Clk!MinuteIndex(t, base)
    BY DEF WhereOf, MinuteOf
  <2> HIDE DEF t, w, f
  <2> QED
    BY <2>1, <2>2, TimePlaced
<1>3. \A i \in 1..Len(speech) : speech[i] \in Spans
  BY ElementOfSeq
<1>4. CASE Clk!EndKnown(base)
  <2>1. n = Clk!MinuteCount(base) /\ n \in Nat /\ base.end <= n * Minute
    BY <1>4, Counted DEF CountOf
  <2>2. ASSUME NEW i \in 1..Len(speech) PROVE Reached(speech[i], base, n)
    <3> DEFINE s == speech[i]
               c == n * Minute
    <3>1. s \in Spans
      BY <1>3
    <3>2. n \in Int /\ c \in Int /\ base.end <= c
      <4> HIDE DEF n
      <4> QED
        BY <2>1, Order
    <3> HIDE DEF s, c, n
    <3>3. ToOf(s, base) <= base.end /\ ToOf(s, base) \in Int /\ base.end \in Nat
      BY <1>4, <3>1, Ends DEF ToOf, Clk!Lesser
    <3>4. ToOf(s, base) <= c
      BY <3>2, <3>3
    <3> QED
      BY <3>4 DEF Reached, s, c
  <2>3. \A i \in P : \/ w[i] \in {"before", "after"} /\ f[i] = -1
                     \/ w[i] = "live" /\ f[i] \in 0..n - 1
    <3> TAKE i \in P
    <3> HIDE DEF n, w, f, P
    <3> QED
      BY <1>2, <1>4, <2>1
  <2> QED
    BY <2>1, <2>2, <2>3 DEF InLanes
<1>5. CASE ~Clk!EndKnown(base)
  <2>1. n = 1 + Clk!Max(L)
    BY <1>5 DEF CountOf
  <2>2. live = {f[i] : i \in P} \cup UNION {g[i] : i \in 1..Len(speech)}
    <3>1. SpokenIn(speech, base) = 1..Len(speech)
      BY LenProperties DEF SpokenIn
    <3> QED
      BY <3>1 DEF LiveIn
  <2>3. \A i \in 1..Len(speech) : IsFiniteSet(g[i]) /\ \A k \in g[i] : k \in Int
    <3> TAKE i \in 1..Len(speech)
    <3> DEFINE s == speech[i]
               X == {p.minute : p \in Clk!Pieces(s, base)}
    <3>1. s \in Spans
      BY <1>3
    <3>2. g[i] = X
      OBVIOUS
    <3> HIDE DEF s
    <3>3. IsFiniteSet(X) /\ \A p \in Clk!Pieces(s, base) : p.minute \in Int
      BY <3>1, PiecesFinite
    <3>4. \A k \in X : k \in Int
      BY <3>3
    <3> HIDE DEF X, g
    <3> QED
      BY <3>2, <3>3, <3>4
  <2>4. IsFiniteSet({f[i] : i \in P})
    <3>1. IsFiniteSet(P)
      <4>1. IsFiniteSet(1..Len(events))
        BY FS_Interval, LenProperties
      <4> HIDE DEF P
      <4> QED
        BY <1>1, <4>1, FS_Subset
    <3> HIDE DEF P, f
    <3> QED
      BY <3>1, ImageFinite
  <2>5. IsFiniteSet(UNION {g[i] : i \in 1..Len(speech)})
    <3> DEFINE G == {g[i] : i \in 1..Len(speech)}
               D == 1..Len(speech)
    <3>1. IsFiniteSet(D)
      BY FS_Interval, LenProperties
    <3>2. IsFiniteSet({g[i] : i \in D})
      <4> HIDE DEF g, D
      <4> QED
        BY <3>1, ImageFinite
    <3>3. \A T \in G : IsFiniteSet(T)
      BY <2>3
    <3>4. IsFiniteSet(G)
      BY <3>2
    <3> HIDE DEF G
    <3>5. IsFiniteSet(UNION G)
      BY <3>3, <3>4, FS_UNION
    <3> QED
      BY <3>5 DEF G
  <2>6. IsFiniteSet(L) /\ L # {} /\ (\A k \in L : k \in Int) /\ -1 \in L
    <3> DEFINE U == UNION {g[i] : i \in 1..Len(speech)}
               V == {f[i] : i \in P}
    <3>1. \A k \in U : k \in Int
      BY <2>3
    <3>2. \A k \in V : k \in Int
      BY <1>2
    <3> HIDE DEF U, V
    <3>3. IsFiniteSet(V \cup U)
      BY <2>4, <2>5, FS_Union DEF U, V
    <3>4. live = V \cup U
      BY <2>2 DEF U, V
    <3>5. IsFiniteSet((V \cup U) \cup {-1})
      BY <3>3, FS_AddElement
    <3> HIDE DEF live
    <3> QED
      BY <3>1, <3>2, <3>4, <3>5
  <2> HIDE DEF L, n, live, f, g, w, P
  <2>7. Clk!Max(L) \in L /\ \A k \in L : Clk!Max(L) >= k
    BY <2>6, ClkMax
  <2>8. n \in Nat /\ \A k \in L : k <= n - 1
    BY <2>1, <2>6, <2>7
  <2>9. (\A i \in P : f[i] \in L) /\ \A i \in 1..Len(speech) : g[i] \subseteq L
    BY <2>2 DEF L
  <2>10. ASSUME NEW i \in 1..Len(speech) PROVE Reached(speech[i], base, n)
    <3> DEFINE s == speech[i]
    <3>1. s \in Spans
      BY <1>3
    <3>2. \A p \in Clk!Pieces(s, base) : p.minute \in g[i]
      BY DEF g
    <3>3. \A p \in Clk!Pieces(s, base) : p.minute <= n - 1
      BY <2>8, <2>9, <3>2
    <3> HIDE DEF s
    <3>4. Reached(s, base, n)
      BY <1>5, <2>8, <3>1, <3>3, LastPiece
    <3> QED
      BY <3>4 DEF s
  <2>11. \A i \in P : \/ w[i] \in {"before", "after"} /\ f[i] = -1
                      \/ w[i] = "live" /\ f[i] \in 0..n - 1
    BY <1>2, <2>8, <2>9
  <2> QED
    BY <2>8, <2>10, <2>11 DEF n, P, w, f, InLanes
<1> QED
  BY <1>4, <1>5

\* Whatever happened and was said, the clock's bins have it all.
LEMMA ClockKeepsAll ==
  ASSUME ReportAssumption, NEW events \in Seq(Nat), NEW speech \in Seq(Spans), NEW base \in Clocks
  PROVE  Clk!NothingLost(events, speech, base)
<1> DEFINE n == CountOf(events, speech, base)
           P == PlacedIn(events, base)
           e == [m \in 0..n - 1 |-> EventsAt(events, base, "live", m)]
           d == [m \in 0..n - 1 |-> SpeechAt(speech, base, "live", m)]
<1>1. Len(events) \in Nat /\ IsFiniteSet(P) /\ Cardinality(P) \in Nat
  <2>0. Len(events) \in Nat /\ DOMAIN events = 1..Len(events)
    BY LenProperties
  <2>1. P \subseteq 1..Len(events) /\ Len(events) \in Nat /\ IsFiniteSet(1..Len(events))
    <3>1. IsFiniteSet(1..Len(events))
      BY <2>0, FS_Interval
    <3> QED
      BY <2>0, <3>1 DEF PlacedIn
  <2>2. IsFiniteSet(P)
    BY <2>1, FS_Subset
  <2> QED
    BY <2>1, <2>2, FS_CardinalityType
<1>2. EventsAt(events, base, "before", -1) + EventsAt(events, base, "after", -1) + Total(e, 0..n - 1) = Cardinality(P)
  <2>1. CASE Clk!HasClock(base)
    <3> DEFINE w == WhereOf(events, base)
               f == MinuteOf(events, base)
    <3>1. n \in Nat /\ InLanes(P, w, f, n)
      BY <2>1, MinutesEnough
    <3>2. \A m \in 0..n - 1 : e[m] = Cardinality(Those(P, w, f, "live", m))
      BY DEF EventsAt
    <3>3. /\ EventsAt(events, base, "before", -1) = Cardinality(Those(P, w, f, "before", -1))
          /\ EventsAt(events, base, "after", -1) = Cardinality(Those(P, w, f, "after", -1))
      BY DEF EventsAt
    <3> HIDE DEF w, f, n, e, P
    <3>4. Cardinality(Those(P, w, f, "before", -1)) + Cardinality(Those(P, w, f, "after", -1))
           + Total(e, 0..n - 1) = Cardinality(P)
      BY <1>1, <3>1, <3>2, EventsPlaced
    <3> QED
      BY <3>3, <3>4
  <2>2. CASE ~Clk!HasClock(base)
    <3>1. n = 0 /\ P = {}
      BY <2>2 DEF CountOf, PlacedIn
    <3>2. \A where, m : EventsAt(events, base, where, m) = 0
      <4>1. \A where, m : Those({}, WhereOf(events, base), MinuteOf(events, base), where, m) = {}
        BY DEF Those
      <4>2. Cardinality({}) = 0
        BY FS_EmptySet
      <4> QED
        BY <3>1, <4>1, <4>2 DEF EventsAt
    <3>3. Total(e, {}) = 0 /\ 0..n - 1 = {}
      BY <3>1, TotalEmpty
    <3>4. Cardinality(P) = 0
      BY <3>1, FS_EmptySet
    <3> HIDE DEF e, n, P
    <3>5. Total(e, 0..n - 1) = 0
      BY <3>3, Zenon
    <3> QED
      BY <3>2, <3>4, <3>5
  <2> QED
    BY <2>1, <2>2
<1>3. ASSUME Clk!HasClock(base)
      PROVE  SpeechAt(speech, base, "before", -1) + SpeechAt(speech, base, "after", -1) + Total(d, 0..n - 1) =
             Total([i \in DOMAIN speech |-> Length(speech[i])], DOMAIN speech)
  <2> DEFINE D == 1..Len(speech)
  <2>1. SpokenIn(speech, base) = D /\ DOMAIN speech = D
    BY <1>3, LenProperties DEF SpokenIn
  <2>2. n \in Nat /\ \A i \in 1..Len(speech) : Reached(speech[i], base, n)
    BY <1>3, MinutesEnough
  <2>3. \A where, m : SpeechAt(speech, base, where, m) = Total([i \in D |-> Clk!Spoken(Lane(speech[i], base, where, m))], D)
    BY <2>1 DEF SpeechAt
  <2>4. d = [m \in 0..n - 1 |-> Total([i \in D |-> Clk!Spoken(Lane(speech[i], base, "live", m))], D)]
    BY <2>3
  <2> HIDE DEF d, n
  <2>5. Total([i \in D |-> Clk!Spoken(Lane(speech[i], base, "before", -1))], D)
          + Total([i \in D |-> Clk!Spoken(Lane(speech[i], base, "after", -1))], D)
          + Total([m \in 0..n - 1 |-> Total([i \in D |-> Clk!Spoken(Lane(speech[i], base, "live", m))], D)], 0..n - 1) =
               Total([i \in D |-> Length(speech[i])], D)
    BY <2>2, SpeechPlaced
  <2>6. /\ SpeechAt(speech, base, "before", -1) = Total([i \in D |-> Clk!Spoken(Lane(speech[i], base, "before", -1))], D)
        /\ SpeechAt(speech, base, "after", -1) = Total([i \in D |-> Clk!Spoken(Lane(speech[i], base, "after", -1))], D)
    BY <2>3
  <2> QED
    BY <2>1, <2>4, <2>5, <2>6, Zenon
<1>4. EventsAt(events, base, "before", -1) + EventsAt(events, base, "after", -1) + Total(e, 0..n - 1)
           + (Len(events) - Cardinality(PlacedIn(events, base))) = Len(events)
  <2> DEFINE x == EventsAt(events, base, "before", -1) + EventsAt(events, base, "after", -1) + Total(e, 0..n - 1)
             c == Cardinality(P)
  <2>1. x = c /\ c \in Nat /\ Len(events) \in Nat
    BY <1>1, <1>2
  <2> HIDE DEF x, c, e, n, P
  <2>2. x + (Len(events) - c) = Len(events)
    BY <2>1
  <2> QED
    BY <2>2 DEF x, c, P
<1> QED
  <2> HIDE DEF n
  <2>1. n = CountOf(events, speech, base)
    BY DEF n
  <2> HIDE DEF e, d, P
  <2>2. /\ e = [m \in 0..n - 1 |-> EventsAt(events, base, "live", m)]
        /\ d = [m \in 0..n - 1 |-> SpeechAt(speech, base, "live", m)]
    BY DEF e, d
  <2> QED
    BY <1>3, <1>4, <2>1, <2>2, LostUnless

-----------------------------------------------------------------------------
\* Ranks, in a strict order R (a set of pairs) of the elements of a finite set.

Strict(S, R) ==
  /\ \A x \in S : <<x, x>> \notin R
  /\ \A x, y, z \in S : <<x, y>> \in R /\ <<y, z>> \in R => <<x, z>> \in R
  /\ \A x, y \in S : x = y \/ <<x, y>> \in R \/ <<y, x>> \in R
Below(S, R, x) == {y \in S : <<y, x>> \in R}

\* Of any elements of S, one comes last.
LEMMA LastOne ==
  ASSUME NEW S, IsFiniteSet(S), NEW R, Strict(S, R), NEW T, \A x \in T : x \in S, T # {}
  PROVE  \E x \in T : \A y \in T : y = x \/ <<y, x>> \in R
<1> DEFINE B == {U \in SUBSET S : U # {} /\ ~ \E x \in U : \A y \in U : y = x \/ <<y, x>> \in R}
<1>1. CASE B # {}
  <2>1. B \subseteq SUBSET S
    OBVIOUS
  <2>2. PICK U \in B : \A V \in B : V \subseteq U => V = U
    <3> HIDE DEF B
    <3> QED
      BY <1>1, <2>1, MinimalSubset
  <2>3. PICK z \in U : TRUE
    BY <2>2
  <2>4. CASE U \ {z} = {}
    BY <2>2, <2>3, <2>4
  <2>5. CASE U \ {z} # {}
    <3>1. U \ {z} \notin B
      BY <2>2, <2>3
    <3>2. PICK x \in U \ {z} : \A y \in U \ {z} : y = x \/ <<y, x>> \in R
      BY <2>5, <3>1
    <3>3. x \in S /\ z \in S /\ \A y \in U : y \in S
      BY <2>3, <3>2
    <3>4. CASE <<z, x>> \in R
      BY <2>2, <3>2, <3>4
    <3>5. CASE <<x, z>> \in R
      <4>1. \A y \in U : y = z \/ <<y, z>> \in R
        BY <3>2, <3>3, <3>5 DEF Strict
      <4> QED
        BY <2>2, <2>3, <4>1
    <3> QED
      BY <3>2, <3>3, <3>4, <3>5 DEF Strict
  <2> QED
    BY <2>4, <2>5
<1>2. CASE B = {}
  BY <1>2
<1> QED
  BY <1>1, <1>2

LEMMA FirstOne ==
  ASSUME NEW S, IsFiniteSet(S), NEW R, Strict(S, R), NEW T, \A x \in T : x \in S, T # {}
  PROVE  \E x \in T : \A y \in T : y = x \/ <<x, y>> \in R
<1> DEFINE Q == {p \in S \X S : <<p[2], p[1]>> \in R}
<1>1. \A x, y \in S : <<x, y>> \in Q <=> <<y, x>> \in R
  OBVIOUS
<1> HIDE DEF Q
<1>2. Strict(S, Q)
  BY <1>1 DEF Strict
<1>3. \E x \in T : \A y \in T : y = x \/ <<y, x>> \in Q
  BY <1>2, LastOne
<1> QED
  BY <1>1, <1>3

LEMMA RankType ==
  ASSUME NEW S, IsFiniteSet(S), NEW R, NEW x
  PROVE  IsFiniteSet(Below(S, R, x)) /\ Cardinality(Below(S, R, x)) \in Nat
<1>1. Below(S, R, x) \in SUBSET S
  BY DEF Below
<1>2. IsFiniteSet(Below(S, R, x))
  BY <1>1, FS_Subset
<1> QED
  BY <1>2, FS_CardinalityType

\* Who comes later has more below it.
LEMMA RankGrows ==
  ASSUME NEW S, IsFiniteSet(S), NEW R, Strict(S, R), NEW x \in S, NEW y \in S, <<x, y>> \in R
  PROVE  Cardinality(Below(S, R, x)) < Cardinality(Below(S, R, y))
<1>1. Below(S, R, x) \in SUBSET Below(S, R, y)
  BY DEF Below, Strict
<1>2. x \in Below(S, R, y) /\ x \notin Below(S, R, x)
  BY DEF Below, Strict
<1>3. /\ IsFiniteSet(Below(S, R, y))
      /\ Cardinality(Below(S, R, y)) \in Nat /\ Cardinality(Below(S, R, x)) \in Nat
  BY RankType
<1>4. /\ Cardinality(Below(S, R, x)) <= Cardinality(Below(S, R, y))
      /\ Cardinality(Below(S, R, y)) = Cardinality(Below(S, R, x)) => Below(S, R, y) = Below(S, R, x)
  BY <1>1, <1>3, FS_Subset
<1> QED
  BY <1>2, <1>3, <1>4

\* Each place of the order is somebody's.
LEMMA RankTaken ==
  ASSUME NEW S, IsFiniteSet(S), NEW R, Strict(S, R), NEW k \in 1..Cardinality(S)
  PROVE  \E x \in S : Cardinality(Below(S, R, x)) = k - 1
<1> DEFINE rank(x) == Cardinality(Below(S, R, x))
           T == {x \in S : rank(x) >= k - 1}
<1>0. Cardinality(S) \in Nat
  BY FS_CardinalityType
<1>1. \A x : rank(x) \in Nat /\ IsFiniteSet(Below(S, R, x))
  BY RankType
<1>2. T # {}
  <2>1. S # {}
    BY <1>0, FS_EmptySet
  <2>2. PICK x \in S : \A y \in S : y = x \/ <<y, x>> \in R
    BY <2>1, LastOne
  <2>3. Below(S, R, x) = S \ {x}
    BY <2>2 DEF Below, Strict
  <2>4. rank(x) = Cardinality(S) - 1
    BY <2>3, FS_RemoveElement
  <2> HIDE DEF rank
  <2> QED
    BY <1>0, <2>4
<1>3. PICK x \in T : \A y \in T : y = x \/ <<x, y>> \in R
  <2>1. \A y \in T : y \in S
    OBVIOUS
  <2> HIDE DEF T
  <2> QED
    BY <1>2, <2>1, FirstOne
<1>4. CASE rank(x) > k - 1
  <2> DEFINE B == Below(S, R, x)
  <2>1. B # {} /\ \A y \in B : y \in S
    <3>1. rank(x) # 0
      <4> HIDE DEF rank
      <4> QED
        BY <1>0, <1>1, <1>4
    <3>2. B # {}
      BY <3>1, FS_EmptySet
    <3> QED
      BY <3>2 DEF Below
  <2>2. PICK z \in B : \A y \in B : y = z \/ <<y, z>> \in R
    <3> HIDE DEF B
    <3> QED
      BY <2>1, LastOne
  <2>3. z \in S /\ <<z, x>> \in R
    BY <2>2 DEF Below
  <2>4. Below(S, R, z) = B \ {z}
    BY <2>2, <2>3 DEF Below, Strict
  <2>5. rank(z) = rank(x) - 1
    BY <1>1, <2>2, <2>4, FS_RemoveElement
  <2>6. z \in T
    <3> HIDE DEF rank
    <3> QED
      BY <1>0, <1>1, <1>4, <2>3, <2>5
  <2> QED
    BY <1>3, <2>3, <2>6 DEF Strict
<1>5. CASE ~(rank(x) > k - 1)
  <2> HIDE DEF rank
  <2>1. rank(x) = k - 1
    BY <1>0, <1>1, <1>3, <1>5
  <2> QED
    BY <1>3, <2>1 DEF rank
<1> QED
  BY <1>4, <1>5

\* The elements in order: each has a place of its own.
Ranked(S, R, f) ==
  /\ f \in [1..Cardinality(S) -> S]
  /\ \A k \in 1..Cardinality(S) : Cardinality(Below(S, R, f[k])) = k - 1

LEMMA RankedOnce ==
  ASSUME NEW S, IsFiniteSet(S), NEW R, Strict(S, R), NEW f, Ranked(S, R, f)
  PROVE  f \in Bijection(1..Cardinality(S), S)
<1> DEFINE n == Cardinality(S)
<1>0. n \in Nat
  BY FS_CardinalityType
<1>1. \A j, k \in 1..n : f[j] = f[k] => j = k
  <2>1. \A k \in 1..n : Cardinality(Below(S, R, f[k])) = k - 1
    BY DEF Ranked
  <2> HIDE DEF n
  <2> QED
    BY <1>0, <2>1
<1>2. f \in Injection(1..n, S)
  <2>1. f \in [1..n -> S]
    BY DEF Ranked
  <2> HIDE DEF n
  <2> QED
    BY <1>1, <2>1 DEF Injection, IsInjective
<1>3. IsFiniteSet(1..n) /\ Cardinality(1..n) = n
  BY <1>0, FS_Interval
<1>4. f \in Surjection(1..n, S)
  <2> HIDE DEF n
  <2> QED
    BY <1>2, <1>3, FS_Injection DEF n
<1> QED
  BY <1>2, <1>4 DEF Bijection

\* Up to the k-th there are k.
LEMMA RankCounts ==
  ASSUME NEW S, IsFiniteSet(S), NEW R, Strict(S, R), NEW x \in S
  PROVE  Cardinality(Below(S, R, x) \cup {x}) = Cardinality(Below(S, R, x)) + 1
<1>1. IsFiniteSet(Below(S, R, x))
  BY RankType
<1>2. x \notin Below(S, R, x)
  BY DEF Below, Strict
<1> QED
  BY <1>1, <1>2, FS_AddElement

-----------------------------------------------------------------------------
\* People.

\* The first n digits of a digest.
LEMMA Prefix ==
  ASSUME NEW d \in Seq(Nat), NEW n \in 0..Len(d)
  PROVE  /\ SubSeq(d, 1, n) \in Seq(Nat) /\ Len(SubSeq(d, 1, n)) = n
         /\ \A i \in 1..n : SubSeq(d, 1, n)[i] = d[i]
<1>0. Len(d) \in Nat
  BY LenProperties
<1>1. n \in Int /\ 1 \in Int /\ \A i \in 1..n : d[i] \in Nat
  <2>1. \A i \in 1..n : i \in 1..Len(d)
    BY <1>0
  <2> QED
    BY <1>0, <2>1, ElementOfSeq
<1> QED
  BY <1>0, <1>1, SubSeqProperties

\* Digests that begin alike for n digits begin alike for fewer.
LEMMA ShorterPrefix ==
  ASSUME NEW d \in Seq(Nat), NEW e \in Seq(Nat), NEW n \in 0..Len(d), n <= Len(e), NEW m \in 0..n,
         SubSeq(d, 1, n) = SubSeq(e, 1, n)
  PROVE  SubSeq(d, 1, m) = SubSeq(e, 1, m)
<1>0. Len(d) \in Nat /\ Len(e) \in Nat
  BY LenProperties
<1>1. n \in 0..Len(e) /\ m \in 0..Len(d) /\ m \in 0..Len(e)
  BY <1>0
<1>2. \A i \in 1..n : d[i] = e[i]
  BY <1>1, Prefix
<1>3. /\ SubSeq(d, 1, m) \in Seq(Nat) /\ Len(SubSeq(d, 1, m)) = m
      /\ SubSeq(e, 1, m) \in Seq(Nat) /\ Len(SubSeq(e, 1, m)) = m
      /\ \A i \in 1..m : SubSeq(d, 1, m)[i] = d[i] /\ SubSeq(e, 1, m)[i] = e[i]
  BY <1>1, Prefix
<1>4. \A i \in 1..m : SubSeq(d, 1, m)[i] = SubSeq(e, 1, m)[i]
  BY <1>0, <1>2, <1>3
<1> QED
  BY <1>3, <1>4, SeqEqual

Cut(id, n) == SubSeq(Digest[id], 1, n)
Group(ids, id) == {other \in ids : Cut(other, Short) = Cut(id, Short)}
Others(ids, id) == Group(ids, id) \ {Rst!Min(Group(ids, id))}
Lengths(ids, id) ==
  {n \in Short + 1..Len(Digest[id]) : \A a, b \in Others(ids, id) : a # b => Cut(a, n) # Cut(b, n)}
RefLength(ids, id) == IF id = Rst!Min(Group(ids, id)) THEN Short ELSE Rst!Min(Lengths(ids, id))

LEMMA RefsAre ==
  ASSUME NEW ids
  PROVE  Rst!Refs(ids) = [id \in ids |-> Cut(id, RefLength(ids, id))]
  BY DEF Rst!Refs, Cut, Group, Others, Lengths, RefLength

\* A ref is longer than the short one exactly when its person isn't the first
\* of the group, and long enough then.
LEMMA RefLengths ==
  ASSUME NEW ids \in SUBSET DOMAIN Digest, NEW id \in ids
  PROVE  /\ RefLength(ids, id) \in Short..Len(Digest[id])
         /\ id \in Group(ids, id)
         /\ RefLength(ids, id) = Short => id = Rst!Min(Group(ids, id))
         /\ RefLength(ids, id) # Short => /\ id \in Others(ids, id)
                                        /\ RefLength(ids, id) \in Lengths(ids, id)
<1>1. Digest[id] \in Seq(Nat) /\ Len(Digest[id]) > Short /\ Short \in Nat
  BY ReportAssumption
<1>2. Len(Digest[id]) \in Nat
  BY <1>1, LenProperties
<1>3. id \in Group(ids, id)
  BY DEF Group
<1>4. CASE id = Rst!Min(Group(ids, id))
  BY <1>1, <1>2, <1>3, <1>4 DEF RefLength
<1>5. CASE id # Rst!Min(Group(ids, id))
  <2> DEFINE full == Len(Digest[id])
  <2>1. full \in Lengths(ids, id)
    <3>1. full \in Short + 1..Len(Digest[id])
      BY <1>1, <1>2
    <3>2. ASSUME NEW a \in Others(ids, id) PROVE a \in DOMAIN Digest /\ Cut(a, full) = Digest[a]
      <4>1. a \in DOMAIN Digest
        BY <3>2 DEF Others, Group
      <4>2. Digest[a] \in Seq(Nat) /\ Len(Digest[a]) = full
        BY <4>1, ReportAssumption
      <4>3. SubSeq(Digest[a], 1, Len(Digest[a])) = Digest[a]
        BY <4>2, SubSeqFull
      <4> QED
        BY <4>1, <4>2, <4>3 DEF Cut
    <3>3. ASSUME NEW a \in Others(ids, id), NEW b \in Others(ids, id), a # b
          PROVE  Cut(a, full) # Cut(b, full)
      BY <3>2, <3>3, ReportAssumption
    <3> QED
      BY <3>1, <3>3 DEF Lengths
  <2>2. Lengths(ids, id) \subseteq Nat
    BY <1>1, <1>2 DEF Lengths
  <2>3. Rst!Min(Lengths(ids, id)) \in Lengths(ids, id)
    BY <2>1, <2>2, RstMin
  <2>4. RefLength(ids, id) \in Lengths(ids, id)
    BY <1>5, <2>3 DEF RefLength
  <2>5. RefLength(ids, id) \in Short + 1..Len(Digest[id])
    BY <2>4 DEF Lengths
  <2> QED
    BY <1>1, <1>2, <1>3, <1>5, <2>4, <2>5 DEF Others
<1> QED
  BY <1>4, <1>5

\* Refs are apart, and a person who joins changes only those that collide.
LEMMA RefsStayApart ==
  ASSUME NEW ids \in SUBSET DOMAIN Digest, NEW joining \in DOMAIN Digest
  PROVE  Rst!RefsApart(ids, joining)
<1> DEFINE refs == Rst!Refs(ids)
           after == Rst!Refs(ids \cup {joining})
<1>1. ASSUME NEW a \in ids, NEW b \in ids, refs[a] = refs[b]
      PROVE  a = b
  <2> DEFINE n == RefLength(ids, a)
  <2>1. refs[a] = Cut(a, RefLength(ids, a)) /\ refs[b] = Cut(b, RefLength(ids, b))
    BY RefsAre
  <2>2. /\ Digest[a] \in Seq(Nat) /\ Digest[b] \in Seq(Nat) /\ Short \in Nat
        /\ Len(Digest[a]) = Len(Digest[b])
    BY ReportAssumption
  <2>3. Len(Digest[a]) \in Nat
    BY <2>2, LenProperties
  <2>4. /\ RefLength(ids, a) \in Short..Len(Digest[a])
        /\ RefLength(ids, b) \in Short..Len(Digest[b])
    BY RefLengths
  <2>5. /\ RefLength(ids, a) \in 0..Len(Digest[a])
        /\ RefLength(ids, b) \in 0..Len(Digest[b])
    BY <2>2, <2>3, <2>4
  <2>6. /\ Len(Cut(a, RefLength(ids, a))) = RefLength(ids, a)
        /\ Len(Cut(b, RefLength(ids, b))) = RefLength(ids, b)
    BY <2>2, <2>5, Prefix DEF Cut
  <2>7. RefLength(ids, b) = n
    BY <1>1, <2>1, <2>6
  <2>8. Cut(a, n) = Cut(b, n)
    BY <1>1, <2>1, <2>7
  <2>9. Cut(a, Short) = Cut(b, Short)
    <3>1. n \in 0..Len(Digest[a]) /\ n <= Len(Digest[b]) /\ Short \in 0..n
      BY <2>2, <2>3, <2>4, <2>5
    <3> HIDE DEF n
    <3> QED
      BY <2>2, <2>8, <3>1, ShorterPrefix DEF Cut
  <2>10. Group(ids, a) = Group(ids, b)
    BY <2>9 DEF Group
  <2>11. CASE n = Short
    BY <2>7, <2>10, <2>11, RefLengths
  <2>12. CASE n # Short
    <3>1. a \in Others(ids, a) /\ b \in Others(ids, a) /\ n \in Lengths(ids, a)
      BY <2>7, <2>10, <2>12, RefLengths DEF Others
    <3> QED
      BY <2>8, <3>1 DEF Lengths
  <2> QED
    BY <2>11, <2>12
<1>2. ASSUME NEW a \in ids, Cut(a, Short) # Cut(joining, Short)
      PROVE  after[a] = refs[a]
  <2>1. Group(ids \cup {joining}, a) = Group(ids, a)
    BY <1>2 DEF Group
  <2>2. RefLength(ids \cup {joining}, a) = RefLength(ids, a)
    BY <2>1 DEF RefLength, Lengths, Others
  <2> QED
    BY <2>2, RefsAre
<1> QED
  BY <1>1, <1>2 DEF Rst!RefsApart, Cut

\* The measures of a source whose authors are unresolved, whoever wrote.
LEMMA WritersStayHidden ==
  ASSUME NEW f \in Facts, NEW others
  PROVE  Mea!WritersHidden(f, others)
<1> SUFFICES ASSUME f.unresolved PROVE Mea!WritersHidden(f, others)
  BY DEF Mea!WritersHidden
<1> DEFINE g == [f EXCEPT !.wrote = others]
<1>1. /\ g.people = f.people /\ g.internal = f.internal /\ g.length = f.length
      /\ g.unresolved = f.unresolved /\ g.partial = f.partial
  BY DEF Facts
<1> HIDE DEF g
<1>2. /\ Mea!Audience(g) = Mea!Audience(f)
      /\ \A members : Mea!Came(g, members) = Mea!Came(f, members)
  BY <1>1 DEF Mea!Audience, Mea!Came
<1>3. Mea!WroteRate(g) = Mea!WroteRate(f)
  <2>1. \A passed : /\ Mea!State(Mea!Flags(f, TRUE), passed) = "unresolved"
                    /\ Mea!State(Mea!Flags(g, TRUE), passed) = "unresolved"
    BY <1>1 DEF Mea!State, Mea!Flags
  <2> QED
    BY <2>1 DEF Mea!WroteRate, Mea!Hides
<1>4. Mea!RoomMap(g) = Mea!RoomMap(f)
  <2>1. Mea!Placed(g) = Mea!Placed(f)
    BY <1>1, <1>2 DEF Mea!Placed
  <2>2. Mea!RoomState(f) = "unresolved" /\ Mea!RoomState(g) = "unresolved"
    BY <1>1 DEF Mea!RoomState, Mea!State, Mea!Flags
  <2> QED
    BY <2>1, <2>2 DEF Mea!RoomMap, Mea!Hides
<1>5. Mea!ChannelRows(g) = Mea!ChannelRows(f)
  <2>1. Mea!Sourced(g) = Mea!Sourced(f) /\ \A i : Mea!Source(g, i) = Mea!Source(f, i)
    BY <1>1, <1>2 DEF Mea!Sourced, Mea!Source
  <2>2. Mea!ByChannel(g) = Mea!ByChannel(f)
    BY <2>1 DEF Mea!ByChannel
  <2>3. Mea!ChannelNames(g) = Mea!ChannelNames(f)
    BY <2>2 DEF Mea!ChannelNames
  <2>4. Mea!SmallChannels(g) = Mea!SmallChannels(f) /\ Mea!Unknown(g) = Mea!Unknown(f)
    BY <1>2, <2>1, <2>3 DEF Mea!SmallChannels, Mea!Unknown
  <2>5. \A n, m : Mea!Row(g, n, m, FALSE) = Mea!Row(f, n, m, FALSE)
    BY <1>1, <1>2 DEF Mea!Row, Mea!Quality
  <2>6. \A n, m : Mea!Row(g, n, m, Mea!Cardinality(m) < Few) = Mea!Row(f, n, m, Mea!Cardinality(m) < Few)
    BY <1>1, <1>2 DEF Mea!Row, Mea!Quality
  <2>7. {Mea!Row(g, n, Mea!ByChannel(g)[n], FALSE) : n \in Mea!ChannelNames(g)}
        = {Mea!Row(f, n, Mea!ByChannel(f)[n], FALSE) : n \in Mea!ChannelNames(f)}
    BY <2>2, <2>3, <2>5
  <2>8. \A n, S : {Mea!Row(g, n, m, Mea!Cardinality(m) < Few) : m \in S}
                = {Mea!Row(f, n, m, Mea!Cardinality(m) < Few) : m \in S}
    BY <2>6
  <2> QED
    BY <2>4, <2>7, <2>8, Zenon DEF Mea!ChannelRows
<1>6. Mea!SegmentRows(g) = Mea!SegmentRows(f)
  <2>1. Mea!ByChoice(g) = Mea!ByChoice(f)
    BY <1>1, <1>2 DEF Mea!ByChoice
  <2>2. Mea!ChoiceNames(g) = Mea!ChoiceNames(f)
    BY <2>1 DEF Mea!ChoiceNames
  <2>3. Mea!SmallChoices(g) = Mea!SmallChoices(f)
    BY <1>1, <1>2, <2>2 DEF Mea!SmallChoices
  <2>4. \A n, m : Mea!Row(g, n, m, Mea!FewChoices(g)) = Mea!Row(f, n, m, Mea!FewChoices(f))
    BY <1>1, <1>2, <2>2 DEF Mea!Row, Mea!Quality, Mea!FewChoices
  <2>5. \A n, m : Mea!Row(g, n, m, Mea!FewChoices(g) \/ Mea!Cardinality(m) < Few)
                = Mea!Row(f, n, m, Mea!FewChoices(f) \/ Mea!Cardinality(m) < Few)
    BY <1>1, <1>2, <2>2 DEF Mea!Row, Mea!Quality, Mea!FewChoices
  <2> QED
    BY <2>1, <2>2, <2>3, <2>4, <2>5 DEF Mea!SegmentRows
<1> QED
  BY <1>3, <1>4, <1>5, <1>6 DEF Mea!WritersHidden, g

LEMMA CardinalityOfRoster ==
  ASSUME NEW S
  PROVE  Rst!Cardinality(S) = Cardinality(S)
  BY Zenon DEF Rst!Cardinality, Cardinality

Less(S) == {p \in S \X S : p[1] < p[2]}

LEMMA InOrderRanks ==
  ASSUME NEW S, IsFiniteSet(S), \A x \in S : x \in Nat
  PROVE  Strict(S, Less(S)) /\ Ranked(S, Less(S), Rst!InOrder(S, <))
<1> DEFINE R == Less(S)
           o == Rst!InOrder(S, <)
<1>1. Strict(S, R)
  BY DEF Strict, Less
<1>2. \A x \in S : Below(S, R, x) = {y \in S : y < x}
  BY DEF Below, Less
<1>3. o = [k \in 1..Rst!Cardinality(S) |-> CHOOSE x \in S : Rst!Cardinality({y \in S : y < x}) = k - 1]
  BY DEF Rst!InOrder
<1>4. ASSUME NEW k \in 1..Cardinality(S)
      PROVE  o[k] \in S /\ Cardinality(Below(S, R, o[k])) = k - 1
  <2>1. \E x \in S : Cardinality(Below(S, R, x)) = k - 1
    BY <1>1, RankTaken
  <2>2. \E x \in S : Rst!Cardinality({y \in S : y < x}) = k - 1
    BY <1>2, <2>1, CardinalityOfRoster
  <2>3. k \in 1..Rst!Cardinality(S)
    BY CardinalityOfRoster
  <2>4. o[k] = CHOOSE x \in S : Rst!Cardinality({y \in S : y < x}) = k - 1
    BY <1>3, <2>3
  <2>5. o[k] \in S /\ Rst!Cardinality({y \in S : y < o[k]}) = k - 1
    BY <2>2, <2>4
  <2> QED
    BY <1>2, <2>5, CardinalityOfRoster
<1>5. o \in [1..Cardinality(S) -> S]
  BY <1>3, <1>4, CardinalityOfRoster
<1> QED
  BY <1>1, <1>4, <1>5 DEF Ranked

Kept(items, keepUnnamed) ==
  {i \in DOMAIN items : IF items[i].id = Rst!NoId THEN keepUnnamed
                        ELSE \A j \in 1..i - 1 : items[j].id # items[i].id}

\* What FirstCopies gives are the items at its places, each once.
LEMMA CopiesAre ==
  ASSUME NEW S, NEW items \in Seq(S), NEW keepUnnamed \in BOOLEAN
  PROVE  \E o \in Bijection(1..Cardinality(Kept(items, keepUnnamed)), Kept(items, keepUnnamed)) :
           /\ Rst!FirstCopies(items, keepUnnamed)
                = [k \in 1..Cardinality(Kept(items, keepUnnamed)) |-> items[o[k]]]
           /\ Rst!FirstCopies(items, keepUnnamed) \in Seq(S)
           /\ Len(Rst!FirstCopies(items, keepUnnamed)) = Cardinality(Kept(items, keepUnnamed))
<1> DEFINE K == Kept(items, keepUnnamed)
           o == Rst!InOrder(K, <)
           n == Cardinality(K)
<1>1. DOMAIN items = 1..Len(items) /\ Len(items) \in Nat
  BY LenProperties
<1>2. K \in SUBSET (1..Len(items)) /\ \A x \in K : x \in Nat
  BY <1>1 DEF Kept
<1>3. IsFiniteSet(K) /\ n \in Nat
  <2>1. IsFiniteSet(1..Len(items))
    BY <1>1, FS_Interval
  <2>2. IsFiniteSet(K)
    BY <1>2, <2>1, FS_Subset
  <2> QED
    BY <2>2, FS_CardinalityType
<1>4. o \in Bijection(1..n, K)
  <2>1. Strict(K, Less(K)) /\ Ranked(K, Less(K), o)
    <3> HIDE DEF K
    <3> QED
      BY <1>2, <1>3, InOrderRanks
  <2> HIDE DEF K, o
  <2> QED
    BY <1>3, <2>1, RankedOnce
<1>5. Rst!FirstCopies(items, keepUnnamed) = [k \in 1..n |-> items[o[k]]]
  BY CardinalityOfRoster DEF Rst!FirstCopies, Kept
<1>6. \A k \in 1..n : items[o[k]] \in S
  <2> HIDE DEF o, n
  <2>1. \A k \in 1..n : o[k] \in K
    BY <1>4 DEF Bijection, Injection
  <2>2. \A k \in 1..n : o[k] \in 1..Len(items)
    BY <1>2, <2>1
  <2> QED
    BY <2>2, ElementOfSeq
<1>7. [k \in 1..n |-> items[o[k]]] \in Seq(S) /\ Len([k \in 1..n |-> items[o[k]]]) = n
  <2> HIDE DEF o, n
  <2> QED
    BY <1>3, <1>6
<1> QED
  <2> HIDE DEF o, n
  <2> QED
    BY <1>4, <1>5, <1>7 DEF n

\* Livestorm's role, raised by signals, is no lower.
LEMMA RolesOnlyRise ==
  ASSUME NEW p, NEW signals
  PROVE  Rst!Rank(Rst!ClassifyRole(p, signals)) >= Rst!Rank(Rst!ClassifyRole(p, Rst!NoSignals))
<1>1. Rst!ClassifyRole(p, Rst!NoSignals) = IF p.team THEN "team" ELSE IF p.guest THEN "guest_speaker" ELSE "audience"
  BY DEF Rst!ClassifyRole, Rst!NoSignals
<1>2. Rst!Rank("team") = 3 /\ Rst!Rank("guest_speaker") = 2 /\ Rst!Rank("audience") = 1
  BY DEF Rst!Rank
<1>3. Rst!ClassifyRole(p, signals) \in {"team", "guest_speaker", "audience"}
  BY DEF Rst!ClassifyRole
<1>4. p.team => Rst!ClassifyRole(p, signals) = "team"
  BY DEF Rst!ClassifyRole
<1>5. p.guest => Rst!ClassifyRole(p, signals) \in {"team", "guest_speaker"}
  BY DEF Rst!ClassifyRole
<1> QED
  BY <1>1, <1>2, <1>3, <1>4, <1>5

\* A person has one role in all blocks of the record.
LEMMA RolesDoAgree ==
  ASSUME NEW P, NEW list \in Seq(P), NEW chat, NEW questions
  PROVE  Rst!RolesAgree(list, chat, questions)
<1> DEFINE people == Rst!FirstCopies(list, FALSE)
           roster == Rst!BuildRoster(list, TRUE, Len(list))
           items == Rst!SourceItems(chat, questions)
           authors == Rst!ResolveAuthors(items, roster)
           signals == Rst!RoleSignals(items, roster)
           raised == Rst!EscalateRoles(roster, signals)
           roleOf(r, id) == r.role[CHOOSE i \in DOMAIN r.people : r.people[i].id = id]
           sig(id) == IF id \in DOMAIN signals THEN signals[id] ELSE Rst!NoSignals
<1>1. /\ roster.people = people
      /\ roster.role = [i \in DOMAIN people |-> Rst!ClassifyRole(people[i], Rst!NoSignals)]
      /\ DOMAIN roster = {"people", "role", "complete", "internal"}
  BY DEF Rst!BuildRoster
<1>2. \A i \in DOMAIN people : people[i].id # Rst!NoId
  <2>1. PICK o \in Bijection(1..Cardinality(Kept(list, FALSE)), Kept(list, FALSE)) :
          people = [k \in 1..Cardinality(Kept(list, FALSE)) |-> list[o[k]]]
    <3>1. \A keep \in BOOLEAN :
            \E o \in Bijection(1..Cardinality(Kept(list, keep)), Kept(list, keep)) :
              Rst!FirstCopies(list, keep) = [k \in 1..Cardinality(Kept(list, keep)) |-> list[o[k]]]
      BY CopiesAre
    <3> QED
      BY <3>1
  <2>2. \A k \in 1..Cardinality(Kept(list, FALSE)) : o[k] \in Kept(list, FALSE)
    BY <2>1 DEF Bijection, Injection
  <2>3. \A i \in Kept(list, FALSE) : list[i].id # Rst!NoId
    BY DEF Kept
  <2> HIDE DEF people
  <2> QED
    BY <2>1, <2>2, <2>3
<1>3. /\ DOMAIN items = {"chat", "question", "answer"}
      /\ DOMAIN authors = DOMAIN items
      /\ \A kind \in DOMAIN items :
           DOMAIN authors[kind] = {items[kind][i].author : i \in DOMAIN items[kind]} \ {Rst!NoId}
  BY DEF Rst!SourceItems, Rst!ResolveAuthors
<1>4. ASSUME NEW kind \in DOMAIN items, NEW id \in DOMAIN authors[kind], id \in Rst!Ids(roster)
      PROVE  authors[kind][id] = Rst!ClassifyRole(Rst!PersonOf(roster, id), sig(id))
  BY <1>3, <1>4 DEF Rst!ResolveAuthors
<1>5. roster.internal => signals = [id \in {} |-> Rst!NoSignals]
  BY DEF Rst!RoleSignals
<1>6. raised.people = people /\ raised = IF roster.internal THEN roster ELSE
        [roster EXCEPT !.role = [i \in DOMAIN people |-> Rst!ClassifyRole(people[i], sig(people[i].id))]]
  BY <1>1 DEF Rst!EscalateRoles
<1> HIDE DEF people, roster, items, authors, signals, raised
<1>7. ASSUME NEW id \in Rst!Ids(roster)
      PROVE  /\ id # Rst!NoId
             /\ roleOf(raised, id) = Rst!ClassifyRole(Rst!PersonOf(roster, id), sig(id))
             /\ roleOf(roster, id) = Rst!ClassifyRole(Rst!PersonOf(roster, id), Rst!NoSignals)
             /\ roster.internal => sig(id) = Rst!NoSignals
  <2> DEFINE at == CHOOSE i \in DOMAIN people : people[i].id = id
  <2>1. \E i \in DOMAIN people : people[i].id = id
    BY <1>1, <1>7 DEF Rst!Ids
  <2>2. at \in DOMAIN people /\ people[at].id = id
    BY <2>1
  <2>3. Rst!PersonOf(roster, id) = people[at]
    BY <1>1 DEF Rst!PersonOf
  <2>4. roleOf(roster, id) = roster.role[at] /\ roleOf(raised, id) = raised.role[at]
    BY <1>1, <1>6
  <2> HIDE DEF at
  <2>5. roster.role[at] = Rst!ClassifyRole(people[at], Rst!NoSignals)
    BY <1>1, <2>2
  <2>6. roster.internal => sig(id) = Rst!NoSignals
    BY <1>5
  <2>7. raised.role[at] = Rst!ClassifyRole(people[at], sig(id))
    <3>1. CASE roster.internal
      BY <1>6, <2>5, <2>6, <3>1
    <3>2. CASE ~roster.internal
      BY <1>1, <1>6, <2>2, <3>2
    <3> QED
      BY <3>1, <3>2
  <2> QED
    BY <1>2, <2>2, <2>3, <2>4, <2>5, <2>6, <2>7
<1> HIDE DEF roleOf
<1>8. ASSUME NEW id \in Rst!Ids(roster), NEW kind \in DOMAIN authors, id \in DOMAIN authors[kind]
      PROVE  /\ authors[kind][id] = roleOf(raised, id)
             /\ Rst!Coverage(items[kind], roster) \in {"resolved", "partial"}
  <2>1. authors[kind][id] = roleOf(raised, id)
    BY <1>3, <1>4, <1>7, <1>8
  <2>2. PICK i \in DOMAIN items[kind] : items[kind][i].author = id
    BY <1>3, <1>8
  <2>3. items[kind] # << >>
    BY <2>2
  <2>4. {j \in DOMAIN items[kind] : items[kind][j].author \in Rst!Ids(roster)} # {}
    BY <1>8, <2>2
  <2> QED
    BY <2>1, <2>3, <2>4 DEF Rst!Coverage
<1>9. ASSUME NEW id \in Rst!Ids(roster), NEW i \in DOMAIN items.question, items.question[i].author = id
      PROVE  Rst!IsTeam("question", items.question[i], roster, authors) = (roleOf(raised, id) # "audience")
  <2>1. "question" \in DOMAIN items /\ id \in DOMAIN authors["question"]
    BY <1>3, <1>7, <1>9
  <2>2. authors["question"][id] = roleOf(raised, id)
    BY <1>3, <1>8, <2>1
  <2> QED
    BY <1>9, <2>2 DEF Rst!IsTeam
<1>10. ASSUME NEW id \in Rst!Ids(roster)
       PROVE  /\ Rst!Rank(roleOf(raised, id)) >= Rst!Rank(roleOf(roster, id))
              /\ roster.internal => roleOf(raised, id) = roleOf(roster, id)
  BY <1>7, RolesOnlyRise
<1>11. \A id \in Rst!Ids(roster) :
         /\ \A kind \in DOMAIN authors : id \in DOMAIN authors[kind] => authors[kind][id] = roleOf(raised, id)
         /\ Rst!Rank(roleOf(raised, id)) >= Rst!Rank(roleOf(roster, id))
         /\ roster.internal => roleOf(raised, id) = roleOf(roster, id)
         /\ \A i \in DOMAIN items.question : items.question[i].author = id =>
              Rst!IsTeam("question", items.question[i], roster, authors) = (roleOf(raised, id) # "audience")
         /\ \A kind \in DOMAIN items : id \in DOMAIN authors[kind] =>
              Rst!Coverage(items[kind], roster) \in {"resolved", "partial"}
  BY <1>3, <1>8, <1>9, <1>10
<1> QED
  BY <1>11, Zenon DEF Rst!RolesAgree, roleOf, people, roster, items, authors, signals, raised

\* The numbers of a table's rows.
Item == [id : Nat, at : Nat, text : Nat]
Comes(s, i, j) == Rst!Earlier(s[i], s[j]) \/ (~Rst!Earlier(s[j], s[i]) /\ i < j)
Sooner(s) == {p \in (1..Len(s)) \X (1..Len(s)) : Comes(s, p[1], p[2])}

LEMMA SoonerPairs ==
  ASSUME NEW s \in Seq(Item), NEW i \in DOMAIN s, NEW j \in DOMAIN s
  PROVE  <<i, j>> \in Sooner(s) <=> Comes(s, i, j)
<1>1. i \in 1..Len(s) /\ j \in 1..Len(s)
  BY LenProperties
<1> QED
  BY <1>1 DEF Sooner

LEMMA EarlierOrders ==
  /\ \A a \in Item : ~Rst!Earlier(a, a)
  /\ \A a, b, c \in Item : Rst!Earlier(a, b) /\ Rst!Earlier(b, c) => Rst!Earlier(a, c)
  /\ \A a, b \in Item : a = b \/ Rst!Earlier(a, b) \/ Rst!Earlier(b, a)
<1>1. \A a \in Item : ~Rst!Earlier(a, a)
  BY DEF Rst!Earlier, Item
<1>2. \A a, b, c \in Item : Rst!Earlier(a, b) /\ Rst!Earlier(b, c) => Rst!Earlier(a, c)
  BY DEF Rst!Earlier, Item
<1>3. \A a, b \in Item : a.id = b.id /\ a.at = b.at /\ a.text = b.text => a = b
  BY DEF Item
<1>4. \A a, b \in Item : (a.id = b.id /\ a.at = b.at /\ a.text = b.text) \/ Rst!Earlier(a, b) \/ Rst!Earlier(b, a)
  BY DEF Rst!Earlier, Item
<1> QED
  BY <1>1, <1>2, <1>3, <1>4

LEMMA SoonerStrict ==
  ASSUME NEW s \in Seq(Item)
  PROVE  Strict(DOMAIN s, Sooner(s))
<1> DEFINE E(i, j) == Rst!Earlier(s[i], s[j])
           D == DOMAIN s
<1>1. D \subseteq Nat /\ \A i \in D : s[i] \in Item
  <2>1. D = 1..Len(s) /\ Len(s) \in Nat
    BY LenProperties
  <2> QED
    BY <2>1, Entry
<1>2. /\ \A i \in D : ~E(i, i)
      /\ \A i, j, k \in D : E(i, j) /\ E(j, k) => E(i, k)
      /\ \A i, j \in D : s[i] = s[j] \/ E(i, j) \/ E(j, i)
  BY <1>1, EarlierOrders
<1>3. \A i, j, k \in D : s[i] = s[j] => (E(i, k) <=> E(j, k)) /\ (E(k, i) <=> E(k, j))
  OBVIOUS
<1>4. \A i, j \in D : <<i, j>> \in Sooner(s) <=> E(i, j) \/ (~E(j, i) /\ i < j)
  BY SoonerPairs DEF Comes
<1> HIDE DEF E
<1>5. \A i \in D : <<i, i>> \notin Sooner(s)
  BY <1>1, <1>2, <1>4
<1>6. ASSUME NEW i \in D, NEW j \in D, NEW k \in D, <<i, j>> \in Sooner(s), <<j, k>> \in Sooner(s)
      PROVE  <<i, k>> \in Sooner(s)
  <2>1. CASE E(i, j)
    <3>1. E(j, k) \/ s[j] = s[k]
      BY <1>2, <1>4, <1>6
    <3> QED
      BY <1>2, <1>3, <1>4, <2>1, <3>1
  <2>2. CASE ~E(i, j)
    <3>1. s[i] = s[j] /\ i < j
      BY <1>2, <1>4, <1>6, <2>2
    <3>2. E(j, k) => E(i, k)
      BY <1>3, <3>1
    <3>3. ~E(k, j) => ~E(k, i)
      BY <1>3, <3>1
    <3> QED
      BY <1>1, <1>4, <1>6, <3>1, <3>2, <3>3
  <2> QED
    BY <2>1, <2>2
<1>7. \A i, j \in D : i = j \/ <<i, j>> \in Sooner(s) \/ <<j, i>> \in Sooner(s)
  <2>1. \A i, j \in D : i = j \/ i < j \/ j < i
    BY <1>1
  <2> QED
    BY <1>4, <2>1
<1> QED
  BY <1>5, <1>6, <1>7 DEF Strict

LEMMA NumberedRanks ==
  ASSUME NEW s \in Seq(Item)
  PROVE  \E o : Ranked(DOMAIN s, Sooner(s), o) /\ Rst!Numbered(s) = [k \in DOMAIN s |-> s[o[k]]]
<1> DEFINE D == DOMAIN s
           R == Sooner(s)
           before(i, j) == Rst!Earlier(s[i], s[j]) \/ (~Rst!Earlier(s[j], s[i]) /\ i < j)
           o == Rst!InOrder(D, before)
<1>1. Strict(D, R)
  BY SoonerStrict
<1>2. \A x \in D : Below(D, R, x) = {y \in D : before(y, x)}
  BY SoonerPairs DEF Below, Comes
<1>3. o = [k \in 1..Rst!Cardinality(D) |-> CHOOSE x \in D : Rst!Cardinality({y \in D : before(y, x)}) = k - 1]
  BY DEF Rst!InOrder
<1>4. IsFiniteSet(D) /\ Cardinality(D) = Len(s) /\ D = 1..Len(s)
  <2>1. D = 1..Len(s) /\ Len(s) \in Nat
    BY LenProperties
  <2>2. IsFiniteSet(1..Len(s)) /\ Cardinality(1..Len(s)) = Len(s)
    BY <2>1, FS_Interval
  <2> QED
    BY <2>1, <2>2
<1> HIDE DEF before
<1>5. ASSUME NEW k \in 1..Cardinality(D)
      PROVE  o[k] \in D /\ Cardinality(Below(D, R, o[k])) = k - 1
  <2>1. \E x \in D : Cardinality(Below(D, R, x)) = k - 1
    BY <1>1, <1>4, RankTaken
  <2>2. \E x \in D : Rst!Cardinality({y \in D : before(y, x)}) = k - 1
    BY <1>2, <2>1, CardinalityOfRoster
  <2>3. k \in 1..Rst!Cardinality(D)
    BY CardinalityOfRoster
  <2>4. o[k] = CHOOSE x \in D : Rst!Cardinality({y \in D : before(y, x)}) = k - 1
    BY <1>3, <2>3
  <2>5. o[k] \in D /\ Rst!Cardinality({y \in D : before(y, o[k])}) = k - 1
    BY <2>2, <2>4
  <2> QED
    BY <1>2, <2>5, CardinalityOfRoster
<1>6. o \in [1..Cardinality(D) -> D]
  BY <1>3, <1>5, CardinalityOfRoster
<1>7. Ranked(D, R, o)
  BY <1>5, <1>6 DEF Ranked
<1>8. Rst!Numbered(s) = [k \in DOMAIN s |-> s[o[k]]]
  BY DEF Rst!Numbered, before
<1> QED
  BY <1>7, <1>8

\* The items up to v, and the places of a sequence that have one of V.
UpTo(v) == {x \in Item : x = v \/ Rst!Earlier(x, v)}
Places(s, V) == {i \in DOMAIN s : s[i] \in V}

LEMMA PlacesFinite ==
  ASSUME NEW s \in Seq(Item), NEW V
  PROVE  /\ Places(s, V) \in SUBSET DOMAIN s
         /\ IsFiniteSet(DOMAIN s) /\ IsFiniteSet(Places(s, V))
         /\ Cardinality(DOMAIN s) = Len(s) /\ Len(s) \in Nat
         /\ Cardinality(Places(s, V)) \in Nat
<1>1. DOMAIN s = 1..Len(s) /\ Len(s) \in Nat
  BY LenProperties
<1>2. IsFiniteSet(1..Len(s)) /\ Cardinality(1..Len(s)) = Len(s)
  BY <1>1, FS_Interval
<1>3. Places(s, V) \in SUBSET (1..Len(s))
  BY <1>1 DEF Places
<1>4. IsFiniteSet(Places(s, V))
  BY <1>2, <1>3, FS_Subset
<1>5. Cardinality(Places(s, V)) \in Nat
  BY <1>4, FS_CardinalityType
<1> QED
  BY <1>1, <1>2, <1>3, <1>4, <1>5

\* The k-th has k up to it, itself counted, and fewer than k up to one before it.
LEMMA NumberCounts ==
  ASSUME NEW s \in Seq(Item), NEW o, Ranked(DOMAIN s, Sooner(s), o), NEW k \in DOMAIN s
  PROVE  /\ s[o[k]] \in Item
         /\ Cardinality(Places(s, UpTo(s[o[k]]))) >= k
         /\ \A w \in Item : Rst!Earlier(w, s[o[k]]) => Cardinality(Places(s, UpTo(w))) < k
<1> DEFINE D == DOMAIN s
           x == o[k]
           v == s[x]
           B == Below(D, Sooner(s), x)
<1>1. /\ D = 1..Len(s) /\ IsFiniteSet(D) /\ Cardinality(D) = Len(s) /\ Len(s) \in Nat
      /\ \A i \in D : s[i] \in Item
  BY PlacesFinite, LenProperties, Entry
<1>2. x \in D /\ Cardinality(B) = k - 1
  BY <1>1 DEF Ranked
<1>3. Strict(D, Sooner(s))
  BY SoonerStrict
<1>4. \A i \in D : i \in B <=> Comes(s, i, x)
  BY <1>2, SoonerPairs DEF Below
<1>5. IsFiniteSet(B) /\ Cardinality(B \cup {x}) = k /\ k \in Nat
  <2>1. Cardinality(B \cup {x}) = Cardinality(B) + 1
    <3> HIDE DEF D, x
    <3> QED
      BY <1>1, <1>2, <1>3, RankCounts
  <2> QED
    BY <1>1, <1>2, <1>3, <2>1, RankType
<1>6. B \cup {x} \in SUBSET Places(s, UpTo(v))
  <2>1. ASSUME NEW i \in D, Comes(s, i, x) PROVE s[i] \in UpTo(v)
    BY <1>1, <1>2, <2>1, EarlierOrders DEF Comes, UpTo
  <2>2. v \in UpTo(v)
    BY <1>1, <1>2 DEF UpTo
  <2>3. B \subseteq D
    BY DEF Below
  <2> HIDE DEF B, x, v
  <2>4. \A i \in B : i \in Places(s, UpTo(v))
    BY <1>4, <2>1, <2>3 DEF Places
  <2>5. x \in Places(s, UpTo(v))
    BY <1>2, <2>2 DEF Places, v
  <2> QED
    BY <2>4, <2>5
<1>7. Cardinality(Places(s, UpTo(v))) >= k
  <2>1. IsFiniteSet(Places(s, UpTo(v))) /\ Cardinality(Places(s, UpTo(v))) \in Nat
    BY PlacesFinite
  <2>2. Cardinality(B \cup {x}) <= Cardinality(Places(s, UpTo(v)))
    BY <1>6, <2>1, FS_Subset
  <2> QED
    BY <1>5, <2>1, <2>2
<1>8. ASSUME NEW w \in Item, Rst!Earlier(w, v)
      PROVE  Cardinality(Places(s, UpTo(w))) < k
  <2>1. ASSUME NEW i \in D, s[i] \in UpTo(w) PROVE i \in B
    <3>1. Rst!Earlier(s[i], v)
      BY <1>1, <1>2, <1>8, <2>1, EarlierOrders DEF UpTo
    <3> QED
      BY <1>4, <3>1 DEF Comes
  <2>2. Places(s, UpTo(w)) \in SUBSET B
    BY <2>1 DEF Places
  <2>3. Cardinality(Places(s, UpTo(w))) <= Cardinality(B)
    BY <1>5, <2>2, FS_Subset
  <2>4. Cardinality(Places(s, UpTo(w))) \in Nat
    BY PlacesFinite
  <2> QED
    BY <1>2, <1>5, <2>3, <2>4
<1> QED
  BY <1>1, <1>2, <1>7, <1>8

\* Sequences with as many of every kind are numbered alike.
LEMMA SameNumbers ==
  ASSUME NEW s \in Seq(Item), NEW t \in Seq(Item), Len(s) = Len(t),
         \A v \in Item : Cardinality(Places(s, UpTo(v))) = Cardinality(Places(t, UpTo(v)))
  PROVE  Rst!Numbered(s) = Rst!Numbered(t)
<1>1. PICK o : Ranked(DOMAIN s, Sooner(s), o) /\ Rst!Numbered(s) = [k \in DOMAIN s |-> s[o[k]]]
  BY NumberedRanks
<1>2. PICK p : Ranked(DOMAIN t, Sooner(t), p) /\ Rst!Numbered(t) = [k \in DOMAIN t |-> t[p[k]]]
  BY NumberedRanks
<1>3. DOMAIN s = 1..Len(s) /\ DOMAIN t = 1..Len(s) /\ Len(s) \in Nat
  BY LenProperties
<1>4. ASSUME NEW k \in 1..Len(s) PROVE s[o[k]] = t[p[k]]
  <2> DEFINE v == s[o[k]]
             w == t[p[k]]
  <2>1. /\ v \in Item
        /\ Cardinality(Places(s, UpTo(v))) >= k
        /\ \A u \in Item : Rst!Earlier(u, v) => Cardinality(Places(s, UpTo(u))) < k
    BY <1>1, <1>3, NumberCounts
  <2>2. /\ w \in Item
        /\ Cardinality(Places(t, UpTo(w))) >= k
        /\ \A u \in Item : Rst!Earlier(u, w) => Cardinality(Places(t, UpTo(u))) < k
    BY <1>2, <1>3, NumberCounts
  <2>3. Cardinality(Places(s, UpTo(v))) \in Nat /\ Cardinality(Places(t, UpTo(w))) \in Nat
    BY PlacesFinite
  <2> HIDE DEF v, w
  <2>4. ~Rst!Earlier(v, w)
    BY <1>3, <2>1, <2>2, <2>3
  <2>5. ~Rst!Earlier(w, v)
    BY <1>3, <2>1, <2>2, <2>3
  <2>6. v = w
    BY <2>1, <2>2, <2>4, <2>5, EarlierOrders
  <2> QED
    BY <2>6 DEF v, w
<1> QED
  BY <1>1, <1>2, <1>3, <1>4

\* The copies kept have, of every kind, as many as the places kept.
KeptOf(s, V) == {i \in Kept(s, TRUE) : s[i] \in V}

LEMMA CopiesCount ==
  ASSUME NEW s \in Seq(Item), NEW V
  PROVE  /\ Rst!FirstCopies(s, TRUE) \in Seq(Item)
         /\ Len(Rst!FirstCopies(s, TRUE)) = Cardinality(Kept(s, TRUE))
         /\ Cardinality(Places(Rst!FirstCopies(s, TRUE), V)) = Cardinality(KeptOf(s, V))
<1> DEFINE K == Kept(s, TRUE)
           n == Cardinality(K)
           c == Rst!FirstCopies(s, TRUE)
           A == Places(c, V)
           C == {i \in K : s[i] \in V}
<1>1. \A keep \in BOOLEAN : \E o \in Bijection(1..Cardinality(Kept(s, keep)), Kept(s, keep)) :
        /\ Rst!FirstCopies(s, keep) = [k \in 1..Cardinality(Kept(s, keep)) |-> s[o[k]]]
        /\ Rst!FirstCopies(s, keep) \in Seq(Item)
        /\ Len(Rst!FirstCopies(s, keep)) = Cardinality(Kept(s, keep))
  BY CopiesAre
<1>2. PICK o \in Bijection(1..n, K) : c = [k \in 1..n |-> s[o[k]]] /\ c \in Seq(Item) /\ Len(c) = n
  BY <1>1
<1> HIDE DEF K, c
<1>3. o \in [1..n -> K] /\ (\A j, k \in 1..n : o[j] = o[k] => j = k) /\ \A i \in K : \E k \in 1..n : o[k] = i
  BY <1>2 DEF Bijection, Injection, Surjection, IsInjective
<1>4. IsFiniteSet(A)
  BY <1>2, PlacesFinite
<1>5. A = {k \in 1..n : s[o[k]] \in V}
  BY <1>2 DEF Places
<1> DEFINE f == [k \in A |-> o[k]]
<1>6. f \in [A -> C]
  BY <1>3, <1>5
<1>7. f \in Bijection(A, C)
  <2>1. \A a, b \in A : f[a] = f[b] => a = b
    BY <1>3, <1>5
  <2>2. \A i \in C : \E a \in A : f[a] = i
    BY <1>3, <1>5
  <2> HIDE DEF f, A, C
  <2> QED
    BY <1>6, <2>1, <2>2 DEF Bijection, Injection, Surjection, IsInjective
<1>8. Cardinality(A) = Cardinality(C)
  <2>1. ExistsBijection(A, C)
    BY <1>7 DEF ExistsBijection
  <2> HIDE DEF A, C
  <2> QED
    BY <1>4, <2>1, FS_Bijection
<1> QED
  BY <1>2, <1>8 DEF K, c, KeptOf

\* t has the items of s in another order, item i at p[i]; the copies of one id
\* are the same.
CopiesAlike(s) == \A i, j \in DOMAIN s : s[i].id = s[j].id /\ s[i].id # Rst!NoId => s[i] = s[j]
Shuffles(s, t, p) ==
  /\ s \in Seq(Item) /\ t \in Seq(Item) /\ Len(t) = Len(s) /\ CopiesAlike(t)
  /\ p \in [1..Len(s) -> 1..Len(s)] /\ \A i, j \in 1..Len(s) : p[i] = p[j] => i = j
  /\ \A i \in 1..Len(s) : t[p[i]] = s[i]

\* Whatever is kept of a sequence is kept of the same items in another order.
LEMMA ShuffleKeeps ==
  ASSUME NEW s, NEW t, NEW p, Shuffles(s, t, p), NEW V
  PROVE  Cardinality(KeptOf(s, V)) <= Cardinality(KeptOf(t, V))
<1> DEFINE n == Len(s)
           C(u) == KeptOf(u, V)
           place(i) == IF s[i].id = Rst!NoId THEN p[i]
                       ELSE CHOOSE j \in Kept(t, TRUE) : t[j].id = s[i].id
           f == [i \in C(s) |-> place(i)]
<1>1. n \in Nat /\ Len(t) = n /\ DOMAIN s = 1..n /\ DOMAIN t = 1..n
  BY LenProperties DEF Shuffles
<1>2. \A i \in 1..n : p[i] \in 1..n /\ t[p[i]] = s[i]
  BY <1>1 DEF Shuffles
<1>3. \A i, j \in 1..n : s[i].id = t[j].id /\ s[i].id # Rst!NoId => s[i] = t[j]
  <2> SUFFICES ASSUME NEW i \in 1..n, NEW j \in 1..n, s[i].id = t[j].id, s[i].id # Rst!NoId
               PROVE  s[i] = t[j]
    OBVIOUS
  <2>1. p[i] \in DOMAIN t /\ j \in DOMAIN t /\ t[p[i]] = s[i]
    BY <1>1, <1>2
  <2>2. t[p[i]].id = t[j].id /\ t[p[i]].id # Rst!NoId
    BY <2>1
  <2>3. t[p[i]] = t[j]
    BY <2>1, <2>2, Zenon DEF Shuffles, CopiesAlike
  <2> QED
    BY <2>1, <2>3
<1>4. ASSUME NEW i \in 1..n, s[i].id # Rst!NoId
      PROVE  \E j \in Kept(t, TRUE) : t[j].id = s[i].id
  <2> DEFINE same == {j \in 1..n : t[j].id = s[i].id}
  <2>1. same # {} /\ same \subseteq Nat
    BY <1>1, <1>2
  <2>2. PICK j \in same : \A k \in same : j <= k
    <3> HIDE DEF same
    <3> QED
      BY <2>1, LeastNat
  <2>3. \A k \in 1..j - 1 : t[k].id # t[j].id
    BY <1>1, <2>2
  <2>4. j \in Kept(t, TRUE)
    BY <1>1, <1>4, <2>2, <2>3 DEF Kept
  <2> QED
    BY <2>2, <2>4
<1>5. ASSUME NEW i \in C(s)
      PROVE  /\ i \in 1..n /\ place(i) \in C(t) /\ t[place(i)].id = s[i].id
             /\ s[i].id = Rst!NoId => place(i) = p[i]
  <2> USE DEF KeptOf
  <2>1. i \in 1..n /\ s[i] \in V
    BY <1>1 DEF Kept
  <2>2. CASE s[i].id = Rst!NoId
    <3>1. p[i] \in 1..n /\ t[p[i]] = s[i]
      BY <1>2, <2>1
    <3>2. p[i] \in Kept(t, TRUE)
      BY <1>1, <2>2, <3>1 DEF Kept
    <3> QED
      BY <2>1, <2>2, <3>1, <3>2
  <2>3. CASE s[i].id # Rst!NoId
    <3>1. place(i) \in Kept(t, TRUE) /\ t[place(i)].id = s[i].id
      BY <1>4, <2>1, <2>3
    <3>2. place(i) \in 1..n
      BY <1>1, <3>1 DEF Kept
    <3> HIDE DEF place
    <3>3. t[place(i)] = s[i]
      BY <1>3, <2>1, <2>3, <3>1, <3>2
    <3> QED
      BY <2>1, <2>3, <3>1, <3>3
  <2> QED
    BY <2>2, <2>3
<1>6. ASSUME NEW i \in C(s), NEW j \in C(s), place(i) = place(j)
      PROVE  i = j
  <2>1. /\ i \in 1..n /\ j \in 1..n /\ s[i].id = s[j].id
        /\ s[i].id = Rst!NoId => p[i] = p[j]
    <3> HIDE DEF place, C
    <3> QED
      BY <1>5, <1>6
  <2>2. i \in Kept(s, TRUE) /\ j \in Kept(s, TRUE)
    BY DEF KeptOf
  <2>3. CASE s[i].id = Rst!NoId
    BY <2>1, <2>3 DEF Shuffles
  <2>4. CASE s[i].id # Rst!NoId
    <3>1. ~(i < j) /\ ~(j < i)
      BY <1>1, <2>1, <2>2, <2>4 DEF Kept
    <3> QED
      BY <1>1, <2>1, <3>1
  <2> QED
    BY <2>3, <2>4
<1>7. IsFiniteSet(C(t))
  <2>1. C(t) \in SUBSET (1..n) /\ IsFiniteSet(1..n)
    BY <1>1, FS_Interval DEF Kept, KeptOf
  <2> QED
    BY <2>1, FS_Subset
<1>8. f \in Injection(C(s), C(t))
  <2> HIDE DEF place, C
  <2>1. f \in [C(s) -> C(t)]
    BY <1>5
  <2>2. \A i, j \in C(s) : f[i] = f[j] => i = j
    BY <1>6
  <2> HIDE DEF f
  <2> QED
    BY <2>1, <2>2 DEF Injection, IsInjective
<1> HIDE DEF f, place
<1>9. Cardinality(C(s)) <= Cardinality(C(t))
  <2> HIDE DEF C
  <2> QED
    BY <1>7, <1>8, FS_Injection
<1> QED
  BY <1>9

\* However the API orders its items, each has its number.
LEMMA IdsAreStable ==
  ASSUME NEW s \in Seq(Item), CopiesAlike(s)
  PROVE  Rst!IdsStable(s)
<1> DEFINE n == Len(s)
<1>0. DOMAIN s = 1..n /\ n \in Nat /\ \A i \in 1..n : s[i] \in Item
  BY LenProperties, ElementOfSeq
<1> SUFFICES ASSUME NEW q \in Rst!Bijection(DOMAIN s, DOMAIN s)
             PROVE  Rst!Numbered(Rst!FirstCopies(s, TRUE)) =
                      Rst!Numbered(Rst!FirstCopies([i \in DOMAIN s |-> s[q[i]]], TRUE))
  BY Zenon DEF Rst!IdsStable
<1> DEFINE t == [i \in DOMAIN s |-> s[q[i]]]
           p == [i \in 1..n |-> CHOOSE j \in 1..n : q[j] = i]
           a == Rst!FirstCopies(s, TRUE)
           b == Rst!FirstCopies(t, TRUE)
<1>1. /\ q \in [1..n -> 1..n] /\ \A i, j \in 1..n : q[i] = q[j] => i = j
      /\ \A i \in 1..n : \E j \in 1..n : q[j] = i
  BY <1>0 DEF Rst!Bijection, Rst!Injection, Rst!Surjection, Rst!IsInjective
<1>2. p \in [1..n -> 1..n] /\ \A i \in 1..n : q[p[i]] = i
  BY <1>1
<1>3. \A i, j \in 1..n : p[i] = p[j] => i = j
  BY <1>2
<1> HIDE DEF p
<1>4. t \in Seq(Item) /\ Len(t) = n /\ DOMAIN t = 1..n
  BY <1>0, <1>1
<1>5. \A i \in 1..n : t[i] = s[q[i]] /\ t[p[i]] = s[i]
  BY <1>0, <1>1, <1>2
<1>6. CopiesAlike(t)
  <2> HIDE DEF t
  <2> QED
    BY <1>0, <1>1, <1>4, <1>5 DEF CopiesAlike
<1> HIDE DEF t
<1>11. Shuffles(s, t, p) /\ Shuffles(t, s, q)
  BY <1>1, <1>2, <1>3, <1>4, <1>5, <1>6 DEF Shuffles
<1>7. ASSUME NEW V
      PROVE  Cardinality(Places(a, V)) = Cardinality(Places(b, V))
  <2>1. /\ Cardinality(Places(a, V)) = Cardinality(KeptOf(s, V))
        /\ Cardinality(Places(b, V)) = Cardinality(KeptOf(t, V))
        /\ a \in Seq(Item) /\ b \in Seq(Item)
    BY <1>4, CopiesCount
  <2>2. Cardinality(Places(a, V)) \in Nat /\ Cardinality(Places(b, V)) \in Nat
    BY <2>1, PlacesFinite
  <2>3. Cardinality(Places(a, V)) <= Cardinality(Places(b, V)) /\ Cardinality(Places(b, V)) <= Cardinality(Places(a, V))
    BY <1>11, <2>1, ShuffleKeeps
  <2> HIDE DEF a, b
  <2> QED
    BY <2>2, <2>3
<1>8. a \in Seq(Item) /\ b \in Seq(Item)
  BY <1>4, CopiesCount
<1>9. Len(a) = Len(b)
  <2>1. Places(a, Item) = DOMAIN a /\ Places(b, Item) = DOMAIN b
    <3>1. (\A i \in DOMAIN a : a[i] \in Item) /\ \A i \in DOMAIN b : b[i] \in Item
      BY <1>8, Entry
    <3> QED
      BY <3>1 DEF Places
  <2> QED
    BY <1>7, <1>8, <2>1, PlacesFinite
<1> HIDE DEF a, b
<1>10. Rst!Numbered(a) = Rst!Numbered(b)
  BY <1>7, <1>8, <1>9, SameNumbers
<1> QED
  BY <1>10 DEF a, b, t

\* Everyone of the audience is in one channel's row, and every row has its key.
LEMMA CardinalityOfMeasures ==
  ASSUME NEW S
  PROVE  Mea!Cardinality(S) = Cardinality(S)
  BY Zenon DEF Mea!Cardinality, Cardinality

LEMMA AudienceFinite ==
  ASSUME NEW f \in Facts
  PROVE  IsFiniteSet(Mea!Audience(f)) /\ Mea!Audience(f) \subseteq DOMAIN f.people
<1>1. f.people \in Seq(Registrant)
  BY DEF Facts
<1>2. DOMAIN f.people = 1..Len(f.people) /\ Len(f.people) \in Nat
  BY <1>1, LenProperties
<1>3. IsFiniteSet(DOMAIN f.people)
  BY <1>2, FS_Interval
<1>4. Mea!Audience(f) \in SUBSET DOMAIN f.people
  BY DEF Mea!Audience
<1> QED
  BY <1>3, <1>4, FS_Subset

\* The rows of the named groups, and those of the others.
LEMMA ChannelsApart ==
  ASSUME NEW f \in Facts
  PROVE  /\ \A a, b \in Mea!ChannelRows(f) : a.key = b.key => a = b
         /\ Mea!Sourced(f) # {} => \A i \in Mea!Audience(f) :
              Cardinality({r \in Mea!ChannelRows(f) : i \in r.members}) = 1
<1> DEFINE names == Mea!ChannelNames(f)
           named(n) == Mea!Row(f, n, Mea!ByChannel(f)[n], FALSE)
           small == Mea!SmallChannels(f)
           rest == Mea!Unknown(f)
           other == Mea!Row(f, Mea!Other, small, Mea!Cardinality(small) < Few)
           direct == Mea!Row(f, Mea!Direct, rest, Mea!Cardinality(rest) < Few)
           rows == Mea!ChannelRows(f)
           of(i) == Head(Mea!Source(f, i))
<1>1. \A r : r \in rows <=> \/ \E n \in names : r = named(n)
                            \/ small # {} /\ r = other
                            \/ rest # {} /\ r = direct
  BY DEF Mea!ChannelRows
<1>2. /\ \A n : named(n).key = n /\ named(n).members = Mea!ByChannel(f)[n]
      /\ other.key = Mea!Other /\ other.members = small
      /\ direct.key = Mea!Direct /\ direct.members = rest
  BY DEF Mea!Row
<1>3. Mea!Other \notin names /\ Mea!Direct \notin names /\ Mea!Other # Mea!Direct
  BY DEF Mea!ChannelNames, Mea!Named, Mea!Other, Mea!Direct
<1>4. \A n \in names : Mea!ByChannel(f)[n] = {i \in Mea!Sourced(f) : of(i) = n}
  BY DEF Mea!ChannelNames, Mea!Named, Mea!ByChannel
<1>5. /\ small = {i \in Mea!Sourced(f) : of(i) \notin names}
      /\ Mea!Sourced(f) # {} => rest = Mea!Audience(f) \ Mea!Sourced(f)
      /\ Mea!Sourced(f) \subseteq Mea!Audience(f)
  BY DEF Mea!SmallChannels, Mea!Unknown, Mea!Sourced
<1> HIDE DEF names, named, small, rest, other, direct, rows, of
<1>6. \A a, b \in rows : a.key = b.key => a = b
  BY <1>1, <1>2, <1>3
<1>7. ASSUME NEW i \in Mea!Audience(f), Mea!Sourced(f) # {}
      PROVE  Cardinality({r \in rows : i \in r.members}) = 1
  <2>1. \E r : {x \in rows : i \in x.members} = {r}
    <3>1. CASE i \in Mea!Sourced(f) /\ of(i) \in names
      <4>1. i \in named(of(i)).members /\ i \notin small /\ i \notin rest
        BY <1>2, <1>4, <1>5, <1>7, <3>1
      <4>2. \A n \in names : i \in named(n).members => n = of(i)
        BY <1>2, <1>4
      <4>3. {x \in rows : i \in x.members} = {named(of(i))}
        BY <1>1, <1>2, <3>1, <4>1, <4>2
      <4> QED
        BY <4>3
    <3>2. CASE i \in Mea!Sourced(f) /\ of(i) \notin names
      <4>1. i \in small /\ i \notin rest
        BY <1>5, <1>7, <3>2
      <4>2. \A n \in names : i \notin named(n).members
        BY <1>2, <1>4, <3>2
      <4>3. {x \in rows : i \in x.members} = {other}
        BY <1>1, <1>2, <4>1, <4>2
      <4> QED
        BY <4>3
    <3>3. CASE i \notin Mea!Sourced(f)
      <4>1. i \notin small /\ i \in rest
        BY <1>5, <1>7, <3>3
      <4>2. \A n \in names : i \notin named(n).members
        BY <1>2, <1>4, <3>3
      <4>3. {x \in rows : i \in x.members} = {direct}
        BY <1>1, <1>2, <4>1, <4>2
      <4> QED
        BY <4>3
    <3> QED
      BY <3>1, <3>2, <3>3
  <2> QED
    BY <2>1, FS_Singleton
<1> QED
  BY <1>6, <1>7 DEF rows

LEMMA SegmentsApart ==
  ASSUME NEW f \in Facts
  PROVE  /\ \A a, b \in Mea!SegmentRows(f) : a.key = b.key => a = b
         /\ \A i \in Mea!Audience(f) : f.people[i].choices # {} =>
              \E r \in Mea!SegmentRows(f) : i \in r.members
<1> DEFINE names == Mea!ChoiceNames(f)
           named(n) == Mea!Row(f, n, Mea!ByChoice(f)[n], Mea!FewChoices(f))
           small == Mea!SmallChoices(f)
           other == Mea!Row(f, Mea!Other, small, Mea!FewChoices(f) \/ Mea!Cardinality(small) < Few)
           rows == Mea!SegmentRows(f)
<1>1. \A r : r \in rows <=> (\E n \in names : r = named(n)) \/ (small # {} /\ r = other)
  BY DEF Mea!SegmentRows
<1>2. /\ \A n : named(n).key = n /\ named(n).members = Mea!ByChoice(f)[n]
      /\ other.key = Mea!Other /\ other.members = small
  BY DEF Mea!Row
<1>3. Mea!Other \notin names
  BY DEF Mea!ChoiceNames, Mea!Named
<1>4. \A n \in names : Mea!ByChoice(f)[n] = {i \in Mea!Audience(f) : n \in f.people[i].choices}
  BY DEF Mea!ChoiceNames, Mea!Named, Mea!ByChoice
<1>5. small = {i \in Mea!Audience(f) : f.people[i].choices \ names # {}}
  BY DEF Mea!SmallChoices
<1> HIDE DEF names, named, small, other, rows
<1>6. \A a, b \in rows : a.key = b.key => a = b
  BY <1>1, <1>2, <1>3
<1>7. ASSUME NEW i \in Mea!Audience(f), f.people[i].choices # {}
      PROVE  \E r \in rows : i \in r.members
  <2>1. CASE \E n \in f.people[i].choices : n \in names
    BY <1>1, <1>2, <1>4, <2>1
  <2>2. CASE ~ \E n \in f.people[i].choices : n \in names
    <3>1. i \in small
      BY <1>5, <1>7, <2>2
    <3> QED
      BY <1>1, <1>2, <3>1
  <2> QED
    BY <2>1, <2>2
<1> QED
  BY <1>6, <1>7 DEF rows

\* A set is counted by its two halves.
LEMMA SplitOnce ==
  ASSUME NEW S, IsFiniteSet(S), NEW T, NEW U, S = T \cup U, T \cap U = {}
  PROVE  /\ IsFiniteSet(T) /\ IsFiniteSet(U)
         /\ Cardinality(T) \in Nat /\ Cardinality(U) \in Nat
         /\ Cardinality(S) = Cardinality(T) + Cardinality(U)
<1>1. T \in SUBSET S /\ U \in SUBSET S
  OBVIOUS
<1>2. IsFiniteSet(T) /\ IsFiniteSet(U)
  BY <1>1, FS_Subset
<1>3. Cardinality(T) \in Nat /\ Cardinality(U) \in Nat
  BY <1>2, FS_CardinalityType
<1>4. Cardinality(S) = Cardinality(T) + Cardinality(U) - Cardinality(T \cap U)
  BY <1>2, FS_Union
<1>5. Cardinality(T \cap U) = 0
  BY FS_EmptySet
<1> QED
  BY <1>2, <1>3, <1>4, <1>5

LEMMA JoinOnce ==
  ASSUME NEW T, NEW U, IsFiniteSet(T \cup U), T \cap U = {}
  PROVE  /\ Cardinality(T) \in Nat /\ Cardinality(U) \in Nat
         /\ Cardinality(T \cup U) = Cardinality(T) + Cardinality(U)
<1>1. IsFiniteSet(T) /\ IsFiniteSet(U)
  <2>1. T \in SUBSET (T \cup U) /\ U \in SUBSET (T \cup U)
    OBVIOUS
  <2> QED
    BY <2>1, FS_Subset
<1>2. Cardinality(T) \in Nat /\ Cardinality(U) \in Nat
  BY <1>1, FS_CardinalityType
<1>3. Cardinality(T \cup U) = Cardinality(T) + Cardinality(U) - Cardinality(T \cap U)
  BY <1>1, FS_Union
<1>4. Cardinality(T \cap U) = 0
  BY FS_EmptySet
<1> QED
  BY <1>2, <1>3, <1>4

LEMMA CellCounts ==
  ASSUME NEW f \in Facts
  PROVE  Cardinality(Mea!Placed(f)) =
           Cardinality(Mea!Cell(f, TRUE, TRUE)) + Cardinality(Mea!Cell(f, TRUE, FALSE))
           + Cardinality(Mea!Cell(f, FALSE, TRUE)) + Cardinality(Mea!Cell(f, FALSE, FALSE))
<1> DEFINE placed == Mea!Placed(f)
           long == Mea!Cell(f, TRUE, TRUE) \cup Mea!Cell(f, TRUE, FALSE)
           short == Mea!Cell(f, FALSE, TRUE) \cup Mea!Cell(f, FALSE, FALSE)
<1>1. placed = long \cup short /\ long \cap short = {}
  BY DEF Mea!Cell
<1>2. /\ Mea!Cell(f, TRUE, TRUE) \cap Mea!Cell(f, TRUE, FALSE) = {}
      /\ Mea!Cell(f, FALSE, TRUE) \cap Mea!Cell(f, FALSE, FALSE) = {}
  BY DEF Mea!Cell
<1>3. IsFiniteSet(placed)
  <2>1. placed \in SUBSET Mea!Audience(f)
    BY DEF Mea!Placed, Mea!Came
  <2> QED
    BY <2>1, AudienceFinite, FS_Subset
<1> HIDE DEF placed
<1>4. IsFiniteSet(long) /\ IsFiniteSet(short) /\ Cardinality(placed) = Cardinality(long) + Cardinality(short)
  <2> HIDE DEF long, short
  <2> QED
    BY <1>1, <1>3, SplitOnce
<1>5. /\ Cardinality(Mea!Cell(f, TRUE, TRUE)) \in Nat /\ Cardinality(Mea!Cell(f, TRUE, FALSE)) \in Nat
      /\ Cardinality(long) = Cardinality(Mea!Cell(f, TRUE, TRUE)) + Cardinality(Mea!Cell(f, TRUE, FALSE))
  BY <1>2, <1>4, JoinOnce
<1>6. /\ Cardinality(Mea!Cell(f, FALSE, TRUE)) \in Nat /\ Cardinality(Mea!Cell(f, FALSE, FALSE)) \in Nat
      /\ Cardinality(short) = Cardinality(Mea!Cell(f, FALSE, TRUE)) + Cardinality(Mea!Cell(f, FALSE, FALSE))
  BY <1>2, <1>4, JoinOnce
<1> DEFINE n(set) == Cardinality(set)
           a == n(Mea!Cell(f, TRUE, TRUE))
           b == n(Mea!Cell(f, TRUE, FALSE))
           c == n(Mea!Cell(f, FALSE, TRUE))
           d == n(Mea!Cell(f, FALSE, FALSE))
<1>7. /\ n(placed) = n(long) + n(short) /\ n(long) = a + b /\ n(short) = c + d
      /\ a \in Nat /\ b \in Nat /\ c \in Nat /\ d \in Nat
  BY <1>4, <1>5, <1>6
<1> HIDE DEF n, a, b, c, d, long, short
<1>8. n(placed) = a + b + c + d
  BY <1>7
<1> QED
  BY <1>8, Zenon DEF n, a, b, c, d, placed

LEMMA CellsAddUp ==
  ASSUME NEW f \in Facts, Mea!RoomMap(f).state # "unresolved"
  PROVE  Mea!RoomMap(f).placed =
           Mea!RoomMap(f).cells[<<TRUE, TRUE>>].people[1] + Mea!RoomMap(f).cells[<<TRUE, FALSE>>].people[1]
           + Mea!RoomMap(f).cells[<<FALSE, TRUE>>].people[1] + Mea!RoomMap(f).cells[<<FALSE, FALSE>>].people[1]
<1> DEFINE n(s, w) == Mea!RoomMap(f).cells[<<s, w>>].people[1]
<1>1. Mea!RoomState(f) # "unresolved" /\ Mea!RoomMap(f).placed = Cardinality(Mea!Placed(f))
  BY CardinalityOfMeasures DEF Mea!RoomMap
<1>2. \A s, w \in BOOLEAN : n(s, w) = Cardinality(Mea!Cell(f, s, w))
  <2> SUFFICES ASSUME NEW s \in BOOLEAN, NEW w \in BOOLEAN PROVE n(s, w) = Cardinality(Mea!Cell(f, s, w))
    OBVIOUS
  <2>1. <<s, w>> \in BOOLEAN \X BOOLEAN /\ <<s, w>>[1] = s /\ <<s, w>>[2] = w
    OBVIOUS
  <2>2. Mea!RoomMap(f).cells[<<s, w>>].people = <<Cardinality(Mea!Cell(f, s, w))>>
    BY <1>1, <2>1, CardinalityOfMeasures DEF Mea!RoomMap
  <2> QED
    BY <2>2
<1>3. /\ n(TRUE, TRUE) = Cardinality(Mea!Cell(f, TRUE, TRUE)) /\ n(TRUE, FALSE) = Cardinality(Mea!Cell(f, TRUE, FALSE))
      /\ n(FALSE, TRUE) = Cardinality(Mea!Cell(f, FALSE, TRUE)) /\ n(FALSE, FALSE) = Cardinality(Mea!Cell(f, FALSE, FALSE))
  BY <1>2, Zenon
<1> QED
  BY <1>1, <1>3, CellCounts, Zenon

LEMMA ReplayAddsUp ==
  ASSUME NEW f \in Facts
  PROVE  /\ Mea!Replay(f).attendees[2] <= Mea!ShowUp(f).num
         /\ Mea!Replay(f).noShows[2] + Mea!Replay(f).attendees[2] + Mea!Replay(f).replayUnknown
              + Mea!Cardinality({i \in Mea!Audience(f) : f.people[i].attended = "unknown" /\ f.people[i].replay # "unknown"})
              = Mea!ShowUp(f).den
<1> DEFINE S == Mea!Audience(f)
           K == {i \in S : f.people[i].replay # "unknown"}
           of(a) == {i \in K : f.people[i].attended = a}
           out == {i \in S : f.people[i].attended = "unknown" /\ f.people[i].replay # "unknown"}
<1>1. /\ Mea!Replay(f).attendees[2] = Mea!Cardinality(of("yes"))
      /\ Mea!Replay(f).noShows[2] = Mea!Cardinality(of("no"))
      /\ Mea!Replay(f).replayUnknown = Mea!Cardinality(S) - Mea!Cardinality(K)
      /\ Mea!ShowUp(f).num = Mea!Cardinality(Mea!Came(f, S)) /\ Mea!ShowUp(f).den = Mea!Cardinality(S)
  BY DEF Mea!Replay, Mea!ShowUp
<1>2. IsFiniteSet(S) /\ \A i \in S : f.people[i].attended \in {"yes", "no", "unknown"}
  <2>1. f.people \in Seq(Registrant)
    BY DEF Facts
  <2>2. \A i \in DOMAIN f.people : f.people[i] \in Registrant
    BY <2>1, Entry
  <2> QED
    BY <2>2, AudienceFinite DEF Registrant
<1>3. of("yes") \in SUBSET Mea!Came(f, S) /\ Mea!Came(f, S) \in SUBSET S /\ K \in SUBSET S
  BY DEF Mea!Came
<1>4. IsFiniteSet(K) /\ IsFiniteSet(Mea!Came(f, S))
  BY <1>2, <1>3, FS_Subset
<1>5. /\ Cardinality(of("yes")) <= Cardinality(Mea!Came(f, S))
      /\ Cardinality(K) \in Nat /\ Cardinality(S) \in Nat
  BY <1>2, <1>3, <1>4, FS_Subset, FS_CardinalityType
<1> DEFINE R == K \ of("yes")
<1>6. Cardinality(K) = Cardinality(of("yes")) + Cardinality(R) /\ Cardinality(R) = Cardinality(of("no")) + Cardinality(out)
  <2>1. /\ K = of("yes") \cup R /\ of("yes") \cap R = {}
        /\ R = of("no") \cup out /\ of("no") \cap out = {}
    BY <1>2
  <2>2. R \in SUBSET K
    OBVIOUS
  <2>3. IsFiniteSet(R)
    BY <1>4, <2>2, FS_Subset
  <2> DEFINE came == of("yes")
             missed == of("no")
  <2> HIDE DEF K, of, R, out, came, missed
  <2>4. K = came \cup R /\ came \cap R = {} /\ R = missed \cup out /\ missed \cap out = {}
    BY <2>1 DEF came, missed
  <2>5. Cardinality(K) = Cardinality(came) + Cardinality(R)
    BY <1>4, <2>4, SplitOnce
  <2>6. Cardinality(R) = Cardinality(missed) + Cardinality(out)
    BY <2>3, <2>4, SplitOnce
  <2> QED
    BY <2>5, <2>6 DEF came, missed
<1>8. Cardinality(of("no")) \in Nat /\ Cardinality(of("yes")) \in Nat /\ Cardinality(out) \in Nat
  <2>1. of("no") \in SUBSET S /\ of("yes") \in SUBSET S /\ out \in SUBSET S
    OBVIOUS
  <2> QED
    BY <1>2, <2>1, FS_Subset, FS_CardinalityType
<1> HIDE DEF S, K, of, out, R
<1>9. Cardinality(of("no")) + Cardinality(of("yes")) + (Cardinality(S) - Cardinality(K)) + Cardinality(out) = Cardinality(S)
  BY <1>5, <1>6, <1>8
<1> QED
  BY <1>1, <1>5, <1>9, CardinalityOfMeasures DEF out, S

\* Whoever is of the audience is counted, and once, in what is grouped.
LEMMA GroupsCountAll ==
  ASSUME NEW f \in Facts
  PROVE  Mea!GroupsAddUp(f)
<1>1. /\ \A a, b \in Mea!ChannelRows(f) : a.key = b.key => a = b
      /\ \A a, b \in Mea!SegmentRows(f) : a.key = b.key => a = b
  BY ChannelsApart, SegmentsApart
<1>2. \A i \in Mea!Audience(f) :
        /\ Mea!Sourced(f) # {} => Mea!Cardinality({r \in Mea!ChannelRows(f) : i \in r.members}) = 1
        /\ f.people[i].choices # {} => \E r \in Mea!SegmentRows(f) : i \in r.members
  BY ChannelsApart, SegmentsApart, CardinalityOfMeasures
<1> QED
  BY <1>1, <1>2, CellsAddUp, ReplayAddsUp DEF Mea!GroupsAddUp

-----------------------------------------------------------------------------
\* Lead times: the groups of buckets, and what merging does to them.

\* Groups that have each bucket of F, in one of them.
Parted(g, F) ==
  /\ g \in Seq(Seq(F))
  /\ \A b \in F : \E k \in DOMAIN g : b \in Mea!ToSet(g[k])
  /\ \A j, k \in DOMAIN g : j # k => Mea!ToSet(g[j]) \cap Mea!ToSet(g[k]) = {}

\* The groups with two neighbours made one, as a step of the merge does.
Joined(g, m) ==
  [k \in 1..Len(g) - 1 |-> IF k < m THEN g[k] ELSE IF k = m THEN g[k] \o g[k + 1] ELSE g[k + 1]]

\* A concatenation has what its parts have.
LEMMA ConcatSet ==
  ASSUME NEW S, NEW s \in Seq(S), NEW t \in Seq(S)
  PROVE  Mea!ToSet(s \o t) = Mea!ToSet(s) \cup Mea!ToSet(t)
<1>1. /\ Mea!ToSet(s) = {s[i] : i \in 1..Len(s)} /\ Mea!ToSet(t) = {t[i] : i \in 1..Len(t)}
      /\ Mea!ToSet(s \o t) = {(s \o t)[i] : i \in 1..Len(s \o t)}
      /\ Len(s) \in Nat /\ Len(t) \in Nat
  BY LenProperties, ConcatProperties DEF Mea!ToSet
<1>2. /\ Len(s \o t) = Len(s) + Len(t)
      /\ \A i \in 1..Len(s) + Len(t) : (s \o t)[i] = IF i <= Len(s) THEN s[i] ELSE t[i - Len(s)]
  BY ConcatProperties
<1>3. ASSUME NEW x \in Mea!ToSet(s) PROVE x \in Mea!ToSet(s \o t)
  BY <1>1, <1>2
<1>4. ASSUME NEW x \in Mea!ToSet(t) PROVE x \in Mea!ToSet(s \o t)
  <2>1. PICK i \in 1..Len(t) : x = t[i]
    BY <1>1
  <2>2. i + Len(s) \in 1..Len(s) + Len(t) /\ ~(i + Len(s) <= Len(s)) /\ (i + Len(s)) - Len(s) = i
    BY <1>1
  <2>3. x = (s \o t)[i + Len(s)]
    BY <1>2, <2>1, <2>2
  <2> QED
    BY <1>1, <1>2, <2>2, <2>3
<1>5. ASSUME NEW x \in Mea!ToSet(s \o t) PROVE x \in Mea!ToSet(s) \cup Mea!ToSet(t)
  <2>1. PICK i \in 1..Len(s) + Len(t) : x = (s \o t)[i]
    BY <1>1, <1>2
  <2>2. CASE i <= Len(s)
    BY <1>1, <1>2, <2>1, <2>2
  <2>3. CASE ~(i <= Len(s))
    <3>1. i - Len(s) \in 1..Len(t)
      BY <1>1, <2>3
    <3> QED
      BY <1>1, <1>2, <2>1, <2>3, <3>1
  <2> QED
    BY <2>2, <2>3
<1> QED
  BY <1>3, <1>4, <1>5

\* Joining two neighbours loses no bucket and repeats none, and leaves one group
\* less.
LEMMA JoinKeeps ==
  ASSUME NEW F, NEW g, Parted(g, F), NEW m \in 1..Len(g) - 1
  PROVE  Parted(Joined(g, m), F) /\ Len(Joined(g, m)) = Len(g) - 1
<1> DEFINE h == Joined(g, m)
           n == Len(g)
           of(k) == Mea!ToSet(g[k])
           was(k) == IF k < m THEN {k} ELSE IF k = m THEN {m, m + 1} ELSE {k + 1}
<1>1. g \in Seq(Seq(F)) /\ DOMAIN g = 1..n /\ n \in Nat /\ 1 <= m /\ m <= n - 1
  BY LenProperties DEF Parted
<1>2. g[m] \in Seq(F) /\ g[m + 1] \in Seq(F)
  BY <1>1, ElementOfSeq
<1> DEFINE x == g[m] \o g[m + 1]
<1>3. x \in Seq(F) /\ Mea!ToSet(x) = of(m) \cup of(m + 1)
  BY <1>2, ConcatSet, ConcatProperties
<1>4. /\ h \in Seq(Seq(F)) /\ Len(h) = n - 1 /\ DOMAIN h = 1..n - 1
      /\ \A k \in 1..n - 1 : h[k] = IF k < m THEN g[k] ELSE IF k = m THEN x ELSE g[k + 1]
  <2>1. h = [k \in 1..n - 1 |-> IF k < m THEN g[k] ELSE IF k = m THEN x ELSE g[k + 1]]
    BY DEF Joined
  <2> DEFINE T == Seq(F)
  <2>2. \A k \in 1..n - 1 : h[k] \in T
    <3> TAKE k \in 1..n - 1
    <3>1. k \in 1..n /\ k + 1 \in 1..n /\ g \in Seq(T)
      BY <1>1
    <3>2. g[k] \in T /\ g[k + 1] \in T /\ x \in T
      BY <1>1, <1>3, <3>1, ElementOfSeq
    <3> HIDE DEF T, x
    <3> QED
      BY <2>1, <3>2
  <2>3. n - 1 \in Nat
    BY <1>1
  <2> HIDE DEF h, T
  <2>4. h \in [1..n - 1 -> T]
    BY <2>1, <2>2
  <2>5. h \in Seq(T) /\ Len(h) = n - 1
    BY <2>3, <2>4
  <2> QED
    BY <2>1, <2>5 DEF T
<1>5. \A k \in 1..n - 1 : was(k) \subseteq 1..n /\ Mea!ToSet(h[k]) = UNION {of(l) : l \in was(k)}
  <2> TAKE k \in 1..n - 1
  <2>1. was(k) \subseteq 1..n
    BY <1>1
  <2>2. CASE k < m
    <3>1. h[k] = g[k] /\ was(k) = {k}
      BY <1>4, <2>2
    <3> QED
      BY <2>1, <3>1
  <2>3. CASE k = m
    <3>1. ~(k < m)
      BY <1>1, <2>3
    <3>2. h[k] = x /\ was(k) = {m, m + 1}
      BY <1>4, <2>3, <3>1
    <3> QED
      BY <1>3, <2>1, <3>2
  <2>4. CASE k > m
    <3>1. ~(k < m) /\ k # m
      BY <1>1, <2>4
    <3>2. h[k] = g[k + 1] /\ was(k) = {k + 1}
      BY <1>4, <3>1
    <3> QED
      BY <2>1, <3>2
  <2>5. k < m \/ k = m \/ k > m
    BY <1>1
  <2> QED
    BY <2>2, <2>3, <2>4, <2>5
<1>6. \A j, k \in 1..n - 1 : j # k => was(j) \cap was(k) = {}
  BY <1>1
<1>7. \A l \in 1..n : \E k \in 1..n - 1 : l \in was(k)
  <2> TAKE l \in 1..n
  <2>1. CASE l <= m
    <3>1. l \in 1..n - 1 /\ l \in was(l)
      BY <1>1, <2>1
    <3> QED
      BY <3>1
  <2>2. CASE l > m
    <3>1. l - 1 \in 1..n - 1 /\ l \in was(l - 1)
      BY <1>1, <2>2
    <3> QED
      BY <3>1
  <2> QED
    BY <1>1, <2>1, <2>2
<1> HIDE DEF was, n, of
<1>8. \A j, k \in 1..n : j # k => of(j) \cap of(k) = {}
  BY <1>1 DEF Parted, of
<1>9. ASSUME NEW b \in F PROVE \E k \in DOMAIN h : b \in Mea!ToSet(h[k])
  <2>1. PICK l \in 1..n : b \in of(l)
    BY <1>1 DEF Parted, of
  <2>2. PICK k \in 1..n - 1 : l \in was(k)
    BY <1>7
  <2> QED
    BY <1>4, <1>5, <2>1, <2>2
<1>10. ASSUME NEW j \in DOMAIN h, NEW k \in DOMAIN h, j # k, NEW b \in Mea!ToSet(h[j]), b \in Mea!ToSet(h[k])
       PROVE  FALSE
  <2>1. PICK u \in was(j) : b \in of(u)
    BY <1>4, <1>5
  <2>2. PICK v \in was(k) : b \in of(v)
    BY <1>4, <1>5, <1>10
  <2>3. u # v /\ u \in 1..n /\ v \in 1..n
    BY <1>4, <1>5, <1>6, <1>10, <2>1, <2>2
  <2> QED
    BY <1>8, <2>1, <2>2, <2>3
<1>11. Parted(h, F)
  BY <1>4, <1>9, <1>10 DEF Parted
<1> QED
  BY <1>4, <1>11 DEF h, n

\* The weight of a group is the sum of its buckets' sizes.
LEMMA WeightIs ==
  ASSUME NEW s, NEW size
  PROVE  Mea!Weight(s, size) = Total(size, Mea!ToSet(s))
<1>1. Mea!Weight(s, size) = Iter(size, Mea!ToSet(s))[Mea!ToSet(s)]
  BY DEF Mea!Weight, Mea!MapThenSumSet, Mea!MapThenFoldSet, Iter, Sums, Step, First
<1> QED
  BY <1>1, TotalIsIter

\* A group of buckets weighs some natural number.
LEMMA WeightNat ==
  ASSUME NEW F, IsFiniteSet(F), NEW s \in Seq(F), NEW size, \A b \in F : size[b] \in Nat
  PROVE  /\ Mea!ToSet(s) \subseteq F /\ IsFiniteSet(Mea!ToSet(s)) /\ Mea!Weight(s, size) \in Nat
<1>1. Mea!ToSet(s) \in SUBSET F
  BY Entry DEF Mea!ToSet
<1>2. IsFiniteSet(Mea!ToSet(s)) /\ \A b \in Mea!ToSet(s) : size[b] \in Nat
  BY <1>1, FS_Subset
<1>3. Total(size, Mea!ToSet(s)) \in Nat
  BY <1>2, TotalNat
<1> QED
  BY <1>1, <1>2, <1>3, WeightIs

\* The first of the lightest places.
Lightest(P, w) == {i \in P : \A j \in P : w[i] <= w[j]}

\* It is one of them, and none is lighter.
LEMMA LightestIs ==
  ASSUME NEW P, P \subseteq Nat, P # {}, NEW w, \A i \in P : w[i] \in Nat
  PROVE  Mea!Min(Lightest(P, w)) \in P /\ \A j \in P : w[Mea!Min(Lightest(P, w))] <= w[j]
<1> DEFINE L == Lightest(P, w)
           V == {w[i] : i \in P}
<1>1. PICK v \in V : \A u \in V : v <= u
  <2>1. V \subseteq Nat /\ V # {}
    OBVIOUS
  <2> HIDE DEF V
  <2> QED
    BY <2>1, LeastNat
<1>2. L # {} /\ L \subseteq Nat
  <2>1. PICK i \in P : w[i] = v
    OBVIOUS
  <2>2. \A j \in P : w[j] \in V
    OBVIOUS
  <2>3. i \in L
    BY <1>1, <2>1, <2>2 DEF Lightest
  <2> QED
    BY <2>3 DEF Lightest
<1>3. Mea!Min(L) \in L
  <2> HIDE DEF L
  <2> QED
    BY <1>2, LeastNat DEF Mea!Min
<1> QED
  BY <1>3 DEF Lightest

\* Nothing is left to merge: one group, or only large enough ones.
Done(g, size) == Len(g) < 2 \/ \A k \in DOMAIN g : Mea!Weight(g[k], size) >= Few

\* A step merges two groups unless it is done.
LEMMA StepMerges ==
  ASSUME Few \in Nat, NEW F, IsFiniteSet(F), NEW size, \A b \in F : size[b] \in Nat, NEW g, Parted(g, F)
  PROVE  /\ Parted(Mea!MergeStep(g, size), F)
         /\ \/ Done(g, size) /\ Mea!MergeStep(g, size) = g
            \/ ~Done(g, size) /\ Len(Mea!MergeStep(g, size)) = Len(g) - 1
<1> DEFINE n == Len(g)
           w == [i \in 1..n |-> Mea!Weight(g[i], size)]
           s == Mea!Min(Lightest(1..n, w))
           P == {s - 1, s + 1} \cap 1..n
           q == Mea!Min(Lightest(P, w))
           m == Mea!Min({s, q})
<1>1. DOMAIN g = 1..n /\ n \in Nat /\ g \in Seq(Seq(F))
  BY LenProperties DEF Parted
<1>2. \A i \in 1..n : w[i] \in Nat
  BY <1>1, ElementOfSeq, WeightNat
<1>3. Mea!MergeStep(g, size) = IF n < 2 \/ Mea!Weight(g[s], size) >= Few THEN g ELSE Joined(g, m)
  <2>1. \A Q \in SUBSET (1..n) :
          {i \in Q : \A j \in Q : Mea!Weight(g[i], size) <= Mea!Weight(g[j], size)} = Lightest(Q, w)
    BY DEF Lightest
  <2>2. {i \in DOMAIN g : \A j \in DOMAIN g : Mea!Weight(g[i], size) <= Mea!Weight(g[j], size)} = Lightest(1..n, w)
    BY <1>1, <2>1
  <2>3. {i \in {s - 1, s + 1} \cap DOMAIN g :
           \A j \in {s - 1, s + 1} \cap DOMAIN g : Mea!Weight(g[i], size) <= Mea!Weight(g[j], size)} = Lightest(P, w)
    BY <1>1, <2>1
  <2> HIDE DEF w
  <2> QED
    BY <2>2, <2>3, Zenon DEF Mea!MergeStep, Joined
<1>4. CASE n < 2
  BY <1>3, <1>4 DEF Done
<1>5. CASE ~(n < 2)
  <2>1. 1..n \subseteq Nat /\ 1..n # {}
    <3> HIDE DEF n
    <3>1. 1 \in 1..n
      BY <1>1, <1>5
    <3>2. \A i \in 1..n : i \in Nat
      BY <1>1
    <3> QED
      BY <3>1, <3>2, Zenon
  <2>2. s \in 1..n /\ \A j \in 1..n : w[s] <= w[j]
    <3> HIDE DEF w, n
    <3> QED
      BY <1>2, <2>1, LightestIs
  <2> HIDE DEF s
  <2>3. w[s] = Mea!Weight(g[s], size) /\ \A j \in 1..n : w[j] = Mea!Weight(g[j], size)
    BY <2>2
  <2>4. CASE w[s] >= Few
    <3>1. \A j \in 1..n : w[j] >= Few
      <4> HIDE DEF w, n
      <4> QED
        BY <1>2, <2>2, <2>4
    <3>2. Done(g, size)
      BY <1>1, <2>3, <3>1 DEF Done
    <3> QED
      BY <1>3, <2>3, <2>4, <3>2
  <2>5. CASE ~(w[s] >= Few)
    <3>1. ~Done(g, size)
      BY <1>1, <1>5, <2>2, <2>3, <2>5 DEF Done
    <3>2. Mea!MergeStep(g, size) = Joined(g, m)
      BY <1>3, <1>5, <2>3, <2>5
    <3>3. q \in P
      <4>1. P \subseteq Nat /\ P # {} /\ \A i \in P : w[i] \in Nat
        <5> HIDE DEF w, n
        <5>1. s - 1 \in 1..n \/ s + 1 \in 1..n
          BY <1>1, <1>5, <2>2
        <5> QED
          BY <1>1, <1>2, <5>1
      <4> HIDE DEF w, P
      <4> QED
        BY <4>1, LightestIs
    <3> HIDE DEF q
    <3>4. m \in {s, q} /\ m <= s /\ m <= q
      <4> DEFINE T == {s, q}
      <4>1. T \subseteq Nat /\ T # {}
        BY <1>1, <2>2, <3>3
      <4>2. \E x \in T : \A y \in T : x <= y
        <5> HIDE DEF T
        <5> QED
          BY <4>1, LeastNat
      <4> QED
        BY <4>2 DEF Mea!Min
    <3> HIDE DEF m
    <3>5. m \in 1..n - 1
      <4> HIDE DEF n
      <4> QED
        BY <1>1, <1>5, <2>2, <3>3, <3>4
    <3>6. Parted(Joined(g, m), F) /\ Len(Joined(g, m)) = Len(g) - 1
      BY <3>5, JoinKeeps
    <3> QED
      BY <3>1, <3>2, <3>6
  <2> QED
    BY <2>4, <2>5
<1> QED
  BY <1>4, <1>5

\* Merging ends, and where it does every group is large enough, or it is alone.
LEMMA MergeEnds ==
  ASSUME Few \in Nat, NEW F, IsFiniteSet(F), NEW size, \A b \in F : size[b] \in Nat, NEW g, Parted(g, F)
  PROVE  Parted(Mea!MergeSmall(g, size), F) /\ Done(Mea!MergeSmall(g, size), size)
<1> DEFINE n == Len(g)
           D == 1..n
           All == {y \in Seq(Seq(F)) : Parted(y, F)}
           pick == [u \in SUBSET D |-> Mea!Max(u)]
           In == [u \in SUBSET D |-> {y \in All : Done(y, size) \/ Len(y) + Cardinality(u) <= n}]
           step == [p \in All \X D |-> Mea!MergeStep(p[1], size)]
           Merged(z, u) == IF u = {} THEN g ELSE Mea!MergeStep(z[u \ {Mea!Max(u)}], size)
           Direct(z) == z = [u \in SUBSET D |-> Merged(z, u)]
<1>1. DOMAIN g = D /\ n \in Nat /\ g \in All
  BY LenProperties DEF Parted
<1>2. IsFiniteSet(D) /\ Cardinality(D) = n
  <2> HIDE DEF n
  <2>1. n \in Int /\ 1 \in Int
    BY <1>1
  <2>2. IsFiniteSet(1..n) /\ Cardinality(1..n) = IF 1 > n THEN 0 ELSE n - 1 + 1
    BY <2>1, FS_Interval
  <2> QED
    BY <1>1, <2>2
<1>3. \A u \in SUBSET D : u # {} => pick[u] \in u
  <2> TAKE u \in SUBSET D
  <2> HAVE u # {}
  <2>1. IsFiniteSet(u) /\ \A x \in u : x \in Int
    <3>1. \A x \in D : x \in Int
      BY <1>1
    <3> HIDE DEF D
    <3> QED
      BY <1>2, <3>1, FS_Subset
  <2>2. \E x \in u : \A y \in u : x >= y
    BY <2>1, GreatestInt
  <2> QED
    BY <2>2 DEF Mea!Max
<1>4. g \in In[{}]
  <2>1. Cardinality({}) = 0 /\ {} \in SUBSET D
    BY FS_EmptySet
  <2> HIDE DEF All, D
  <2> QED
    BY <1>1, <2>1
<1>5. ASSUME NEW u \in SUBSET D, u # {}, NEW y \in In[u \ {pick[u]}]
      PROVE  y \in All /\ Mea!MergeStep(y, size) \in In[u]
  <2>1. pick[u] \in u /\ u \ {pick[u]} \in SUBSET D
    BY <1>3, <1>5
  <2>2. IsFiniteSet(u) /\ Cardinality(u \ {pick[u]}) = Cardinality(u) - 1 /\ Cardinality(u) \in Nat
    BY <1>2, <2>1, FS_Subset, FS_RemoveElement, FS_CardinalityType
  <2> DEFINE h == Mea!MergeStep(y, size)
  <2>3. y \in All /\ (Done(y, size) \/ Len(y) + (Cardinality(u) - 1) <= n)
    BY <2>1, <2>2
  <2>4. /\ Parted(h, F)
        /\ \/ Done(y, size) /\ h = y
           \/ ~Done(y, size) /\ Len(h) = Len(y) - 1
    BY <2>3, StepMerges
  <2>5. h \in All /\ Len(y) \in Nat
    BY <2>3, <2>4, LenProperties DEF Parted
  <2> HIDE DEF h, All, D, pick
  <2>6. Done(h, size) \/ Len(h) + Cardinality(u) <= n
    BY <1>1, <2>2, <2>3, <2>4, <2>5
  <2> QED
    BY <2>3, <2>5, <2>6 DEF h
<1>6. \E z : Direct(z)
  <2>1. \A u \in SUBSET D : \A y \in In[u \ {pick[u]}] : u # {} => step[<<y, pick[u]>>] \in In[u]
    <3> TAKE u \in SUBSET D
    <3> TAKE y \in In[u \ {pick[u]}]
    <3> HAVE u # {}
    <3>1. y \in All /\ Mea!MergeStep(y, size) \in In[u] /\ pick[u] \in D
      BY <1>3, <1>5
    <3> HIDE DEF All, In, pick, D
    <3> QED
      BY <3>1
  <2>2. PICK z : Folds(z, g, step, pick, D) /\ \A u \in SUBSET D : z[u] \in In[u]
    <3> HIDE DEF step, pick, D, In
    <3> QED
      BY <1>2, <1>3, <1>4, <2>1, FoldLands
  <2>3. ASSUME NEW u \in SUBSET D PROVE FoldStep(z, g, step, pick, u) = Merged(z, u)
    <3>1. CASE u = {}
      BY <3>1 DEF FoldStep
    <3>2. CASE u # {}
      <4>1. u \ {pick[u]} \in SUBSET D /\ pick[u] \in D /\ pick[u] = Mea!Max(u)
        BY <1>3, <3>2
      <4>2. z[u \ {pick[u]}] \in In[u \ {pick[u]}]
        BY <2>2, <4>1
      <4>3. z[u \ {pick[u]}] \in All
        BY <1>5, <3>2, <4>2
      <4> HIDE DEF All, D, pick, In
      <4>4. step[<<z[u \ {pick[u]}], pick[u]>>] = Mea!MergeStep(z[u \ {pick[u]}], size)
        BY <4>1, <4>3
      <4> HIDE DEF step
      <4> QED
        BY <3>2, <4>1, <4>4 DEF FoldStep
    <3> QED
      BY <3>1, <3>2
  <2> HIDE DEF step, pick, D, In, Merged
  <2>4. Direct(z)
    BY <2>2, <2>3 DEF Folds
  <2> QED
    BY <2>4
<1> DEFINE z == CHOOSE z : Direct(z)
<1>7. Direct(z)
  <2> HIDE DEF Direct
  <2> QED
    BY <1>6
<1>8. Mea!MergeSmall(g, size) = z[D]
  BY <1>1, Zenon DEF Mea!MergeSmall, Mea!FoldLeft, Mea!MapThenFoldSet
<1> HIDE DEF z
<1>9. z[D] \in In[D]
  <2>1. z[{}] \in In[{}]
    BY <1>4, <1>7
  <2>2. \A u \in SUBSET D : u # {} /\ z[u \ {pick[u]}] \in In[u \ {pick[u]}] => z[u] \in In[u]
    <3> TAKE u \in SUBSET D
    <3> HAVE u # {} /\ z[u \ {pick[u]}] \in In[u \ {pick[u]}]
    <3>1. Mea!MergeStep(z[u \ {pick[u]}], size) \in In[u]
      BY <1>5
    <3>2. z[u] = Mea!MergeStep(z[u \ {Mea!Max(u)}], size) /\ pick[u] = Mea!Max(u)
      BY <1>7
    <3> HIDE DEF In, pick, D
    <3> QED
      BY <3>1, <3>2
  <2> HIDE DEF In, pick, Direct
  <2>3. \A u \in SUBSET D : z[u] \in In[u]
    <3> HIDE DEF D
    <3> QED
      BY <1>2, <1>3, <2>1, <2>2, FoldKeeps
  <2> QED
    BY <2>3
<1> HIDE DEF D, pick, Direct, step
<1>10. z[D] \in All /\ (Done(z[D], size) \/ Len(z[D]) + n <= n)
  BY <1>2, <1>9
<1>11. Len(z[D]) \in Nat
  BY <1>10, LenProperties
<1>12. Done(z[D], size)
  BY <1>1, <1>10, <1>11 DEF Done
<1> QED
  BY <1>8, <1>10, <1>12

-----------------------------------------------------------------------------
\* The buckets before the start, each of them once.
LEMMA BucketsOnce ==
  /\ Mea!Buckets = <<"same_day", "1-3", "4-7", "8-14", "15+">> /\ DOMAIN Mea!Buckets = 1..5
  /\ Mea!ToSet(Mea!Buckets) = {"same_day", "1-3", "4-7", "8-14", "15+"}
  /\ \A j, k \in 1..5 : Mea!Buckets[j] = Mea!Buckets[k] => j = k
  BY DEF Mea!Buckets, Mea!ToSet

\* Everyone of the audience has a bucket; the one after the start is of those
\* who registered after it.
LEMMA BucketIs ==
  ASSUME NEW f \in Facts, NEW i \in Mea!Audience(f)
  PROVE  /\ Mea!BucketOf(f, i) \in Mea!ToSet(Mea!Buckets) \cup {"after_start"}
         /\ Mea!BucketOf(f, i) = "after_start" <=> f.people[i].lead < 0
<1>1. f.people[i].lead \in Int
  <2>1. f.people \in Seq(Registrant) /\ i \in DOMAIN f.people
    BY AudienceFinite DEF Facts
  <2>2. f.people[i] \in Registrant
    BY <2>1, Entry
  <2> QED
    BY <2>2 DEF Registrant
<1>2. CASE f.people[i].lead < 0
  BY <1>2 DEF Mea!BucketOf, Mea!LeadBucket
<1>3. CASE ~(f.people[i].lead < 0)
  <2>1. Mea!BucketOf(f, i) \in {"same_day", "1-3", "4-7", "8-14", "15+"}
    BY <1>3 DEF Mea!BucketOf, Mea!LeadBucket
  <2> QED
    BY <1>3, <2>1, BucketsOnce
<1> QED
  BY <1>2, <1>3

\* The size of a bucket is the number of its people, and is above 0 if it has any.
LEMMA SizesAre ==
  ASSUME NEW f \in Facts, NEW b \in Mea!ToSet(Mea!Buckets) \cup {"after_start"}
  PROVE  /\ Mea!LeadSizes(f)[b] = Cardinality({i \in Mea!Audience(f) : Mea!BucketOf(f, i) = b})
         /\ Mea!LeadSizes(f)[b] \in Nat
         /\ Mea!LeadSizes(f)[b] > 0 <=> \E i \in Mea!Audience(f) : Mea!BucketOf(f, i) = b
<1> DEFINE S == {i \in Mea!Audience(f) : Mea!BucketOf(f, i) = b}
<1>1. S \in SUBSET Mea!Audience(f)
  OBVIOUS
<1>2. IsFiniteSet(S)
  BY <1>1, AudienceFinite, FS_Subset
<1>3. Mea!LeadSizes(f)[b] = Cardinality(S)
  BY CardinalityOfMeasures DEF Mea!LeadSizes
<1>4. Cardinality(S) \in Nat /\ (Cardinality(S) = 0 <=> S = {})
  <2> HIDE DEF S
  <2> QED
    BY <1>2, FS_CardinalityType, FS_EmptySet
<1>5. Cardinality(S) > 0 <=> S # {}
  <2> HIDE DEF S
  <2> QED
    BY <1>4
<1>6. S # {} <=> \E i \in Mea!Audience(f) : Mea!BucketOf(f, i) = b
  OBVIOUS
<1> HIDE DEF S
<1>7. Mea!LeadSizes(f)[b] \in Nat /\ (Mea!LeadSizes(f)[b] > 0 <=> \E i \in Mea!Audience(f) : Mea!BucketOf(f, i) = b)
  BY <1>3, <1>4, <1>5, <1>6
<1> QED
  BY <1>3, <1>7 DEF S

\* The buckets before the start that have people.
FilledOf(f) == {b \in Mea!ToSet(Mea!Buckets) : Mea!LeadSizes(f)[b] > 0}

\* Each of them is a group of its own where the merge begins.
LEMMA FilledParted ==
  ASSUME NEW f \in Facts
  PROVE  Parted(Mea!Filled(f), FilledOf(f))
<1> DEFINE P == {k \in DOMAIN Mea!Buckets : Mea!LeadSizes(f)[Mea!Buckets[k]] > 0}
           n == Cardinality(P)
           o == Mea!InOrder(P, <)
           F == FilledOf(f)
           g == Mea!Filled(f)
<1>1. P \in SUBSET (1..5) /\ \A k \in P : k \in Nat
  BY BucketsOnce
<1>2. IsFiniteSet(P) /\ n \in Nat
  <2>1. IsFiniteSet(1..5)
    <3>1. 1 \in Int /\ 5 \in Int
      OBVIOUS
    <3> QED
      BY <3>1, FS_Interval, Zenon
  <2> HIDE DEF P
  <2> QED
    BY <1>1, <2>1, FS_Subset, FS_CardinalityType
<1>3. o = Rst!InOrder(P, <)
  <2> HIDE DEF P
  <2> QED
    BY Zenon DEF Mea!InOrder, Rst!InOrder, Mea!Cardinality, Rst!Cardinality
<1>4. o \in Bijection(1..n, P)
  <2> HIDE DEF P, o
  <2>1. Strict(P, Less(P)) /\ Ranked(P, Less(P), o)
    BY <1>1, <1>2, <1>3, InOrderRanks
  <2> QED
    BY <1>2, <2>1, RankedOnce
<1>5. g = [k \in 1..n |-> <<Mea!Buckets[o[k]]>>]
  BY CardinalityOfMeasures DEF Mea!Filled
<1> HIDE DEF o, n
<1>6. \A k \in 1..n : o[k] \in P
  BY <1>4 DEF Bijection, Injection
<1>7. \A k \in P : Mea!Buckets[k] \in F
  BY BucketsOnce DEF FilledOf, Mea!ToSet
<1>8. \A b \in F : \E k \in 1..n : Mea!Buckets[o[k]] = b
  <2> TAKE b \in F
  <2>1. PICK k \in P : Mea!Buckets[k] = b
    BY DEF FilledOf, Mea!ToSet
  <2>2. \E l \in 1..n : o[l] = k
    BY <1>4 DEF Bijection, Surjection
  <2> QED
    BY <2>1, <2>2
<1>9. \A j, k \in 1..n : Mea!Buckets[o[j]] = Mea!Buckets[o[k]] => j = k
  <2>1. \A j, k \in 1..n : o[j] = o[k] => j = k
    BY <1>4 DEF Bijection, Injection, IsInjective
  <2>2. \A k \in 1..n : o[k] \in 1..5
    BY <1>1, <1>6
  <2> QED
    BY <2>1, <2>2, BucketsOnce
<1> HIDE DEF P, F, g
<1>10. DOMAIN g = 1..n /\ \A k \in 1..n : g[k] \in Seq(F) /\ Mea!ToSet(g[k]) = {Mea!Buckets[o[k]]}
  <2>1. DOMAIN g = 1..n
    BY <1>5
  <2>2. ASSUME NEW k \in 1..n PROVE g[k] \in Seq(F) /\ Mea!ToSet(g[k]) = {Mea!Buckets[o[k]]}
    <3>1. Mea!Buckets[o[k]] \in F
      BY <1>6, <1>7
    <3> DEFINE x == Mea!Buckets[o[k]]
    <3>2. g[k] = <<x>>
      BY <1>5
    <3> HIDE DEF x
    <3>3. <<x>> \in Seq(F) /\ Mea!ToSet(<<x>>) = {x}
      BY <3>1 DEF Mea!ToSet, x
    <3> QED
      BY <3>2, <3>3 DEF x
  <2> QED
    BY <2>1, <2>2
<1>11. g \in Seq(Seq(F))
  <2> DEFINE T == Seq(F)
  <2>1. \A k \in 1..n : g[k] \in T
    BY <1>10
  <2>2. \E e : g = [k \in 1..n |-> e[k]]
    <3>1. g = [k \in 1..n |-> g[k]]
      BY <1>5
    <3> QED
      BY <3>1
  <2> HIDE DEF T
  <2>3. g \in [1..n -> T]
    BY <1>5, <1>10, <2>1, <2>2
  <2>4. g \in Seq(T)
    BY <1>2, <2>3 DEF n
  <2> QED
    BY <2>4 DEF T
<1>12. \A b \in F : \E k \in DOMAIN g : b \in Mea!ToSet(g[k])
  BY <1>8, <1>10
<1>13. \A j, k \in DOMAIN g : j # k => Mea!ToSet(g[j]) \cap Mea!ToSet(g[k]) = {}
  BY <1>9, <1>10
<1>14. Parted(g, F)
  BY <1>11, <1>12, <1>13 DEF Parted
<1> QED
  BY <1>14 DEF g, F

\* The people of some buckets are as many as the sizes of those say.
LEMMA WeightCounts ==
  ASSUME NEW f \in Facts, NEW T, T \subseteq Mea!ToSet(Mea!Buckets)
  PROVE  Total(Mea!LeadSizes(f), T) = Cardinality({i \in Mea!Audience(f) : Mea!BucketOf(f, i) \in T})
<1> DEFINE S == {i \in Mea!Audience(f) : Mea!BucketOf(f, i) \in T}
           one == [i \in S |-> 1]
           g == [i \in S |-> Mea!BucketOf(f, i)]
           c == Mea!LeadSizes(f)
<1>1. IsFiniteSet(S)
  <2>1. S \in SUBSET Mea!Audience(f)
    OBVIOUS
  <2> HIDE DEF S
  <2> QED
    BY <2>1, AudienceFinite, FS_Subset
<1>2. IsFiniteSet(T)
  <2>1. IsFiniteSet(Mea!ToSet(Mea!Buckets))
    <3> DEFINE b == Mea!Buckets
    <3>1. DOMAIN b = 1..5
      BY BucketsOnce
    <3>2. IsFiniteSet(1..5)
      <4>1. 1 \in Int /\ 5 \in Int
        OBVIOUS
      <4> QED
        BY <4>1, FS_Interval, Zenon
    <3> HIDE DEF b
    <3>3. IsFiniteSet({b[x] : x \in 1..5})
      BY <3>2, ImageFinite
    <3> QED
      BY <3>1, <3>3 DEF b, Mea!ToSet
  <2> QED
    BY <2>1, FS_Subset
<1>3. \A i \in S : one[i] \in Nat /\ g[i] \in T
  OBVIOUS
<1>4. ASSUME NEW b \in T PROVE c[b] = Total(one, PutAt(S, g, b))
  <2> DEFINE A == PutAt(S, g, b)
  <2>1. A = {i \in Mea!Audience(f) : Mea!BucketOf(f, i) = b} /\ A \in SUBSET S
    BY DEF PutAt
  <2>2. IsFiniteSet(A) /\ \A i \in A : one[i] = 1
    <3> HIDE DEF S, A
    <3> QED
      BY <1>1, <2>1, FS_Subset
  <2>3. c[b] = Cardinality(A)
    BY <2>1, SizesAre
  <2> HIDE DEF A, one, c
  <2>4. Total(one, A) = Cardinality(A)
    BY <2>2, TotalOnes
  <2> QED
    BY <2>3, <2>4 DEF A
<1>5. Total(one, S) = Cardinality(S)
  <2>1. \A i \in S : one[i] = 1
    OBVIOUS
  <2> HIDE DEF S, one
  <2> QED
    BY <1>1, <2>1, TotalOnes
<1> HIDE DEF S, one, g, c
<1>6. Total(c, T) = Total(one, S)
  BY <1>1, <1>2, <1>3, <1>4, TotalByPart
<1> QED
  BY <1>5, <1>6 DEF c, S

\* Everyone is in one row of the lead times, and where there are two rows of
\* people who registered in time each has enough of them.
LEMMA LeadsCountAll ==
  ASSUME Few \in Nat, NEW f \in Facts
  PROVE  Mea!LeadsAddUp(f)
<1> DEFINE F == FilledOf(f)
           B == Mea!ToSet(Mea!Buckets)
           size == Mea!LeadSizes(f)
           g == Mea!MergeSmall(Mea!Filled(f), size)
           n == Len(g)
           late == size["after_start"] > 0
           tail == IF late THEN <<<<"after_start">>>> ELSE << >>
           of(i) == Mea!BucketOf(f, i)
           A == Mea!Audience(f)
           rows == Mea!LeadRows(f)
           e == IF late THEN 1 ELSE 0
<1>1. F \in SUBSET B /\ "after_start" \notin B /\ IsFiniteSet(F) /\ \A b \in F : size[b] \in Nat
  <2>1. F \in SUBSET B /\ "after_start" \notin B /\ B = {"same_day", "1-3", "4-7", "8-14", "15+"}
    BY BucketsOnce DEF FilledOf
  <2>2. IsFiniteSet({"same_day", "1-3", "4-7", "8-14", "15+"})
    <3> DEFINE b == Mea!Buckets
    <3>1. DOMAIN b = 1..5
      BY BucketsOnce
    <3>2. IsFiniteSet(1..5)
      <4>1. 1 \in Int /\ 5 \in Int
        OBVIOUS
      <4> QED
        BY <4>1, FS_Interval, Zenon
    <3> HIDE DEF b
    <3>3. IsFiniteSet({b[x] : x \in 1..5})
      BY <3>2, ImageFinite
    <3>4. IsFiniteSet(Mea!ToSet(b))
      BY <3>1, <3>3 DEF Mea!ToSet
    <3> QED
      BY <3>4, BucketsOnce, Zenon DEF b
  <2>3. IsFiniteSet(F)
    <3> HIDE DEF F, B
    <3> QED
      BY <2>1, <2>2, FS_Subset
  <2> QED
    BY <2>1, <2>3, SizesAre
<1>2. Parted(g, F) /\ Done(g, size)
  <2>1. Parted(Mea!Filled(f), F)
    BY FilledParted
  <2> HIDE DEF F, size
  <2> QED
    BY <1>1, <2>1, MergeEnds
<1>3. g \in Seq(Seq(F)) /\ DOMAIN g = 1..n /\ n \in Nat
  BY <1>2, LenProperties DEF Parted
<1>4. \A i \in A : /\ of(i) \in F \cup {"after_start"}
                   /\ of(i) = "after_start" <=> f.people[i].lead < 0
                   /\ of(i) = "after_start" => late
  <2> TAKE i \in A
  <2>1. of(i) \in B \cup {"after_start"} /\ (of(i) = "after_start" <=> f.people[i].lead < 0)
    BY BucketIs
  <2>2. of(i) \in B => of(i) \in F
    BY SizesAre DEF FilledOf
  <2>3. of(i) = "after_start" => late
    BY SizesAre
  <2> QED
    BY <2>1, <2>2, <2>3
<1>5. late <=> \E i \in A : f.people[i].lead < 0
  <2>1. late <=> \E i \in A : of(i) = "after_start"
    BY SizesAre
  <2> QED
    BY <1>4, <2>1
<1> DEFINE h == Mea!LeadGroups(f)
<1>6. /\ DOMAIN h = 1..n + e /\ Len(h) = n + e
      /\ \A k \in 1..n : Mea!ToSet(h[k]) = Mea!ToSet(g[k])
      /\ late => Mea!ToSet(h[n + 1]) = {"after_start"}
  <2> DEFINE T == Seq(F \cup {"after_start"})
  <2>1. h = g \o tail
    BY DEF Mea!LeadGroups
  <2>2. g \in Seq(T)
    <3>1. \A k \in 1..n : g[k] \in T
      BY <1>3, ElementOfSeq
    <3> QED
      BY <1>3, <3>1
  <2>3. tail \in Seq(T) /\ Len(tail) = e /\ (late => tail[1] = <<"after_start">>)
    <3>1. CASE late
      <4> DEFINE x == <<"after_start">>
      <4>1. x \in T
        OBVIOUS
      <4>2. tail = <<x>> /\ e = 1
        BY <3>1
      <4> HIDE DEF x, T, tail
      <4>3. <<x>> \in Seq(T) /\ Len(<<x>>) = 1 /\ <<x>>[1] = x
        BY <4>1
      <4> QED
        BY <4>2, <4>3 DEF x
    <3>2. CASE ~late
      BY <3>2
    <3> QED
      BY <3>1, <3>2
  <2> HIDE DEF T, tail, g, h
  <2>4. /\ h \in Seq(T) /\ Len(h) = n + Len(tail)
        /\ \A k \in 1..n + Len(tail) : h[k] = IF k <= n THEN g[k] ELSE tail[k - n]
    BY <2>1, <2>2, <2>3, ConcatProperties
  <2>5. e \in Nat /\ (late => e = 1)
    OBVIOUS
  <2> HIDE DEF e, late, n
  <2>6. DOMAIN h = 1..n + e /\ Len(h) = n + e
    BY <2>3, <2>4, LenProperties
  <2>7. \A k \in 1..n : h[k] = g[k]
    BY <1>3, <2>3, <2>4, <2>5
  <2>8. late => h[n + 1] = <<"after_start">>
    <3> SUFFICES ASSUME late PROVE h[n + 1] = <<"after_start">>
      OBVIOUS
    <3>1. n + 1 \in 1..n + e /\ ~(n + 1 <= n) /\ (n + 1) - n = 1
      BY <1>3, <2>5
    <3>2. h[n + 1] = tail[1]
      BY <2>3, <2>4, <3>1
    <3> QED
      BY <2>3, <3>2
  <2>9. Mea!ToSet(<<"after_start">>) = {"after_start"}
    BY DEF Mea!ToSet
  <2> QED
    BY <2>6, <2>7, <2>8, <2>9
<1>7. /\ DOMAIN rows = 1..n + e /\ Len(rows) = n + e
      /\ \A k \in 1..n + e : rows[k] = {i \in A : of(i) \in Mea!ToSet(h[k])}
  <2>1. rows = [k \in DOMAIN h |-> {i \in A : of(i) \in Mea!ToSet(h[k])}]
    BY DEF Mea!LeadRows
  <2>2. n + e \in Nat
    BY <1>3
  <2> HIDE DEF h, rows, n, e, of, A
  <2>3. rows = [k \in 1..n + e |-> {i \in A : of(i) \in Mea!ToSet(h[k])}]
    BY <1>6, <2>1
  <2>4. \A k \in 1..n + e : rows[k] \in SUBSET A
    BY <2>3
  <2>5. rows \in [1..n + e -> SUBSET A]
    BY <2>3, <2>4
  <2>6. Len(rows) = n + e
    BY <2>2, <2>5
  <2> QED
    BY <2>3, <2>6
<1> HIDE DEF h, rows
<1>8. \A i \in A : \E k \in 1..n + e : {l \in DOMAIN rows : i \in rows[l]} = {k}
  <2> TAKE i \in A
  <2>1. \A k \in 1..n : k \in 1..n + e /\ Mea!ToSet(h[k]) = Mea!ToSet(g[k]) /\ Mea!ToSet(g[k]) \subseteq F
    <3> TAKE k \in 1..n
    <3>1. k \in 1..n + e
      BY <1>3
    <3>2. Mea!ToSet(g[k]) \subseteq F
      <4>1. g[k] \in Seq(F)
        BY <1>3, ElementOfSeq
      <4> HIDE DEF F, g
      <4> QED
        BY <4>1, Entry DEF Mea!ToSet
    <3> QED
      BY <1>6, <3>1, <3>2
  <2>2. \A k \in 1..n + e : k \in 1..n \/ (late /\ k = n + 1)
    BY <1>3
  <2>3. late => n + 1 \in 1..n + e /\ n + 1 \notin 1..n
    BY <1>3
  <2> HIDE DEF n, e, late, g, size, tail
  <2>4. CASE of(i) = "after_start"
    <3>1. late /\ of(i) \notin F
      BY <1>1, <1>4, <2>4
    <3> HIDE DEF F, B, of
    <3>2. \A k \in 1..n : i \notin rows[k]
      BY <1>7, <2>1, <3>1
    <3>3. i \in rows[n + 1]
      BY <1>6, <1>7, <2>3, <2>4, <3>1
    <3>4. {l \in DOMAIN rows : i \in rows[l]} = {n + 1}
      BY <1>7, <2>2, <2>3, <3>1, <3>2, <3>3
    <3> QED
      BY <2>3, <3>1, <3>4
  <2>5. CASE of(i) # "after_start"
    <3>1. of(i) \in F
      BY <1>4, <2>5
    <3> HIDE DEF F, B, of
    <3>2. PICK k \in 1..n : of(i) \in Mea!ToSet(g[k])
      BY <1>2, <1>3, <3>1 DEF Parted
    <3>3. \A l \in 1..n : of(i) \in Mea!ToSet(g[l]) => l = k
      BY <1>2, <1>3, <3>2 DEF Parted
    <3>4. \A l \in 1..n : i \in rows[l] <=> l = k
      BY <1>7, <2>1, <3>2, <3>3
    <3>5. late => i \notin rows[n + 1]
      BY <1>6, <1>7, <2>3, <2>5
    <3>6. {l \in DOMAIN rows : i \in rows[l]} = {k}
      BY <1>7, <2>1, <2>2, <3>4, <3>5
    <3> QED
      BY <2>1, <3>6
  <2> QED
    BY <2>4, <2>5
<1>9. \A i \in A : Mea!Cardinality({k \in DOMAIN rows : i \in rows[k]}) = 1
  BY <1>8, CardinalityOfMeasures, FS_Singleton
<1>10. ASSUME NEW k \in 1..n, n > 1 PROVE Mea!Cardinality(rows[k]) >= Few
  <2> DEFINE T == Mea!ToSet(g[k])
  <2>1. Mea!Weight(g[k], size) >= Few
    BY <1>2, <1>3, <1>10 DEF Done
  <2>2. T \subseteq B
    <3>1. g[k] \in Seq(F)
      BY <1>3, ElementOfSeq
    <3> HIDE DEF F, g, B
    <3> QED
      BY <1>1, <3>1, Entry DEF Mea!ToSet
  <2>3. rows[k] = {i \in A : of(i) \in T}
    <3>1. k \in 1..n + e
      BY <1>3
    <3> HIDE DEF n, e, g, A, of
    <3> QED
      BY <1>6, <1>7, <3>1
  <2> HIDE DEF T
  <2>4. Total(size, T) = Cardinality(rows[k])
    BY <2>2, <2>3, WeightCounts
  <2> QED
    BY <2>1, <2>4, WeightIs, CardinalityOfMeasures, Zenon DEF T
<1>11. Len(rows) - (IF \E i \in A : f.people[i].lead < 0 THEN 1 ELSE 0) = n
  BY <1>3, <1>5, <1>7
<1> HIDE DEF n
<1> QED
  BY <1>9, <1>10, <1>11 DEF Mea!LeadsAddUp, rows

\* People are who they are in every block of a report, whatever its inputs.
THEOREM PeopleAreOne == ReportSpec => []PeopleAgree
<1>1. ReportInit => PeopleAgree
  <2> SUFFICES ASSUME ReportInit PROVE PeopleAgree
    OBVIOUS
  <2>1. case \in RoleInputs => Rst!RolesAgree(case.list, case.chat, case.questions)
    BY RolesDoAgree DEF RoleInputs
  <2>2. case \in RefInputs => Rst!RefsApart(case.ids, case.joining)
    BY RefsStayApart DEF RefInputs
  <2>3. case \in NumberInputs => Rst!IdsStable(case.items)
    BY IdsAreStable DEF NumberInputs, Item, CopiesAlike
  <2>4. case \in MeasureInputs =>
          /\ Mea!WritersHidden(case.facts, case.others) /\ Mea!GroupsAddUp(case.facts)
          /\ Mea!LeadsAddUp(case.facts)
    BY ReportAssumption, WritersStayHidden, GroupsCountAll, LeadsCountAll DEF MeasureInputs
  <2>5. /\ case \in ClockInputs => case.of = "clock"
        /\ case \in OwnerInputs => case.of = "owner"
        /\ case \in MentionInputs => case.of = "mention"
        /\ case \in RoleInputs => case.of = "roles"
        /\ case \in RefInputs => case.of = "refs"
        /\ case \in NumberInputs => case.of = "numbers"
        /\ case \in MeasureInputs => case.of = "measures"
    BY DEF ClockInputs, OwnerInputs, MentionInputs, RoleInputs, RefInputs, NumberInputs, MeasureInputs
  <2> QED
    BY <2>1, <2>2, <2>3, <2>4, <2>5 DEF ReportInit, PeopleAgree
<1>2. PeopleAgree /\ [UNCHANGED case]_case => PeopleAgree'
  <2> SUFFICES ASSUME PeopleAgree, UNCHANGED case PROVE PeopleAgree'
    OBVIOUS
  <2> QED
    BY DEF PeopleAgree
<1> QED
  BY <1>1, <1>2, PTL DEF ReportSpec

\* What happens at a moment is put where it belongs, and once, whatever happens.
THEOREM MomentsAllPlaced == ReportSpec => []MomentsPlaced
<1>1. ReportInit => MomentsPlaced
  <2> SUFFICES ASSUME ReportInit PROVE MomentsPlaced
    OBVIOUS
  <2>1. case \in ClockInputs => Clk!NothingLost(case.events, case.speech, case.base)
    BY ReportAssumption, ClockKeepsAll DEF ClockInputs, Spans, Clocks
  <2>2. case \in OwnerInputs => Trs!OwnerFound(case.word, case.utterances)
    BY ReportAssumption, WalkMissesNone DEF OwnerInputs
  <2>3. case \in MentionInputs => Ins!BestContext(case.list, case.term, case.at)
    BY ContextIsBest DEF MentionInputs
  <2>4. /\ case \in ClockInputs => case.of = "clock"
        /\ case \in OwnerInputs => case.of = "owner"
        /\ case \in MentionInputs => case.of = "mention"
        /\ case \in RoleInputs => case.of = "roles"
        /\ case \in RefInputs => case.of = "refs"
        /\ case \in NumberInputs => case.of = "numbers"
        /\ case \in MeasureInputs => case.of = "measures"
    BY DEF ClockInputs, OwnerInputs, MentionInputs, RoleInputs, RefInputs, NumberInputs, MeasureInputs
  <2> QED
    BY <2>1, <2>2, <2>3, <2>4 DEF ReportInit, MomentsPlaced
<1>2. MomentsPlaced /\ [UNCHANGED case]_case => MomentsPlaced'
  <2> SUFFICES ASSUME MomentsPlaced, UNCHANGED case PROVE MomentsPlaced'
    OBVIOUS
  <2> QED
    BY DEF MomentsPlaced
<1> QED
  BY <1>1, <1>2, PTL DEF ReportSpec
=============================================================================
