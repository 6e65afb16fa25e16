----------------------------- MODULE SumProofs -----------------------------
(***************************************************************************)
(* The laws of Total.  The induction theorems of the library take an       *)
(* operator, which the provers can't instantiate; here a law that failed   *)
(* would fail for a smallest set, and MinimalSubset is a statement about   *)
(* sets only.                                                              *)
(***************************************************************************)
EXTENDS Sums, FiniteSetTheorems, TLAPS

\* Among some subsets of a finite set, one contains none of the others.
LEMMA MinimalSubset ==
  ASSUME NEW S, IsFiniteSet(S), NEW B, B \subseteq SUBSET S, B # {}
  PROVE  \E T \in B : \A U \in B : U \subseteq T => U = T
<1>1. IsWellFoundedOn(StrictSubsetOrdering(S), FiniteSubsetsOf(S))
  BY FS_StrictSubsetOrderingWellFounded
<1>2. FiniteSubsetsOf(S) = SUBSET S
  BY FS_FiniteSubsetsOfFinite
<1>3. IsWellFoundedOn(StrictSubsetOrdering(S), SUBSET S)
  BY <1>1, <1>2
<1>4. PICK T \in B : \A U \in B : ~ (<<U, T>> \in StrictSubsetOrdering(S))
  BY <1>3, WFMin
<1>5. ASSUME NEW U \in B, U \subseteq T PROVE U = T
  BY <1>4, <1>5 DEF StrictSubsetOrdering
<1> QED
  BY <1>4, <1>5

-----------------------------------------------------------------------------
\* The function the fold is defined by.
First(s) == CHOOSE x \in s : TRUE
Step(g, f, s) == IF s = {} THEN 0 ELSE f[First(s)] + g[s \ {First(s)}]
Sums(g, f, S) == g = [s \in SUBSET S |-> Step(g, f, s)]
Iter(f, S) == CHOOSE g : Sums(g, f, S)

LEMMA TotalIsIter ==
  ASSUME NEW f, NEW S
  PROVE  Total(f, S) = Iter(f, S)[S]
  BY DEF Total, MapThenSumSet, MapThenFoldSet, Iter, Sums, Step, First

LEMMA FirstIn ==
  ASSUME NEW s, s # {}
  PROVE  First(s) \in s
  BY DEF First

\* Two such functions agree where both are defined.
LEMMA SumsAgree ==
  ASSUME NEW f, NEW S, NEW A, A \subseteq S, IsFiniteSet(S), NEW g, NEW h, Sums(g, f, S), Sums(h, f, A)
  PROVE  \A s \in SUBSET A : g[s] = h[s]
<1> SUFFICES ASSUME ~ \A s \in SUBSET A : g[s] = h[s] PROVE FALSE
  OBVIOUS
<1> DEFINE B == {s \in SUBSET A : g[s] # h[s]}
<1>1. B # {} /\ B \subseteq SUBSET S
  OBVIOUS
<1>2. PICK T \in B : \A U \in B : U \subseteq T => U = T
  <2> HIDE DEF B
  <2> QED
    BY <1>1, MinimalSubset
<1>3. g[T] = Step(g, f, T) /\ h[T] = Step(h, f, T)
  BY DEF Sums
<1>4. T # {}
  BY <1>3 DEF Step
<1>5. g[T \ {First(T)}] = h[T \ {First(T)}]
  BY <1>2, <1>4, FirstIn
<1> QED
  BY <1>3, <1>5 DEF Step

LEMMA SumsExist ==
  ASSUME NEW f, NEW S, IsFiniteSet(S)
  PROVE  Sums(Iter(f, S), f, S)
<1> DEFINE B == {T \in SUBSET S : ~ \E g : Sums(g, f, T)}
<1>1. CASE B # {}
  <2>0. B \subseteq SUBSET S
    OBVIOUS
  <2>1. PICK T \in B : \A U \in B : U \subseteq T => U = T
    <3> HIDE DEF B
    <3> QED
      BY <1>1, <2>0, MinimalSubset
  <2>2. \A U \in SUBSET T : U # T => Sums(Iter(f, U), f, U)
    BY <2>1 DEF Iter
  <2> DEFINE below(s) == IF s = T THEN Step([u \in SUBSET T |-> Iter(f, u)[u]], f, T) ELSE Iter(f, s)[s]
             g == [s \in SUBSET T |-> below(s)]
  <2>3. ASSUME NEW s \in SUBSET T PROVE g[s] = Step(g, f, s)
    <3> DEFINE r == s \ {First(s)}
    <3>1. CASE s = {}
      <4>1. CASE s = T
        BY <3>1, <4>1 DEF Step
      <4>2. CASE s # T
        <5>1. Sums(Iter(f, s), f, s)
          BY <2>2, <4>2
        <5>2. Iter(f, s)[s] = Step(Iter(f, s), f, s)
          BY <5>1 DEF Sums
        <5> QED
          BY <3>1, <4>2, <5>2 DEF Step
      <4> QED
        BY <4>1, <4>2
    <3>2. CASE s # {}
      <4>1. First(s) \in s /\ r \in SUBSET s /\ r # s
        BY <3>2, FirstIn
      <4>2. r \in SUBSET T /\ r # T
        BY <4>1
      <4>3. g[r] = Iter(f, r)[r]
        BY <4>2
      <4>4. CASE s = T
        BY <3>2, <4>3, <4>4, <4>2 DEF Step
      <4>5. CASE s # T
        <5>1. Sums(Iter(f, s), f, s) /\ Sums(Iter(f, r), f, r)
          BY <2>2, <4>2, <4>5
        <5>2. IsFiniteSet(s)
          BY FS_Subset
        <5>3. Iter(f, s)[r] = Iter(f, r)[r]
          BY <4>1, <5>1, <5>2, SumsAgree
        <5>4. Iter(f, s)[s] = Step(Iter(f, s), f, s)
          BY <5>1 DEF Sums
        <5> QED
          BY <3>2, <4>3, <4>5, <5>3, <5>4 DEF Step
      <4> QED
        BY <4>4, <4>5
    <3> QED
      BY <3>1, <3>2
  <2>4. Sums(g, f, T)
    <3> HIDE DEF below
    <3> QED
      BY <2>3 DEF Sums
  <2> QED
    BY <2>1, <2>4
<1>2. CASE B = {}
  BY <1>2 DEF Iter
<1> QED
  BY <1>1, <1>2

-----------------------------------------------------------------------------
LEMMA TotalEmpty ==
  ASSUME NEW f
  PROVE  Total(f, {}) = 0
<1>1. IsFiniteSet({})
  BY FS_EmptySet
<1>2. Sums(Iter(f, {}), f, {})
  BY <1>1, SumsExist
<1>3. Iter(f, {})[{}] = 0
  BY <1>2 DEF Sums, Step
<1> QED
  BY <1>3, TotalIsIter

LEMMA IterBelow ==
  ASSUME NEW f, NEW S, IsFiniteSet(S), NEW R, R \subseteq S
  PROVE  Iter(f, S)[R] = Iter(f, R)[R]
<1>1. IsFiniteSet(R)
  BY FS_Subset
<1>2. Sums(Iter(f, S), f, S) /\ Sums(Iter(f, R), f, R)
  BY <1>1, SumsExist
<1>3. R \in SUBSET R
  OBVIOUS
<1> QED
  BY <1>2, <1>3, SumsAgree

\* The element the fold takes first.
LEMMA TotalFirst ==
  ASSUME NEW f, NEW S, IsFiniteSet(S), S # {}
  PROVE  First(S) \in S /\ Total(f, S) = f[First(S)] + Total(f, S \ {First(S)})
<1> DEFINE r == S \ {First(S)}
<1>1. First(S) \in S
  BY FirstIn
<1>2. IsFiniteSet(r) /\ r \subseteq S
  BY FS_Subset
<1>3. Sums(Iter(f, S), f, S)
  BY SumsExist
<1>4. Iter(f, S)[r] = Iter(f, r)[r]
  BY <1>2, IterBelow
<1>5. Iter(f, S)[S] = f[First(S)] + Iter(f, S)[r]
  BY <1>3 DEF Sums, Step
<1> QED
  BY <1>1, <1>4, <1>5, TotalIsIter

\* A sum of natural numbers is one.
LEMMA TotalNat ==
  ASSUME NEW f, NEW S, IsFiniteSet(S), \A x \in S : f[x] \in Nat
  PROVE  Total(f, S) \in Nat
<1> DEFINE B == {T \in SUBSET S : Total(f, T) \notin Nat}
<1>1. CASE B # {}
  <2>1. B \subseteq SUBSET S
    OBVIOUS
  <2>2. PICK T \in B : \A U \in B : U \subseteq T => U = T
    <3> HIDE DEF B
    <3> QED
      BY <1>1, <2>1, MinimalSubset
  <2>3. T # {} /\ IsFiniteSet(T)
    <3>1. Total(f, {}) \in Nat
      BY TotalEmpty
    <3>2. T # {}
      BY <2>2, <3>1, Zenon
    <3> QED
      BY <3>2, FS_Subset
  <2>4. First(T) \in T /\ Total(f, T) = f[First(T)] + Total(f, T \ {First(T)})
    BY <2>3, TotalFirst
  <2>5. Total(f, T \ {First(T)}) \in Nat
    BY <2>2, <2>4
  <2> QED
    BY <2>2, <2>4, <2>5
<1> QED
  BY <1>1

\* Any element may be taken first.
LEMMA TotalSplit ==
  ASSUME NEW f, NEW S, IsFiniteSet(S), \A x \in S : f[x] \in Nat, NEW y \in S
  PROVE  Total(f, S) = f[y] + Total(f, S \ {y})
<1> DEFINE B == {T \in SUBSET S : \E z \in T : Total(f, T) # f[z] + Total(f, T \ {z})}
<1>1. CASE B # {}
  <2>1. B \subseteq SUBSET S
    OBVIOUS
  <2>2. PICK T \in B : \A U \in B : U \subseteq T => U = T
    <3> HIDE DEF B
    <3> QED
      BY <1>1, <2>1, MinimalSubset
  <2>3. PICK z \in T : Total(f, T) # f[z] + Total(f, T \ {z})
    BY <2>2
  <2> DEFINE x == First(T)
  <2>4. IsFiniteSet(T) /\ x \in T /\ Total(f, T) = f[x] + Total(f, T \ {x})
    BY <2>3, TotalFirst, FS_Subset
  <2> HIDE DEF x
  <2>5. x # z
    BY <2>3, <2>4
  <2>6. Total(f, T \ {x}) = f[z] + Total(f, (T \ {x}) \ {z})
    BY <2>2, <2>3, <2>4, <2>5
  <2>7. Total(f, T \ {z}) = f[x] + Total(f, (T \ {z}) \ {x})
    BY <2>2, <2>3, <2>4, <2>5
  <2>8. (T \ {x}) \ {z} = (T \ {z}) \ {x}
    OBVIOUS
  <2>9. Total(f, (T \ {z}) \ {x}) \in Nat
    <3>1. (T \ {z}) \ {x} \subseteq S
      OBVIOUS
    <3> QED
      BY <3>1, TotalNat, FS_Subset
  <2>10. f[x] \in Nat /\ f[z] \in Nat
    BY <2>3, <2>4
  <2> QED
    BY <2>3, <2>4, <2>6, <2>7, <2>8, <2>9, <2>10
<1>2. CASE B = {}
  BY <1>2
<1> QED
  BY <1>1, <1>2

\* One element of U leaves a sum over the part of U that is in T.
LEMMA TotalPart ==
  ASSUME NEW f, NEW T, NEW U, IsFiniteSet(U), \A x \in T : f[x] \in Nat, NEW y \in U
  PROVE  /\ Total(f, (U \ {y}) \cap T) \in Nat
         /\ y \in T => Total(f, U \cap T) = f[y] + Total(f, (U \ {y}) \cap T)
         /\ y \notin T => Total(f, U \cap T) = Total(f, (U \ {y}) \cap T)
<1>1. IsFiniteSet(U \cap T) /\ IsFiniteSet((U \ {y}) \cap T)
  BY FS_Subset
<1>2. Total(f, (U \ {y}) \cap T) \in Nat
  BY <1>1, TotalNat
<1>3. CASE y \in T
  <2>1. (U \cap T) \ {y} = (U \ {y}) \cap T
    OBVIOUS
  <2>2. Total(f, U \cap T) = f[y] + Total(f, (U \cap T) \ {y})
    BY <1>1, <1>3, TotalSplit
  <2> QED
    BY <1>2, <1>3, <2>1, <2>2
<1>4. CASE y \notin T
  <2>1. U \cap T = (U \ {y}) \cap T
    BY <1>4
  <2> QED
    BY <1>2, <1>4, <2>1
<1> QED
  BY <1>3, <1>4

\* A sum is at most another one that has, for every term that counts, one at
\* least as large at the same place.
LEMMA TotalCovered ==
  ASSUME NEW f, NEW T, IsFiniteSet(T), NEW g, NEW S, IsFiniteSet(S),
         \A x \in T : f[x] \in Nat, \A x \in S : g[x] \in Nat,
         \A x \in T : f[x] = 0 \/ (x \in S /\ f[x] <= g[x])
  PROVE  Total(f, T) <= Total(g, S)
<1> DEFINE W == S \cup T
           B == {U \in SUBSET W : ~(Total(f, U \cap T) <= Total(g, U \cap S))}
<1>1. CASE B # {}
  <2>1. B \subseteq SUBSET W /\ IsFiniteSet(W)
    BY FS_Union
  <2>2. PICK U \in B : \A V \in B : V \subseteq U => V = U
    <3> HIDE DEF B, W
    <3> QED
      BY <1>1, <2>1, MinimalSubset
  <2>3. U # {}
    <3>1. {} \cap T = {} /\ {} \cap S = {} /\ Total(f, {}) <= Total(g, {})
      BY TotalEmpty
    <3>2. Total(f, {} \cap T) <= Total(g, {} \cap S)
      BY <3>1, Zenon
    <3> QED
      BY <2>2, <3>2, Zenon
  <2>4. PICK y \in U : TRUE
    BY <2>3
  <2> DEFINE R == U \ {y}
  <2>5. Total(f, R \cap T) <= Total(g, R \cap S)
    <3>1. R \in SUBSET W /\ R \subseteq U /\ R # U
      OBVIOUS
    <3>2. R \notin B
      <4> HIDE DEF B, R
      <4> QED
        BY <2>2, <3>1
    <3> QED
      BY <3>1, <3>2
  <2>6. IsFiniteSet(U)
    BY <2>1, FS_Subset
  <2>7. /\ Total(f, R \cap T) \in Nat
        /\ y \in T => Total(f, U \cap T) = f[y] + Total(f, R \cap T)
        /\ y \notin T => Total(f, U \cap T) = Total(f, R \cap T)
    BY <2>6, TotalPart
  <2>8. /\ Total(g, R \cap S) \in Nat
        /\ y \in S => Total(g, U \cap S) = g[y] + Total(g, R \cap S)
        /\ y \notin S => Total(g, U \cap S) = Total(g, R \cap S)
    BY <2>6, TotalPart
  <2>9. Total(f, U \cap T) <= Total(g, U \cap S)
    <3> HIDE DEF R
    <3> QED
      BY <2>5, <2>7, <2>8
  <2> QED
    BY <2>2, <2>9
<1>2. CASE B = {}
  <2>1. W \cap T = T /\ W \cap S = S
    OBVIOUS
  <2> QED
    BY <1>2, <2>1
<1> QED
  BY <1>1, <1>2

\* Equal terms, equal sums.
LEMMA TotalSame ==
  ASSUME NEW f, NEW g, NEW S, IsFiniteSet(S), \A x \in S : f[x] \in Nat /\ g[x] = f[x]
  PROVE  Total(f, S) = Total(g, S)
<1>1. Total(f, S) <= Total(g, S) /\ Total(g, S) <= Total(f, S)
  BY TotalCovered
<1>2. Total(f, S) \in Nat /\ Total(g, S) \in Nat
  BY TotalNat
<1> QED
  BY <1>1, <1>2

\* One more at one place is one more in all.
LEMMA TotalBump ==
  ASSUME NEW f, NEW g, NEW S, IsFiniteSet(S), NEW y \in S, NEW n \in Nat,
         \A x \in S : f[x] \in Nat /\ (x # y => g[x] = f[x]), g[y] = f[y] + n
  PROVE  Total(g, S) = Total(f, S) + n
<1>1. IsFiniteSet(S \ {y})
  BY FS_Subset
<1>2. Total(f, S \ {y}) = Total(g, S \ {y}) /\ Total(f, S \ {y}) \in Nat
  BY <1>1, TotalSame, TotalNat
<1>3. \A x \in S : g[x] \in Nat
  OBVIOUS
<1>4. Total(f, S) = f[y] + Total(f, S \ {y})
  BY TotalSplit
<1>5. Total(g, S) = g[y] + Total(g, S \ {y})
  BY <1>3, TotalSplit
<1> QED
  BY <1>2, <1>4, <1>5

LEMMA TotalZero ==
  ASSUME NEW f, NEW S, IsFiniteSet(S), \A x \in S : f[x] = 0
  PROVE  Total(f, S) = 0
<1>1. Total(f, {}) = 0
  BY TotalEmpty
<1> DEFINE B == {T \in SUBSET S : Total(f, T) # 0}
<1>2. CASE B # {}
  <2>1. B \subseteq SUBSET S
    OBVIOUS
  <2>2. PICK T \in B : \A U \in B : U \subseteq T => U = T
    <3> HIDE DEF B
    <3> QED
      BY <1>2, <2>1, MinimalSubset
  <2>3. T # {} /\ IsFiniteSet(T)
    BY <1>1, <2>2, FS_Subset
  <2>4. First(T) \in T /\ Total(f, T) = f[First(T)] + Total(f, T \ {First(T)})
    BY <2>3, TotalFirst
  <2>5. Total(f, T \ {First(T)}) = 0
    BY <2>2, <2>4
  <2> QED
    BY <2>2, <2>4, <2>5
<1> QED
  BY <1>2

\* Two sums, term by term.
LEMMA TotalPlus ==
  ASSUME NEW f, NEW g, NEW h, NEW S, IsFiniteSet(S),
         \A x \in S : f[x] \in Nat /\ g[x] \in Nat /\ h[x] = f[x] + g[x]
  PROVE  Total(h, S) = Total(f, S) + Total(g, S)
<1> DEFINE B == {T \in SUBSET S : Total(h, T) # Total(f, T) + Total(g, T)}
<1>1. CASE B # {}
  <2>1. B \subseteq SUBSET S
    OBVIOUS
  <2>2. PICK T \in B : \A U \in B : U \subseteq T => U = T
    <3> HIDE DEF B
    <3> QED
      BY <1>1, <2>1, MinimalSubset
  <2>3. T # {} /\ IsFiniteSet(T)
    <3>1. Total(h, {}) = Total(f, {}) + Total(g, {})
      BY TotalEmpty
    <3>2. T # {}
      BY <2>2, <3>1, Zenon
    <3> QED
      BY <3>2, FS_Subset
  <2>4. PICK y \in T : TRUE
    BY <2>3
  <2> DEFINE R == T \ {y}
  <2>5. R \subseteq S /\ Total(h, R) = Total(f, R) + Total(g, R)
    BY <2>2, <2>4
  <2>6. IsFiniteSet(R)
    BY <2>3, FS_Subset
  <2>7. \A x \in T : f[x] \in Nat /\ g[x] \in Nat /\ h[x] \in Nat
    OBVIOUS
  <2>8. /\ Total(h, T) = h[y] + Total(h, R) /\ Total(f, T) = f[y] + Total(f, R)
        /\ Total(g, T) = g[y] + Total(g, R)
    BY <2>3, <2>7, TotalSplit
  <2>9. Total(f, R) \in Nat /\ Total(g, R) \in Nat
    <3>1. \A x \in R : f[x] \in Nat /\ g[x] \in Nat
      OBVIOUS
    <3> HIDE DEF R
    <3> QED
      BY <2>6, <3>1, TotalNat
  <2>10. h[y] = f[y] + g[y] /\ f[y] \in Nat /\ g[y] \in Nat
    BY <2>4
  <2>11. Total(h, T) = Total(f, T) + Total(g, T)
    <3> HIDE DEF R
    <3> QED
      BY <2>5, <2>8, <2>9, <2>10
  <2> QED
    BY <2>2, <2>11
<1>2. CASE B = {}
  BY <1>2
<1> QED
  BY <1>1, <1>2

\* A sum of ones counts.
LEMMA TotalOnes ==
  ASSUME NEW f, NEW S, IsFiniteSet(S), \A x \in S : f[x] = 1
  PROVE  Total(f, S) = Cardinality(S)
<1> DEFINE B == {T \in SUBSET S : Total(f, T) # Cardinality(T)}
<1>1. CASE B # {}
  <2>1. B \subseteq SUBSET S
    OBVIOUS
  <2>2. PICK T \in B : \A U \in B : U \subseteq T => U = T
    <3> HIDE DEF B
    <3> QED
      BY <1>1, <2>1, MinimalSubset
  <2>3. T # {} /\ IsFiniteSet(T)
    <3>1. Total(f, {}) = Cardinality({})
      BY TotalEmpty, FS_EmptySet
    <3>2. T # {}
      BY <2>2, <3>1, Zenon
    <3> QED
      BY <3>2, FS_Subset
  <2>4. First(T) \in T /\ Total(f, T) = f[First(T)] + Total(f, T \ {First(T)})
    BY <2>3, TotalFirst
  <2>5. Total(f, T \ {First(T)}) = Cardinality(T \ {First(T)})
    BY <2>2, <2>4
  <2>6. Cardinality(T \ {First(T)}) = Cardinality(T) - 1 /\ Cardinality(T) \in Nat
    BY <2>3, <2>4, FS_RemoveElement, FS_CardinalityType
  <2> QED
    BY <2>2, <2>4, <2>5, <2>6
<1>2. CASE B = {}
  BY <1>2
<1> QED
  BY <1>1, <1>2

\* The sum over two sets that have nothing in common.
LEMMA TotalUnion ==
  ASSUME NEW w, NEW A, NEW C, IsFiniteSet(A), IsFiniteSet(C), A \cap C = {}, \A x \in A \cup C : w[x] \in Nat
  PROVE  Total(w, A \cup C) = Total(w, A) + Total(w, C)
<1> DEFINE B == {T \in SUBSET A : Total(w, T \cup C) # Total(w, T) + Total(w, C)}
<1>1. CASE B # {}
  <2>1. B \subseteq SUBSET A
    OBVIOUS
  <2>2. PICK T \in B : \A U \in B : U \subseteq T => U = T
    <3> HIDE DEF B
    <3> QED
      BY <1>1, <2>1, MinimalSubset
  <2>3. T # {} /\ IsFiniteSet(T) /\ IsFiniteSet(T \cup C)
    <3>1. Total(w, {}) = 0 /\ {} \cup C = C /\ Total(w, C) \in Nat
      BY TotalEmpty, TotalNat
    <3>2. Total(w, {} \cup C) = Total(w, {}) + Total(w, C)
      BY <3>1
    <3>3. T # {}
      BY <2>2, <3>2, Zenon
    <3>4. IsFiniteSet(T)
      BY FS_Subset
    <3> QED
      BY <3>3, <3>4, FS_Union
  <2>4. PICK y \in T : TRUE
    BY <2>3
  <2> DEFINE R == T \ {y}
  <2>5. Total(w, R \cup C) = Total(w, R) + Total(w, C)
    BY <2>2, <2>4
  <2>6. (T \cup C) \ {y} = R \cup C
    BY <2>4
  <2>7. Total(w, T) = w[y] + Total(w, R) /\ Total(w, T \cup C) = w[y] + Total(w, (T \cup C) \ {y})
    BY <2>3, <2>4, TotalSplit
  <2>8. w[y] \in Nat /\ Total(w, C) \in Nat /\ Total(w, R) \in Nat
    <3>1. IsFiniteSet(R) /\ \A x \in R : w[x] \in Nat
      BY <2>3, FS_Subset
    <3> HIDE DEF R
    <3> QED
      BY <2>4, <3>1, TotalNat
  <2> HIDE DEF R
  <2>9. Total(w, T \cup C) = Total(w, T) + Total(w, C)
    BY <2>5, <2>6, <2>7, <2>8
  <2> QED
    BY <2>2, <2>9
<1>2. CASE B = {}
  BY <1>2
<1> QED
  BY <1>1, <1>2

\* What g puts at k.
PutAt(S, g, k) == {x \in S : g[x] = k}

\* Summed part by part, a sum stays what it is.
LEMMA TotalByPart ==
  ASSUME NEW w, NEW S, IsFiniteSet(S), NEW g, NEW K, IsFiniteSet(K),
         \A x \in S : w[x] \in Nat /\ g[x] \in K,
         NEW c, \A k \in K : c[k] = Total(w, PutAt(S, g, k))
  PROVE  Total(c, K) = Total(w, S)
<1> USE DEF PutAt
<1> DEFINE In(T) == {x \in S : g[x] \in T}
           B == {T \in SUBSET K : Total(c, T) # Total(w, In(T))}
<1>1. \A T : IsFiniteSet(In(T)) /\ Total(w, In(T)) \in Nat
  <2> TAKE T
  <2>1. In(T) \subseteq S
    OBVIOUS
  <2>2. IsFiniteSet(In(T)) /\ \A x \in In(T) : w[x] \in Nat
    BY <2>1, FS_Subset
  <2> HIDE DEF In
  <2> QED
    BY <2>2, TotalNat
<1>2. CASE B # {}
  <2>1. B \subseteq SUBSET K
    OBVIOUS
  <2>2. PICK T \in B : \A U \in B : U \subseteq T => U = T
    <3> HIDE DEF B
    <3> QED
      BY <1>2, <2>1, MinimalSubset
  <2>3. T # {} /\ IsFiniteSet(T)
    <3>1. Total(c, {}) = 0 /\ Total(w, {}) = 0 /\ In({}) = {}
      BY TotalEmpty
    <3>2. Total(c, {}) = Total(w, In({}))
      BY <3>1, Zenon
    <3>3. T # {}
      BY <2>2, <3>2, Zenon
    <3> QED
      BY <3>3, FS_Subset
  <2>4. PICK k \in T : TRUE
    BY <2>3
  <2> DEFINE R == T \ {k}
             at == {x \in S : g[x] = k}
  <2>5. Total(c, R) = Total(w, In(R))
    BY <2>2, <2>4
  <2>6. \A j \in K : c[j] \in Nat
    <3> TAKE j \in K
    <3> DEFINE of == {x \in S : g[x] = j}
    <3>1. of \subseteq S
      OBVIOUS
    <3>2. IsFiniteSet(of) /\ \A x \in of : w[x] \in Nat
      BY <3>1, FS_Subset
    <3>3. c[j] = Total(w, of)
      OBVIOUS
    <3> HIDE DEF of
    <3> QED
      BY <3>2, <3>3, TotalNat
  <2>7. Total(c, T) = c[k] + Total(c, R)
    BY <2>3, <2>4, <2>6, TotalSplit
  <2>8. c[k] = Total(w, at)
    BY <2>4
  <2>9. /\ In(T) = at \cup In(R) /\ at \cap In(R) = {}
    BY <2>4
  <2>10. IsFiniteSet(at) /\ at \subseteq S
    BY FS_Subset
  <2> HIDE DEF R, at, In, B
  <2>11. Total(w, In(T)) = Total(w, at) + Total(w, In(R))
    <3>1. \A x \in at \cup In(R) : w[x] \in Nat
      BY <2>10 DEF In
    <3> QED
      BY <1>1, <2>9, <2>10, <3>1, TotalUnion
  <2> QED
    BY <1>1, <2>2, <2>5, <2>7, <2>8, <2>11 DEF B
<1>3. CASE B = {}
  <2>1. In(K) = S
    OBVIOUS
  <2> QED
    BY <1>3, <2>1
<1> QED
  BY <1>2, <1>3
\* The sum of the steps of f between 0 and n is how far it gets.
LEMMA TotalSteps ==
  ASSUME NEW f, NEW d, NEW n \in Nat, \A m \in 0..n : f[m] \in Nat,
         \A m \in 0..n - 1 : d[m] \in Nat /\ d[m] = f[m + 1] - f[m]
  PROVE  Total(d, 0..n - 1) = f[n] - f[0]
<1> DEFINE D == 0..n - 1
           B == {T \in SUBSET D : \E k \in 0..n : T = 0..k - 1 /\ Total(d, T) # f[k] - f[0]}
<1>1. CASE B # {}
  <2>1. B \subseteq SUBSET D /\ IsFiniteSet(D)
    BY FS_Interval
  <2>2. PICK T \in B : \A U \in B : U \subseteq T => U = T
    <3> HIDE DEF B, D
    <3> QED
      BY <1>1, <2>1, MinimalSubset
  <2>3. PICK k \in 0..n : T = 0..k - 1 /\ Total(d, T) # f[k] - f[0]
    BY <2>2
  <2>4. k # 0
    <3>1. Total(d, {}) = 0 /\ 0..0 - 1 = {} /\ f[0] \in Nat
      BY TotalEmpty
    <3> QED
      BY <2>3, <3>1
  <2> DEFINE R == 0..(k - 1) - 1
  <2>5. k - 1 \in 0..n - 1 /\ k - 1 \in 0..n /\ (k - 1) + 1 = k /\ R = T \ {k - 1} /\ k - 1 \in T /\ T \subseteq 0..n - 1
    BY <2>3, <2>4
  <2>6. Total(d, R) = f[k - 1] - f[0]
    <3>1. R \notin B
      <4>1. R # T /\ R \subseteq T
        BY <2>5
      <4> HIDE DEF B, R
      <4> QED
        BY <2>2, <4>1
    <3>2. R \in SUBSET (0..n - 1)
      BY <2>5
    <3> QED
      BY <2>5, <3>1, <3>2
  <2>7. IsFiniteSet(T) /\ \A x \in T : d[x] \in Nat
    BY <2>1, <2>5, FS_Subset
  <2>8. Total(d, T) = d[k - 1] + Total(d, T \ {k - 1})
    <3> DEFINE y == k - 1
    <3>1. y \in T
      BY <2>5
    <3> HIDE DEF y, R, B, D
    <3>2. Total(d, T) = d[y] + Total(d, T \ {y})
      BY <2>7, <3>1, TotalSplit
    <3> QED
      BY <3>2 DEF y
  <2>9. d[k - 1] = f[k] - f[k - 1] /\ f[k - 1] \in Nat /\ f[k] \in Nat /\ f[0] \in Nat
    BY <2>5
  <2> HIDE DEF R, B
  <2> QED
    BY <2>3, <2>5, <2>6, <2>8, <2>9
<1>2. CASE B = {}
  <2>1. 0..n - 1 \in SUBSET (0..n - 1) /\ n \in 0..n
    OBVIOUS
  <2> QED
    BY <1>2, <2>1
<1> QED
  BY <1>1, <1>2

\* A table of numbers and the same one turned, and the sums of a table's rows.
Turned(h, g, A, K) == \A a \in A, k \in K : h[a][k] \in Nat /\ g[k][a] = h[a][k]
RowSums(r, h, A, K) == \A a \in A : r[a] = Total(h[a], K)

\* Row by row or column by column, the sum is the same.
LEMMA TotalSwap ==
  ASSUME NEW A, NEW K, IsFiniteSet(A), IsFiniteSet(K), NEW h, NEW g, Turned(h, g, A, K),
         NEW r, RowSums(r, h, A, K), NEW c, RowSums(c, g, K, A)
  PROVE  Total(c, K) = Total(r, A)
<1> USE DEF Turned, RowSums
<1> DEFINE left(T) == [k \in K |-> Total(g[k], T)]
           B == {T \in SUBSET A : Total(left(T), K) # Total(r, T)}
<1>1. \A T \in SUBSET A : IsFiniteSet(T)
  BY FS_Subset
<1>2. ASSUME NEW T \in SUBSET A, NEW k \in K PROVE Total(g[k], T) \in Nat
  BY <1>1, TotalNat
<1>3. \A a \in A : r[a] \in Nat
  BY TotalNat
<1>4. CASE B # {}
  <2>1. B \subseteq SUBSET A
    OBVIOUS
  <2>2. PICK T \in B : \A U \in B : U \subseteq T => U = T
    <3> HIDE DEF B
    <3> QED
      BY <1>4, <2>1, MinimalSubset
  <2>3. T # {}
    <3>1. Total(r, {}) = 0
      BY TotalEmpty
    <3>2. \A k \in K : left({})[k] = 0
      BY TotalEmpty
    <3> HIDE DEF left
    <3>3. Total(left({}), K) = 0
      BY <3>2, TotalZero
    <3> QED
      BY <2>2, <3>1, <3>3
  <2>4. PICK y \in T : TRUE
    BY <2>3
  <2> DEFINE R == T \ {y}
  <2>5. Total(left(R), K) = Total(r, R)
    <3>1. R \in SUBSET A /\ R \subseteq T /\ R # T
      BY <2>4
    <3> HIDE DEF R, left
    <3> QED
      BY <2>2, <3>1
  <2>6. Total(r, T) = r[y] + Total(r, R)
    <3>1. IsFiniteSet(T) /\ \A x \in T : r[x] \in Nat
      BY <1>1, <1>3
    <3> QED
      BY <2>4, <3>1, TotalSplit
  <2>7. Total(left(T), K) = Total(h[y], K) + Total(left(R), K)
    <3>1. ASSUME NEW k \in K PROVE Total(g[k], T) = h[y][k] + Total(g[k], R)
      <4>1. IsFiniteSet(T) /\ \A x \in T : g[k][x] \in Nat
        BY <1>1
      <4>2. Total(g[k], T) = g[k][y] + Total(g[k], R)
        BY <2>4, <4>1, TotalSplit
      <4> QED
        BY <2>4, <4>2
    <3>2. \A k \in K : h[y][k] \in Nat /\ left(R)[k] \in Nat /\ left(T)[k] = h[y][k] + left(R)[k]
      BY <1>2, <2>4, <3>1
    <3> DEFINE p == left(T)
               q == left(R)
               e == h[y]
    <3>3. \A k \in K : e[k] \in Nat /\ q[k] \in Nat /\ p[k] = e[k] + q[k]
      BY <3>2
    <3> HIDE DEF p, q, e
    <3>4. Total(p, K) = Total(e, K) + Total(q, K)
      BY <3>3, TotalPlus
    <3> QED
      BY <3>4 DEF p, q, e
  <2>8. r[y] = Total(h[y], K)
    BY <2>4
  <2> HIDE DEF left, R
  <2> QED
    BY <2>2, <2>5, <2>6, <2>7, <2>8
<1>5. CASE B = {}
  <2>1. Total(left(A), K) = Total(r, A)
    <3> HIDE DEF left
    <3> QED
      BY <1>5
  <2>2. \A k \in K : left(A)[k] \in Nat /\ c[k] = left(A)[k]
    BY <1>2
  <2> HIDE DEF left
  <2>3. Total(left(A), K) = Total(c, K)
    BY <2>2, TotalSame
  <2> QED
    BY <2>1, <2>3
<1> QED
  BY <1>4, <1>5
-----------------------------------------------------------------------------
\* What any fold passes through, from a base, one element picked at a time.
FoldStep(g, base, step, pick, s) == IF s = {} THEN base ELSE step[<<g[s \ {pick[s]}], pick[s]>>]
Folds(g, base, step, pick, S) == g = [s \in SUBSET S |-> FoldStep(g, base, step, pick, s)]

\* Two such functions agree where both are defined.
LEMMA FoldsAgree ==
  ASSUME NEW base, NEW step, NEW S, IsFiniteSet(S), NEW pick, \A s \in SUBSET S : s # {} => pick[s] \in s,
         NEW A, A \subseteq S, NEW g, NEW h, Folds(g, base, step, pick, S), Folds(h, base, step, pick, A)
  PROVE  \A s \in SUBSET A : g[s] = h[s]
<1> SUFFICES ASSUME ~ \A s \in SUBSET A : g[s] = h[s] PROVE FALSE
  OBVIOUS
<1> DEFINE B == {s \in SUBSET A : g[s] # h[s]}
<1>1. B # {} /\ B \subseteq SUBSET S
  OBVIOUS
<1>2. PICK T \in B : \A U \in B : U \subseteq T => U = T
  <2> HIDE DEF B
  <2> QED
    BY <1>1, MinimalSubset
<1>3. g[T] = FoldStep(g, base, step, pick, T) /\ h[T] = FoldStep(h, base, step, pick, T)
  BY DEF Folds
<1>4. T # {}
  BY <1>3 DEF FoldStep
<1>5. g[T \ {pick[T]}] = h[T \ {pick[T]}]
  BY <1>2, <1>4
<1> QED
  BY <1>3, <1>5 DEF FoldStep

\* What every step keeps, the fold keeps.
LEMMA FoldKeeps ==
  ASSUME NEW S, IsFiniteSet(S), NEW pick, \A s \in SUBSET S : s # {} => pick[s] \in s,
         NEW g, NEW In, g[{}] \in In[{}],
         \A s \in SUBSET S : s # {} /\ g[s \ {pick[s]}] \in In[s \ {pick[s]}] => g[s] \in In[s]
  PROVE  \A s \in SUBSET S : g[s] \in In[s]
<1> DEFINE C == {T \in SUBSET S : g[T] \notin In[T]}
<1>1. ASSUME C # {} PROVE FALSE
  <2>1. C \subseteq SUBSET S
    OBVIOUS
  <2>2. PICK T \in C : \A U \in C : U \subseteq T => U = T
    <3> HIDE DEF C
    <3> QED
      BY <1>1, <2>1, MinimalSubset
  <2>3. T # {}
    BY <2>2
  <2>4. pick[T] \in T /\ T \ {pick[T]} \in SUBSET S /\ T \ {pick[T]} # T
    BY <2>3
  <2>5. g[T \ {pick[T]}] \in In[T \ {pick[T]}]
    BY <2>2, <2>4
  <2> QED
    BY <2>2, <2>3, <2>5
<1> QED
  BY <1>1

\* There is one, and what every step keeps it keeps.
LEMMA FoldLands ==
  ASSUME NEW base, NEW step, NEW S, IsFiniteSet(S), NEW pick, \A s \in SUBSET S : s # {} => pick[s] \in s,
         NEW In, base \in In[{}],
         \A s \in SUBSET S : \A y \in In[s \ {pick[s]}] : s # {} => step[<<y, pick[s]>>] \in In[s]
  PROVE  \E g : Folds(g, base, step, pick, S) /\ \A s \in SUBSET S : g[s] \in In[s]
<1> DEFINE Of(T) == CHOOSE g : Folds(g, base, step, pick, T)
           B == {T \in SUBSET S : ~ \E g : Folds(g, base, step, pick, T)}
<1>1. ASSUME B # {} PROVE FALSE
  <2>0. B \subseteq SUBSET S
    OBVIOUS
  <2>1. PICK T \in B : \A U \in B : U \subseteq T => U = T
    <3> HIDE DEF B
    <3> QED
      BY <1>1, <2>0, MinimalSubset
  <2>2. \A U \in SUBSET T : U # T => Folds(Of(U), base, step, pick, U)
    BY <2>1
  <2> HIDE DEF Of
  <2> DEFINE below(s) == IF s = T THEN FoldStep([u \in SUBSET T |-> Of(u)[u]], base, step, pick, T) ELSE Of(s)[s]
             g == [s \in SUBSET T |-> below(s)]
  <2>3. ASSUME NEW s \in SUBSET T PROVE g[s] = FoldStep(g, base, step, pick, s)
    <3> DEFINE r == s \ {pick[s]}
    <3>1. CASE s = {}
      <4>1. CASE s = T
        BY <3>1, <4>1 DEF FoldStep
      <4>2. CASE s # T
        <5>1. Folds(Of(s), base, step, pick, s)
          BY <2>2, <4>2
        <5>2. Of(s)[s] = FoldStep(Of(s), base, step, pick, s)
          BY <5>1 DEF Folds
        <5> QED
          BY <3>1, <4>2, <5>2 DEF FoldStep
      <4> QED
        BY <4>1, <4>2
    <3>2. CASE s # {}
      <4>1. pick[s] \in s /\ r \in SUBSET s /\ r # s
        BY <3>2
      <4>2. r \in SUBSET T /\ r # T
        BY <4>1
      <4>3. g[r] = Of(r)[r]
        BY <4>2
      <4>4. CASE s = T
        BY <3>2, <4>3, <4>4, <4>2 DEF FoldStep
      <4>5. CASE s # T
        <5>1. Folds(Of(s), base, step, pick, s) /\ Folds(Of(r), base, step, pick, r)
          BY <2>2, <4>2, <4>5
        <5>2. IsFiniteSet(s) /\ s \in SUBSET S
          BY FS_Subset
        <5>3. Of(s)[r] = Of(r)[r]
          <6>1. \A v \in SUBSET s : v # {} => pick[v] \in v
            BY <5>2
          <6>2. r \subseteq s /\ r \in SUBSET r
            BY <4>1
          <6> HIDE DEF r
          <6> QED
            BY <5>1, <5>2, <6>1, <6>2, FoldsAgree
        <5>4. Of(s)[s] = FoldStep(Of(s), base, step, pick, s)
          BY <5>1 DEF Folds
        <5> QED
          BY <3>2, <4>3, <4>5, <5>3, <5>4 DEF FoldStep
      <4> QED
        BY <4>4, <4>5
    <3> QED
      BY <3>1, <3>2
  <2>4. Folds(g, base, step, pick, T)
    <3> HIDE DEF below
    <3> QED
      BY <2>3 DEF Folds
  <2> QED
    BY <2>1, <2>4
<1>2. PICK g : Folds(g, base, step, pick, S)
  BY <1>1
<1>3. g[{}] \in In[{}]
  BY <1>2 DEF Folds, FoldStep
<1>4. \A s \in SUBSET S : s # {} /\ g[s \ {pick[s]}] \in In[s \ {pick[s]}] => g[s] \in In[s]
  BY <1>2 DEF Folds, FoldStep
<1>5. \A s \in SUBSET S : g[s] \in In[s]
  BY <1>3, <1>4, FoldKeeps
<1> QED
  BY <1>2, <1>5
=============================================================================
