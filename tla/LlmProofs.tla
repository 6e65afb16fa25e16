------------------------------ MODULE LlmProofs ------------------------------
(***************************************************************************)
(* What holds of the jobs' calls whatever the jobs, the kinds, the budget  *)
(* and the number of attempts: the ledger tells every answer, and the      *)
(* daily budget is passed by one call a job at most.                       *)
(***************************************************************************)
EXTENDS Llm, SumProofs

LlmAssumption ==
  /\ IsFiniteSet(Jobs) /\ Budget \in Nat
  /\ Kinds \subseteq [v1 : BOOLEAN, automatic : BOOLEAN, priced : BOOLEAN, streams : BOOLEAN, again : BOOLEAN]

Sends == {"check", "send", "stream"}
Outcomes == {"ok", "invalid_output", "truncated", "refused", "other_stop"}

LlmTypes ==
  /\ kind \in [Jobs -> Kinds]
  /\ pc \in [Jobs -> Sends \cup {"answered", "recorded"} \cup Ends]
  /\ purpose \in [Jobs -> {"main", "retry"}]
  /\ timer \in [Jobs -> {"off", "set", "fired", "finished"}]
  /\ answers \in [Jobs -> Seq(Stops)]
  /\ rows \in [Jobs -> Seq(Outcomes)]
  /\ lost \in [Jobs -> Nat]

\* Every answer but the last one heard has its row, or is lost; a refusal ends
\* the job; the timer runs with the stream only; and an automatic job without a
\* price never sends.
Tells(j) ==
  /\ Len(rows[j]) + lost[j] + (IF pc[j] = "answered" THEN 1 ELSE 0) = Len(answers[j])
  /\ lost[j] = 0 => \A i \in 1..Len(rows[j]) : rows[j][i] = Outcome(answers[j][i])
  /\ pc[j] \in {"answered", "recorded", "saved"} => Len(answers[j]) > 0
  /\ \A i \in 1..Len(answers[j]) :
       answers[j][i] = "refusal" => i = Len(answers[j]) /\ pc[j] \notin Sends
  /\ timer[j] \in {"set", "fired"} => pc[j] \in {"stream", "deadline"}
  /\ pc[j] = "saved" =>
       Last(answers[j]) = "complete" \/ (~kind[j].v1 /\ Last(answers[j]) = "other")
  /\ kind[j].automatic /\ ~kind[j].priced =>
       pc[j] \in {"check", "budget", "failed"} /\ Len(answers[j]) = 0

\* A job that may send, or has an answer without its row.
Holding(j) == IF pc[j] \in {"send", "stream", "answered"} THEN 1 ELSE 0
Automatic == {j \in Jobs : kind[j].automatic}
Used == [j \in Jobs |-> Len(rows[j]) + Holding(j)]

\* What the automatic jobs have in the ledger, and what they are about to put
\* there, is past the budget by one call a job at most.
WithinBudget == Automatic # {} => Total(Used, Automatic) <= Budget - 1 + Cardinality(Automatic)

LlmInv == LlmTypes /\ (\A j \in Jobs : Tells(j)) /\ WithinBudget

-----------------------------------------------------------------------------
\* One job's step leaves what the others' rows tell.
LEMMA OthersTell ==
  ASSUME LlmInv, NEW j \in Jobs, NEW t \in Jobs, t # j,
         kind'[t] = kind[t], pc'[t] = pc[t], timer'[t] = timer[t],
         answers'[t] = answers[t], rows'[t] = rows[t], lost'[t] = lost[t]
  PROVE  Tells(t)'
  BY DEF LlmInv, Tells, Outcome

LEMMA TellsStep ==
  ASSUME LlmAssumption, LlmInv, NEW j \in Jobs,
         \/ Check(j) \/ CheckFails(j)
         \/ Answered(j) \/ Transient(j) \/ NotSentAgain(j)
         \/ Opens(j) \/ Fire(j) \/ StreamEnds(j) \/ StreamBreaks(j)
         \/ Record(j) \/ Decide(j)
  PROVE  LlmTypes' /\ \A t \in Jobs : Tells(t)'
<1> USE DEF LlmTypes, At, Sends, Ends
<1>0. LlmTypes /\ Tells(j) /\ kind' = kind
  BY DEF LlmInv, Check, CheckFails, Answered, Transient, NotSentAgain, Opens, Fire, StreamEnds,
         StreamBreaks, Record, Decide
<1>1. SUFFICES /\ LlmTypes' /\ Tells(j)'
               /\ \A t \in Jobs \ {j} : /\ pc'[t] = pc[t] /\ timer'[t] = timer[t]
                                        /\ answers'[t] = answers[t] /\ rows'[t] = rows[t]
                                        /\ lost'[t] = lost[t]
  BY <1>0, OthersTell
<1>2. CASE Check(j)
  BY <1>0, <1>2 DEF Check, MaySend, Tells, Outcome
<1>3. CASE CheckFails(j) \/ NotSentAgain(j)
  BY <1>0, <1>3 DEF CheckFails, NotSentAgain, Tells, Outcome
<1>4. CASE Transient(j)
  BY <1>0, <1>4 DEF Transient, Tells, Outcome
<1>5. CASE Opens(j) \/ Fire(j)
  <2>1. UNCHANGED <<purpose, tries, answers, rows, lost>>
    BY <1>5 DEF Opens, Fire
  <2>2. CASE Opens(j)
    BY <1>0, <2>1, <2>2 DEF Opens, Tells, Outcome
  <2>3. CASE Fire(j)
    BY <1>0, <2>1, <2>3 DEF Fire, Tells, Outcome
  <2> QED
    BY <1>5, <2>2, <2>3
<1>6. ASSUME NEW stop \in Stops, Hears(j, stop), pc[j] \in {"send", "stream"},
             pc' = [pc EXCEPT ![j] = "answered"], timer' \in [Jobs -> {"off", "set", "fired", "finished"}],
             timer'[j] \notin {"set", "fired"}, \A t \in Jobs \ {j} : timer'[t] = timer[t],
             UNCHANGED <<purpose, rows, lost>>
      PROVE  /\ LlmTypes' /\ Tells(j)'
             /\ \A t \in Jobs \ {j} : /\ pc'[t] = pc[t] /\ timer'[t] = timer[t]
                                      /\ answers'[t] = answers[t] /\ rows'[t] = rows[t]
                                      /\ lost'[t] = lost[t]
  <2>1. answers' = [answers EXCEPT ![j] = Append(answers[j], stop)]
    BY <1>6 DEF Hears
  <2>2. /\ answers'[j] \in Seq(Stops) /\ Len(answers'[j]) = Len(answers[j]) + 1
        /\ \A i \in 1..Len(answers[j]) : answers'[j][i] = answers[j][i]
        /\ answers'[j][Len(answers[j]) + 1] = stop
    BY <1>0, <2>1
  <2>3. LlmTypes'
    BY <1>0, <1>6, <2>1, <2>2
  <2>4. \A i \in 1..Len(answers[j]) : answers[j][i] # "refusal"
    BY <1>0, <1>6 DEF Tells
  <2>5. pc'[j] = "answered" /\ rows'[j] = rows[j] /\ lost'[j] = lost[j] /\ kind' = kind
    BY <1>0, <1>6
  <2>6. Len(rows[j]) + lost[j] = Len(answers[j]) /\ Len(rows[j]) \in Nat /\ lost[j] \in Nat
    BY <1>0, <1>6 DEF Tells
  <2>7. lost'[j] = 0 => \A i \in 1..Len(rows'[j]) : rows'[j][i] = Outcome(answers'[j][i])
    BY <1>0, <2>2, <2>5, <2>6 DEF Tells
  <2>8. \A i \in 1..Len(answers'[j]) : answers'[j][i] = "refusal" => i = Len(answers'[j])
    <3> SUFFICES ASSUME NEW i \in 1..Len(answers'[j]), i # Len(answers'[j])
                 PROVE  answers'[j][i] # "refusal"
      OBVIOUS
    <3>1. i \in 1..Len(answers[j])
      BY <1>0, <2>2
    <3> QED
      BY <2>2, <2>4, <3>1
  <2>9. ~(kind[j].automatic /\ ~kind[j].priced)
    BY <1>0, <1>6 DEF Tells
  <2>10. Tells(j)'
    BY <1>6, <2>2, <2>5, <2>6, <2>7, <2>8, <2>9 DEF Tells, Outcome
  <2> QED
    BY <1>0, <1>6, <2>1, <2>3, <2>10
<1>7. CASE Answered(j)
  <2>1. pc[j] = "send" /\ pc' = [pc EXCEPT ![j] = "answered"] /\ UNCHANGED <<timer, purpose, rows, lost>>
    BY <1>7 DEF Answered
  <2>2. timer[j] \notin {"set", "fired"}
    BY <1>0, <2>1 DEF Tells
  <2>3. PICK stop \in Stops : Hears(j, stop)
    BY <1>7 DEF Answered
  <2> QED
    BY <1>0, <1>6, <2>1, <2>2, <2>3
<1>8. CASE StreamEnds(j)
  <2>1. CASE Fired(j)
    BY <1>0, <1>8, <2>1 DEF StreamEnds, Fired, Tells, Outcome
  <2>2. CASE ~Fired(j)
    <3>1. /\ pc[j] = "stream" /\ pc' = [pc EXCEPT ![j] = "answered"] /\ UNCHANGED <<purpose, rows, lost>>
          /\ timer' = [timer EXCEPT ![j] = "finished"]
      BY <1>8, <2>2 DEF StreamEnds, Fired
    <3>2. PICK stop \in Stops : Hears(j, stop)
      BY <1>8, <2>2 DEF StreamEnds
    <3> QED
      BY <1>0, <1>6, <3>1, <3>2
  <2> QED
    BY <2>1, <2>2
<1>9. CASE StreamBreaks(j)
  BY <1>0, <1>9 DEF StreamBreaks, Fired, Tells, Outcome
<1>10. CASE Record(j)
  <2> DEFINE stop == Last(answers[j])
  <2>1. /\ pc[j] = "answered" /\ pc' = [pc EXCEPT ![j] = "recorded"]
        /\ UNCHANGED <<kind, purpose, tries, timer, answers>>
    BY <1>10 DEF Record
  <2>2. stop = answers[j][Len(answers[j])] /\ Len(answers[j]) \in 1..Len(answers[j])
    BY <1>0, <2>1 DEF Last, Tells
  <2>3. CASE rows' = [rows EXCEPT ![j] = Append(rows[j], Outcome(stop))] /\ UNCHANGED lost
    <3>1. Outcome(stop) \in Outcomes
      BY DEF Outcome, Outcomes
    <3>2. /\ rows'[j] \in Seq(Outcomes) /\ Len(rows'[j]) = Len(rows[j]) + 1
          /\ \A i \in 1..Len(rows[j]) : rows'[j][i] = rows[j][i]
          /\ rows'[j][Len(rows[j]) + 1] = Outcome(stop)
      BY <1>0, <2>3, <3>1
    <3>3. LlmTypes'
      BY <1>0, <2>1, <2>3, <3>2
    <3>4. Len(rows'[j]) + lost'[j] = Len(answers'[j])
      BY <1>0, <2>1, <2>3, <3>2 DEF Tells
    <3>5. ASSUME lost'[j] = 0, NEW i \in 1..Len(rows'[j])
          PROVE  rows'[j][i] = Outcome(answers'[j][i])
      <4>1. CASE i = Len(rows[j]) + 1
        <5>1. i = Len(answers[j])
          BY <1>0, <2>1, <2>3, <3>4, <3>5, <4>1, <3>2
        <5> QED
          BY <2>1, <2>2, <3>2, <4>1, <5>1
      <4>2. CASE i \in 1..Len(rows[j])
        BY <1>0, <2>1, <2>3, <3>2, <3>5, <4>2 DEF Tells
      <4> QED
        BY <1>0, <3>2, <4>1, <4>2
    <3>6. Tells(j)'
      BY <1>0, <2>1, <3>4, <3>5 DEF Tells, Outcome
    <3> QED
      BY <1>0, <2>1, <2>3, <3>3, <3>6
  <2>4. CASE lost' = [lost EXCEPT ![j] = @ + 1] /\ UNCHANGED rows
    <3>1. LlmTypes'
      BY <1>0, <2>1, <2>4
    <3>2. Tells(j)'
      BY <1>0, <2>1, <2>4 DEF Tells, Outcome
    <3> QED
      BY <1>0, <2>1, <2>4, <3>1, <3>2
  <2> QED
    BY <1>10, <2>3, <2>4 DEF Record
<1>11. CASE Decide(j)
  <2> DEFINE stop == Last(answers[j])
  <2>1. pc[j] = "recorded" /\ UNCHANGED <<kind, answers, rows, lost>>
    BY <1>11 DEF Decide
  <2>2. stop = answers[j][Len(answers[j])] /\ Len(answers[j]) \in 1..Len(answers[j]) /\ stop \in Stops
    BY <1>0, <2>1 DEF Last, Tells
  <2>3. CASE Retries(j, stop)
    <3>1. /\ pc' = [pc EXCEPT ![j] = "check"] /\ purpose' = [purpose EXCEPT ![j] = "retry"]
          /\ timer' = [timer EXCEPT ![j] = "off"]
      BY <1>11, <2>3 DEF Decide
    <3>2. stop # "refusal"
      BY <2>3 DEF Retries
    <3>3. Tells(j)'
      BY <1>0, <2>1, <2>2, <3>1, <3>2 DEF Tells, Outcome
    <3> QED
      BY <1>0, <2>1, <3>1, <3>3
  <2>4. CASE ~Retries(j, stop)
    <3>1. pc' = [pc EXCEPT ![j] = EndOf(j, stop)] /\ UNCHANGED <<purpose, timer>>
      BY <1>11, <2>4 DEF Decide
    <3>2. EndOf(j, stop) \in Ends /\ EndOf(j, stop) # "deadline"
      BY <2>2 DEF EndOf, Stops
    <3>3. EndOf(j, stop) = "saved" => stop = "complete" \/ (~kind[j].v1 /\ stop = "other")
      BY <2>2 DEF EndOf, Stops
    <3>4. Tells(j)'
      BY <1>0, <2>1, <2>2, <3>1, <3>2, <3>3 DEF Tells, Outcome
    <3> QED
      BY <1>0, <2>1, <3>1, <3>2, <3>4
  <2> QED
    BY <2>3, <2>4
<1> QED
  BY <1>2, <1>3, <1>4, <1>5, <1>7, <1>8, <1>9, <1>10, <1>11

-----------------------------------------------------------------------------
LEMMA AutomaticFinite ==
  ASSUME LlmAssumption, LlmInv
  PROVE  /\ Automatic \subseteq Jobs /\ IsFiniteSet(Automatic)
         /\ Cardinality(Automatic) \in Nat
         /\ \A j \in Jobs : Len(rows[j]) \in Nat /\ Used[j] \in Nat /\ Used[j] <= Len(rows[j]) + 1
<1>1. Automatic \subseteq Jobs /\ IsFiniteSet(Jobs)
  BY DEF Automatic, LlmAssumption
<1>2. IsFiniteSet(Automatic)
  BY <1>1, FS_Subset
<1> QED
  BY <1>1, <1>2, FS_CardinalityType DEF Used, Holding, LlmInv, LlmTypes

\* The automatic jobs' rows are part of what the check adds up.
LEMMA RowsSpent ==
  ASSUME LlmAssumption, LlmInv
  PROVE  LET rowCount == [j \in Jobs |-> Len(rows[j])]
         IN  Total(rowCount, Automatic) \in Nat /\ Spend \in Nat /\ Total(rowCount, Automatic) <= Spend
<1> DEFINE rowCount == [j \in Jobs |-> Len(rows[j])]
           spent == [j \in Jobs |-> IF kind[j].priced THEN Len(rows[j]) ELSE 0]
<1>1. Automatic \subseteq Jobs /\ IsFiniteSet(Automatic) /\ IsFiniteSet(Jobs)
      /\ \A j \in Jobs : Len(rows[j]) \in Nat
  BY AutomaticFinite DEF LlmAssumption
<1>2. (\A j \in Automatic : rowCount[j] \in Nat) /\ (\A j \in Jobs : spent[j] \in Nat)
  BY <1>1
<1>3. \A j \in Automatic : rowCount[j] = 0 \/ (j \in Jobs /\ rowCount[j] <= spent[j])
  <2> SUFFICES ASSUME NEW j \in Automatic
               PROVE  rowCount[j] = 0 \/ (j \in Jobs /\ rowCount[j] <= spent[j])
    OBVIOUS
  <2>1. j \in Jobs /\ Len(rows[j]) \in Nat
    BY <1>1
  <2>2. CASE kind[j].priced
    BY <2>1, <2>2
  <2>3. CASE ~kind[j].priced
    <3>1. Len(answers[j]) = 0 /\ lost[j] \in Nat
      BY <2>1, <2>3 DEF Automatic, LlmInv, LlmTypes, Tells
    <3>2. Len(rows[j]) = 0
      BY <2>1, <3>1 DEF LlmInv, Tells
    <3> QED
      BY <2>1, <3>2
  <2> QED
    BY <2>2, <2>3
<1>4. Spend = Total(spent, Jobs)
  BY DEF Spend
<1> HIDE DEF rowCount, spent
<1>5. Total(rowCount, Automatic) \in Nat /\ Total(spent, Jobs) \in Nat
  BY <1>1, <1>2, TotalNat
<1>6. Total(rowCount, Automatic) <= Total(spent, Jobs)
  BY <1>1, <1>2, <1>3, TotalCovered
<1> QED
  BY <1>4, <1>5, <1>6 DEF rowCount

\* One more for each at most.
LEMMA OneMoreEach ==
  ASSUME NEW f, NEW g, NEW S, IsFiniteSet(S),
         \A x \in S : f[x] \in Nat /\ g[x] \in Nat /\ g[x] <= f[x] + 1
  PROVE  Total(g, S) <= Total(f, S) + Cardinality(S)
<1> DEFINE one == [x \in S |-> 1]
           more == [x \in S |-> f[x] + 1]
<1>1. /\ \A x \in S : f[x] \in Nat /\ one[x] \in Nat /\ more[x] = f[x] + one[x]
      /\ \A x \in S : one[x] = 1
      /\ \A x \in S : more[x] \in Nat /\ (g[x] = 0 \/ (x \in S /\ g[x] <= more[x]))
      /\ \A x \in S : g[x] \in Nat /\ more[x] \in Nat
  OBVIOUS
<1> HIDE DEF one, more
<1>2. Total(more, S) = Total(f, S) + Total(one, S)
  BY <1>1, TotalPlus
<1>3. Total(one, S) = Cardinality(S)
  BY <1>1, TotalOnes
<1>4. Total(g, S) <= Total(more, S)
  BY <1>1, TotalCovered
<1> QED
  BY <1>2, <1>3, <1>4

\* Only a check that is passed lets a job hold more than it did.
LEMMA BudgetStep ==
  ASSUME LlmAssumption, LlmInv, NEW j \in Jobs, LlmTypes', \A t \in Jobs : Tells(t)',
         \/ Check(j) \/ CheckFails(j)
         \/ Answered(j) \/ Transient(j) \/ NotSentAgain(j)
         \/ Opens(j) \/ Fire(j) \/ StreamEnds(j) \/ StreamBreaks(j)
         \/ Record(j) \/ Decide(j)
  PROVE  WithinBudget'
<1> USE DEF At
<1>1. kind' = kind
  BY DEF Check, CheckFails, Answered, Transient, NotSentAgain, Opens, Fire, StreamEnds,
         StreamBreaks, Record, Decide
<1>2. Automatic' = Automatic
  BY <1>1 DEF Automatic
<1> SUFFICES ASSUME Automatic # {}
             PROVE  Total(Used', Automatic) <= Budget - 1 + Cardinality(Automatic)
  BY <1>2 DEF WithinBudget
<1>3. /\ Automatic \subseteq Jobs /\ IsFiniteSet(Automatic) /\ Cardinality(Automatic) \in Nat
      /\ \A t \in Jobs : Used[t] \in Nat
  BY AutomaticFinite
<1>4. \A t \in Jobs : Used'[t] \in Nat /\ Used'[t] <= Len(rows'[t]) + 1
  BY DEF Used, Holding, LlmTypes
<1>5. ASSUME \A t \in Automatic : Used'[t] <= Used[t]
      PROVE  Total(Used', Automatic) <= Budget - 1 + Cardinality(Automatic)
  <2>1. Total(Used', Automatic) <= Total(Used, Automatic)
    BY <1>3, <1>4, <1>5, TotalCovered
  <2>2. Total(Used, Automatic) \in Nat /\ Total(Used', Automatic) \in Nat
    BY <1>3, <1>4, TotalNat
  <2>3. Total(Used, Automatic) <= Budget - 1 + Cardinality(Automatic)
    BY DEF LlmInv, WithinBudget
  <2> QED
    BY <1>3, <2>1, <2>2, <2>3 DEF LlmAssumption
<1>6. CASE j \in Automatic /\ Check(j) /\ MaySend(j)
  <2> DEFINE rowCount == [t \in Jobs |-> Len(rows[t])]
  <2>1. Spend < Budget
    BY <1>6 DEF MaySend, Automatic
  <2>2. Total(rowCount, Automatic) \in Nat /\ Spend \in Nat /\ Total(rowCount, Automatic) <= Spend
    BY RowsSpent
  <2>3. rows' = rows
    BY <1>6 DEF Check
  <2>4. \A t \in Automatic : rowCount[t] \in Nat /\ Used'[t] \in Nat /\ Used'[t] <= rowCount[t] + 1
    <3> SUFFICES ASSUME NEW t \in Jobs
                 PROVE  Len(rows[t]) \in Nat /\ Used'[t] \in Nat /\ Used'[t] <= Len(rows[t]) + 1
      BY <1>3
    <3> QED
      BY <1>4, <2>3 DEF LlmInv, LlmTypes
  <2> HIDE DEF rowCount
  <2>5. Total(Used', Automatic) <= Total(rowCount, Automatic) + Cardinality(Automatic)
    BY <1>3, <2>4, OneMoreEach
  <2>6. Total(Used', Automatic) \in Nat
    BY <1>3, <1>4, TotalNat
  <2> QED
    BY <1>3, <2>1, <2>2, <2>5, <2>6 DEF LlmAssumption
<1>7. CASE ~(j \in Automatic /\ Check(j) /\ MaySend(j))
  <2>1. \A t \in Jobs \ {j} : pc'[t] = pc[t] /\ rows'[t] = rows[t]
    <3> USE DEF LlmInv, LlmTypes
    <3>1. CASE Check(j) \/ CheckFails(j) \/ Answered(j) \/ Transient(j) \/ NotSentAgain(j)
      BY <3>1 DEF Check, CheckFails, Answered, Transient, NotSentAgain
    <3>2. CASE Opens(j) \/ Fire(j) \/ StreamEnds(j) \/ StreamBreaks(j)
      BY <3>2 DEF Opens, Fire, StreamEnds, StreamBreaks
    <3>3. CASE Record(j) \/ Decide(j)
      BY <3>3 DEF Record, Decide
    <3> QED
      BY <3>1, <3>2, <3>3
  <2>2. \A t \in Jobs \ {j} : Used'[t] = Used[t]
    BY <2>1 DEF Used, Holding
  <2>3. j \in Automatic => Used'[j] <= Used[j]
    <3> USE DEF LlmInv, LlmTypes, Used, Holding
    <3>1. CASE Check(j)
      BY <1>7, <3>1 DEF Check
    <3>2. CASE CheckFails(j) \/ Answered(j) \/ Transient(j) \/ NotSentAgain(j) \/ Opens(j) \/ Fire(j)
      BY <3>2 DEF CheckFails, Answered, Transient, NotSentAgain, Opens, Fire, Ends
    <3>3. CASE StreamEnds(j) \/ StreamBreaks(j)
      BY <3>3 DEF StreamEnds, StreamBreaks
    <3>4. CASE Record(j)
      BY <3>4 DEF Record
    <3>5. CASE Decide(j)
      <4>1. rows' = rows /\ pc[j] = "recorded" /\ pc' \in {[pc EXCEPT ![j] = "check"],
                                              [pc EXCEPT ![j] = EndOf(j, Last(answers[j]))]}
        BY <3>5 DEF Decide
      <4>2. EndOf(j, Last(answers[j])) \notin {"send", "stream", "answered"}
        BY DEF EndOf
      <4> QED
        BY <4>1, <4>2
    <3> QED
      BY <3>1, <3>2, <3>3, <3>4, <3>5
  <2>4. \A t \in Automatic : Used'[t] <= Used[t]
    BY <1>3, <2>2, <2>3
  <2> QED
    BY <1>5, <2>4
<1> QED
  BY <1>6, <1>7

LEMMA LlmStart == LlmAssumption /\ Init => LlmInv
<1> SUFFICES ASSUME LlmAssumption, Init PROVE LlmInv
  OBVIOUS
<1>1. LlmTypes
  BY DEF Init, LlmTypes, Sends
<1>2. \A j \in Jobs : Tells(j)
  BY <1>1 DEF Init, LlmTypes, Tells, Sends
<1>3. WithinBudget
  <2> SUFFICES ASSUME Automatic # {} PROVE Total(Used, Automatic) <= Budget - 1 + Cardinality(Automatic)
    BY DEF WithinBudget
  <2>1. Automatic \subseteq Jobs /\ IsFiniteSet(Automatic)
    BY FS_Subset DEF Automatic, LlmAssumption
  <2>2. \A j \in Automatic : Used[j] = 0
    BY <2>1 DEF Used, Holding, Init
  <2>3. Total(Used, Automatic) = 0
    BY <2>1, <2>2, TotalZero
  <2>4. Cardinality(Automatic) \in Nat /\ Cardinality(Automatic) # 0
    BY <2>1, FS_CardinalityType, FS_EmptySet
  <2> QED
    BY <2>3, <2>4 DEF LlmAssumption
<1> QED
  BY <1>1, <1>2, <1>3 DEF LlmInv

LEMMA LlmStep ==
  ASSUME LlmAssumption
  PROVE  LlmInv /\ [Next]_vars => LlmInv'
<1> SUFFICES ASSUME LlmInv, [Next]_vars PROVE LlmInv'
  OBVIOUS
<1>1. CASE UNCHANGED vars
  BY <1>1 DEF vars, LlmInv, LlmTypes, Tells, Outcome, WithinBudget, Automatic, Used, Holding
<1>2. CASE Next
  <2>1. PICK j \in Jobs :
          \/ Check(j) \/ CheckFails(j)
          \/ Answered(j) \/ Transient(j) \/ NotSentAgain(j)
          \/ Opens(j) \/ Fire(j) \/ StreamEnds(j) \/ StreamBreaks(j)
          \/ Record(j) \/ Decide(j)
    BY <1>2 DEF Next
  <2>2. LlmTypes' /\ \A t \in Jobs : Tells(t)'
    BY <2>1, TellsStep
  <2>3. WithinBudget'
    BY <2>1, <2>2, BudgetStep
  <2> QED
    BY <2>2, <2>3 DEF LlmInv
<1> QED
  BY <1>1, <1>2

LEMMA LlmInvariant ==
  ASSUME LlmAssumption
  PROVE  Spec => []LlmInv
  BY LlmStart, LlmStep, PTL DEF Spec

-----------------------------------------------------------------------------
LEMMA LedgerTold == LlmInv => LedgerTellsAll
<1> SUFFICES ASSUME LlmInv, NEW j \in Jobs
             PROVE  /\ pc[j] = "saved" => /\ timer[j] # "fired"
                                          /\ \/ Last(answers[j]) = "complete"
                                             \/ ~kind[j].v1 /\ Last(answers[j]) = "other"
                    /\ \A i \in 1..Len(answers[j]) : answers[j][i] = "refusal" => i = Len(answers[j])
                    /\ pc[j] \in Ends =>
                         /\ Len(rows[j]) + lost[j] = Len(answers[j])
                         /\ lost[j] = 0 =>
                              rows[j] = [i \in 1..Len(answers[j]) |-> Outcome(answers[j][i])]
  BY DEF LedgerTellsAll
<1>1. LlmTypes /\ Tells(j)
  BY DEF LlmInv
<1>2. ASSUME pc[j] \in Ends
      PROVE  /\ Len(rows[j]) + lost[j] = Len(answers[j])
             /\ lost[j] = 0 => rows[j] = [i \in 1..Len(answers[j]) |-> Outcome(answers[j][i])]
  BY <1>1, <1>2 DEF Tells, LlmTypes, Ends
<1> QED
  BY <1>1, <1>2 DEF Tells

LEMMA BudgetKept ==
  ASSUME LlmAssumption
  PROVE  LlmInv => OvershootBounded
<1> DEFINE answered == [j \in Jobs |-> Len(answers[j])]
           known == [j \in Jobs |-> Used[j] + lost[j]]
<1> SUFFICES ASSUME LlmInv, Automatic # {}
             PROVE  Total(answered, Automatic) <= Budget - 1 + Cardinality(Automatic) + Total(lost, Jobs)
  BY DEF OvershootBounded, Automatic
<1>1. /\ Automatic \subseteq Jobs /\ IsFiniteSet(Automatic) /\ Cardinality(Automatic) \in Nat
      /\ \A j \in Jobs : Used[j] \in Nat /\ lost[j] \in Nat
      /\ IsFiniteSet(Jobs)
  BY AutomaticFinite DEF LlmInv, LlmTypes, LlmAssumption
<1>2. \A j \in Automatic : /\ answered[j] \in Nat /\ known[j] \in Nat
                           /\ answered[j] <= known[j] /\ known[j] = Used[j] + lost[j]
  <2> SUFFICES ASSUME NEW j \in Jobs
               PROVE  Len(answers[j]) \in Nat /\ Len(answers[j]) <= Used[j] + lost[j]
    BY <1>1
  <2>1. LlmTypes /\ Tells(j)
    BY DEF LlmInv
  <2> QED
    BY <2>1 DEF LlmTypes, Tells, Used, Holding
<1> HIDE DEF answered, known
<1>3. Total(answered, Automatic) <= Total(known, Automatic)
  BY <1>1, <1>2, TotalCovered
<1>4. Total(known, Automatic) = Total(Used, Automatic) + Total(lost, Automatic)
  BY <1>1, <1>2, TotalPlus
<1>5. Total(lost, Automatic) <= Total(lost, Jobs)
  BY <1>1, TotalCovered
<1>6. /\ Total(answered, Automatic) \in Nat /\ Total(Used, Automatic) \in Nat
      /\ Total(lost, Automatic) \in Nat /\ Total(lost, Jobs) \in Nat
  BY <1>1, <1>2, TotalNat
<1>7. Total(Used, Automatic) <= Budget - 1 + Cardinality(Automatic)
  BY DEF LlmInv, WithinBudget
<1> QED
  BY <1>1, <1>3, <1>4, <1>5, <1>6, <1>7 DEF LlmAssumption

-----------------------------------------------------------------------------
\* What is saved was answered whole and before its deadline; the ledger, or a
\* logged error, tells every answer in its order; and the model that declined is
\* never asked again (call_llm, record_call).
THEOREM LedgerIsComplete ==
  ASSUME LlmAssumption
  PROVE  Spec => []LedgerTellsAll
  BY LlmInvariant, LedgerTold, PTL

\* However many automatic jobs read the ledger at the same moment, each takes
\* the organization past its daily budget by one call at most, the answers whose
\* rows were lost aside (check_org_budget).
THEOREM BudgetPassedOnceEach ==
  ASSUME LlmAssumption
  PROVE  Spec => []OvershootBounded
  BY LlmInvariant, BudgetKept, PTL
=============================================================================
