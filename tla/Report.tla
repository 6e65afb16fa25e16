-------------------------------- MODULE Report --------------------------------
(***************************************************************************)
(* What the Report computes of one session, as a whole: a state holds one   *)
(* input of one of its algorithms, and the properties say what must come    *)
(* out of it.  MCReport has small inputs for TLC, ReportProofs is about all  *)
(* of them.                                                                *)
(***************************************************************************)
EXTENDS Integers, Sequences

CONSTANTS
  Minute,                                                \* Clock, Insights
  Digest, Short,                                         \* Roster
  Few, Day, Own,                                         \* Measures
  Tolerance, ChunkGap, Window, WindowMin, Clusters, SubstantialS,  \* Transcript
  Pause, Rapid, Quick, Steady, Watch, Low, Moments       \* Insights

\* SHA-256 digests have one length, longer than a short ref, and no two people
\* of a session have the same.
ASSUME ReportAssumption ==
  /\ Minute \in Nat \ {0} /\ Tolerance \in Nat /\ Short \in Nat /\ Few \in Nat
  /\ DOMAIN Digest \subseteq Nat
  /\ \A a \in DOMAIN Digest : Digest[a] \in Seq(Nat) /\ Len(Digest[a]) > Short
  /\ \A a, b \in DOMAIN Digest : Len(Digest[a]) = Len(Digest[b]) /\ (Digest[a] = Digest[b] => a = b)

VARIABLE case   \* what is computed, of which input

Clk == INSTANCE Clock
Rst == INSTANCE Roster
Mea == INSTANCE Measures
Trs == INSTANCE Transcript
Ins == INSTANCE Insights

-----------------------------------------------------------------------------
\* Inputs, as the parsers of the payloads give them: what cannot be read is
\* None, or 0.

ClockInputs ==
  [of : {"clock"}, events : Seq(Nat), speech : Seq([start : Int, end : Int]), base : [t0 : Nat, end : Nat]]

Times == Nat \cup {Ins!None}
OwnerInputs == [of : {"owner"}, word : [start : Int, end : Int], utterances : Seq([start : Int, end : Int])]
SentenceRow == [start : Times, end : Times, terms : SUBSET Nat, strong : BOOLEAN, words : Nat, speaker : Nat]
MentionInputs == [of : {"mention"}, term : Nat, at : Times, list : Seq(SentenceRow) \ {<< >>}]

RoleInputs ==
  [of : {"roles"},
   list : Seq([id : Nat, team : BOOLEAN, guest : BOOLEAN, attended : BOOLEAN]),
   chat : Seq([id : Nat, at : Nat, author : Nat, team : BOOLEAN, guest : BOOLEAN]),
   questions : Seq([id : Nat, at : Nat, asker : Nat, responder : Nat, answered : BOOLEAN])]
RefInputs == [of : {"refs"}, ids : SUBSET DOMAIN Digest, joining : DOMAIN Digest]
\* The copies of one id, sent by two pages, are the same.
NumberInputs ==
  {c \in [of : {"numbers"}, items : Seq([id : Nat, at : Nat, text : Nat])] :
     \A i, j \in DOMAIN c.items : c.items[i].id = c.items[j].id /\ c.items[i].id # Rst!NoId => c.items[i] = c.items[j]}
Registrant ==
  [role : {"team", "guest_speaker", "audience"}, attended : {"yes", "no", "unknown"}, seconds : Int,
   utm : STRING, referrer : STRING, registration : STRING, choices : SUBSET STRING, lead : Int,
   replay : {"yes", "no", "unknown"}]
Facts == [people : Seq(Registrant), internal : BOOLEAN, length : Nat, wrote : SUBSET Nat,
          unresolved : BOOLEAN, partial : BOOLEAN]
Asked == [written : BOOLEAN, oral : BOOLEAN, marked : BOOLEAN, asked : Nat, at : Nat]
MeasureInputs == [of : {"measures"}, facts : Facts, others : SUBSET Nat, questions : Seq(Asked)]

ReportInit ==
  case \in ClockInputs \cup OwnerInputs \cup MentionInputs \cup RoleInputs \cup RefInputs
           \cup NumberInputs \cup MeasureInputs

ReportSpec == ReportInit /\ [][UNCHANGED case]_case

-----------------------------------------------------------------------------
\* What happens at a moment is put where it belongs, and once: an event and
\* every second of speech in a minute of the clock, a word in the utterance that
\* reaches it, a mention in the best sentence.
MomentsPlaced ==
  /\ case.of = "clock" => Clk!NothingLost(case.events, case.speech, case.base)
  /\ case.of = "owner" => Trs!OwnerFound(case.word, case.utterances)
  /\ case.of = "mention" => Ins!BestContext(case.list, case.term, case.at)

\* People are who they are in every block: one role whoever computes it, refs
\* that are apart and stay, numbers that do not depend on the API's order,
\* nothing of the writers of a source whose authors are unresolved, and one row
\* of each grouped measure and of the lead times.
PeopleAgree ==
  /\ case.of = "roles" => Rst!RolesAgree(case.list, case.chat, case.questions)
  /\ case.of = "refs" => Rst!RefsApart(case.ids, case.joining)
  /\ case.of = "numbers" => Rst!IdsStable(case.items)
  /\ case.of = "measures" => /\ Mea!WritersHidden(case.facts, case.others) /\ Mea!GroupsAddUp(case.facts)
                             /\ Mea!LeadsAddUp(case.facts)
=============================================================================
