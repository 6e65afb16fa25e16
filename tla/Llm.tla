--------------------------------- MODULE Llm ---------------------------------
(***************************************************************************)
(* The text-model calls of the workers' jobs (llm_client.py) and the       *)
(* ledger of what they cost (ai/usage.py), for one organization whose jobs *)
(* run at the same time.                                                   *)
(*                                                                         *)
(* A job makes one call, and a second one with a larger budget when the    *)
(* first answer was cut off.  A call is up to MaxAttempts sends.  An answer *)
(* has a stop; a complete v1 answer may still be unusable ("invalid").     *)
(* Every answer costs one unit.  What a provider charges for an answer that *)
(* never arrives is nowhere in the ledger, nor here.                       *)
(***************************************************************************)
EXTENDS Integers, SequencesExt, Sums

CONSTANTS
    Jobs,         \* the jobs of the organization that run together
    Kinds,        \* what a job may be: records [v1, automatic, priced, streams, again]
    MaxAttempts,  \* LLM_MAX_ATTEMPTS
    Budget        \* ORG_DAILY_LLM_BUDGET_USD, in calls

VARIABLES
    kind,     \* kind[j]: the job's spec and model
    pc,       \* pc[j]: where the job is, or how it ended
    purpose,  \* purpose[j]: "main", or "retry" after a cut-off answer
    tries,    \* tries[j]: the sends of this call that failed
    timer,    \* timer[j]: the stream's deadline: "off", "set", "fired" or "finished"
    answers,  \* answers[j]: the stops of the job's answers, in order
    rows,     \* rows[j]: the outcomes of its llm_usage rows, in order
    lost      \* lost[j]: answers whose row could not be inserted: an ERROR line

vars == <<kind, pc, purpose, tries, timer, answers, rows, lost>>

Stops == {"complete", "invalid", "max_tokens", "refusal", "other"}
Ends  == {"saved", "refused", "truncated", "invalid", "failed", "deadline", "budget"}

Init ==
    /\ kind \in [Jobs -> Kinds]
    /\ pc = [j \in Jobs |-> "check"]
    /\ purpose = [j \in Jobs |-> "main"]
    /\ tries = [j \in Jobs |-> 0]
    /\ timer = [j \in Jobs |-> "off"]
    /\ answers = [j \in Jobs |-> <<>>]
    /\ rows = [j \in Jobs |-> <<>>]
    /\ lost = [j \in Jobs |-> 0]

At(j, here, there) == pc[j] = here /\ pc' = [pc EXCEPT ![j] = there]

-----------------------------------------------------------------------------
\* check_org_budget: an automatic job needs a model with a price and an
\* organization whose rows are under the budget.
Spend == Total([j \in Jobs |-> IF kind[j].priced THEN Len(rows[j]) ELSE 0], Jobs)

\* Wrong: only the first call of a job is checked.
MaySendOnce(j) == purpose[j] = "retry" \/ (kind[j].automatic => kind[j].priced /\ Spend < Budget)

MaySend(j) == kind[j].automatic => kind[j].priced /\ Spend < Budget

Check(j) ==
    /\ \/ MaySend(j) /\ At(j, "check", "send")
       \/ ~MaySend(j) /\ At(j, "check", "budget")
    /\ UNCHANGED <<kind, purpose, tries, timer, answers, rows, lost>>

\* The spend can't be read: nothing automatic runs blind.
CheckFails(j) ==
    /\ kind[j].automatic
    /\ At(j, "check", "failed")
    /\ UNCHANGED <<kind, purpose, tries, timer, answers, rows, lost>>

-----------------------------------------------------------------------------
\* The answer of a call that doesn't stream, or that ends its stream.
Hears(j, stop) ==
    /\ stop = "invalid" => kind[j].v1
    /\ answers' = [answers EXCEPT ![j] = Append(@, stop)]

\* An answer comes whole.
Answered(j) ==
    /\ ~kind[j].streams
    /\ At(j, "send", "answered")
    /\ \E stop \in Stops : Hears(j, stop)
    /\ UNCHANGED <<kind, purpose, tries, timer, rows, lost>>

\* A retryable status or a lost connection: another send, up to the last
\* attempt.
Transient(j) ==
    /\ IF tries[j] + 1 < MaxAttempts THEN At(j, "send", "send") ELSE At(j, "send", "failed")
    /\ tries' = [tries EXCEPT ![j] = @ + 1]
    /\ UNCHANGED <<kind, purpose, timer, answers, rows, lost>>

\* A read timeout, behind which an answer may still be made, or another 4xx: never sent again.
NotSentAgain(j) ==
    /\ At(j, "send", "failed")
    /\ UNCHANGED <<kind, purpose, tries, timer, answers, rows, lost>>

-----------------------------------------------------------------------------
\* A stream (_stream_message), and the timer thread that shuts it (_StreamDeadline).
Opens(j) ==
    /\ kind[j].streams
    /\ At(j, "send", "stream")
    /\ timer' = [timer EXCEPT ![j] = "set"]
    /\ UNCHANGED <<kind, purpose, tries, answers, rows, lost>>

\* The timer thread, under its lock.
Fire(j) ==
    /\ timer[j] = "set"
    /\ timer' = [timer EXCEPT ![j] = "fired"]
    /\ UNCHANGED <<kind, pc, purpose, tries, answers, rows, lost>>

\* Wrong: an answer read whole is taken, though the timer had fired.
FiredUnread(j) == FALSE

\* finish, under the same lock: whether the deadline passed first.
Fired(j) == timer[j] = "fired"

\* The last event was read.
StreamEnds(j) ==
    /\ IF Fired(j)
       THEN /\ At(j, "stream", "deadline")
            /\ UNCHANGED <<answers, timer>>
       ELSE /\ At(j, "stream", "answered")
            /\ timer' = [timer EXCEPT ![j] = IF @ = "fired" THEN @ ELSE "finished"]
            /\ \E stop \in Stops : Hears(j, stop)
    /\ UNCHANGED <<kind, purpose, tries, rows, lost>>

\* A read fails: shut by the timer, or broken.  Before the first event the
\* call is sent again; after it, output may be billed and it is dropped.
StreamBreaks(j) ==
    /\ timer' = [timer EXCEPT ![j] = IF @ = "fired" THEN @ ELSE "finished"]
    /\ \/ Fired(j) /\ At(j, "stream", "deadline") /\ UNCHANGED tries
       \/ ~Fired(j) /\ At(j, "stream", "failed") /\ UNCHANGED tries
       \/ /\ ~Fired(j)
          /\ IF tries[j] + 1 < MaxAttempts THEN At(j, "stream", "send") ELSE At(j, "stream", "failed")
          /\ tries' = [tries EXCEPT ![j] = @ + 1]
    /\ UNCHANGED <<kind, purpose, answers, rows, lost>>

-----------------------------------------------------------------------------
\* record_call: one row for the answer; a failed insert is logged and never raised.
Outcome(stop) ==
    CASE stop = "complete"   -> "ok"
      [] stop = "invalid"    -> "invalid_output"
      [] stop = "max_tokens" -> "truncated"
      [] stop = "refusal"    -> "refused"
      [] OTHER               -> "other_stop"

Record(j) ==
    LET stop == Last(answers[j]) IN
    /\ At(j, "answered", "recorded")
    /\ \/ /\ rows' = [rows EXCEPT ![j] = Append(@, Outcome(stop))]
          /\ UNCHANGED lost
       \/ lost' = [lost EXCEPT ![j] = @ + 1] /\ UNCHANGED rows
    /\ UNCHANGED <<kind, purpose, tries, timer, answers>>

\* What the job does with a recorded answer, in call_llm and in _generate.
EndOf(j, stop) ==
    CASE stop = "complete"   -> "saved"
      [] stop = "refusal"    -> "refused"
      [] stop = "max_tokens" -> "truncated"
      [] stop = "other"      -> IF kind[j].v1 THEN "invalid" ELSE "saved"
      [] OTHER               -> "invalid"

\* Wrong: a refusal is asked again like a cut-off answer.
RetriesRefusal(j, stop) == stop \in {"max_tokens", "refusal"} /\ purpose[j] = "main" /\ kind[j].again

\* The one retry: the job's spec allows it and the larger budget is larger (retry_budget).
Retries(j, stop) == stop = "max_tokens" /\ purpose[j] = "main" /\ kind[j].again

Decide(j) ==
    LET stop == Last(answers[j]) IN
    /\ pc[j] = "recorded"
    /\ IF Retries(j, stop)
       THEN /\ At(j, "recorded", "check")
            /\ purpose' = [purpose EXCEPT ![j] = "retry"]
            /\ tries' = [tries EXCEPT ![j] = 0]
            /\ timer' = [timer EXCEPT ![j] = "off"]
       ELSE /\ At(j, "recorded", EndOf(j, stop))
            /\ UNCHANGED <<purpose, tries, timer>>
    /\ UNCHANGED <<kind, answers, rows, lost>>

Next ==
    \E j \in Jobs :
        \/ Check(j) \/ CheckFails(j)
        \/ Answered(j) \/ Transient(j) \/ NotSentAgain(j)
        \/ Opens(j) \/ Fire(j) \/ StreamEnds(j) \/ StreamBreaks(j)
        \/ Record(j) \/ Decide(j)

Spec == Init /\ [][Next]_vars

-----------------------------------------------------------------------------
\* However many automatic jobs read the ledger at the same moment, each
\* can take the organization past its budget by one call, and no more: the
\* retry after a cut-off answer is checked again.  Answers without a row
\* are not seen by the check, and are what the bound leaves out.
OvershootBounded ==
    LET automatic == {j \in Jobs : kind[j].automatic}
        answered == [j \in Jobs |-> Len(answers[j])]
    IN  automatic # {} =>
            Total(answered, automatic) <= Budget - 1 + Cardinality(automatic) + Total(lost, Jobs)

\* What is saved was answered whole and before its deadline, and is the
\* job's last call; the ledger tells every answer in its order, the ones
\* that were refused, cut off or unusable too, or a logged error does; and
\* the model that declined is never asked again.
LedgerTellsAll ==
    \A j \in Jobs :
        /\ pc[j] = "saved" =>
              /\ timer[j] # "fired"
              /\ Last(answers[j]) = "complete" \/ (~kind[j].v1 /\ Last(answers[j]) = "other")
        /\ \A i \in 1..Len(answers[j]) : answers[j][i] = "refusal" => i = Len(answers[j])
        /\ pc[j] \in Ends =>
              /\ Len(rows[j]) + lost[j] = Len(answers[j])
              /\ lost[j] = 0 => rows[j] = [i \in 1..Len(answers[j]) |-> Outcome(answers[j][i])]
=============================================================================
