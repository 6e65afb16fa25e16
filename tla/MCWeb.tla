-------------------------------- MODULE MCWeb --------------------------------
(* The machines of Web and the Report's inputs for TLC: one of them in a     *)
(* behaviour.                                                                *)
EXTENDS Web, MCReport

Kind(v1, automatic, priced, streams, again) ==
  [v1 |-> v1, automatic |-> automatic, priced |-> priced, streams |-> streams, again |-> again]
MCKinds == {Kind(FALSE, FALSE, FALSE, FALSE, TRUE), Kind(TRUE, TRUE, TRUE, FALSE, TRUE),
            Kind(TRUE, TRUE, TRUE, TRUE, FALSE), Kind(TRUE, TRUE, FALSE, FALSE, TRUE)}

OldRow(base, links, event, recap, org) ==
  [base |-> base, links |-> links, stamp |-> 0, event |-> event, recap |-> recap, cover |-> FALSE, org |-> org]
MCLegacy == {OldRow(0, TRUE, FALSE, FALSE, FALSE), OldRow(0, FALSE, TRUE, TRUE, TRUE), [base |-> -2]}

NoCase == case = [of |-> "nothing"]

MCInit ==
  /\ part \in Machines \cup {"input"}
  /\ WebInit
  /\ IF part = "input" THEN InputInit ELSE NoCase

MCNext == WebNext /\ UNCHANGED case

MCSpec == MCInit /\ [][MCNext]_<<webVars, case>>
=============================================================================
