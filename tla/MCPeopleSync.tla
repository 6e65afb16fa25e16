---------------------------- MODULE MCPeopleSync ----------------------------
(* PeopleSync for TLC: one organization, and the faults each run allows.    *)
EXTENDS PeopleSync, TLC

CONSTANTS x1, x2, x3, o1

OneOrg == [x \in Sessions |-> o1]

NoFaults == [k \in FaultKinds |-> 0]
Once(kinds) == [k \in FaultKinds |-> IF k \in kinds THEN 1 ELSE 0]
CancelOnce == Once({"cancel"})
DatabaseOnce == Once({"database"})
RaceFaults == Once({"enqueue", "delete"})
StallFaults == Once({"cancel", "kill", "restart", "database"})

SessionSymmetry == Permutations(Sessions)
=============================================================================
