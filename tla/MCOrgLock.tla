----------------------------- MODULE MCOrgLock -----------------------------
(* OrgLock for TLC: three syncs of one organization.                       *)
EXTENDS OrgLock, TLC

JobSymmetry == Permutations(Jobs)
=============================================================================
