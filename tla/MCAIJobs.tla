------------------------------ MODULE MCAIJobs ------------------------------
(* AIJobs for TLC: an analysis in two languages and the Professional recap. *)
EXTENDS AIJobs

CONSTANTS en, fr, pro

EnglishFirst == [o \in Outputs |-> IF o = fr THEN en ELSE o]
=============================================================================
