-------------------------------- MODULE Sums --------------------------------
(* A sum over a finite set: what a SELECT SUM(...) of the code returns.      *)
EXTENDS FiniteSetsExt

Total(f, S) == MapThenSumSet(LAMBDA x : f[x], S)
=============================================================================
