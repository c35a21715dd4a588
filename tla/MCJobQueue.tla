----------------------------- MODULE MCJobQueue -----------------------------
(* Small instances of JobQueue for TLC; the runs that check liveness use   *)
(* no symmetry, the others stop at their first counterexample.             *)
EXTENDS JobQueue

=============================================================================
