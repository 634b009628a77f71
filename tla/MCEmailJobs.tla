---------------------------- MODULE MCEmailJobs -----------------------------
(***************************************************************************)
(* Small instances of EmailJobs for TLC.                                   *)
(***************************************************************************)
EXTENDS EmailJobs, TLC

\* Rows and executions are interchangeable; not used with liveness.
Symmetry == Permutations(Jobs) \cup Permutations(Polls)
=============================================================================
