-------------------------- MODULE MCTrueNASClient --------------------------
(* Small instances of TrueNASClient for TLC.                               *)
EXTENDS TrueNASClient, TLC

\* Two calls are interchangeable when neither, or both, wait for a job.
Symmetry == Permutations(Calls \ JobCalls) \cup Permutations(JobCalls)
=============================================================================
