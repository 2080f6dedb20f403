-------------------------- MODULE MCEntryLifecycle --------------------------
(* Small instances of EntryLifecycle for TLC.                              *)
EXTENDS EntryLifecycle, TLC

CONSTANTS e1, e2

\* One coordinator that reports a rejected key, and one that tolerates errors.
TwoCoordinators == <<"system", "apps">>

\* The key of the first server may be replaced.
RotatingKeys == [e \in Entries |-> IF e = e1 THEN {"old", "new"} ELSE {"only"}]

\* No client differs from another.
Symmetry == Permutations(Clients)
=============================================================================
