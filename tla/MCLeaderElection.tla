-------------------------- MODULE MCLeaderElection --------------------------
(* LeaderElection for TLC: the values of its constants are in the .cfg files. *)
EXTENDS LeaderElection, TLC

\* The replicas are interchangeable.
Symmetry == Permutations(Replica)
=============================================================================
