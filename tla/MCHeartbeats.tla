---------------------------- MODULE MCHeartbeats ----------------------------
(* Heartbeats for TLC.  Nothing tells the replicas apart.                     *)
EXTENDS Heartbeats, TLC

Symmetry == Permutations(Replica)
=============================================================================
