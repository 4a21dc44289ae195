------------------------------ MODULE MCWorker ------------------------------
(* Worker for TLC: the values of its constants are in the .cfg files.         *)
EXTENDS Worker, TLC

\* Workers are interchangeable.
Symmetry == Permutations(Worker)
=============================================================================
