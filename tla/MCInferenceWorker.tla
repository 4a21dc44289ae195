------------------------- MODULE MCInferenceWorker --------------------------
(* InferenceWorker for TLC: the values of its constants are in the .cfg files. *)
EXTENDS InferenceWorker, TLC

\* Replicas are interchangeable.
Symmetry == Permutations(Replica)
=============================================================================
