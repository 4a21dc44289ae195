----------------------------- MODULE MCJobKeys -----------------------------
(* JobKeys for TLC: the values of its constants are in the .cfg files.       *)
EXTENDS JobKeys
=============================================================================
