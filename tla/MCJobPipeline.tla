--------------------------- MODULE MCJobPipeline ----------------------------
(* JobPipeline for TLC: the values of its constants are in the .cfg files.    *)
EXTENDS JobPipeline, TLC

\* Tiles, replicas and requests are interchangeable.
Symmetry ==
    Permutations(Tile) \cup Permutations(Replica) \cup Permutations(Request)
=============================================================================
