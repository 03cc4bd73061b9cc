------------------------- MODULE MCGenerationManager -------------------------
(* Small instances of GenerationManager for TLC. *)
EXTENDS GenerationManager, TLC

\* Requests, instances and callers are interchangeable in the safety runs.
Symmetry == Permutations(Callers) \cup Permutations(Instances)
=============================================================================
