------------------------- MODULE MCEngineConsistency -------------------------
(***************************************************************************)
(* The marker among a few trainers and gateway threads, for TLC.           *)
(***************************************************************************)
EXTENDS EngineConsistency, TLC

Symmetry == Permutations(Writers) \cup Permutations(Readers)
=============================================================================
