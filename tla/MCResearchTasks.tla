--------------------------- MODULE MCResearchTasks ---------------------------
(***************************************************************************)
(* Instances of ResearchTasks for TLC: the ids of tasks are                *)
(* interchangeable, so safety runs use them as a symmetry set.             *)
(***************************************************************************)
EXTENDS ResearchTasks, TLC

Symmetry == Permutations(TaskIds)
=============================================================================
