------------------------------ MODULE Learning -------------------------------
(***************************************************************************)
(* The learning ledgers of a user, beside the searches of the same user:   *)
(* a search reads none of them while it runs.  What learning promises is   *)
(* said here in the words of its own module.                               *)
(***************************************************************************)
EXTENDS Naturals

CONSTANTS Threads, Values, NoValue, Threshold, MaxWeight, MaxOps, MaxCrashes

VARIABLES candidates, facts, archive, service, buffer, pc, value, rows, todo, ops,
  crashes, earned, given, overlapped

learnVars == <<candidates, facts, archive, service, buffer, pc, value, rows, todo, ops,
               crashes, earned, given, overlapped>>

Learn == INSTANCE ContinuousLearning

ASSUME LearnNumbers == Learn!Numbers

-----------------------------------------------------------------------------
\* What is promoted was earned (ContinuousLearning).
PromotionEarned == Learn!PromotionEarned

\* Short of overlap and crash the ledger is exact (ContinuousLearning).
LedgerExact == Learn!LedgerExact
=============================================================================
