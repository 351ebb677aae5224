------------------------------ MODULE MCSearch -------------------------------
(***************************************************************************)
(* One user's questions, and what the same user's feedback teaches, for    *)
(* TLC.  The search reads no learning ledger while it runs, so a behaviour *)
(* is either one question, `part` "search", or a course of learning.       *)
(***************************************************************************)
EXTENDS MCEpistemicSearch, Learning

VARIABLE part

MCInit ==
  /\ part \in {"search", "learning"}
  /\ Init /\ (part = "search" \/ question = CHOOSE q \in Questions : TRUE)
  /\ Learn!Init

MCNext ==
  \/ part = "search" /\ Next /\ UNCHANGED <<part, learnVars>>
  \/ part = "learning" /\ Learn!Next /\ UNCHANGED <<part, vars>>

MCSpec == MCInit /\ [][MCNext]_<<part, vars, learnVars>>
=============================================================================
