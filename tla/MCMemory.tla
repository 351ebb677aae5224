------------------------------ MODULE MCMemory -------------------------------
(***************************************************************************)
(* What keeps facts, for TLC: the vault trainer and its manifest, the      *)
(* tombstones, and the cortex with its memory, the courses of its audits   *)
(* and its episodes.  No model shares state with another, so a behaviour   *)
(* runs one of them, its `part`, and the others do not move.               *)
(***************************************************************************)
EXTENDS VaultTraining, Memory, TLC

CONSTANTS t1, t2, t3, a, b

\* Training: t3 repeats a chunk, t2 is a part of t1.
MCChunksOf == [tx \in Texts |-> CASE tx = t1 -> <<a, b>> [] tx = t2 -> <<b>>
                                    [] tx = t3 -> <<a, a>>]

\* Tombstones: facts 1 and 2 are copies of one chunk, 3 the same words from
\* another file.
MCFacts == 1 .. 3
MCContentOf == [f \in MCFacts |-> "words"]
MCSidOf == [f \in MCFacts |-> IF f = 3 THEN "b" ELSE "a"]
MCTrustOf == [f \in MCFacts |-> IF f = 2 THEN "verified" ELSE "plain"]

VARIABLE part

\* The domains the audits use.
MCDomains == {5, 6, 7, 23, 29, 31}

\* The one episode of the behaviours of other parts.
AScript == CHOOSE s \in Episode!Scripts : TRUE

MCInit ==
  /\ part \in {"training", "tombstones", "cortex", "course", "episode"}
  /\ Init /\ (part = "training" \/ text = [f \in Files |-> t1])
  /\ Tomb!Init /\ Cortex!Init
  /\ IF part = "course" THEN Course!Init
     ELSE learner = None /\ domain = None /\ taught = None /\ stage = None /\ cell = None
  /\ IF part = "episode" THEN TRUE ELSE script = AScript
  /\ Episode!Init

MCNext ==
  \/ /\ part = "training" /\ Next
     /\ UNCHANGED <<part, tombVars, cortexVars, courseVars, episodeVars>>
  \/ /\ part = "tombstones" /\ Tomb!Next
     /\ UNCHANGED <<part, vars, cortexVars, courseVars, episodeVars>>
  \/ /\ part = "cortex" /\ Cortex!Next
     /\ UNCHANGED <<part, vars, tombVars, courseVars, episodeVars>>
  \/ /\ part = "course" /\ Course!Next
     /\ UNCHANGED <<part, vars, tombVars, cortexVars, episodeVars>>
  \/ /\ part = "episode" /\ Episode!Next
     /\ UNCHANGED <<part, vars, tombVars, cortexVars, courseVars>>

MCSpec ==
  MCInit /\ [][MCNext]_<<part, vars, tombVars, cortexVars, courseVars, episodeVars>>

Symmetry == Permutations(Threads)
=============================================================================
