------------------------- MODULE MCCandidateLifecycle -------------------------
(***************************************************************************)
(* Instances of CandidateLifecycle: "Monday" and "Friday" answer one       *)
(* question differently, "MondayNoon" narrows "Monday" and contradicts     *)
(* "Friday" too.                                                           *)
(***************************************************************************)
EXTENDS CandidateLifecycle, TLC

CONSTANTS
  Monday, Friday, MondayNoon,
  Opposition,                             \* how Friday opposes the others
  user1, user2, web1, web2, canon, other  \* source keys

MCRelation ==
  [p \in Claims \X Claims |->
     IF p[1] = p[2] THEN "supports"
     ELSE IF Friday \in {p[1], p[2]} THEN Opposition ELSE "related"]

MCClassOf ==
  [k \in Keys |-> CASE k \in {user1, user2} -> "EXTRACTED_USER_CLAIM"
                    [] k \in {web1, web2} -> "PROVISIONAL_WEB"
                    [] k = canon -> "SYSTEM_CANONICAL"
                    [] k = other -> "UNKNOWN"]

\* Bound: either a crash or a load or append that fails.
OneFault == crashes + failures <= 1

Symmetry ==
  Permutations(Ids) \cup Permutations(Workers)
    \cup Permutations({web1, web2} \cap Keys) \cup Permutations({user1, user2} \cap Keys)
=============================================================================
