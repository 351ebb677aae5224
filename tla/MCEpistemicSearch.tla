------------------------- MODULE MCEpistemicSearch ---------------------------
(***************************************************************************)
(* Every question, over eight kinds of hits, for TLC.                      *)
(***************************************************************************)
EXTENDS EpistemicSearch, TLC

hit(o, t) == [origin |-> o, trust |-> t]

MCHits == {
  hit("canonical", "VERIFIED_PROJECT_FACT"),
  hit("relation", "USER_MEMORY_GROUNDED"),
  hit("vault", "EXTRACTED_USER_CLAIM"), hit("vault", "VERIFIED_PROJECT_FACT"),
  hit("other", "DOMAIN_VERIFIED"), hit("other", "USER_PREFERENCE"),
  hit("other", "none"), hit("other", "DISPUTED_OR_UNSAFE")}

Symmetry == Permutations(Claims)
=============================================================================
