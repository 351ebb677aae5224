------------------------- MODULE EpistemicContract ---------------------------
(***************************************************************************)
(* What an answer of BYON promises (gateway/epistemic_search.py and        *)
(* gateway/normalizer.py), whatever the stages that produce it: evidence   *)
(* is gathered, then one verdict is passed that the evidence justifies,    *)
(* then that verdict, or an empty refusal, is delivered.                   *)
(***************************************************************************)

CONSTANT Open   \* no verdict, nothing delivered, yet

VARIABLES
  evidence,     \* kinds of evidence gathered
  verdict,      \* the epistemic status of the answer
  delivered     \* the status the caller is given

Evidence == {
  "runtime",    \* the program's own state
  "committed",  \* a fact of a committed trust tier
  "own",        \* the user's own words, taught now or lately
  "backend",    \* another backend's word
  "converged",  \* enough results agree, and such results may be committed
  "single",     \* all results that make a claim make the same
  "conflict",   \* two sources contradict each other
  "hint",       \* a fact that is not committed
  "prior",      \* a model's hypothesis
  "price"}      \* a paid source is known

Statuses == {"KNOWN", "PROVISIONAL", "PROVISIONAL_UNVERIFIED", "DISPUTED",
  "NEEDS_MORE_TIME", "ASK_USER_FOR_SOURCE", "UNKNOWN", "REFUSED", "ERROR",
  "SELF_STATE_GROUNDED", "ACTION_DONE", "ACTION_REQUIRED", "BUDGET_REQUIRED"}

\* The evidence that justifies a verdict; the other verdicts claim nothing.
Justification == [
  KNOWN |-> {"runtime", "committed", "own", "converged", "backend"},
  PROVISIONAL |-> {"single", "hint", "backend"},
  PROVISIONAL_UNVERIFIED |-> {"prior"},
  DISPUTED |-> {"conflict"},
  SELF_STATE_GROUNDED |-> {"runtime"},
  ACTION_DONE |-> {"runtime", "own"},
  ACTION_REQUIRED |-> {"runtime"},
  BUDGET_REQUIRED |-> {"price"}]

Justified(status, e) ==
  status \in DOMAIN Justification => Justification[status] \cap e # {}

Init == evidence \subseteq Evidence /\ verdict = Open /\ delivered = Open

Gather ==
  /\ verdict = Open
  /\ evidence' \in SUBSET Evidence /\ evidence \subseteq evidence'
  /\ UNCHANGED <<verdict, delivered>>

Judge ==
  /\ verdict = Open
  /\ evidence' \in SUBSET Evidence /\ evidence \subseteq evidence'
  /\ verdict' \in {s \in Statuses : Justified(s, evidence')}
  /\ UNCHANGED delivered

Deliver ==
  /\ verdict # Open /\ delivered = Open
  /\ delivered' \in {verdict, "REFUSED", "ERROR"}
  /\ UNCHANGED <<evidence, verdict>>

Next == Gather \/ Judge \/ Deliver

Spec == Init /\ [][Next]_<<evidence, verdict, delivered>>
=============================================================================
