----------------------------- MODULE MCRelations -----------------------------
(***************************************************************************)
(* The relation field as requests change it, and the paths its readers     *)
(* walk, for TLC: a behaviour is either requests over one ledger or one    *)
(* question about a loaded copy.                                           *)
(*                                                                         *)
(* The ledger has an objective relation, a seeded one and a statement that *)
(* contradicts both.  The sources are the seed itself, a fact of a         *)
(* verified class that comes as a text and as a relation fact, a note of   *)
(* the user that comes as a text and as a dispute, and the candidate a gap *)
(* task makes of an answer out of the user's notes.  The triangle of the   *)
(* questions has one relation of each directionality.                      *)
(***************************************************************************)
EXTENDS Relations, TLC

CONSTANTS dep, seed, neg, rs, fact, note, echo, a, b, c

VARIABLE part

MCBetween == [n \in {neg} |-> {dep, seed}]
MCClassOf == (rs :> "VERIFIED_PROJECT_FACT") @@ (fact :> "DOMAIN_VERIFIED")
             @@ (note :> "EXTRACTED_USER_CLAIM") @@ (echo :> "EXTRACTED_USER_CLAIM")
MCCites == {<<rs, seed>>, <<fact, dep>>, <<note, dep>>, <<echo, dep>>, <<note, neg>>}
MCVouches == {<<fact, dep>>}
MCDenies == {<<note, neg>>}
MCTypeOf == (dep :> "depends_on") @@ (seed :> "has_component") @@ (neg :> "contradicts")
Symmetry == Permutations(Requests)

MCLedger == <<"ab", "bc", "ca">>
MCSubjectOf == [ab |-> a, bc |-> b, ca |-> c]
MCObjectOf == [ab |-> b, bc |-> c, ca |-> a]
MCHopTypeOf == [ab |-> "depends_on", bc |-> "broader_than", ca |-> "contradicts"]

Rec(status, canonical, class, ids, age) ==
  [status |-> status, contradicted |-> status = "disputed", canonical |-> canonical,
   classes |-> {class}, ids |-> ids, confidence |-> 70, age |-> age]
\* A seeded relation, one consolidated from two facts, one a relation fact named
\* no source for, one two notes of the user state, an old web candidate, and a
\* seeded relation someone denied.
MCRecords == {Rec("committed", TRUE, "VERIFIED_PROJECT_FACT", 1, 40),
              Rec("committed", FALSE, "DOMAIN_VERIFIED", 2, 20),
              Rec("committed", FALSE, "DOMAIN_VERIFIED", 0, 20),
              Rec("reinforced", FALSE, "EXTRACTED_USER_CLAIM", 2, 3),
              Rec("candidate", FALSE, "PROVISIONAL_WEB", 1, 90),
              Rec("disputed", TRUE, "VERIFIED_PROJECT_FACT", 2, 20)}

Idle == /\ record = None /\ query = None /\ stack = None
        /\ paths = None /\ phase = None /\ reply = None

MCInit ==
  /\ Init
  /\ \/ part = "field" /\ Idle
     \/ part = "paths" /\ Path!Init

MCNext ==
  \/ part = "field" /\ Next /\ UNCHANGED <<part, pathVars>>
  \/ part = "paths" /\ Path!Next /\ UNCHANGED <<part, vars>>

MCSpec == MCInit /\ [][MCNext]_<<part, vars, pathVars>>

\* Bound: a load or an append that fails takes the place of a third request.
Budget == opens + slips <= 3

\* The requests alone.
FieldSpec == (Init /\ part = "field" /\ Idle) /\ [][MCNext]_<<part, vars, pathVars>>
=============================================================================
