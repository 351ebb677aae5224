------------------------------ MODULE Relations ------------------------------
(***************************************************************************)
(* The relation field and the questions its readers ask.  A reader works   *)
(* on the copy it loaded, so a question takes no step together with a      *)
(* request: it meets the field as a set of records.  What the field        *)
(* ensures of every record it ever hands out is Settled, and no more than   *)
(* that is assumed of the records a question may meet.                     *)
(***************************************************************************)
EXTENDS RelationField, Sequences

CONSTANTS
  None,           \* no target
  \* of the questions
  Entities, Ledger, SubjectOf, ObjectOf, HopTypeOf, Records, Limit, ShowLimit, MaxDepth

VARIABLES record, query, stack, paths, phase, reply

pathVars == <<record, query, stack, paths, phase, reply>>

Path == INSTANCE RelationPaths WITH TypeOf <- HopTypeOf

\* A relation has one place in the dictionary the field is read into, its two
\* ends are entities, and a search stops after a number of paths.
ASSUME LedgerAssumption ==
  /\ Ledger \in Seq(Path!Edges)
  /\ \A i, j \in 1..Len(Ledger) : Ledger[i] = Ledger[j] => i = j
ASSUME EndsAssumption ==
  SubjectOf \in [Path!Edges -> Entities] /\ ObjectOf \in [Path!Edges -> Entities]
ASSUME LimitAssumption == Limit \in Nat

\* What a record's status shows: it was never contradicted unless it is
\* disputed, and a canonical one is not undecided.
Settled(r, canonical) ==
  /\ r.contradicted => r.status = "disputed"
  /\ canonical => r.status \in {"committed", "disputed"}

ASSUME RecordsAssumption ==
  \A r \in Records : r.ids \in Nat /\ Settled(r, Path!Canonical(r))

-----------------------------------------------------------------------------
\* A complete search finds the simple paths, each once (RelationPaths).
PathsAreExact == Path!PathsAreExact

\* The four verdicts on one path differ by one thing each (RelationPaths).
VerdictLadder == Path!VerdictLadder
=============================================================================
