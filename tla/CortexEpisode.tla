---------------------------- MODULE CortexEpisode ----------------------------
(***************************************************************************)
(* Training of the cortex (dcortex/v99_source.py): an episode of the       *)
(* synthetic world, which labels every event from its own books, beside    *)
(* the ledger of the forward pass, which sees the event alone.  The two    *)
(* are written apart; what one teaches the other must be able to answer.   *)
(*                                                                         *)
(* A source is its role: "good" is trusted, "bad" distrusted, any other    *)
(* neutral; an event from the good one carries the trusted hint.  Ablation *)
(* switches are off and the memory is empty at the start.                  *)
(***************************************************************************)
EXTENDS Integers, FiniteSets

CONSTANTS
  T,          \* cfg.seq_len
  NKeys, NValues,
  Unknown     \* the class n_values of the decision head

Keys == 0 .. NKeys - 1
Values == 0 .. NValues - 1

VARIABLES
  script,     \* what was drawn for the episode
  t,          \* the step to come
  flipped,    \* the sources have changed roles
  world,      \* the books of the world
  core,       \* the ledger of the forward pass
  row         \* the last event

vars == <<script, t, flipped, world, core, row>>

Roles == {"good", "bad", "neutral"}
Events == {"observe", "relate", "rule_flip", "correct", "source_flip", "archive_query",
           "query", "conflict", "idle"}
Row == [ev : Events, key : Keys, value : Values, role : Roles, rel : Keys]

NoRow == [ev |-> "idle", key |-> 0, value |-> 0, role |-> "neutral", rel |-> 0]

\* A book: the keys that have a value or an archived one, with their values,
\* the relation of each related key, and the contested keys.
Book == [known : SUBSET Keys, current : [Keys -> Values],
         archived : SUBSET Keys, archive : [Keys -> Values],
         related : SUBSET Keys, relation : [Keys -> Keys], contested : SUBSET Keys]
NoBook ==
  [known |-> {}, current |-> [k \in Keys |-> 0], archived |-> {},
   archive |-> [k \in Keys |-> 0], related |-> {}, relation |-> [k \in Keys |-> k],
   contested |-> {}]

-----------------------------------------------------------------------------
\* The draw of an episode.

Scripts ==
  {s \in [main : Keys, aux : Keys, a : Values, b : Values, c : Values, ood : BOOLEAN,
          flip : T \div 3 .. T \div 3 + 3, lag : 1..3, wait : 3..5] :
     s.main # s.aux /\ s.a # s.b /\ s.b # s.c}

Least(x, y) == IF x < y THEN x ELSE y
ShiftStep(s) == s.flip + s.lag
RelationStep(s) == s.flip - 2        \* max(2, flip - 2), with T >= 12
ArchiveStep(s) == Least(T - 3, ShiftStep(s) + s.wait)
QuerySteps(s) == {T - 1, Least(T - 2, s.flip + 2), s.flip - 1}

Init ==
  /\ script \in Scripts
  /\ t = 0 /\ flipped = FALSE
  /\ world = NoBook /\ core = NoBook /\ row = NoRow

-----------------------------------------------------------------------------
\* The event of a step: the first case that fits.  An idle one is a delay or a
\* distractor, with a key and a source drawn at random: it touches no book.

Event(ev, key, value, role) ==
  [ev |-> ev, key |-> key, value |-> value, role |-> role, rel |-> 0]

Scripted(s, step) ==
  IF step = 0 THEN {Event("observe", s.main, s.a, "good")}
  ELSE IF step = 1 THEN {Event("observe", s.aux, s.b, "good")}
  ELSE IF step = RelationStep(s) THEN
    {[Event("relate", s.main, s.a, "good") EXCEPT !.rel = s.aux]}
  ELSE IF step = s.flip THEN {Event("rule_flip", s.main, s.b, "bad")}
  ELSE IF step = s.flip + 1 THEN {Event("correct", s.main, s.c, "good")}
  \* out of distribution, the source speaks when the roles have changed already
  ELSE IF step = ShiftStep(s) THEN
    {Event("source_flip", s.aux, s.c, IF s.ood THEN "good" ELSE "bad")}
  ELSE IF step = ArchiveStep(s) THEN
    {Event("archive_query", s.main, world.archive[s.main], "good")}
  ELSE IF step \in QuerySteps(s) THEN
    {Event("query", s.main, world.current[s.main], "good")}
  ELSE IF step % 5 = 0 THEN
    {Event("conflict", s.main, (world.current[s.main] + 1) % NValues, "bad")}
  ELSE IF step % 4 = 0 THEN {Event("observe", s.aux, world.current[s.aux], "good")}
  ELSE {Event("idle", k, 0, role) : k \in Keys, role \in Roles}

-----------------------------------------------------------------------------
\* What an event does to a book.

Contested(b, e) ==
  IF e.ev \in {"conflict", "rule_flip"} THEN b.contested \cup {e.key} ELSE b.contested

\* The world writes what its script says, the source shift only out of
\* distribution; it archives a first value too, and a source shift does not.
WorldAfter(b, e, s) ==
  LET writes == e.ev \in {"observe", "correct"} \/ (e.ev = "source_flip" /\ s.ood)
      keeps == (e.ev = "observe" /\ e.key \notin b.archived)
      old == IF e.ev = "correct" THEN b.current[e.key]
             ELSE IF keeps THEN e.value ELSE b.archive[e.key]
  IN [b EXCEPT
        !.archive[e.key] = old,
        !.archived = IF keeps \/ e.ev = "correct" THEN @ \cup {e.key} ELSE @,
        !.current[e.key] = IF writes THEN e.value ELSE @,
        !.known = IF writes THEN @ \cup {e.key} ELSE @,
        !.relation[e.key] = IF e.ev = "relate" THEN e.rel ELSE @,
        !.related = IF e.ev = "relate" THEN @ \cup {e.key} ELSE @,
        !.contested = Contested(b, e)]

Reliable(e) == e.role = "good"

\* Mutant: what is said is written whoever says it.
MutCoreAfter(b, e) ==
  LET writes == e.ev \in {"observe", "correct", "source_flip"}
      changes == writes /\ e.key \in b.known /\ b.current[e.key] # e.value
  IN [b EXCEPT
        !.archive[e.key] = IF changes THEN b.current[e.key] ELSE @,
        !.archived = IF changes THEN @ \cup {e.key} ELSE @,
        !.current[e.key] = IF writes THEN e.value ELSE @,
        !.known = IF writes THEN @ \cup {e.key} ELSE @,
        !.relation[e.key] = IF e.ev = "relate" THEN e.rel ELSE @,
        !.related = IF e.ev = "relate" THEN @ \cup {e.key} ELSE @,
        !.contested = Contested(b, e)]

\* The core writes what a reliable source says, and archives what that changes.
CoreAfter(b, e) ==
  LET writes == e.ev \in {"observe", "correct", "source_flip"} /\ Reliable(e)
      relates == e.ev = "relate" /\ Reliable(e)
      changes == writes /\ e.key \in b.known /\ b.current[e.key] # e.value
  IN [b EXCEPT
        !.archive[e.key] = IF changes THEN b.current[e.key] ELSE @,
        !.archived = IF changes THEN @ \cup {e.key} ELSE @,
        !.current[e.key] = IF writes THEN e.value ELSE @,
        !.known = IF writes THEN @ \cup {e.key} ELSE @,
        !.relation[e.key] = IF relates THEN e.rel ELSE @,
        !.related = IF relates THEN @ \cup {e.key} ELSE @,
        !.contested = Contested(b, e)]

Step ==
  /\ t < T
  /\ \E e \in Scripted(script, t) :
       /\ row' = e
       /\ world' = WorldAfter(world, e, script)
       /\ core' = CoreAfter(core, e)
       /\ flipped' = (flipped \/ (e.ev = "source_flip" /\ script.ood))
  /\ t' = t + 1
  /\ UNCHANGED script

Next == Step

Spec == Init /\ [][Next]_vars

-----------------------------------------------------------------------------
\* The labels: what the world expects for the row, and what the core answers.

InConflict(b, e) == e.key \in b.contested

WorldAction ==
  CASE row.ev = "query" ->
         IF InConflict(world, row) /\ row.role # "good" THEN "inhibit" ELSE "commit"
    [] row.ev = "archive_query" -> "recover"
    [] row.ev = "correct" -> "revise"
    [] row.ev = "conflict" \/ (row.ev = "rule_flip" /\ row.role = "bad") -> "inhibit"
    [] row.ev = "relate" -> "relate"
    [] OTHER -> "ignore"

\* current.get(k, 0) is what the function holds.
WorldDecision ==
  LET related == world.current[world.relation[row.key]]
  IN CASE row.ev \in {"query", "relate"} -> related
       [] row.ev = "archive_query" -> world.archive[row.key]
       [] row.ev = "correct" -> row.value
       [] OTHER -> world.current[row.key]

CoreKey ==
  IF row.ev = "query" /\ row.rel # row.key /\ row.key \in core.related
  THEN core.relation[row.key] ELSE row.key

Abstains ==
  \/ row.ev = "query" /\ CoreKey \notin core.known
  \/ row.ev = "archive_query" /\ row.key \notin core.archived \cup core.known

CoreAction ==
  CASE Abstains -> "inhibit"
    [] row.ev = "query" /\ ~Abstains ->
         IF InConflict(core, row) /\ ~Reliable(row) THEN "inhibit" ELSE "commit"
    [] row.ev = "archive_query" /\ ~Abstains -> "recover"
    [] row.ev = "correct" -> "revise"
    [] row.ev \in {"conflict", "rule_flip"} /\ ~Reliable(row) -> "inhibit"
    [] row.ev = "relate" -> "relate"
    [] OTHER -> "ignore"

\* The older value of a key, which is the current one as long as there is none.
CoreOlder(k) == IF k \in core.archived THEN core.archive[k] ELSE core.current[k]

CoreDecision ==
  CASE Abstains -> Unknown
    [] row.ev = "query" /\ ~Abstains -> core.current[CoreKey]
    [] row.ev = "archive_query" /\ ~Abstains -> CoreOlder(row.key)
    [] row.ev = "correct" -> row.value
    [] row.ev = "relate" -> core.current[core.relation[row.key]]
    [] OTHER -> core.current[row.key]

\* The one row the world labels through a relation that it does not show: a
\* query has relation field 0, which for key 0 asks for the direct read.
HiddenRelation == row.ev = "query" /\ row.key = 0

-----------------------------------------------------------------------------
TypeOK ==
  /\ script \in Scripts /\ t \in 0..T /\ flipped \in BOOLEAN
  /\ world \in Book /\ core \in Book /\ row \in Row

\* What the world expects of an event is what the core answers, in every episode
\* and whatever the sources turn into: actions, decisions, conflicts, and the
\* current, older and related value of a known key.  A label the core cannot
\* give would be trained against it.
LabelsAgree ==
  t > 0 =>
    /\ WorldAction = CoreAction
    /\ HiddenRelation \/ WorldDecision = CoreDecision
    /\ world.contested = core.contested
    /\ world.known = core.known /\ world.related = core.related
    /\ \A k \in core.known :
         /\ world.current[k] = core.current[k]
         /\ world.archive[k] = CoreOlder(k)
=============================================================================
