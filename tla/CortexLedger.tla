---------------------------- MODULE CortexLedger -----------------------------
(***************************************************************************)
(* The addressable memory of the D_Cortex model (dcortex/v99_source.py):   *)
(* what one observed event, a sleep and a query do with it.  The neural    *)
(* logits, the Z registers and the plastic prior are left out: at          *)
(* evaluation the ledger's one-hot answer dominates them.                  *)
(***************************************************************************)
EXTENDS Naturals, FiniteSets

CONSTANTS
  NKeys, NValues,   \* cfg.n_keys, cfg.n_values
  Sources,
  M,                \* V99_COMMIT_RETROGRADE_M
  Unknown           \* the class n_values of the decision head

Keys == 0 .. NKeys - 1
Values == 0 .. NValues - 1
NextKey(k) == (k + 1) % NKeys

Blank ==
  [current        |-> [k \in Keys |-> 0],
   archive        |-> [k \in Keys |-> 0],
   known          |-> {},
   archiveKnown   |-> {},
   relation       |-> [k \in Keys |-> k],
   hasRelation    |-> {},
   trusted        |-> {},               \* sources with persistent_trust 2
   commitCount    |-> [k \in Keys |-> 0],
   committed      |-> {},
   challenger     |-> [k \in Keys |-> 0],
   challengerCount |-> [k \in Keys |-> 0]]

Memory ==
  [current : [Keys -> Values], archive : [Keys -> Values],
   known : SUBSET Keys, archiveKnown : SUBSET Keys,
   relation : [Keys -> Keys], hasRelation : SUBSET Keys,
   trusted : SUBSET Sources, commitCount : [Keys -> Nat], committed : SUBSET Keys,
   challenger : [Keys -> Values], challengerCount : [Keys -> Nat]]

-----------------------------------------------------------------------------
\* ingest_events_into_persistent_memory, one event.

\* The events that touch the memory; hinted: trust_hint is 2.
Event ==
  [kind : {"observe", "correct", "source_flip"}, key : Keys, value : Values,
   source : Sources, hinted : BOOLEAN]
  \cup [kind : {"relate"}, key : Keys, rel : Keys, source : Sources, hinted : BOOLEAN]

Reliable(m, e) == e.hinted \/ e.source \in m.trusted

States(m, e) == e.kind # "relate" /\ Reliable(m, e)

\* Mutant: whatever is said against a value counts for the last that was said.
MutChallenged(m, k, v) ==
  [m EXCEPT !.challengerCount[k] = @ + 1, !.challenger[k] = v]

\* A committed value is not overwritten: the contradiction counts against it,
\* and another one starts the count anew.
Challenged(m, k, v) ==
  [m EXCEPT !.challengerCount[k] = IF m.challenger[k] = v THEN @ + 1 ELSE 1,
            !.challenger[k] = v]

Written(m, k, v) ==
  LET same == k \in m.known /\ m.current[k] = v
      other == k \in m.known /\ m.current[k] # v
  IN [m EXCEPT !.archive[k] = IF other THEN m.current[k] ELSE @,
               !.archiveKnown = IF other THEN @ \cup {k} ELSE @,
               !.commitCount[k] = IF same THEN @ + 1 ELSE 1,
               !.current[k] = v,
               !.known = @ \cup {k},
               !.challengerCount[k] = 0]

\* Mutant: a committed value is overwritten like any other.
MutStated(m, k, v) == Written(m, k, v)

Stated(m, k, v) ==
  IF k \in m.committed /\ m.current[k] # v THEN Challenged(m, k, v) ELSE Written(m, k, v)

\* Reliability is asked before the flip makes a source trusted.
Heard(m, e) ==
  LET flipped == [m EXCEPT !.trusted =
                    IF e.kind = "source_flip" /\ e.hinted THEN @ \cup {e.source} ELSE @]
  IN CASE States(m, e) -> Stated(flipped, e.key, e.value)
       [] e.kind = "relate" /\ Reliable(m, e) ->
            [flipped EXCEPT !.relation[e.key] = e.rel, !.hasRelation = @ \cup {e.key}]
       [] OTHER -> flipped

-----------------------------------------------------------------------------
\* sleep_consolidate_persistent_memory.

Wins(m, k) == m.challengerCount[k] >= M /\ m.challenger[k] # m.current[k]

Slept(m) ==
  LET beaten == {k \in m.known : Wins(m, k)}
      current == [k \in Keys |-> IF k \in beaten THEN m.challenger[k] ELSE m.current[k]]
  IN [m EXCEPT
        !.archive = [k \in Keys |-> IF k \in beaten THEN m.current[k] ELSE @[k]],
        !.archiveKnown = @ \cup beaten,
        !.current = current,
        !.commitCount = [k \in Keys |-> IF k \in beaten THEN m.challengerCount[k] ELSE @[k]],
        !.committed = @ \cup m.known,
        !.challengerCount = [k \in Keys |-> IF k \in m.known THEN 0 ELSE @[k]],
        !.challenger = [k \in Keys |-> IF k \in m.known THEN current[k] ELSE @[k]]]

-----------------------------------------------------------------------------
\* _forward_bound_morphogenetic_logits on a query packet.

\* A query whose relation field differs from its key is read through the relation.
ReadKey(m, k, rel) == IF rel # k /\ k \in m.hasRelation THEN m.relation[k] ELSE k

\* Mutant: the contract looks at the key asked for, not at the key read.
MutAnswer(m, k, rel) ==
  IF k \in m.known THEN m.current[ReadKey(m, k, rel)] ELSE Unknown

Answer(m, k, rel) ==
  IF ReadKey(m, k, rel) \in m.known THEN m.current[ReadKey(m, k, rel)] ELSE Unknown

ArchiveAnswer(m, k) ==
  CASE k \in m.archiveKnown -> m.archive[k]
    [] k \in m.known \ m.archiveKnown -> m.current[k]
    [] OTHER -> Unknown
=============================================================================
