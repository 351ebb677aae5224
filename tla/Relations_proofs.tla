-------------------------- MODULE Relations_proofs --------------------------
(***************************************************************************)
(* Proofs about the relation field and its readers.  For every number of   *)
(* requests, every set of relations, sources and echoes, and every         *)
(* assignment of classes and types: committed relations have earned it     *)
(* however requests overlap and loads and appends fail, the status of a    *)
(* record shows what happened to it, and evidence is lost only through a   *)
(* copy that others are ahead of or to which the file did not open.        *)
(* For every ledger and every question: a search that is not cut off finds *)
(* exactly the simple paths, and the verdicts on a path agree.             *)
(***************************************************************************)
EXTENDS Relations, FiniteSetTheorems, SequenceTheorems, TLAPS

\* Only the seed makes a record canonical, and a commit outside it is earned.
\* The status of every record shows what happened to it.
Sound(e, r) ==
  /\ Settled(r, Canonical(r))
  /\ e \in Relations \ Seeded => ~r.canonical /\ (r.status = "committed" => Earned(e, r))

AllSound ==
  \A e \in Relations :
    Sound(e, file[e]) /\ \A p \in Requests : Sound(e, copy[p][e])

\* The copy of an open request has all that the ledger has, but for what it is
\* behind on and what its load missed.
Current ==
  \A p \in Requests : pc[p] # "closed" =>
    \A e \in Relations \ (behind[p] \cup missed[p]) : ~Loses(file[e], copy[p][e])

IInv == TypeOK /\ AllSound /\ Current

\* What LossIsExplained says of a step.
LossStep ==
  \A e \in Relations :
    Loses(file[e], file'[e]) => \E p \in Requests : e \in behind[p] \cup missed[p]

-----------------------------------------------------------------------------
\* Lemmas on records.

LEMMA TwoOfThem ==
  ASSUME NEW S, Cardinality(S) >= 2
  PROVE  \E s, t \in S : s # t
<1> SUFFICES ASSUME \A s, t \in S : s = t PROVE FALSE
  OBVIOUS
<1>1. CASE S = {}
  BY <1>1, FS_EmptySet
<1>2. CASE S # {}
  <2>1. PICK s \in S : S = {s}
    BY <1>2
  <2>2. Cardinality({s}) = 1
    BY FS_Singleton
  <2> QED BY <2>1, <2>2
<1> QED BY <1>1, <1>2

\* add_relation makes a record out of a record.
LEMMA AddedIsRecord ==
  ASSUME NEW r \in Record, NEW s \in Sources, NEW explicit \in Statuses,
         NEW contradiction \in BOOLEAN, NEW seed \in BOOLEAN
  PROVE  /\ Added(r, s, explicit, contradiction, seed) \in Record
         /\ ~Loses(r, Added(r, s, explicit, contradiction, seed))
<1> DEFINE next == [r EXCEPT !.sources = @ \cup {s},
                             !.contradicted = @ \/ contradiction,
                             !.canonical = @ \/ seed]
<1>1. /\ next \in Record /\ r.sources \subseteq next.sources
      /\ r.contradicted => next.contradicted
  BY DEF Record
<1>2. StatusFor(next, explicit) \in Statuses
  BY DEF StatusFor, Statuses
<1>3. Added(r, s, explicit, contradiction, seed) = [next EXCEPT !.status = StatusFor(next, explicit)]
  BY DEF Added
<1> HIDE DEF next
<1>4. [next EXCEPT !.status = StatusFor(next, explicit)] \in Record
  BY <1>1, <1>2 DEF Record
<1>5. /\ [next EXCEPT !.status = StatusFor(next, explicit)].sources = next.sources
      /\ [next EXCEPT !.status = StatusFor(next, explicit)].contradicted = next.contradicted
  BY <1>1 DEF Record
<1> QED BY <1>1, <1>3, <1>4, <1>5 DEF Loses

\* add_relation works the status out from the whole record.
LEMMA AddedIsSettled ==
  ASSUME NEW r \in Record, NEW s \in Sources, NEW explicit \in Statuses,
         NEW contradiction \in BOOLEAN, NEW seed \in BOOLEAN,
         explicit \in {"none", "committed"} \/ contradiction
  PROVE  LET added == Added(r, s, explicit, contradiction, seed)
         IN Settled(added, Canonical(added))
<1> DEFINE next == [r EXCEPT !.sources = @ \cup {s},
                             !.contradicted = @ \/ contradiction,
                             !.canonical = @ \/ seed]
           added == [next EXCEPT !.status = StatusFor(next, explicit)]
<1>1. next \in Record /\ (contradiction => next.contradicted)
  BY DEF Record
<1>2. Added(r, s, explicit, contradiction, seed) = added
  BY DEF Added
<1> HIDE DEF next
<1>3. /\ added.sources = next.sources /\ added.contradicted = next.contradicted
      /\ added.canonical = next.canonical /\ added.status = StatusFor(next, explicit)
  BY <1>1 DEF Record
<1>4. Canonical(added) <=> Canonical(next)
  BY <1>3 DEF Canonical, Classes
<1> HIDE DEF added
<1>5. Settled(added, Canonical(added))
  BY <1>1, <1>3, <1>4 DEF StatusFor, Settled
<1> QED BY <1>2, <1>5

\* An observation leaves a record sound: outside the seed it commits only what
\* was never contradicted and has a canonical source, or one that vouches.
LEMMA AddedIsSound ==
  ASSUME NEW e \in Relations, NEW r \in Record, NEW s \in Sources, NEW explicit \in Statuses,
         NEW contradiction \in BOOLEAN, NEW seed \in BOOLEAN,
         explicit \in {"none", "committed"} \/ contradiction,
         Sound(e, r),
         e \notin Seeded => ~seed /\ (explicit = "committed" => <<s, e>> \in Vouches)
  PROVE  Sound(e, Added(r, s, explicit, contradiction, seed))
<1> DEFINE next == [r EXCEPT !.sources = @ \cup {s},
                             !.contradicted = @ \/ contradiction,
                             !.canonical = @ \/ seed]
<1> DEFINE added == [next EXCEPT !.status = StatusFor(next, explicit)]
<1>1. SUFFICES ASSUME e \notin Seeded
               PROVE  ~added.canonical /\ (added.status = "committed" => Earned(e, added))
  BY AddedIsSettled DEF Sound, Added
<1>2. next \in Record /\ ~next.canonical /\ s \in next.sources
  BY <1>1 DEF Record, Sound
<1> HIDE DEF next
<1>3. /\ added.sources = next.sources /\ added.contradicted = next.contradicted
      /\ added.canonical = next.canonical /\ added.status = StatusFor(next, explicit)
  BY <1>2 DEF Record
<1>4. added.status = "committed" =>
        /\ ~next.contradicted
        /\ "SYSTEM_CANONICAL" \in Classes(next) \/ <<s, e>> \in Vouches
  BY <1>1, <1>2, <1>3 DEF StatusFor, Canonical
<1>5. Classes(added) = Classes(next)
  BY <1>3 DEF Classes
<1> QED BY <1>2, <1>3, <1>4, <1>5 DEF Earned

\* The policy commits only what has earned it.
LEMMA EvaluateIsSound ==
  ASSUME NEW e \in Relations, NEW r \in Record, Sound(e, r),
         r.status \in {"candidate", "reinforced"}
  PROVE  /\ Evaluate(e, r) \in Statuses
         /\ Sound(e, [r EXCEPT !.status = Evaluate(e, r)])
<1> DEFINE next == [r EXCEPT !.status = Evaluate(e, r)]
<1>1. Evaluate(e, r) \in Statuses
  BY DEF Evaluate, Statuses
<1>2. /\ next.sources = r.sources /\ next.contradicted = r.contradicted
      /\ next.canonical = r.canonical /\ next.status = Evaluate(e, r)
  BY DEF Record
<1>3. Classes(next) = Classes(r)
  BY <1>2 DEF Classes
<1>4. Evaluate(e, r) = "committed" =>
        /\ ~r.contradicted
        /\ Canonical(r) \/ Cardinality(r.sources) >= 2
        /\ CommitAllowed(e, r)
  BY DEF Evaluate
<1>5. CommitAllowed(e, r) =>
        /\ "DISPUTED_OR_UNSAFE" \notin Classes(r)
        /\ \/ TypeOf[e] \in {"user_prefers", "mentioned_in", "supports", "contradicts"}
           \/ Classes(r) \cap Verified # {}
  BY DEF CommitAllowed, Verified
<1>6. Cardinality(r.sources) >= 2 => \E s, t \in r.sources : s # t
  BY TwoOfThem
<1> HIDE DEF next
<1>7. e \notin Seeded /\ Evaluate(e, r) = "committed" => Earned(e, next)
  BY <1>2, <1>3, <1>4, <1>5, <1>6 DEF Sound, Canonical, Earned
<1>8. Settled(next, Canonical(next))
  BY <1>2, <1>3 DEF Sound, Settled, Canonical
<1>9. Sound(e, next)
  BY <1>2, <1>7, <1>8 DEF Sound
<1> QED BY <1>1, <1>9 DEF next

-----------------------------------------------------------------------------
\* A record appended, and a ledger left alone.

LEMMA LostIsCounted ==
  ASSUME torn \subseteq {"edges", "contradictions"}, slips \in Nat,
         NEW ledger \in {"edges", "contradictions"},
         Lost(ledger) \/ (torn' = torn /\ Slip(FALSE))
  PROVE  torn' \subseteq {"edges", "contradictions"} /\ slips' \in Nat
<1>1. slips' = slips \/ slips' = slips + 1
  BY DEF Lost, Slip
<1>2. torn' = torn \/ torn' = torn \cup {ledger}
  BY DEF Lost
<1>3. slips' \in Nat
  BY <1>1
<1>4. torn' \subseteq {"edges", "contradictions"}
  BY <1>2
<1> QED BY <1>3, <1>4

LEMMA NothingNew ==
  ASSUME NEW r, NEW next, NEW more, ~Loses(r, next), ~Loses(next, more)
  PROVE  ~Loses(r, more)
BY DEF Loses

LEMMA PutKeeps ==
  ASSUME IInv, NEW p \in Requests, pc[p] # "closed",
         NEW e \in Relations, NEW r \in Record,
         Sound(e, r), ~Loses(copy[p][e], r), Put(p, e, r), missed' = missed,
         \A q \in Requests : pc'[q] # "closed" => pc[q] # "closed"
  PROVE  /\ file' \in [Relations -> Record] /\ copy' \in [Requests -> [Relations -> Record]]
         /\ behind' \in [Requests -> SUBSET Relations] /\ writes' \in Nat
         /\ torn' \subseteq {"edges", "contradictions"} /\ slips' \in Nat
         /\ AllSound' /\ Current' /\ LossStep
<1>1. /\ file \in [Relations -> Record] /\ copy \in [Requests -> [Relations -> Record]]
      /\ behind \in [Requests -> SUBSET Relations] /\ writes \in Nat
      /\ torn \subseteq {"edges", "contradictions"} /\ slips \in Nat
  BY DEF IInv, TypeOK
<1>0. torn' \subseteq {"edges", "contradictions"} /\ slips' \in Nat
  <2>1. Lost("edges") \/ (torn' = torn /\ Slip(FALSE))
    BY DEF Put
  <2> QED BY <1>1, <2>1, LostIsCounted
<1>2. /\ copy' = [copy EXCEPT ![p][e] = r] /\ writes' = writes + 1
      /\ \/ /\ file' = [file EXCEPT ![e] = r]
            /\ behind' = [q \in Requests |-> IF q # p /\ pc[q] # "closed"
                                             THEN behind[q] \cup {e} ELSE behind[q]]
         \/ file' = file /\ behind' = behind
  BY DEF Put
<1>3. /\ file' \in [Relations -> Record] /\ copy' \in [Requests -> [Relations -> Record]]
      /\ behind' \in [Requests -> SUBSET Relations] /\ writes' \in Nat
  BY <1>1, <1>2
<1>4. /\ \A d \in Relations : file'[d] = file[d] \/ (d = e /\ file'[d] = r)
      /\ \A q \in Requests, d \in Relations :
           copy'[q][d] = IF q = p /\ d = e THEN r ELSE copy[q][d]
      /\ \A q \in Requests, d \in Relations :
           d \notin behind'[q] =>
             d \notin behind[q] /\ (q = p \/ pc[q] = "closed" \/ file'[d] = file[d])
  BY <1>1, <1>2
<1>5. AllSound'
  <2> SUFFICES ASSUME NEW d \in Relations
               PROVE  Sound(d, file'[d]) /\ \A q \in Requests : Sound(d, copy'[q][d])
    BY DEF AllSound, Sound
  <2> QED BY <1>4 DEF IInv, AllSound
<1>6. Current'
  <2> SUFFICES ASSUME NEW q \in Requests, pc'[q] # "closed",
                      NEW d \in Relations \ (behind'[q] \cup missed[q])
               PROVE  ~Loses(file'[d], copy'[q][d])
    BY DEF Current
  <2>1. pc[q] # "closed" /\ ~Loses(file[d], copy[q][d])
    BY <1>4 DEF IInv, Current
  <2>2. CASE q = p /\ d = e
    <3>1. copy'[q][d] = r /\ (file'[d] = file[d] \/ file'[d] = r)
      BY <1>4, <2>2
    <3>2. ~Loses(r, r)
      BY DEF Loses
    <3>3. ~Loses(file[d], r)
      BY <2>1, <2>2, NothingNew
    <3> QED BY <3>1, <3>2, <3>3
  <2>3. CASE ~(q = p /\ d = e)
    <3>1. copy'[q][d] = copy[q][d] /\ file'[d] = file[d]
      BY <1>4, <2>1, <2>3
    <3> QED BY <2>1, <3>1
  <2> QED BY <2>2, <2>3
<1>7. LossStep
  <2> SUFFICES ASSUME NEW d \in Relations, Loses(file[d], file'[d])
               PROVE  \E q \in Requests : d \in behind[q] \cup missed[q]
    BY DEF LossStep
  <2>1. ~Loses(file[d], file[d])
    BY DEF Loses
  <2>2. d = e /\ Loses(file[e], r)
    BY <1>4, <2>1
  <2>3. Loses(file[e], copy[p][e])
    BY <2>2, NothingNew
  <2> QED BY <2>2, <2>3 DEF IInv, Current
<1> QED BY <1>0, <1>3, <1>5, <1>6, <1>7

\* A step that changes neither ledger nor copies keeps what is said of them.
LEMMA SameLedger ==
  ASSUME IInv, UNCHANGED <<file, copy, behind, missed>>,
         \A q \in Requests : pc'[q] # "closed" => pc[q] # "closed"
  PROVE  AllSound' /\ Current' /\ LossStep
<1>1. AllSound' /\ Current'
  BY DEF IInv, AllSound, Sound, Current
<1>2. LossStep
  BY DEF LossStep, Loses
<1> QED BY <1>1, <1>2

-----------------------------------------------------------------------------
\* The operations of a request.

LEMMA SeedStep ==
  ASSUME IInv, NEW p \in Requests, NEW e \in Relations, NEW s \in Sources, Seed(p, e, s)
  PROVE  IInv' /\ LossStep
<1> DEFINE r == Added(copy[p][e], s, "committed", FALSE, TRUE)
<1>1. /\ pc[p] # "closed" /\ e \in Seeded /\ Put(p, e, r)
      /\ UNCHANGED <<history, notes, pc, todo, gaps, answered, old, missed, opens>>
  BY DEF Seed
<1>2. copy[p][e] \in Record /\ "committed" \in Statuses /\ Sound(e, copy[p][e])
  BY DEF IInv, TypeOK, AllSound, Statuses
<1>3. r \in Record /\ ~Loses(copy[p][e], r)
  BY <1>2, AddedIsRecord
<1>4. Sound(e, r)
  BY <1>1, <1>2, AddedIsSettled DEF Sound
<1> HIDE DEF r
<1>5. /\ file' \in [Relations -> Record] /\ copy' \in [Requests -> [Relations -> Record]]
      /\ behind' \in [Requests -> SUBSET Relations] /\ writes' \in Nat
      /\ torn' \subseteq {"edges", "contradictions"} /\ slips' \in Nat
      /\ AllSound' /\ Current' /\ LossStep
  BY <1>1, <1>3, <1>4, PutKeeps
<1> QED BY <1>1, <1>5 DEF IInv, TypeOK

\* A candidate relation is observed.
LEMMA ObserveStep ==
  ASSUME IInv, NEW p \in Requests, NEW e \in Relations, NEW s \in Sources, Observe(p, e, s)
  PROVE  IInv' /\ LossStep
<1> DEFINE r == Added(copy[p][e], s, "none", FALSE, FALSE)
<1>1. /\ pc[p] # "closed" /\ Put(p, e, r)
      /\ UNCHANGED <<history, notes, pc, todo, gaps, answered, old, missed, opens>>
  BY DEF Observe
<1>2. copy[p][e] \in Record /\ "none" \in Statuses /\ Sound(e, copy[p][e])
  BY DEF IInv, TypeOK, AllSound, Statuses
<1>3. r \in Record /\ ~Loses(copy[p][e], r)
  BY <1>2, AddedIsRecord
<1>4. Sound(e, r)
  BY <1>2, AddedIsSound
<1> HIDE DEF r
<1>5. /\ file' \in [Relations -> Record] /\ copy' \in [Requests -> [Relations -> Record]]
      /\ behind' \in [Requests -> SUBSET Relations] /\ writes' \in Nat
      /\ torn' \subseteq {"edges", "contradictions"} /\ slips' \in Nat
      /\ AllSound' /\ Current' /\ LossStep
  BY <1>1, <1>3, <1>4, PutKeeps
<1> QED BY <1>1, <1>5 DEF IInv, TypeOK

\* The builder commits on the spot.
LEMMA PromoteStep ==
  ASSUME IInv, NEW p \in Requests, NEW e \in Relations, NEW s \in Sources, Promote(p, e, s)
  PROVE  IInv' /\ LossStep
<1> DEFINE r == Added(copy[p][e], s, "committed", FALSE, FALSE)
<1>1. /\ pc[p] # "closed" /\ <<s, e>> \in Vouches /\ Put(p, e, r)
      /\ UNCHANGED <<history, notes, pc, todo, gaps, answered, old, missed, opens>>
  BY DEF Promote
<1>2. copy[p][e] \in Record /\ "committed" \in Statuses /\ Sound(e, copy[p][e])
  BY DEF IInv, TypeOK, AllSound, Statuses
<1>3. r \in Record /\ ~Loses(copy[p][e], r)
  BY <1>2, AddedIsRecord
<1>4. Sound(e, r)
  BY <1>1, <1>2, AddedIsSound
<1> HIDE DEF r
<1>5. /\ file' \in [Relations -> Record] /\ copy' \in [Requests -> [Relations -> Record]]
      /\ behind' \in [Requests -> SUBSET Relations] /\ writes' \in Nat
      /\ torn' \subseteq {"edges", "contradictions"} /\ slips' \in Nat
      /\ AllSound' /\ Current' /\ LossStep
  BY <1>1, <1>3, <1>4, PutKeeps
<1> QED BY <1>1, <1>5 DEF IInv, TypeOK

\* A dispute record marks one relation.
LEMMA ReportStep ==
  ASSUME IInv, NEW p \in Requests, NEW e \in Relations, NEW s \in Sources, Report(p, e, s)
  PROVE  IInv' /\ LossStep
<1> DEFINE r == Added(copy[p][e], s, "disputed", TRUE, FALSE)
<1>1. /\ pc[p] # "closed" /\ Put(p, e, r)
      /\ UNCHANGED <<history, notes, pc, todo, gaps, answered, old, missed, opens>>
  BY DEF Report
<1>2. copy[p][e] \in Record /\ "disputed" \in Statuses /\ Sound(e, copy[p][e])
  BY DEF IInv, TypeOK, AllSound, Statuses
<1>3. r \in Record /\ ~Loses(copy[p][e], r)
  BY <1>2, AddedIsRecord
<1>4. Sound(e, r)
  BY <1>2, AddedIsSound
<1> HIDE DEF r
<1>5. /\ file' \in [Relations -> Record] /\ copy' \in [Requests -> [Relations -> Record]]
      /\ behind' \in [Requests -> SUBSET Relations] /\ writes' \in Nat
      /\ torn' \subseteq {"edges", "contradictions"} /\ slips' \in Nat
      /\ AllSound' /\ Current' /\ LossStep
  BY <1>1, <1>3, <1>4, PutKeeps
<1> QED BY <1>1, <1>5 DEF IInv, TypeOK

\* A denial is recorded, its targets become disputed.
LEMMA ContradictStep ==
  ASSUME IInv, NEW p \in Requests, NEW n \in Relations, NEW s \in Sources, Contradict(p, n, s)
  PROVE  IInv' /\ LossStep
<1> DEFINE r == Added(copy[p][n], s, "disputed", TRUE, FALSE)
<1>1. /\ pc[p] # "closed" /\ n \in Negative /\ Put(p, n, r)
      /\ todo' = [todo EXCEPT ![p] = {e \in Between[n] : Known(copy[p][e])} \cup {n}]
      /\ pc' = [pc EXCEPT ![p] = "disputing"]
      /\ UNCHANGED <<history, notes, gaps, answered, old, missed, opens>>
  BY DEF Contradict, Goto
<1>2. copy[p][n] \in Record /\ "disputed" \in Statuses /\ Sound(n, copy[p][n])
  BY DEF IInv, TypeOK, AllSound, Statuses
<1>3. r \in Record /\ ~Loses(copy[p][n], r)
  BY <1>2, AddedIsRecord
<1>4. Sound(n, r)
  BY <1>2, AddedIsSound
<1> HIDE DEF r
<1>5. pc \in [Requests -> Places] /\ todo \in [Requests -> SUBSET Relations]
  BY DEF IInv, TypeOK
<1>6. /\ \A q \in Requests : pc'[q] # "closed" => pc[q] # "closed"
      /\ pc' \in [Requests -> Places]
  BY <1>1, <1>5 DEF Places
<1>7. todo' \in [Requests -> SUBSET Relations]
  BY <1>1, <1>5, BetweenAssumption
<1>8. /\ file' \in [Relations -> Record] /\ copy' \in [Requests -> [Relations -> Record]]
      /\ behind' \in [Requests -> SUBSET Relations] /\ writes' \in Nat
      /\ torn' \subseteq {"edges", "contradictions"} /\ slips' \in Nat
      /\ AllSound' /\ Current' /\ LossStep
  BY <1>1, <1>3, <1>4, <1>6, PutKeeps
<1> QED BY <1>1, <1>6, <1>7, <1>8 DEF IInv, TypeOK

\* The relations between the two ends are marked one by one.
LEMMA DisputeStep ==
  ASSUME IInv, NEW p \in Requests, NEW e \in Relations, Dispute(p, e)
  PROVE  IInv' /\ LossStep
<1> DEFINE r == [copy[p][e] EXCEPT !.contradicted = TRUE, !.status = "disputed"]
<1>1. /\ pc[p] # "closed" /\ Put(p, e, r) /\ todo' = [todo EXCEPT ![p] = @ \ {e}]
      /\ UNCHANGED <<history, notes, pc, gaps, answered, old, missed, opens>>
  BY DEF Dispute
<1>2. copy[p][e] \in Record /\ "disputed" \in Statuses /\ Sound(e, copy[p][e])
  BY DEF IInv, TypeOK, AllSound, Statuses
<1>3. /\ r \in Record /\ r.sources = copy[p][e].sources /\ r.contradicted
      /\ r.status = "disputed" /\ r.canonical = copy[p][e].canonical
  BY <1>2 DEF Record
<1>4. Sound(e, r) /\ ~Loses(copy[p][e], r)
  BY <1>2, <1>3 DEF Sound, Loses, Settled
<1> HIDE DEF r
<1>5. todo' \in [Requests -> SUBSET Relations]
  BY <1>1 DEF IInv, TypeOK
<1>6. /\ file' \in [Relations -> Record] /\ copy' \in [Requests -> [Relations -> Record]]
      /\ behind' \in [Requests -> SUBSET Relations] /\ writes' \in Nat
      /\ torn' \subseteq {"edges", "contradictions"} /\ slips' \in Nat
      /\ AllSound' /\ Current' /\ LossStep
  BY <1>1, <1>3, <1>4, PutKeeps
<1> QED BY <1>1, <1>5, <1>6 DEF IInv, TypeOK

\* One relation of a consolidation is evaluated.
LEMMA ConsolidateStep ==
  ASSUME IInv, NEW p \in Requests, NEW e \in Relations, Consolidate(p, e)
  PROVE  IInv' /\ LossStep
<1> DEFINE r == [copy[p][e] EXCEPT !.status = Evaluate(e, copy[p][e])]
<1>1. /\ pc[p] # "closed" /\ todo' = [todo EXCEPT ![p] = @ \ {e}]
      /\ \/ Put(p, e, r) /\ copy[p][e].status \in {"candidate", "reinforced"}
         \/ UNCHANGED <<file, copy, torn, behind, writes, slips>>
      /\ UNCHANGED <<history, notes, pc, gaps, answered, old, missed, opens>>
  BY DEF Consolidate
<1>2. copy[p][e] \in Record /\ Sound(e, copy[p][e])
  BY DEF IInv, TypeOK, AllSound
<1>3. copy[p][e].status \in {"candidate", "reinforced"} =>
        Evaluate(e, copy[p][e]) \in Statuses /\ Sound(e, r)
  BY <1>2, EvaluateIsSound
<1>4. Evaluate(e, copy[p][e]) \in Statuses => r \in Record /\ ~Loses(copy[p][e], r)
  BY <1>2 DEF Record, Loses
<1> HIDE DEF r
<1>5. todo' \in [Requests -> SUBSET Relations]
  BY <1>1 DEF IInv, TypeOK
<1>6. CASE Put(p, e, r) /\ copy[p][e].status \in {"candidate", "reinforced"}
  <2>1. /\ file' \in [Relations -> Record] /\ copy' \in [Requests -> [Relations -> Record]]
        /\ behind' \in [Requests -> SUBSET Relations] /\ writes' \in Nat
        /\ torn' \subseteq {"edges", "contradictions"} /\ slips' \in Nat
        /\ AllSound' /\ Current' /\ LossStep
    BY <1>1, <1>3, <1>4, <1>6, PutKeeps
  <2> QED BY <1>1, <1>5, <2>1 DEF IInv, TypeOK
<1>7. CASE UNCHANGED <<file, copy, torn, behind, writes, slips>>
  <2>1. AllSound' /\ Current' /\ LossStep
    BY <1>1, <1>7, SameLedger
  <2> QED BY <1>1, <1>5, <1>7, <2>1 DEF IInv, TypeOK
<1> QED BY <1>1, <1>6, <1>7

\* The steps that leave the ledger of the relations alone.
LEMMA NotesStep ==
  ASSUME IInv, NEW p \in Requests, NEW n \in Relations,
         RecordContradiction(p, n) \/ (n \in Negative /\ Resolve(p, n))
  PROVE  IInv' /\ LossStep
<1>1. PICK status \in {"active", "resolved"} : Note(p, n, status)
  BY DEF RecordContradiction, Resolve
<1>2. /\ UNCHANGED <<file, copy, gaps, answered, old, behind, missed, opens, writes>>
      /\ pc[p] # "closed"
      /\ pc' = pc \/ pc' = [pc EXCEPT ![p] = "feeding"]
      /\ todo' = todo \/ todo' = [todo EXCEPT ![p] = {}]
  BY DEF RecordContradiction, Resolve, Goto
<1>3. /\ notes' \in [Requests -> [Negative -> {"none", "active", "resolved"}]]
      /\ history' \in [Negative -> {"none", "active", "resolved"}]
      /\ torn' \subseteq {"edges", "contradictions"} /\ slips' \in Nat
  <2>1. Lost("contradictions") \/ (torn' = torn /\ Slip(FALSE))
    BY <1>1 DEF Note
  <2>2. torn' \subseteq {"edges", "contradictions"} /\ slips' \in Nat
    BY <2>1, LostIsCounted DEF IInv, TypeOK
  <2>3. /\ notes' = [notes EXCEPT ![p][n] = status]
        /\ history' = [history EXCEPT ![n] = status] \/ history' = history
    BY <1>1 DEF Note
  <2> QED BY <2>2, <2>3 DEF IInv, TypeOK
<1>4. pc' \in [Requests -> Places] /\ \A q \in Requests : pc'[q] # "closed" => pc[q] # "closed"
  BY <1>2 DEF IInv, TypeOK, Places
<1>5. todo' \in [Requests -> SUBSET Relations]
  BY <1>2 DEF IInv, TypeOK
<1>6. AllSound' /\ Current' /\ LossStep
  BY <1>2, <1>4, SameLedger
<1> QED BY <1>2, <1>3, <1>4, <1>5, <1>6 DEF IInv, TypeOK

\* The gap scan files its tasks.
LEMMA ScanStep ==
  ASSUME IInv, NEW p \in Requests, ScanGaps(p)
  PROVE  IInv' /\ LossStep
<1>1. /\ UNCHANGED <<file, history, copy, notes, todo, answered, old, torn, behind, missed, tallies>>
      /\ pc[p] # "closed" /\ pc' = [pc EXCEPT ![p] = "scanned"] /\ gaps' \subseteq Relations
  BY DEF ScanGaps, Goto, IInv, TypeOK
<1>2. pc' \in [Requests -> Places] /\ \A q \in Requests : pc'[q] # "closed" => pc[q] # "closed"
  BY <1>1 DEF IInv, TypeOK, Places
<1>3. AllSound' /\ Current' /\ LossStep
  BY <1>1, <1>2, SameLedger
<1> QED BY <1>1, <1>2, <1>3 DEF IInv, TypeOK, tallies

\* A gap task is answered from memory.
LEMMA TaskStep ==
  ASSUME IInv, NEW e \in Relations,
         GrowOld(e) \/ \E s \in Sources : RunGapTask(e, s)
  PROVE  IInv' /\ LossStep
<1>1. /\ UNCHANGED <<file, history, copy, notes, pc, todo, torn, behind, missed, tallies>>
      /\ gaps' \subseteq gaps /\ answered' \subseteq Echoes /\ old' \subseteq Relations
  BY DEF GrowOld, RunGapTask, IInv, TypeOK
<1>2. AllSound' /\ Current' /\ LossStep
  BY <1>1, SameLedger
<1> QED BY <1>1, <1>2 DEF IInv, TypeOK, tallies

\* A request that loads or drops its copy.
LEMMA BlankIsSound ==
  /\ Nothing \in [Relations -> Record] /\ NoNotes \in [Negative -> {"none", "active", "resolved"}]
  /\ \A e \in Relations : Nothing[e] = Blank /\ Sound(e, Blank)
  /\ \A r \in Record : ~Loses(Blank, r)
BY DEF Nothing, NoNotes, Blank, Record, Statuses, Sound, Settled, Canonical, Classes, Loses

LEMMA OpenStep ==
  ASSUME IInv, NEW p \in Requests, NEW job \in Jobs, Open(p, job)
  PROVE  IInv' /\ LossStep
<1>1. PICK read \in {file, Nothing}, seen \in {history, NoNotes} :
        /\ Slip(read # file \/ seen # history)
        /\ copy' = [copy EXCEPT ![p] = read]
        /\ missed' = [missed EXCEPT ![p] = {e \in Relations : read[e] # file[e]}]
        /\ notes' = [notes EXCEPT ![p] = seen]
  BY DEF Open
<1>2. /\ UNCHANGED <<file, history, gaps, answered, old, torn, writes>>
      /\ opens' = opens + 1 /\ pc' = [pc EXCEPT ![p] = job]
      /\ behind' = [behind EXCEPT ![p] = {}]
      /\ todo' = [todo EXCEPT ![p] = IF job = "consolidating" THEN Relations ELSE {}]
  BY DEF Open, Goto
<1>3. /\ read \in [Relations -> Record] /\ seen \in [Negative -> {"none", "active", "resolved"}]
      /\ slips' \in Nat
  BY <1>1, BlankIsSound DEF Slip, IInv, TypeOK
<1>4. TypeOK'
  <2>1. /\ copy' \in [Requests -> [Relations -> Record]]
        /\ notes' \in [Requests -> [Negative -> {"none", "active", "resolved"}]]
        /\ missed' \in [Requests -> SUBSET Relations]
    BY <1>1, <1>3 DEF IInv, TypeOK
  <2>2. /\ pc' \in [Requests -> Places] /\ todo' \in [Requests -> SUBSET Relations]
        /\ behind' \in [Requests -> SUBSET Relations]
    BY <1>2 DEF IInv, TypeOK, Places, Jobs
  <2> QED BY <1>2, <1>3, <2>1, <2>2 DEF IInv, TypeOK
<1>5. \A q \in Requests :
        /\ copy'[q] = IF q = p THEN read ELSE copy[q]
        /\ behind'[q] = IF q = p THEN {} ELSE behind[q]
        /\ missed'[q] = IF q = p THEN {e \in Relations : read[e] # file[e]} ELSE missed[q]
        /\ q # p => pc'[q] = pc[q]
  BY <1>1, <1>2 DEF IInv, TypeOK
<1>6. AllSound'
  <2> SUFFICES ASSUME NEW d \in Relations
               PROVE  Sound(d, file'[d]) /\ \A q \in Requests : Sound(d, copy'[q][d])
    BY DEF AllSound, Sound
  <2>1. Sound(d, read[d])
    BY BlankIsSound DEF IInv, AllSound
  <2> QED BY <1>2, <1>5, <2>1 DEF IInv, AllSound
<1>7. Current'
  <2> SUFFICES ASSUME NEW q \in Requests, pc'[q] # "closed",
                      NEW d \in Relations \ (behind'[q] \cup missed'[q])
               PROVE  ~Loses(file[d], copy'[q][d])
    BY <1>2 DEF Current
  <2>1. CASE q = p
    BY <1>5, <2>1 DEF Loses
  <2>2. CASE q # p
    BY <1>5, <2>2 DEF IInv, Current
  <2> QED BY <2>1, <2>2
<1>8. LossStep
  BY <1>2 DEF LossStep, Loses
<1> QED BY <1>4, <1>6, <1>7, <1>8 DEF IInv

LEMMA CloseStep ==
  ASSUME IInv, NEW p \in Requests, Close(p)
  PROVE  IInv' /\ LossStep
<1>1. /\ UNCHANGED <<file, history, todo, gaps, answered, old, torn, tallies>>
      /\ pc' = [pc EXCEPT ![p] = "closed"]
      /\ copy' = [copy EXCEPT ![p] = Nothing]
      /\ notes' = [notes EXCEPT ![p] = NoNotes]
      /\ behind' = [behind EXCEPT ![p] = {}]
      /\ missed' = [missed EXCEPT ![p] = {}]
  BY DEF Close, Goto
<1>2. TypeOK'
  BY <1>1, BlankIsSound DEF IInv, TypeOK, Places, tallies
<1>3. \A q \in Requests : /\ copy'[q] = IF q = p THEN Nothing ELSE copy[q]
                          /\ q # p => behind'[q] = behind[q] /\ missed'[q] = missed[q]
                          /\ pc'[q] = IF q = p THEN "closed" ELSE pc[q]
  BY <1>1 DEF IInv, TypeOK
<1>4. AllSound'
  <2> SUFFICES ASSUME NEW d \in Relations
               PROVE  Sound(d, file'[d]) /\ \A q \in Requests : Sound(d, copy'[q][d])
    BY DEF AllSound, Sound
  <2> QED BY <1>1, <1>3, BlankIsSound DEF IInv, AllSound
<1>5. Current'
  <2> SUFFICES ASSUME NEW q \in Requests, pc'[q] # "closed",
                      NEW d \in Relations \ (behind'[q] \cup missed'[q])
               PROVE  ~Loses(file[d], copy'[q][d])
    BY <1>1 DEF Current
  <2> QED BY <1>3 DEF IInv, Current
<1>6. LossStep
  BY <1>1 DEF LossStep, Loses
<1> QED BY <1>2, <1>4, <1>5, <1>6 DEF IInv

\* Compaction: what it folds in, and what it writes over.
LEMMA FoldStep ==
  ASSUME IInv, NEW p \in Requests, FoldEdges(p)
  PROVE  IInv' /\ LossStep
<1>1. PICK read \in {file, Nothing} :
        /\ copy' = [copy EXCEPT ![p] =
                      [e \in Relations |-> IF read[e] # Blank THEN read[e] ELSE copy[p][e]]]
        /\ IF read = file
           THEN behind' = [behind EXCEPT ![p] = {}] /\ missed' = [missed EXCEPT ![p] = {}]
           ELSE behind' = behind /\ missed' = missed
        /\ \E place \in {"replacing", "folding"} : Goto(p, place)
        /\ Slip(TRUE) \/ Slip(FALSE)
  BY DEF FoldEdges
<1>2. /\ UNCHANGED <<file, history, notes, todo, gaps, answered, old, torn, opens, writes>>
      /\ pc[p] # "closed" /\ slips' \in Nat
      /\ pc' \in [Requests -> Places] /\ \A q \in Requests : pc'[q] # "closed" => pc[q] # "closed"
  BY <1>1 DEF FoldEdges, Goto, Slip, IInv, TypeOK, Places
<1>3. \A q \in Requests, e \in Relations :
        /\ q # p => /\ copy'[q][e] = copy[q][e]
                    /\ behind'[q] = behind[q] /\ missed'[q] = missed[q]
        /\ copy'[p][e] = IF read[e] # Blank THEN read[e] ELSE copy[p][e]
  BY <1>1 DEF IInv, TypeOK
<1>4. TypeOK'
  <2>1. /\ copy' \in [Requests -> [Relations -> Record]]
        /\ behind' \in [Requests -> SUBSET Relations] /\ missed' \in [Requests -> SUBSET Relations]
    BY <1>1, BlankIsSound DEF IInv, TypeOK
  <2> QED BY <1>2, <2>1 DEF IInv, TypeOK
<1>5. AllSound'
  <2> SUFFICES ASSUME NEW d \in Relations
               PROVE  Sound(d, file'[d]) /\ \A q \in Requests : Sound(d, copy'[q][d])
    BY DEF AllSound, Sound
  <2>1. Sound(d, read[d])
    BY BlankIsSound DEF IInv, AllSound
  <2> QED BY <1>2, <1>3, <2>1 DEF IInv, AllSound
<1>6. Current'
  <2> SUFFICES ASSUME NEW q \in Requests, pc'[q] # "closed",
                      NEW d \in Relations \ (behind'[q] \cup missed'[q])
               PROVE  ~Loses(file[d], copy'[q][d])
    BY <1>2 DEF Current
  <2>1. CASE q # p
    BY <1>2, <1>3, <2>1 DEF IInv, Current
  <2>2. CASE q = p /\ read = file
    <3>1. CASE file[d] = Blank
      <4>1. copy[p][d] \in Record
        BY DEF IInv, TypeOK
      <4> QED BY <1>3, <2>2, <3>1, <4>1, BlankIsSound
    <3>2. CASE file[d] # Blank
      BY <1>3, <2>2, <3>2 DEF Loses
    <3> QED BY <3>1, <3>2
  <2>3. CASE q = p /\ read # file
    <3>1. copy'[p][d] = copy[p][d] /\ behind' = behind /\ missed' = missed
      BY <1>1, <1>3, <2>3, BlankIsSound
    <3> QED BY <1>2, <2>3, <3>1 DEF IInv, Current
  <2> QED BY <2>1, <2>2, <2>3
<1>7. LossStep
  BY <1>2 DEF LossStep, Loses
<1> QED BY <1>4, <1>5, <1>6, <1>7 DEF IInv

LEMMA ReplaceStep ==
  ASSUME IInv, NEW p \in Requests, ReplaceEdges(p)
  PROVE  IInv' /\ LossStep
<1>1. /\ UNCHANGED <<history, copy, notes, todo, gaps, answered, old, missed, tallies>>
      /\ pc[p] # "closed" /\ pc' = [pc EXCEPT ![p] = "folding"] /\ file' = copy[p]
      /\ torn' = torn \ {"edges"}
      /\ behind' = [q \in Requests |->
                      IF q = p \/ pc[q] = "closed" THEN behind[q]
                      ELSE behind[q] \cup {e \in Relations : file[e] # copy[p][e]}]
  BY DEF ReplaceEdges, Goto
<1>2. TypeOK'
  <2>1. file' \in [Relations -> Record] /\ pc' \in [Requests -> Places]
    BY <1>1 DEF IInv, TypeOK, Places
  <2>2. behind' \in [Requests -> SUBSET Relations] /\ torn' \subseteq {"edges", "contradictions"}
    BY <1>1 DEF IInv, TypeOK
  <2> QED BY <1>1, <2>1, <2>2 DEF IInv, TypeOK, tallies
<1>3. AllSound'
  <2> SUFFICES ASSUME NEW d \in Relations
               PROVE  Sound(d, file'[d]) /\ \A q \in Requests : Sound(d, copy'[q][d])
    BY DEF AllSound, Sound
  <2> QED BY <1>1 DEF IInv, AllSound
<1>4. \A q \in Requests : pc'[q] # "closed" => pc[q] # "closed"
  BY <1>1 DEF IInv, TypeOK
<1>5. Current'
  <2> SUFFICES ASSUME NEW q \in Requests, pc'[q] # "closed",
                      NEW d \in Relations \ (behind'[q] \cup missed[q])
               PROVE  ~Loses(copy[p][d], copy[q][d])
    BY <1>1 DEF Current
  <2>1. CASE q # p
    <3>1. d \notin behind[q] /\ file[d] = copy[p][d]
      BY <1>1, <1>4, <2>1
    <3> QED BY <1>4, <3>1 DEF IInv, Current
  <2>2. CASE q = p
    BY <2>2 DEF Loses
  <2> QED BY <2>1, <2>2
<1>6. LossStep
  <2> SUFFICES ASSUME NEW d \in Relations, Loses(file[d], copy[p][d])
               PROVE  \E q \in Requests : d \in behind[q] \cup missed[q]
    BY <1>1 DEF LossStep
  <2> QED BY <1>1 DEF IInv, Current
<1> QED BY <1>2, <1>3, <1>5, <1>6 DEF IInv

LEMMA HistoryStep ==
  ASSUME IInv, NEW p \in Requests, FoldHistory(p) \/ ReplaceHistory(p)
  PROVE  IInv' /\ LossStep
<1>1. /\ UNCHANGED <<file, copy, todo, gaps, answered, old, behind, missed, opens, writes>>
      /\ pc[p] # "closed"
      /\ \E place \in {"swapping", "maintained"} : pc' = [pc EXCEPT ![p] = place]
      /\ torn' \subseteq torn /\ slips' \in {slips, slips + 1}
  BY DEF FoldHistory, ReplaceHistory, Goto, Slip, tallies
<1>2. pc' \in [Requests -> Places] /\ \A q \in Requests : pc'[q] # "closed" => pc[q] # "closed"
  BY <1>1 DEF IInv, TypeOK, Places
<1>3. /\ notes' \in [Requests -> [Negative -> {"none", "active", "resolved"}]]
      /\ history' \in [Negative -> {"none", "active", "resolved"}]
  <2>1. CASE FoldHistory(p)
    <3>1. PICK seen \in {history, NoNotes} :
            /\ notes' = [notes EXCEPT ![p] =
                          [n \in Negative |-> IF seen[n] # "none" THEN seen[n] ELSE notes[p][n]]]
            /\ history' = history
      BY <2>1 DEF FoldHistory
    <3>2. seen \in [Negative -> {"none", "active", "resolved"}]
      BY BlankIsSound DEF IInv, TypeOK
    <3> QED BY <3>1, <3>2 DEF IInv, TypeOK
  <2>2. CASE ReplaceHistory(p)
    BY <2>2 DEF ReplaceHistory, IInv, TypeOK
  <2> QED BY <2>1, <2>2
<1>4. AllSound' /\ Current' /\ LossStep
  BY <1>1, <1>2, SameLedger
<1> QED BY <1>1, <1>2, <1>3, <1>4 DEF IInv, TypeOK

-----------------------------------------------------------------------------
\* The theorems.

LEMMA InitHolds == Init => IInv
<1> SUFFICES ASSUME Init PROVE IInv
  OBVIOUS
<1>1. Blank \in Record /\ \A e \in Relations : Sound(e, Blank)
  BY DEF Blank, Record, Statuses, Sound, Settled, Canonical, Classes
<1>2. TypeOK
  BY <1>1 DEF Init, TypeOK, Places
<1>3. AllSound
  <2> SUFFICES ASSUME NEW e \in Relations
               PROVE  Sound(e, file[e]) /\ \A p \in Requests : Sound(e, copy[p][e])
    BY DEF AllSound
  <2> QED BY <1>1 DEF Init
<1>4. Current
  BY DEF Init, Current
<1> QED BY <1>2, <1>3, <1>4 DEF IInv

LEMMA StepHolds ==
  ASSUME IInv, [Next]_vars
  PROVE  IInv' /\ LossStep
<1>1. ASSUME NEW p \in Requests, Request(p) PROVE IInv' /\ LossStep
  BY <1>1, OpenStep, CloseStep, SeedStep, ObserveStep, PromoteStep, ReportStep, ContradictStep, DisputeStep, NotesStep,
     ConsolidateStep, FoldStep, ReplaceStep, HistoryStep, ScanStep DEF Request, Relations
<1>2. CASE UNCHANGED vars
  <2>1. UNCHANGED <<file, history, copy, notes, pc, todo, gaps, answered, old, torn, behind, missed,
                   opens, writes, slips>>
    BY <1>2 DEF vars, tallies
  <2>2. AllSound' /\ Current' /\ LossStep
    BY <2>1, SameLedger
  <2> QED BY <2>1, <2>2 DEF IInv, TypeOK
<1> QED BY <1>1, <1>2, TaskStep DEF Next

\* The inductive invariant holds throughout.
THEOREM Invariance == Spec => []IInv
BY InitHolds, StepHolds, PTL DEF Spec

\* Every variable of the relation field keeps its type
\* (relation_field.py:115-1010).
THEOREM TypeCorrect == Spec => []TypeOK
<1>1. IInv => TypeOK
  BY DEF IInv
<1> QED BY Invariance, <1>1, PTL

\* A relation outside the seed that is committed, in the ledger or in a copy,
\* has earned it by its own record (relation_field.py:800-850 and
\* relation_policy.py), however requests overlap.
THEOREM CommitsEarned == Spec => []CommitEarned
<1>1. IInv => CommitEarned
  BY DEF IInv, AllSound, Sound, CommitEarned
<1> QED BY Invariance, <1>1, PTL

\* The ledger loses a source or a contradiction only to a request whose copy
\* others are ahead of, or to which the file did not open (_load, _append and
\* compact in relation_field.py).
THEOREM LossBounded == Spec => LossIsExplained
<1>1. IInv /\ [Next]_vars => [LossStep]_vars
  BY StepHolds
<1>2. [][LossStep]_vars => LossIsExplained
  BY PTL DEF LossIsExplained, LossStep
<1> QED BY Invariance, <1>1, <1>2, PTL DEF Spec

\* Whatever a request reads, the status of a record shows whether it was ever
\* contradicted, and a canonical one is decided (_status_for, _dispute_between
\* and consolidate): what the questions below assume of the records they meet.
THEOREM RecordsAreSettled ==
  Spec => [](\A e \in Relations :
               /\ Settled(file[e], Canonical(file[e]))
               /\ \A p \in Requests : Settled(copy[p][e], Canonical(copy[p][e])))
<1>1. IInv => \A e \in Relations :
               /\ Settled(file[e], Canonical(file[e]))
               /\ \A p \in Requests : Settled(copy[p][e], Canonical(copy[p][e]))
  BY DEF IInv, AllSound, Sound
<1> QED BY Invariance, <1>1, PTL

-----------------------------------------------------------------------------
(* The questions.  Place and Leaves read the question from the state; Spot and *)
(* Follows take it as a parameter, and so does all that is built on them, so   *)
(* that what is said of a walk needs no second proof about the next state.     *)

HopSet == [edge : Path!Edges, dir : {"forward", "backward", "inverse"}]
Entries == [at : Entities, hops : Seq(HopSet), seen : SUBSET Entities]
Queries == [route : Path!PathRoutes \cup Path!ListRoutes, from : Entities,
            to : Entities \cup {None}, depth : 1..MaxDepth, inverse : BOOLEAN]

\* Place and Leaves of a question q.
Spot(q, p, i) == IF i = 0 THEN q.from ELSE Path!End(p[i])
Follows(q, h, x) ==
  \/ h.dir = "forward" /\ SubjectOf[h.edge] = x
  \/ h.dir = "backward" /\ ObjectOf[h.edge] = x /\ HopTypeOf[h.edge] = "contradicts"
  \/ /\ h.dir = "inverse" /\ q.inverse /\ ObjectOf[h.edge] = x
     /\ HopTypeOf[h.edge] \in {"broader_than", "narrower_than"}

\* A walk along the hops a question may take, past no entity twice.
Connected(q, p) == \A i \in 1..Len(p) : Follows(q, p[i], Spot(q, p, i - 1))
NoLoop(q, p) == \A i, j \in 0..Len(p) : i # j => Spot(q, p, i) # Spot(q, p, j)
Simple(q, p) ==
  /\ p \in Seq(HopSet) /\ Len(p) <= q.depth
  /\ Connected(q, p) /\ NoLoop(q, p)

Wanted(q, p) == p # <<>> /\ (q.to # None => Spot(q, p, Len(p)) = q.to)
Begins(r, p) == Len(r) <= Len(p) /\ \A i \in 1..Len(r) : r[i] = p[i]

\* An entry of the stack describes the walk it stands for.
Describes(q, e) ==
  /\ Simple(q, e.hops)
  /\ e.at = Spot(q, e.hops, Len(e.hops))
  /\ e.seen = {Spot(q, e.hops, i) : i \in 0..Len(e.hops)}

Walked(q, s) == s \in Seq(Entries) /\ \A i \in 1..Len(s) : Describes(q, s[i])
Found(q, ps) == 
  /\ ps \in Seq(Seq(HopSet))
  /\ \A i \in 1..Len(ps) : Simple(q, ps[i]) /\ Wanted(q, ps[i])

\* No walk is waiting or found twice.
Apart(s, ps) ==
  /\ \A i, j \in 1..Len(s) : i # j => ~Begins(s[i].hops, s[j].hops)
  /\ \A i \in 1..Len(s), j \in 1..Len(ps) : ~Begins(s[i].hops, ps[j])
  /\ \A i, j \in 1..Len(ps) : i # j => ps[i] # ps[j]

\* Every path is found, or has a beginning that waits.
Ahead(s, p) == \E i \in 1..Len(s) : Begins(s[i].hops, p)
Has(ps, p) == \E i \in 1..Len(ps) : ps[i] = p
Covered(q, s, ps) ==
  \A p : Simple(q, p) /\ Wanted(q, p) => Has(ps, p) \/ Ahead(s, p)

PathTypes ==
  /\ record \in [Path!Edges -> Records]
  /\ query \in Queries
  /\ phase \in {"search", "found", "answered"}
SearchInv ==
  /\ PathTypes
  /\ Walked(query, stack)
  /\ Found(query, paths)
  /\ Apart(stack, paths)
  /\ Len(paths) < Path!Most => Covered(query, stack, paths)
  /\ phase # "search" /\ query.route \in Path!PathRoutes => stack = <<>>

-----------------------------------------------------------------------------
\* A stack whose last entry is replaced by others.
LEMMA PopPush ==
  ASSUME NEW X, NEW s \in Seq(X), s # <<>>, NEW k \in Seq(X)
  PROVE  /\ Len(s) \in Nat /\ Len(s) > 0 /\ Len(k) \in Nat
         /\ Path!Last(s) = s[Len(s)] /\ Path!Last(s) \in X
         /\ Path!Front(s) \o k \in Seq(X)
         /\ Len(Path!Front(s) \o k) = Len(s) - 1 + Len(k)
         /\ \A i \in 1..(Len(s) - 1) : (Path!Front(s) \o k)[i] = s[i]
         /\ \A i \in 1..Len(k) : (Path!Front(s) \o k)[Len(s) - 1 + i] = k[i]
<1>1. /\ Len(s) \in Nat /\ Len(s) > 0 /\ Len(k) \in Nat
      /\ Path!Last(s) = s[Len(s)] /\ Path!Last(s) \in X
  BY DEF Path!Last
<1> DEFINE f == Path!Front(s)
<1>2. f \in Seq(X) /\ Len(f) = Len(s) - 1
  <2>1. (Len(s) - 1) \in Int /\ \A i \in 1..(Len(s) - 1) : s[i] \in X
    BY <1>1
  <2>2. /\ SubSeq(s, 1, Len(s) - 1) \in Seq(X)
        /\ Len(SubSeq(s, 1, Len(s) - 1)) = IF 1 <= Len(s) - 1 THEN Len(s) - 1 - 1 + 1 ELSE 0
    BY <2>1, SubSeqProperties
  <2>3. f = SubSeq(s, 1, Len(s) - 1)
    BY DEF Path!Front
  <2> HIDE DEF f
  <2>4. f \in Seq(X)
    BY <2>2, <2>3
  <2>5. Len(f) = IF 1 <= Len(s) - 1 THEN Len(s) - 1 - 1 + 1 ELSE 0
    BY <2>2, <2>3
  <2>6. \A n \in Nat : n > 0 => (IF 1 <= n - 1 THEN n - 1 - 1 + 1 ELSE 0) = n - 1
    OBVIOUS
  <2>7. Len(f) = Len(s) - 1
    BY <1>1, <2>5, <2>6
  <2> QED
    BY <2>4, <2>7
<1>3. \A i \in 1..(Len(s) - 1) : f[i] = s[i]
  BY <1>1, SubSeqProperties DEF Path!Front
<1> HIDE DEF f
<1>4. /\ f \o k \in Seq(X) /\ Len(f \o k) = Len(f) + Len(k)
      /\ \A i \in 1..(Len(f) + Len(k)) : (f \o k)[i] = IF i <= Len(f) THEN f[i] ELSE k[i - Len(f)]
  BY <1>2, ConcatProperties
<1>5. \A i \in 1..(Len(s) - 1) : (f \o k)[i] = s[i]
  BY <1>1, <1>2, <1>3, <1>4
<1>6. \A i \in 1..Len(k) : (f \o k)[Len(s) - 1 + i] = k[i]
  BY <1>1, <1>2, <1>4
<1> QED
  BY <1>1, <1>2, <1>4, <1>5, <1>6 DEF f

\* Which relations are followed against their direction.
LEMMA Directions ==
  ASSUME NEW t
  PROVE  /\ Path!Directionality(t) = "bidirectional" <=> t = "contradicts"
         /\ Path!Directionality(t) = "inverse_renderable"
              <=> t \in {"broader_than", "narrower_than"}
  BY DEF Path!Directionality

\* Steps offers the hops that leave an entity, and no others.
LEMMA StepsLeave ==
  ASSUME NEW x, NEW h
  PROVE  h \in Path!Steps(x) <=> h \in HopSet /\ Follows(query, h, x)
<1>1. ASSUME h \in Path!Steps(x) PROVE h \in HopSet /\ Follows(query, h, x)
  <2>1. PICK e \in Path!Edges : h \in Path!StepsOf(e, x)
    BY <1>1 DEF Path!Steps
  <2>2. CASE h = Path!Hop(e, "forward") /\ SubjectOf[e] = x
    BY <2>1, <2>2 DEF Path!Hop, HopSet, Follows
  <2>3. CASE h = Path!Hop(e, "backward") /\ ObjectOf[e] = x /\ HopTypeOf[e] = "contradicts"
    BY <2>1, <2>3 DEF Path!Hop, HopSet, Follows
  <2>4. CASE /\ h = Path!Hop(e, "inverse") /\ ObjectOf[e] = x /\ query.inverse
             /\ HopTypeOf[e] \in {"broader_than", "narrower_than"}
    BY <2>1, <2>4 DEF Path!Hop, HopSet, Follows
  <2> QED
    BY <2>1, <2>2, <2>3, <2>4, Directions DEF Path!StepsOf
<1>2. ASSUME h \in HopSet, Follows(query, h, x) PROVE h \in Path!Steps(x)
  <2>1. h.edge \in Path!Edges /\ h = Path!Hop(h.edge, h.dir)
    BY <1>2 DEF HopSet, Path!Hop
  <2>2. h \in Path!StepsOf(h.edge, x)
    BY <1>2, <2>1, Directions DEF Path!StepsOf, Follows
  <2> QED
    BY <2>1, <2>2 DEF Path!Steps
<1> QED
  BY <1>1, <1>2

\* A hop leads to an entity.
LEMMA EndsAreEntities ==
  ASSUME NEW h \in HopSet
  PROVE  Path!End(h) \in Entities
  BY EndsAssumption DEF HopSet, Path!End

\* A walk and its next hop.
LEMMA OneHopOn ==
  ASSUME NEW q \in Queries, NEW e \in Entries, Describes(q, e), Len(e.hops) < q.depth,
         NEW h \in HopSet, Follows(q, h, e.at), Path!End(h) \notin e.seen
  PROVE  Path!Extended(e, h) \in Entries /\ Describes(q, Path!Extended(e, h))
<1> DEFINE p == e.hops
           r == Append(p, h)
           n == Len(p)
<1>1. p \in Seq(HopSet) /\ n \in Nat /\ q.depth \in Int
  BY DEF Entries, Queries
<1>2. /\ r \in Seq(HopSet) /\ Len(r) = n + 1 /\ r[n + 1] = h
      /\ \A i \in 1..n : r[i] = p[i]
  BY <1>1
<1>3. /\ Path!Extended(e, h).hops = r /\ Path!Extended(e, h).at = Path!End(h)
      /\ Path!Extended(e, h).seen = e.seen \cup {Path!End(h)}
  BY DEF Path!Extended
<1>4. Path!Extended(e, h) \in Entries
  BY <1>2, EndsAreEntities DEF Path!Extended, Entries
<1> HIDE DEF p, r, n
<1>5. /\ \A i \in 0..n : Spot(q, r, i) = Spot(q, p, i)
      /\ Spot(q, r, n + 1) = Path!End(h)
  BY <1>1, <1>2 DEF Spot
<1>6. /\ Connected(q, p) /\ NoLoop(q, p) /\ e.at = Spot(q, p, n)
      /\ e.seen = {Spot(q, p, i) : i \in 0..n}
  BY DEF Describes, Simple, p, n
<1>7. Connected(q, r)
  <2> SUFFICES ASSUME NEW i \in 1..(n + 1) PROVE Follows(q, r[i], Spot(q, r, i - 1))
    BY <1>2 DEF Connected
  <2>1. CASE i = n + 1
    <3>1. r[i] = h /\ Spot(q, r, i - 1) = e.at
      BY <2>1, <1>1, <1>2, <1>5, <1>6
    <3> QED BY <3>1
  <2>2. CASE i \in 1..n
    <3>1. r[i] = p[i] /\ Spot(q, r, i - 1) = Spot(q, p, i - 1)
      BY <2>2, <1>1, <1>2, <1>5
    <3>2. Follows(q, p[i], Spot(q, p, i - 1))
      BY <2>2, <1>6 DEF Connected, n
    <3> QED BY <3>1, <3>2
  <2> QED BY <2>1, <2>2, <1>1
<1>8. NoLoop(q, r)
  <2>1. \A i \in 0..n : Spot(q, r, i) # Path!End(h)
    BY <1>5, <1>6
  <2>2. \A i, j \in 0..n : i # j => Spot(q, r, i) # Spot(q, r, j)
    BY <1>5, <1>6 DEF NoLoop, n
  <2> SUFFICES ASSUME NEW i \in 0..(n + 1), NEW j \in 0..(n + 1), i # j
               PROVE  Spot(q, r, i) # Spot(q, r, j)
    BY <1>2 DEF NoLoop
  <2>3. CASE i = n + 1
    BY <2>1, <2>3, <1>1, <1>5
  <2>4. CASE j = n + 1
    BY <2>1, <2>4, <1>1, <1>5
  <2> QED
    BY <2>2, <2>3, <2>4, <1>1
<1>9. e.seen \cup {Path!End(h)} = {Spot(q, r, i) : i \in 0..(n + 1)}
  <2>1. ASSUME NEW x \in e.seen PROVE \E i \in 0..(n + 1) : x = Spot(q, r, i)
    BY <1>1, <1>5, <1>6
  <2>2. ASSUME NEW i \in 0..(n + 1) PROVE Spot(q, r, i) \in e.seen \cup {Path!End(h)}
    <3>1. CASE i = n + 1 BY <3>1, <1>5
    <3>2. CASE i \in 0..n BY <3>2, <1>5, <1>6
    <3> QED BY <3>1, <3>2, <1>1
  <2> QED BY <2>1, <2>2, <1>1, <1>5
<1> QED
  BY <1>1, <1>2, <1>3, <1>4, <1>5, <1>7, <1>8, <1>9 DEF Describes, Simple, n, p

\* A waiting beginning of a path is the path or has a next hop on it that is offered.
LEMMA NextHop ==
  ASSUME NEW q \in Queries, NEW e \in Entries, Describes(q, e),
         NEW p, Simple(q, p), Begins(e.hops, p), Len(e.hops) < Len(p)
  PROVE  /\ p[Len(e.hops) + 1] \in HopSet
         /\ Follows(q, p[Len(e.hops) + 1], e.at)
         /\ Path!End(p[Len(e.hops) + 1]) \notin e.seen
<1> DEFINE n == Len(e.hops)
<1>1. n \in Nat /\ p \in Seq(HopSet) /\ Len(p) \in Nat /\ n + 1 \in 1..Len(p) /\ n < Len(p)
  BY DEF Entries, Simple
<1>2. /\ Connected(q, p) /\ NoLoop(q, p)
      /\ \A i \in 1..n : e.hops[i] = p[i]
      /\ e.at = Spot(q, e.hops, n)
      /\ e.seen = {Spot(q, e.hops, i) : i \in 0..n}
  BY DEF Simple, Begins, Describes
<1> HIDE DEF n
<1>3. \A i \in 0..n : Spot(q, e.hops, i) = Spot(q, p, i)
  BY <1>1, <1>2 DEF Spot
<1>4. Follows(q, p[n + 1], e.at)
  <2>1. Follows(q, p[n + 1], Spot(q, p, (n + 1) - 1))
    BY <1>1, <1>2 DEF Connected
  <2>2. Spot(q, p, (n + 1) - 1) = e.at
    BY <1>1, <1>2, <1>3
  <2> QED BY <2>1, <2>2
<1>5. Path!End(p[n + 1]) = Spot(q, p, n + 1)
  BY <1>1 DEF Spot
<1>6. \A i \in 0..n : Spot(q, p, i) # Spot(q, p, n + 1)
  BY <1>1, <1>2 DEF NoLoop
<1> QED
  BY <1>1, <1>2, <1>3, <1>4, <1>5, <1>6 DEF n

\* Beginnings of a longer walk.
LEMMA BeginsAppend ==
  ASSUME NEW r \in Seq(HopSet), NEW h \in HopSet, NEW p \in Seq(HopSet)
  PROVE  /\ Append(r, h) \in Seq(HopSet)
         /\ Begins(Append(r, h), p) <=> Len(r) < Len(p) /\ Begins(r, p) /\ p[Len(r) + 1] = h
         /\ Begins(p, Append(r, h)) <=> p = Append(r, h) \/ Begins(p, r)
<1>1. /\ Len(r) \in Nat /\ Len(p) \in Nat /\ Append(r, h) \in Seq(HopSet)
      /\ Len(Append(r, h)) = Len(r) + 1 /\ Append(r, h)[Len(r) + 1] = h
      /\ \A i \in 1..Len(r) : Append(r, h)[i] = r[i]
  OBVIOUS
<1>2. Begins(Append(r, h), p) <=> Len(r) < Len(p) /\ Begins(r, p) /\ p[Len(r) + 1] = h
  BY <1>1 DEF Begins
<1>3. ASSUME Begins(p, Append(r, h)), Len(p) <= Len(r) PROVE Begins(p, r)
  BY <1>1, <1>3 DEF Begins
<1>4. ASSUME Begins(p, Append(r, h)), Len(p) = Len(r) + 1 PROVE p = Append(r, h)
  BY <1>1, <1>4 DEF Begins
<1>5. ASSUME Begins(p, r) PROVE Begins(p, Append(r, h))
  BY <1>1, <1>5 DEF Begins
<1>6. Begins(p, p)
  BY DEF Begins
<1>7. Begins(p, Append(r, h)) => Len(p) <= Len(r) \/ Len(p) = Len(r) + 1
  BY <1>1 DEF Begins
<1> QED
  BY <1>1, <1>2, <1>3, <1>4, <1>5, <1>6, <1>7
-----------------------------------------------------------------------------
\* The search starts with the walk of no hops.
LEMMA SearchStarts == Path!Init => SearchInv
<1> SUFFICES ASSUME Path!Init PROVE SearchInv
  OBVIOUS
<1> DEFINE root == [at |-> query.from, hops |-> <<>>, seen |-> {query.from}]
<1>1. /\ record \in [Path!Edges -> Records] /\ query \in Queries
      /\ stack = <<root>> /\ paths = <<>>
      /\ phase = IF query.route \in Path!PathRoutes THEN "search" ELSE "found"
  BY DEF Path!Init, Queries
<1>2. /\ root \in Entries /\ root.hops = <<>> /\ root.at = query.from /\ root.seen = {query.from}
      /\ <<>> \in Seq(HopSet) /\ Len(<<>>) = 0
  BY <1>1 DEF Entries, Queries
<1> HIDE DEF root
<1>3. query.depth \in Int /\ 0 <= query.depth
  BY <1>1 DEF Queries
<1>4. Spot(query, <<>>, 0) = query.from
  BY DEF Spot
<1>5. Simple(query, <<>>)
  BY <1>2, <1>3 DEF Simple, Connected, NoLoop
<1>6. Describes(query, root)
  <2>1. {query.from} = {Spot(query, <<>>, i) : i \in 0..0}
    BY <1>4
  <2> QED
    BY <1>2, <1>4, <1>5, <2>1 DEF Describes
<1>7. stack \in Seq(Entries) /\ Len(stack) = 1 /\ stack[1] = root
  BY <1>1, <1>2
<1>8. paths \in Seq(Seq(HopSet)) /\ Len(paths) = 0
  BY <1>1
<1>9. Walked(query, stack)
  BY <1>6, <1>7 DEF Walked
<1>10. Found(query, paths)
  BY <1>8 DEF Found
<1>11. Apart(stack, paths)
  BY <1>7, <1>8 DEF Apart
<1>12. Covered(query, stack, paths)
  <2> SUFFICES ASSUME NEW p, Simple(query, p) PROVE Ahead(stack, p)
    BY DEF Covered
  <2>1. Begins(<<>>, p)
    BY <1>2 DEF Begins, Simple
  <2> QED
    BY <1>2, <1>7, <2>1 DEF Ahead
<1> QED
  BY <1>1, <1>9, <1>10, <1>11, <1>12 DEF SearchInv, PathTypes

\* One turn of the loop: the last entry is popped, noted when it is a path, and
\* replaced by its extensions.
LEMMA VisitKeeps ==
  ASSUME SearchInv, Path!Visit
  PROVE  SearchInv'
<1> DEFINE top == Path!Last(stack)
           isPath == top.hops # <<>> /\ query.to \in {None, top.at}
           stop == (isPath /\ query.to # None) \/ Len(top.hops) >= query.depth
           onward == IF stop THEN {} ELSE {h \in Path!Steps(top.at) : Path!End(h) \notin top.seen}
           n == Len(stack)
<1>1. /\ query \in Queries /\ query' = query /\ record' = record /\ phase' = phase
      /\ phase = "search" /\ stack # <<>> /\ Len(paths) < Path!Most
      /\ paths' = IF isPath THEN Append(paths, top.hops) ELSE paths
  BY DEF Path!Visit, SearchInv, PathTypes
<1>2. PICK new \in Path!SeqOf(onward, Len(Ledger)) :
        /\ Path!Range(new) = onward /\ Path!LedgerOrder(new)
        /\ stack' = Path!Front(stack) \o [i \in 1..Len(new) |-> Path!Extended(top, new[i])]
  BY DEF Path!Visit
<1> DEFINE kids == [i \in 1..Len(new) |-> Path!Extended(top, new[i])]
<1>3. /\ Walked(query, stack) /\ Found(query, paths) /\ Apart(stack, paths)
      /\ Covered(query, stack, paths) /\ PathTypes
  BY <1>1 DEF SearchInv
<1>4. /\ stack \in Seq(Entries) /\ n \in Nat /\ n > 0 /\ top = stack[n] /\ top \in Entries
      /\ Describes(query, top) /\ top.hops \in Seq(HopSet) /\ top.at \in Entities
      /\ Len(top.hops) \in Nat /\ query.depth \in Int
  <2>1. stack \in Seq(Entries) /\ n \in Nat /\ n > 0 /\ n \in 1..n
    BY <1>1, <1>3 DEF Walked
  <2>2. top = stack[n] /\ Describes(query, stack[n]) /\ stack[n] \in Entries
    BY <1>3, <2>1 DEF Walked, Path!Last
  <2> QED
    BY <1>1, <2>1, <2>2 DEF Entries, Queries
<1>5. \A h \in onward : /\ ~stop /\ h \in HopSet /\ Follows(query, h, top.at)
                        /\ Path!End(h) \notin top.seen /\ Len(top.hops) < query.depth
  BY <1>4, StepsLeave
<1>6. ~stop => \A h \in HopSet :
                 Follows(query, h, top.at) /\ Path!End(h) \notin top.seen => h \in onward
  BY StepsLeave
<1> HIDE DEF onward
<1>7. /\ new \in Seq(onward) /\ Len(new) \in Nat /\ DOMAIN new = 1..Len(new)
      /\ \A i \in 1..Len(new) : new[i] \in onward
      /\ \A h \in onward : \E i \in 1..Len(new) : new[i] = h
  <2>1. PICK m \in 0..Len(Ledger) : new \in [1..m -> onward]
    BY <1>2 DEF Path!SeqOf
  <2>2. m \in Nat /\ new \in Seq(onward) /\ Len(new) = m /\ DOMAIN new = 1..Len(new)
    BY <2>1, LedgerAssumption
  <2>3. \A h \in onward : \E i \in 1..Len(new) : new[i] = h
    BY <1>2, <2>2 DEF Path!Range
  <2> QED
    BY <2>1, <2>2, <2>3
<1>8. \A i, j \in 1..Len(new) : i # j => new[i] # new[j]
  <2>1. ASSUME NEW i \in 1..Len(new), NEW j \in 1..Len(new), i < j PROVE new[i] # new[j]
    <3>1. PICK m, l \in 1..Len(Ledger) : m < l /\ Ledger[m] = new[i].edge /\ Ledger[l] = new[j].edge
      BY <1>2, <2>1 DEF Path!LedgerOrder
    <3> QED
      BY <3>1, LedgerAssumption
  <2> QED
    BY <2>1, <1>7
<1>9. /\ kids \in Seq(Entries) /\ Len(kids) = Len(new)
      /\ \A i \in 1..Len(new) :
           /\ Describes(query, kids[i]) /\ new[i] \in HopSet /\ kids[i] \in Entries
           /\ kids[i].hops = Append(top.hops, new[i])
  <2>1. ASSUME NEW i \in 1..Len(new)
        PROVE  /\ Describes(query, kids[i]) /\ new[i] \in HopSet /\ kids[i] \in Entries
               /\ kids[i].hops = Append(top.hops, new[i])
    <3>1. kids[i] = Path!Extended(top, new[i])
      OBVIOUS
    <3>2. /\ new[i] \in HopSet /\ Follows(query, new[i], top.at) /\ Path!End(new[i]) \notin top.seen
          /\ Len(top.hops) < query.depth
      BY <1>5, <1>7
    <3>3. Path!Extended(top, new[i]) \in Entries /\ Describes(query, Path!Extended(top, new[i]))
      BY <1>1, <1>4, <3>2, OneHopOn
    <3> QED
      BY <3>1, <3>2, <3>3 DEF Path!Extended
  <2> QED
    BY <2>1, <1>7
<1>10. /\ stack' \in Seq(Entries) /\ Len(stack') = n - 1 + Len(new)
       /\ \A i \in 1..(n - 1) : stack'[i] = stack[i]
       /\ \A i \in 1..Len(new) : stack'[n - 1 + i] = kids[i]
  <2> HIDE DEF kids
  <2>1. stack' = Path!Front(stack) \o kids
    BY <1>2 DEF kids
  <2> DEFINE both == Path!Front(stack) \o kids
  <2>2. /\ both \in Seq(Entries) /\ Len(both) = Len(stack) - 1 + Len(kids)
        /\ \A i \in 1..(Len(stack) - 1) : both[i] = stack[i]
        /\ \A i \in 1..Len(kids) : both[Len(stack) - 1 + i] = kids[i]
    BY <1>1, <1>4, <1>9, PopPush
  <2> QED
    BY <1>9, <2>1, <2>2
<1> HIDE DEF kids, top, n
<1>11. \A i \in 1..Len(stack') :
         \/ i \in 1..(n - 1)
         \/ i - (n - 1) \in 1..Len(new)
  BY <1>4, <1>7, <1>10
<1>12. \A i \in 1..Len(stack') :
         \/ i \in 1..(n - 1) /\ stack'[i] = stack[i]
         \/ i - (n - 1) \in 1..Len(new) /\ stack'[i] = kids[i - (n - 1)]
  BY <1>4, <1>7, <1>10, <1>11
<1>13. Walked(query, stack')
  <2>1. \A i \in 1..(n - 1) : Describes(query, stack[i])
    BY <1>3, <1>4 DEF Walked, n
  <2> QED
    BY <1>9, <1>10, <1>12, <2>1 DEF Walked
<1>14. /\ paths \in Seq(Seq(HopSet)) /\ paths' \in Seq(Seq(HopSet)) /\ Len(paths) \in Nat
       /\ \A i \in 1..Len(paths) : i \in 1..Len(paths') /\ paths'[i] = paths[i]
       /\ \A i \in 1..Len(paths') : \/ i \in 1..Len(paths)
                                    \/ i = Len(paths) + 1 /\ isPath /\ paths'[i] = top.hops
       /\ isPath => Len(paths') = Len(paths) + 1 /\ paths'[Len(paths) + 1] = top.hops
  BY <1>1, <1>3, <1>4 DEF Found
<1>15. isPath => Simple(query, top.hops) /\ Wanted(query, top.hops)
  BY <1>1, <1>4 DEF Describes, Wanted
<1>16. Found(query, paths')
  BY <1>3, <1>14, <1>15 DEF Found
<1> HIDE DEF isPath, stop
<1>17. Apart(stack', paths')
  <2>1. /\ \A i, j \in 1..n : i # j => ~Begins(stack[i].hops, stack[j].hops)
        /\ \A i \in 1..n, j \in 1..Len(paths) : ~Begins(stack[i].hops, paths[j])
        /\ \A i, j \in 1..Len(paths) : i # j => paths[i] # paths[j]
    BY <1>3 DEF Apart, n
  <2>2. /\ \A i \in 1..(n - 1) : /\ ~Begins(stack[i].hops, top.hops)
                                /\ ~Begins(top.hops, stack[i].hops)
        /\ \A j \in 1..Len(paths) : ~Begins(top.hops, paths[j])
        /\ \A i \in 1..(n - 1) : stack[i].hops \in Seq(HopSet)
    <3>1. \A i \in 1..(n - 1) : i \in 1..n /\ n \in 1..n /\ i # n
      BY <1>4
    <3>2. \A i \in 1..(n - 1) : stack[i] \in Entries
      BY <1>4, <3>1 DEF n
    <3> QED
      BY <1>4, <2>1, <3>1, <3>2 DEF Entries
  \* The children against each other, against what still waits and what is found.
  <2>3. \A i, j \in 1..Len(new) : i # j => ~Begins(kids[i].hops, kids[j].hops)
    <3> SUFFICES ASSUME NEW i \in 1..Len(new), NEW j \in 1..Len(new), i # j
                 PROVE  ~Begins(kids[i].hops, kids[j].hops)
      OBVIOUS
    <3>1. /\ kids[i].hops = Append(top.hops, new[i]) /\ kids[j].hops = Append(top.hops, new[j])
          /\ new[i] \in HopSet /\ new[j] \in HopSet /\ new[i] # new[j]
      BY <1>8, <1>9
    <3>2. /\ Append(top.hops, new[j]) \in Seq(HopSet)
          /\ Append(top.hops, new[j])[Len(top.hops) + 1] = new[j]
      BY <1>4, <3>1
    <3>3. Begins(Append(top.hops, new[i]), Append(top.hops, new[j]))
            => Append(top.hops, new[j])[Len(top.hops) + 1] = new[i]
      <4> DEFINE other == Append(top.hops, new[j])
      <4>1. other \in Seq(HopSet)
        BY <3>2
      <4> HIDE DEF other
      <4>2. Begins(Append(top.hops, new[i]), other) => other[Len(top.hops) + 1] = new[i]
        BY <1>4, <3>1, <4>1, BeginsAppend
      <4> QED
        BY <4>2 DEF other
    <3> QED
      BY <3>1, <3>2, <3>3
  <2>4. \A i \in 1..Len(new), r \in Seq(HopSet) :
          /\ ~Begins(top.hops, r) => ~Begins(kids[i].hops, r)
          /\ ~Begins(top.hops, r) /\ ~Begins(r, top.hops) => ~Begins(r, kids[i].hops)
    <3> SUFFICES ASSUME NEW i \in 1..Len(new), NEW r \in Seq(HopSet), ~Begins(top.hops, r)
                 PROVE  /\ ~Begins(kids[i].hops, r)
                        /\ ~Begins(r, top.hops) => ~Begins(r, kids[i].hops)
      OBVIOUS
    <3>1. kids[i].hops = Append(top.hops, new[i]) /\ new[i] \in HopSet
      BY <1>9
    <3>2. Begins(Append(top.hops, new[i]), r) => Begins(top.hops, r)
      BY <1>4, <3>1, BeginsAppend
    <3>3. Begins(top.hops, Append(top.hops, new[i]))
      BY <1>4, <3>1 DEF Begins
    <3>4. Begins(r, Append(top.hops, new[i])) => r = Append(top.hops, new[i]) \/ Begins(r, top.hops)
      BY <1>4, <3>1, BeginsAppend
    <3> QED
      BY <3>1, <3>2, <3>3, <3>4
  <2>5. \A i \in 1..Len(new) : ~Begins(kids[i].hops, top.hops)
    <3> SUFFICES ASSUME NEW i \in 1..Len(new) PROVE ~Begins(kids[i].hops, top.hops)
      OBVIOUS
    <3>1. kids[i].hops = Append(top.hops, new[i]) /\ new[i] \in HopSet
      BY <1>9
    <3> QED
      BY <1>4, <3>1, BeginsAppend
  <2>6. \A j \in 1..Len(paths) : paths[j] \in Seq(HopSet)
    BY <1>14
  <2>7. ASSUME NEW i \in 1..Len(stack'), NEW j \in 1..Len(stack'), i # j
        PROVE  ~Begins(stack'[i].hops, stack'[j].hops)
    <3>1. CASE i \in 1..(n - 1) /\ j \in 1..(n - 1)
      <4>1. stack'[i] = stack[i] /\ stack'[j] = stack[j] /\ i \in 1..n /\ j \in 1..n
        BY <1>4, <1>10, <3>1
      <4> QED BY <2>1, <2>7, <4>1
    <3>2. CASE i \in 1..(n - 1) /\ j - (n - 1) \in 1..Len(new)
      <4>1. stack'[i] = stack[i] /\ stack'[j] = kids[j - (n - 1)]
        BY <1>12, <1>4, <1>10, <3>2
      <4> QED BY <2>2, <2>4, <3>2, <4>1
    <3>3. CASE i - (n - 1) \in 1..Len(new) /\ j \in 1..(n - 1)
      <4>1. stack'[j] = stack[j] /\ stack'[i] = kids[i - (n - 1)]
        BY <1>12, <1>4, <1>10, <3>3
      <4> QED BY <2>2, <2>4, <3>3, <4>1
    <3>4. CASE i - (n - 1) \in 1..Len(new) /\ j - (n - 1) \in 1..Len(new)
      <4>1. /\ stack'[i] = kids[i - (n - 1)] /\ stack'[j] = kids[j - (n - 1)]
            /\ i - (n - 1) # j - (n - 1)
        BY <1>12, <1>4, <1>10, <2>7, <3>4
      <4> QED BY <2>3, <3>4, <4>1
    <3> QED
      BY <1>11, <3>1, <3>2, <3>3, <3>4
  <2>8. ASSUME NEW i \in 1..Len(stack'), NEW j \in 1..Len(paths')
        PROVE  ~Begins(stack'[i].hops, paths'[j])
    <3>1. \/ i \in 1..(n - 1) /\ stack'[i] = stack[i]
          \/ i - (n - 1) \in 1..Len(new) /\ stack'[i] = kids[i - (n - 1)]
      BY <1>12
    <3>2. \/ j \in 1..Len(paths) /\ paths'[j] = paths[j]
          \/ paths'[j] = top.hops
      BY <1>14
    <3>3. \A k \in 1..(n - 1) : k \in 1..n
      BY <1>4
    <3> QED
      BY <2>1, <2>2, <2>4, <2>5, <2>6, <3>1, <3>2, <3>3
  <2>9. ASSUME NEW i \in 1..Len(paths'), NEW j \in 1..Len(paths'), i # j
        PROVE  paths'[i] # paths'[j]
    <3>1. Begins(top.hops, top.hops)
      BY <1>4 DEF Begins
    <3>2. \A k \in 1..Len(paths) : paths[k] # top.hops
      BY <2>2, <3>1
    <3> QED
      BY <1>14, <2>1, <2>9, <3>2
  <2> QED
    BY <2>7, <2>8, <2>9 DEF Apart
<1>18. Covered(query, stack', paths')
  <2> SUFFICES ASSUME NEW p, Simple(query, p), Wanted(query, p)
               PROVE  Has(paths', p) \/ Ahead(stack', p)
    BY DEF Covered
  <2>1. CASE Has(paths, p)
    BY <1>14, <2>1 DEF Has
  <2>2. CASE \E i \in 1..(n - 1) : Begins(stack[i].hops, p)
    <3>1. \A i \in 1..(n - 1) : i \in 1..Len(stack')
      BY <1>4, <1>7, <1>10
    <3> QED
      BY <1>10, <2>2, <3>1 DEF Ahead
  <2>3. CASE Begins(top.hops, p)
    <3>1. p \in Seq(HopSet) /\ Len(p) \in Nat /\ Len(p) <= query.depth
      BY DEF Simple
    <3>2. CASE p = top.hops
      <4>1. isPath
        BY <1>4, <3>2 DEF isPath, Wanted, Describes
      <4>2. Len(paths) + 1 \in 1..Len(paths') /\ paths'[Len(paths) + 1] = top.hops
        BY <1>14, <4>1
      <4> QED
        BY <3>2, <4>2 DEF Has
    <3>3. CASE p # top.hops
      <4>1. Len(top.hops) < Len(p)
        BY <1>4, <2>3, <3>1, <3>3 DEF Begins
      <4>2. ~stop
        <5>1. ASSUME isPath, query.to # None PROVE FALSE
          <6>1. top.at = query.to /\ top.at = Spot(query, p, Len(top.hops))
            BY <1>4, <2>3, <4>1, <5>1 DEF isPath, Describes, Spot, Begins
          <6>2. Spot(query, p, Len(p)) = query.to
            BY <5>1 DEF Wanted
          <6> QED
            BY <1>4, <3>1, <4>1, <6>1, <6>2 DEF Simple, NoLoop
        <5> QED
          BY <1>4, <3>1, <4>1, <5>1 DEF stop
      <4> DEFINE h == p[Len(top.hops) + 1]
      <4>3. h \in HopSet /\ Follows(query, h, top.at) /\ Path!End(h) \notin top.seen
        BY <1>1, <1>4, <2>3, <4>1, NextHop
      <4>4. h \in onward
        BY <1>6, <4>2, <4>3
      <4>5. PICK i \in 1..Len(new) : new[i] = h
        BY <1>7, <4>4
      <4>6. kids[i].hops = Append(top.hops, h) /\ h \in HopSet
        BY <1>9, <4>3, <4>5
      <4>7. Begins(kids[i].hops, p)
        BY <1>4, <2>3, <3>1, <4>1, <4>6, BeginsAppend
      <4>8. n - 1 + i \in 1..Len(stack') /\ stack'[n - 1 + i] = kids[i]
        BY <1>4, <1>7, <1>10
      <4> QED
        BY <4>7, <4>8 DEF Ahead
    <3> QED
      BY <3>2, <3>3
  <2> QED
    BY <1>3, <1>4, <2>1, <2>2, <2>3 DEF Covered, Ahead, n
<1> QED
  BY <1>1, <1>3, <1>13, <1>16, <1>17, <1>18 DEF SearchInv, PathTypes

\* The end of the search and the answers.
LEMMA OthersKeep ==
  ASSUME SearchInv,
         Path!EndSearch \/ Path!AnswerPath \/ Path!AnswerList \/ UNCHANGED Path!vars
  PROVE  SearchInv'
<1>1. ASSUME Path!EndSearch PROVE SearchInv'
  <2>1. /\ query' = query /\ record' = record /\ paths' = paths /\ phase' = "found"
        /\ stack' = <<>> /\ phase = "search" /\ (stack = <<>> \/ Len(paths) >= Path!Most)
    BY <1>1 DEF Path!EndSearch
  <2>2. Walked(query, stack') /\ Apart(stack', paths)
    BY <2>1 DEF SearchInv, Walked, Apart
  <2>3. Len(paths) < Path!Most => stack = <<>>
    <3>1. Len(paths) \in Int /\ Path!Most \in Int
      BY LimitAssumption DEF SearchInv, Found, Path!Most
    <3> QED BY <2>1, <3>1
  <2>4. Len(paths) < Path!Most => Covered(query, stack', paths)
    BY <2>1, <2>3 DEF SearchInv
  <2> QED
    BY <2>1, <2>2, <2>4 DEF SearchInv, PathTypes, Path!Most
<1>2. ASSUME Path!AnswerPath PROVE SearchInv'
  BY <1>2 DEF Path!AnswerPath, SearchInv, PathTypes, Path!Most
<1>3. ASSUME Path!AnswerList PROVE SearchInv'
  BY <1>3 DEF Path!AnswerList, SearchInv, PathTypes, Path!Most
<1>4. ASSUME UNCHANGED Path!vars PROVE SearchInv'
  BY <1>4 DEF Path!vars, SearchInv, PathTypes, Path!Most
<1> QED
  BY <1>1, <1>2, <1>3, <1>4

LEMMA SearchKept == SearchInv /\ [Path!Next]_(Path!vars) => SearchInv'
  BY VisitKeeps, OthersKeep DEF Path!Next

\* With an empty stack nothing is ahead, so what is covered is found.
LEMMA ExactFollows == SearchInv => Path!PathsAreExact
<1> SUFFICES ASSUME SearchInv, phase = "found", query.route \in Path!PathRoutes,
                    Len(paths) < Path!Most
             PROVE  /\ Path!Range(paths) = {p \in Path!Chains : Path!IsPath(p)}
                    /\ \A i, j \in 1..Len(paths) : i # j => paths[i] # paths[j]
  BY DEF Path!PathsAreExact
<1>1. /\ query \in Queries /\ stack = <<>> /\ Found(query, paths) /\ Apart(stack, paths)
      /\ Covered(query, stack, paths)
  BY DEF SearchInv, PathTypes
<1>2. /\ paths \in Seq(Seq(HopSet)) /\ Len(paths) \in Nat /\ DOMAIN paths = 1..Len(paths)
  BY <1>1 DEF Found
<1>3. ASSUME NEW p
      PROVE  p \in Path!Chains /\ Path!IsPath(p) <=> Simple(query, p) /\ Wanted(query, p)
  <2>1. \A i : Path!Place(p, i) = Spot(query, p, i)
    BY DEF Path!Place, Spot
  <2>2. \A h, x : Path!Leaves(h, x) <=> Follows(query, h, x)
    BY DEF Path!Leaves, Follows
  <2>3. p \in Path!Chains <=> p \in Seq(HopSet) /\ Len(p) \in 1..query.depth
    <3>1. query.depth \in Nat
      BY <1>1 DEF Queries
    <3>2. ASSUME p \in Path!Chains PROVE p \in Seq(HopSet) /\ Len(p) \in 1..query.depth
      <4>1. PICK m \in 1..query.depth : p \in [1..m -> HopSet]
        BY <3>2 DEF Path!Chains, HopSet
      <4> QED BY <3>1, <4>1
    <3>3. ASSUME p \in Seq(HopSet), Len(p) \in 1..query.depth PROVE p \in Path!Chains
      <4>1. p \in [1..Len(p) -> HopSet]
        BY <3>3
      <4> QED BY <3>3, <4>1 DEF Path!Chains, HopSet
    <3> QED BY <3>2, <3>3
  <2>4. ASSUME p \in Seq(HopSet) PROVE Len(p) \in Nat /\ (p # <<>> <=> Len(p) >= 1)
    BY <2>4
  <2> QED
    BY <1>1, <2>1, <2>2, <2>3, <2>4 DEF Path!IsPath, Simple, Wanted, Connected, NoLoop, Queries
<1>4. \A p : ~Ahead(stack, p)
  BY <1>1 DEF Ahead
<1>5. Path!Range(paths) = {p \in Path!Chains : Path!IsPath(p)}
  <2>1. ASSUME NEW p \in Path!Range(paths) PROVE p \in Path!Chains /\ Path!IsPath(p)
    <3>1. PICK i \in 1..Len(paths) : p = paths[i]
      BY <1>2 DEF Path!Range
    <3> QED
      BY <1>1, <1>3, <3>1 DEF Found
  <2>2. ASSUME NEW p, p \in Path!Chains, Path!IsPath(p) PROVE p \in Path!Range(paths)
    <3>1. Has(paths, p)
      BY <1>1, <1>3, <1>4, <2>2 DEF Covered
    <3> QED
      BY <1>2, <3>1 DEF Has, Path!Range
  <2> QED
    BY <2>1, <2>2
<1> QED
  BY <1>1, <1>5 DEF Apart

\* A search keeps SearchInv at every turn of its loop.
THEOREM SearchInvariance == Path!Spec => []SearchInv
BY SearchStarts, SearchKept, PTL DEF Path!Spec

\* For every ledger, question and depth: a search that was not cut off at its
\* limit has found every simple path of the stored directions (and inverse ones
\* when asked), each once, and nothing else (multi_hop_path).
THEOREM PathsExact == Path!Spec => []PathsAreExact
BY SearchInvariance, ExactFollows, PTL DEF PathsAreExact

\* What VerdictLadder says of one path.
Ladder(p) ==
  LET Only(statuses) == \A r \in Path!Recs(p) : r.status \in statuses
      disputed == \E r \in Path!Recs(p) : r.status = "disputed"
  IN /\ Path!Explain(p) = "KNOWN" <=>
          Only({"committed"}) /\ (\A r \in Path!Recs(p) : r.ids > 0) /\ ~Path!Reversed(p)
     /\ Path!ExplainV2(p) = "KNOWN" <=> Only({"committed"})
     /\ Path!Score(p) = "KNOWN" <=> Only({"committed", "reinforced"})
     /\ Path!RenderPath(p) = "KNOWN" <=> ~disputed
     /\ \A verdict \in {Path!Explain(p), Path!ExplainV2(p), Path!Score(p), Path!RenderPath(p)} :
          verdict = "DISPUTED" <=> disputed

\* A contradicted record is disputed and a canonical one is decided, so each
\* verdict comes down to the statuses, the sources and the directions.
LEMMA OnePathLadder ==
  ASSUME record \in [Path!Edges -> Records], NEW p \in Seq(HopSet)
  PROVE  Ladder(p)
<1> DEFINE disputed == \E r \in Path!Recs(p) : r.status = "disputed"
           committed == \A r \in Path!Recs(p) : r.status = "committed"
           firm == \A r \in Path!Recs(p) : r.status \in {"committed", "reinforced"}
           sourced == \A r \in Path!Recs(p) : r.ids > 0
<1>1. Path!Recs(p) \subseteq Records
  <2>1. \A i \in 1..Len(p) : p[i] \in HopSet
    OBVIOUS
  <2>2. \A i \in 1..Len(p) : record[p[i].edge] \in Records
    BY <2>1 DEF HopSet
  <2> QED
    BY <2>2 DEF Path!Recs
<1>2. \A r \in Path!Recs(p) :
        /\ r.ids \in Nat
        /\ r.contradicted => r.status = "disputed"
        /\ Path!Canonical(r) => r.status \in {"committed", "disputed"}
  BY <1>1, RecordsAssumption DEF Settled
<1>3. Path!PathStatus(p) = IF disputed THEN "disputed"
                           ELSE IF committed THEN "committed" ELSE "provisional"
  BY <1>2 DEF Path!PathStatus
<1>4. Path!ScoreStatus(p) = IF disputed THEN "disputed"
                            ELSE IF firm THEN "committed" ELSE "provisional"
  BY DEF Path!ScoreStatus
<1>5. Path!Explain(p) = IF disputed THEN "DISPUTED"
                        ELSE IF committed /\ sourced /\ ~Path!Reversed(p) THEN "KNOWN"
                        ELSE "PROVISIONAL"
  <2>1. CASE disputed
    BY <2>1 DEF Path!Explain
  <2>2. CASE ~disputed
    <3>1. Path!CanonicalPath(p) => committed
      BY <1>2, <2>2 DEF Path!CanonicalPath
    <3>2. committed => ((\E r \in Path!Recs(p) : r.ids = 0 \/ r.status = "candidate") <=> ~sourced)
      BY <1>2
    <3>3. ~committed => ~(Path!CanonicalPath(p) \/ committed)
      BY <3>1
    <3>4. Path!Explain(p) =
            IF (\E r \in Path!Recs(p) : r.ids = 0 \/ r.status = "candidate") \/ Path!Reversed(p)
            THEN "PROVISIONAL"
            ELSE IF Path!CanonicalPath(p) \/ committed THEN "KNOWN" ELSE "PROVISIONAL"
      BY <2>2 DEF Path!Explain
    <3> HIDE DEF committed, sourced
    <3> QED
      BY <2>2, <3>2, <3>3, <3>4
  <2> QED
    BY <2>1, <2>2
<1>6. /\ committed => firm
      /\ firm => ~disputed
  OBVIOUS
<1>7. Ladder(p) <=>
        /\ Path!Explain(p) = "KNOWN" <=> committed /\ sourced /\ ~Path!Reversed(p)
        /\ Path!ExplainV2(p) = "KNOWN" <=> committed
        /\ Path!Score(p) = "KNOWN" <=> firm
        /\ Path!RenderPath(p) = "KNOWN" <=> ~disputed
        /\ \A verdict \in {Path!Explain(p), Path!ExplainV2(p), Path!Score(p),
                           Path!RenderPath(p)} : verdict = "DISPUTED" <=> disputed
  BY DEF Ladder
<1> HIDE DEF disputed, committed, firm, sourced
<1>8. /\ Path!ExplainV2(p) = IF disputed THEN "DISPUTED"
                              ELSE IF committed THEN "KNOWN" ELSE "PROVISIONAL"
      /\ Path!Score(p) = IF disputed THEN "DISPUTED"
                          ELSE IF firm THEN "KNOWN" ELSE "PROVISIONAL"
      /\ Path!RenderPath(p) = IF disputed THEN "DISPUTED" ELSE "KNOWN"
  BY <1>3, <1>4 DEF Path!ExplainV2, Path!Score, Path!RenderPath
<1> QED
  BY <1>5, <1>6, <1>7, <1>8

\* For every ledger whose records are settled, each of the four verdicts on a
\* path a question can answer with comes down to one condition, each weaker
\* than the one before (render_path_explanation, render_path_explanation_v2,
\* path_score and render_answer): all call the same paths disputed, and the
\* second explanation is KNOWN where a hop is unsourced or rendered in reverse.
THEOREM VerdictsLadder == Path!Spec => []VerdictLadder
<1>1. SearchInv => Path!VerdictLadder
  <2> SUFFICES ASSUME SearchInv, NEW i \in 1..Len(paths) PROVE Ladder(paths[i])
    BY DEF Path!VerdictLadder, Ladder
  <2>1. record \in [Path!Edges -> Records] /\ paths[i] \in Seq(HopSet)
    BY DEF SearchInv, PathTypes, Found
  <2> QED
    BY <2>1, OnePathLadder
<1> QED
  BY SearchInvariance, <1>1, PTL DEF VerdictLadder
=============================================================================
