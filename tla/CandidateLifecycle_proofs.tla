---------------------- MODULE CandidateLifecycle_proofs ----------------------
(***************************************************************************)
(* Proofs about the candidates of a topic, for any number of overlapping   *)
(* sessions, candidates, claims, crashes and appends that fail.  Type      *)
(* correctness and the commit policy come first; then what the ledger      *)
(* still knows of a contradiction, and which histories explain what it no  *)
(* longer knows.                                                           *)
(***************************************************************************)
EXTENDS CandidateLifecycle, FiniteSetTheorems, TLAPS

\* A record of i, in the file or in a session, holds only evidence that was
\* ingested for i, under the class i was created with.
RealRecord(i, r) == r # None => r.class = origin[i] /\ r.keys \subseteq seen[i]

RecordsReal ==
  \A i \in Ids : RealRecord(i, ledger[i]) /\ \A w \in Workers : RealRecord(i, view[w][i])

\* Outside its own steps a session owes nothing.
IdleOwesNothing ==
  \A w \in Workers :
    pc[w] \in {"idle", "loaded"} => Saved(w) /\ todo[w] = {}

\* What a session still has to do concerns records it has.
WorkIsKnown ==
  \A w \in Workers :
    /\ fresh[w] # None => view[w][fresh[w]] # None
    /\ \A i \in dirty[w] \cup todo[w] : view[w][i] # None
    /\ pc[w] \in {"store", "deny"} => cur[w] \in Ids /\ view[w][cur[w]] # None

\* A session about to store a fact has the grounds for it.
StoreGrounded == \A w \in Workers : pc[w] = "store" => Grounded(cur[w])

IInv == TypeOK /\ RecordsReal /\ IdleOwesNothing /\ WorkIsKnown /\ StoreGrounded /\ CommitPolicy

USE DEF Fact

LEMMA FiniteKeys ==
  ASSUME NEW S \in SUBSET Keys
  PROVE  IsFiniteSet(S) /\ Cardinality(S) \in Nat
BY FS_Subset, FS_CardinalityType, KeysAssumption

\* Evidence only accumulates, so grounds once had are kept.
LEMMA GroundedStays ==
  ASSUME TypeOK, NEW i \in Ids, Grounded(i),
         origin'[i] = origin[i], seen[i] \subseteq seen'[i], seen'[i] \subseteq Keys,
         approved \subseteq approved'
  PROVE  Grounded(i)'
<1> DEFINE Web(S) == {k \in S : ClassOf[k] = WEB}
<1>1. seen[i] \in SUBSET Keys /\ seen'[i] \in SUBSET Keys
  BY DEF TypeOK
<1>2. Cardinality(seen[i]) <= Cardinality(seen'[i])
  BY <1>1, FiniteKeys, FS_Subset
<1>3. Cardinality(Web(seen[i])) <= Cardinality(Web(seen'[i]))
  <2>1. Web(seen'[i]) \in SUBSET Keys /\ Web(seen[i]) \subseteq Web(seen'[i])
    BY <1>1
  <2> QED
    BY <2>1, FiniteKeys, FS_Subset
<1>4. /\ Cardinality(seen[i]) \in Nat /\ Cardinality(seen'[i]) \in Nat
      /\ Cardinality(Web(seen[i])) \in Nat /\ Cardinality(Web(seen'[i])) \in Nat
  <2>1. Web(seen[i]) \in SUBSET Keys /\ Web(seen'[i]) \in SUBSET Keys
    BY <1>1
  <2> QED
    BY <1>1, <2>1, FiniteKeys
<1>5. Cardinality(seen[i]) >= CommitEvidence => Cardinality(seen'[i]) >= CommitEvidence
  BY <1>2, <1>4, NumbersAssumption
<1>6. Cardinality(Web(seen[i])) >= MIN_WEB_SOURCES
        => Cardinality(Web(seen'[i])) >= MIN_WEB_SOURCES
  BY <1>3, <1>4 DEF MIN_WEB_SOURCES
<1> QED
  BY <1>5, <1>6 DEF Grounded

\* What the decision to commit relies on.
LEMMA CommitDecision ==
  ASSUME TypeOK, NEW i \in Ids, NEW r \in Candidate, NEW stale,
         RealRecord(i, r), Evaluate(r, stale) = "commit"
  PROVE  Grounded(i)
<1> DEFINE Web(S) == {k \in S : ClassOf[k] = WEB}
<1>0. r # None
  BY NoneAssumption
<1>1. Evidence(r) >= CommitEvidence /\ Committable(r)
  BY DEF Evaluate
<1>2. r.class = origin[i] /\ r.keys \subseteq seen[i] /\ seen[i] \in SUBSET Keys
  BY <1>0 DEF RealRecord, TypeOK
<1>3. CommitTrust(origin[i]) # "none"
  BY <1>1, <1>2 DEF Committable
<1>4. Cardinality(seen[i]) >= CommitEvidence
  BY <1>1, <1>2, FiniteKeys, FS_Subset, NumbersAssumption DEF Evidence
<1>5. origin[i] = WEB => Cardinality(Web(seen[i])) >= MIN_WEB_SOURCES
  <2> SUFFICES ASSUME origin[i] = WEB PROVE Cardinality(Web(seen[i])) >= MIN_WEB_SOURCES
    OBVIOUS
  <2>1. Cardinality(Web(r.keys)) >= MIN_WEB_SOURCES
    BY <1>1, <1>2 DEF Committable, VerifiedWeb, WebSources
  <2>2. Web(r.keys) \subseteq Web(seen[i]) /\ Web(seen[i]) \in SUBSET Keys
    BY <1>2
  <2>3. Web(r.keys) \in SUBSET Keys
    BY <2>2
  <2>4. Cardinality(Web(r.keys)) <= Cardinality(Web(seen[i]))
    BY <2>2, FiniteKeys, FS_Subset
  <2>5. Cardinality(Web(r.keys)) \in Nat /\ Cardinality(Web(seen[i])) \in Nat
    BY <2>2, <2>3, FiniteKeys
  <2> QED
    BY <2>1, <2>4, <2>5 DEF MIN_WEB_SOURCES
<1> QED
  BY <1>3, <1>4, <1>5 DEF Grounded

-----------------------------------------------------------------------------
LEMMA InitIInv == Init => IInv
<1> SUFFICES ASSUME Init PROVE IInv
  OBVIOUS
<1> USE DEF Init, EmptyLedger
<1>1. TypeOK
  <2>1. EmptyLedger \in [Ids -> Candidate \cup {None}]
    OBVIOUS
  <2>2. ops \in 0..MaxOps /\ crashes \in 0..MaxCrashes /\ failures \in 0..MaxFailures
    BY NumbersAssumption
  <2> QED
    BY <2>1, <2>2 DEF TypeOK
<1>2. RecordsReal
  BY DEF RecordsReal, RealRecord
<1>3. IdleOwesNothing /\ WorkIsKnown
  BY DEF IdleOwesNothing, WorkIsKnown, Saved
<1>4. StoreGrounded /\ CommitPolicy
  BY DEF StoreGrounded, CommitPolicy
<1> QED
  BY <1>1, <1>2, <1>3, <1>4 DEF IInv

\* A step that leaves the history and the facts alone keeps the policy.
LEMMA PolicyStays ==
  ASSUME IInv, TypeOK', facts' = facts, origin' = origin, seen' = seen,
         approved \subseteq approved'
  PROVE  /\ CommitPolicy'
         /\ \A i \in Ids : Grounded(i) => Grounded(i)'
<1>1. \A i \in Ids : Grounded(i) => Grounded(i)'
  BY GroundedStays DEF IInv, TypeOK
<1> QED
  BY <1>1 DEF IInv, TypeOK, CommitPolicy

LEMMA LoadIInv ==
  ASSUME IInv, NEW w \in Workers, Load(w)
  PROVE  IInv'
<1> USE DEF IInv, history, budget
<1>0. /\ UNCHANGED <<ledger, torn, contested, unseen, dropped, facts, old, todo, cur, fresh, dirty,
                     origin, seen, approved, ops, crashes>>
      /\ pc[w] = "idle" /\ pc' = [pc EXCEPT ![w] = "loaded"]
      /\ view' \in {[view EXCEPT ![w] = ledger], [view EXCEPT ![w] = EmptyLedger]}
      /\ behind' = behind \/ behind' = [behind EXCEPT ![w] = Known(ledger)]
      /\ failures' = failures \/ (failures < MaxFailures /\ failures' = failures + 1)
  BY DEF Load
<1>1. TypeOK'
  <2>1. EmptyLedger \in [Ids -> Candidate \cup {None}] /\ Known(ledger) \in SUBSET Ids
    BY DEF EmptyLedger, Known
  <2>2. view' \in [Workers -> [Ids -> Candidate \cup {None}]] /\ behind' \in [Workers -> SUBSET Ids]
    <3>1. /\ view \in [Workers -> [Ids -> Candidate \cup {None}]]
          /\ behind \in [Workers -> SUBSET Ids]
          /\ ledger \in [Ids -> Candidate \cup {None}]
      BY DEF TypeOK
    <3>2. view' \in {[view EXCEPT ![w] = ledger], [view EXCEPT ![w] = EmptyLedger]}
      BY <1>0
    <3>3. behind' = behind \/ behind' = [behind EXCEPT ![w] = Known(ledger)]
      BY <1>0
    <3>4. view' \in [Workers -> [Ids -> Candidate \cup {None}]]
      BY <2>1, <3>1, <3>2
    <3> QED BY <2>1, <3>1, <3>3, <3>4
  <2>3. failures' \in 0..MaxFailures
    <3>1. failures \in Nat /\ failures <= MaxFailures /\ MaxFailures \in Nat
      BY NumbersAssumption DEF TypeOK
    <3>2. failures' = failures \/ (failures < MaxFailures /\ failures' = failures + 1)
      BY <1>0
    <3> QED BY <3>1, <3>2
  <2> QED BY <1>0, <2>2, <2>3 DEF TypeOK
<1>2. RecordsReal'
  <2>1. \A i \in Ids : /\ ledger'[i] = ledger[i]
                       /\ \A v \in Workers : view'[v][i] \in {view[v][i], ledger[i], None}
    BY <1>0 DEF TypeOK, EmptyLedger
  <2>2. \A i \in Ids : RealRecord(i, None)' /\ \A r : RealRecord(i, r) => RealRecord(i, r)'
    BY <1>0 DEF RealRecord
  <2> QED BY <2>1, <2>2 DEF RecordsReal
<1>3. IdleOwesNothing' /\ WorkIsKnown'
  BY <1>0 DEF TypeOK, IdleOwesNothing, WorkIsKnown, Saved
<1>4. StoreGrounded' /\ CommitPolicy'
  BY <1>0, <1>1, PolicyStays DEF TypeOK, StoreGrounded, WorkIsKnown
<1> QED
  BY <1>1, <1>2, <1>3, <1>4

LEMMA FinishIInv ==
  ASSUME IInv, NEW w \in Workers, Finish(w)
  PROVE  IInv'
<1> USE DEF IInv, Finish, disk, file, history, budget
<1>1. TypeOK'
  BY DEF TypeOK, EmptyLedger
<1>2. RecordsReal'
  BY DEF TypeOK, RecordsReal, RealRecord, EmptyLedger
<1>3. IdleOwesNothing' /\ WorkIsKnown'
  BY DEF TypeOK, IdleOwesNothing, WorkIsKnown, Saved
<1>4. StoreGrounded' /\ CommitPolicy'
  BY <1>1, PolicyStays DEF TypeOK, StoreGrounded, WorkIsKnown
<1> QED
  BY <1>1, <1>2, <1>3, <1>4

\* The file gets a copy of a record the session has.
LEMMA AppendReal ==
  ASSUME IInv, NEW w \in Workers, NEW i \in Ids, view[w][i] # None, Append(w, i),
         UNCHANGED <<view, origin, seen>>
  PROVE  /\ ledger' \in [Ids -> Candidate \cup {None}]
         /\ torn' \in BOOLEAN /\ contested' \subseteq Ids
         /\ failures' \in 0..MaxFailures
         /\ behind' \in [Workers -> SUBSET Ids]
         /\ unseen' \subseteq Ids \X Ids /\ dropped' \subseteq Ids
         /\ RecordsReal'
<1> USE DEF IInv
<1>1. /\ ledger' \in [Ids -> Candidate \cup {None}]
      /\ torn' \in BOOLEAN /\ contested' \subseteq Ids
      /\ failures' \in 0..MaxFailures
      /\ behind' \in [Workers -> SUBSET Ids]
      /\ unseen' \subseteq Ids \X Ids /\ dropped' \subseteq Ids
  <2>1. CASE Write(w, i)
    <3>1. behind' \in [Workers -> SUBSET Ids]
      BY <2>1 DEF TypeOK, Write
    <3>2. unseen' \subseteq Ids \X Ids
      BY <2>1 DEF TypeOK, Write
    <3>3. contested' \subseteq Ids
      BY <2>1 DEF TypeOK, Write, Contradicted
    <3> QED
      BY <2>1, <3>1, <3>2, <3>3 DEF TypeOK, Write
  <2>2. CASE Lose(w, i)
    BY <2>2, NumbersAssumption DEF TypeOK, Lose, Contradicted
  <2> QED
    BY <2>1, <2>2 DEF Append
<1>2. \A j \in Ids : ledger'[j] = ledger[j] \/ (j = i /\ ledger'[j] = view[w][i])
  BY DEF TypeOK, Append, Write, Lose
<1>3. RecordsReal'
  BY <1>2 DEF RecordsReal, RealRecord
<1> QED
  BY <1>1, <1>3

LEMMA SaveFreshIInv ==
  ASSUME IInv, NEW w \in Workers, SaveFresh(w)
  PROVE  IInv'
<1> USE DEF IInv, SaveFresh, history, budget
<1>0. fresh[w] \in Ids /\ view[w][fresh[w]] # None
  BY DEF TypeOK, WorkIsKnown
<1>1. TypeOK' /\ RecordsReal'
  BY <1>0, AppendReal DEF TypeOK
<1>3. IdleOwesNothing' /\ WorkIsKnown'
  BY DEF TypeOK, IdleOwesNothing, WorkIsKnown, Saved
<1>4. StoreGrounded' /\ CommitPolicy'
  BY <1>1, PolicyStays DEF TypeOK, StoreGrounded, WorkIsKnown
<1> QED
  BY <1>1, <1>3, <1>4

LEMMA SaveDirtyIInv ==
  ASSUME IInv, NEW w \in Workers, NEW i \in Ids, SaveDirty(w, i)
  PROVE  IInv'
<1> USE DEF IInv, SaveDirty, history, budget
<1>0. view[w][i] # None
  BY DEF TypeOK, WorkIsKnown
<1>1. TypeOK' /\ RecordsReal'
  BY <1>0, AppendReal DEF TypeOK
<1>3. IdleOwesNothing' /\ WorkIsKnown'
  BY DEF TypeOK, IdleOwesNothing, WorkIsKnown, Saved
<1>4. StoreGrounded' /\ CommitPolicy'
  BY <1>1, PolicyStays DEF TypeOK, StoreGrounded, WorkIsKnown
<1> QED
  BY <1>1, <1>3, <1>4

LEMMA ConsolidateBeginIInv ==
  ASSUME IInv, NEW w \in Workers, ConsolidateBegin(w)
  PROVE  IInv'
<1> USE DEF IInv, ConsolidateBegin, disk, file, history, budget
<1>1. TypeOK'
  BY DEF TypeOK, Active, Known
<1>2. RecordsReal'
  BY DEF RecordsReal, RealRecord
<1>3. IdleOwesNothing' /\ WorkIsKnown'
  BY DEF TypeOK, IdleOwesNothing, WorkIsKnown, Saved, Active, Known
<1>4. StoreGrounded' /\ CommitPolicy'
  BY <1>1, PolicyStays DEF TypeOK, StoreGrounded, WorkIsKnown
<1> QED
  BY <1>1, <1>2, <1>3, <1>4

-----------------------------------------------------------------------------
\* Updates of a session's copy.

LEMMA ChangeKnown ==
  ASSUME TypeOK, NEW w \in Workers, NEW i \in Ids, NEW r \in Candidate, Change(w, i, r)
  PROVE  /\ view' \in [Workers -> [Ids -> Candidate \cup {None}]]
         /\ dirty' \in [Workers -> SUBSET Ids]
         /\ \A v \in Workers, j \in Ids :
              IF v = w /\ j = i THEN view'[v][j] = r ELSE view'[v][j] = view[v][j]
         /\ \A v \in Workers \ {w} : dirty'[v] = dirty[v]
         /\ dirty'[w] = dirty[w] \cup {i}
<1> USE DEF Change, TypeOK
<1>1. view[w] \in [Ids -> Candidate \cup {None}]
  OBVIOUS
<1>2. view' = [view EXCEPT ![w] = [view[w] EXCEPT ![i] = r]]
  OBVIOUS
<1>3. [view[w] EXCEPT ![i] = r] \in [Ids -> Candidate \cup {None}]
  BY <1>1
<1> QED
  BY <1>1, <1>2, <1>3

LEMMA RecordIsCandidate ==
  ASSUME TypeOK, NEW w \in Workers, NEW i \in Ids, view[w][i] # None
  PROVE  view[w][i] \in Candidate
BY DEF TypeOK

\* A session that only changes its record of i still has all it works on.
LEMMA WorkStays ==
  ASSUME WorkIsKnown, NEW w \in Workers, NEW i \in Ids, view'[w][i] # None,
         fresh \in [Workers -> Ids \cup {None}], fresh' = fresh,
         dirty \in [Workers -> SUBSET Ids], todo \in [Workers -> SUBSET Ids],
         \A v \in Workers, j \in Ids : view[v][j] # None => view'[v][j] # None,
         \A v \in Workers : dirty'[v] \subseteq dirty[v] \cup (IF v = w THEN {i} ELSE {}),
         \A v \in Workers : todo'[v] \subseteq todo[v],
         \A v \in Workers : pc'[v] \in {"store", "deny"} =>
           (v = w /\ cur'[v] = i) \/ (pc'[v] = pc[v] /\ cur'[v] = cur[v])
  PROVE  WorkIsKnown'
<1> SUFFICES ASSUME NEW v \in Workers
             PROVE  /\ fresh[v] # None => view'[v][fresh[v]] # None
                    /\ \A j \in dirty'[v] \cup todo'[v] : view'[v][j] # None
                    /\ pc'[v] \in {"store", "deny"} => cur'[v] \in Ids /\ view'[v][cur'[v]] # None
  BY DEF WorkIsKnown
<1>1. fresh[v] # None => view'[v][fresh[v]] # None
  BY DEF WorkIsKnown
<1>2. \A j \in dirty'[v] \cup todo'[v] : view'[v][j] # None
  BY DEF WorkIsKnown
<1>3. pc'[v] \in {"store", "deny"} => cur'[v] \in Ids /\ view'[v][cur'[v]] # None
  BY DEF WorkIsKnown
<1> QED
  BY <1>1, <1>2, <1>3

LEMMA CommitIInv ==
  ASSUME IInv, NEW w \in Workers, Commit(w)
  PROVE  IInv'
<1> USE DEF IInv, Commit, disk, file, history, budget
<1> DEFINE i == cur[w]
           r == view[w][i]
           new == [r EXCEPT !.status = "committed"]
<1>1. i \in Ids /\ r # None /\ Grounded(i)
  BY DEF WorkIsKnown, StoreGrounded
<1>2. r \in Candidate /\ r.class = origin[i]
  BY <1>1, RecordIsCandidate DEF RecordsReal, RealRecord
<1>3. new \in Candidate /\ RealRecord(i, new)
  BY <1>1, <1>2, NoneAssumption DEF Candidate, Statuses, RecordsReal, RealRecord
<1>4. Change(w, i, new)
  OBVIOUS
<1> HIDE DEF new
<1>5. /\ view' \in [Workers -> [Ids -> Candidate \cup {None}]]
      /\ dirty' \in [Workers -> SUBSET Ids]
      /\ \A v \in Workers, j \in Ids :
           IF v = w /\ j = i THEN view'[v][j] = new ELSE view'[v][j] = view[v][j]
      /\ \A v \in Workers \ {w} : dirty'[v] = dirty[v]
      /\ dirty'[w] = dirty[w] \cup {i}
  BY <1>1, <1>3, <1>4, ChangeKnown
<1>6. new # None
  BY <1>3, NoneAssumption
<1>7. [id |-> i, trust |-> CommitTrust(r.class)] \in Fact
  BY <1>1, <1>2 DEF Grounded, CommitTrust
<1>8. TypeOK'
  BY <1>5, <1>7 DEF TypeOK
<1>9. RecordsReal'
  BY <1>3, <1>5 DEF RecordsReal, RealRecord
<1>10. IdleOwesNothing'
  BY <1>5 DEF TypeOK, IdleOwesNothing, Saved
<1>11. WorkIsKnown'
  <2>1. \A v \in Workers, j \in Ids : view[v][j] # None => view'[v][j] # None
    BY <1>5, <1>6
  <2>2. view'[w][i] # None
    BY <1>1, <1>5, <1>6
  <2>3. \A v \in Workers : pc'[v] \in {"store", "deny"} => pc'[v] = pc[v] /\ cur'[v] = cur[v]
    BY DEF TypeOK
  <2>4. \A v \in Workers : dirty'[v] \subseteq dirty[v] \cup (IF v = w THEN {i} ELSE {})
    BY <1>5
  <2>5. /\ fresh \in [Workers -> Ids \cup {None}] /\ fresh' = fresh
        /\ dirty \in [Workers -> SUBSET Ids] /\ todo \in [Workers -> SUBSET Ids]
        /\ todo' = todo /\ WorkIsKnown
    BY DEF TypeOK
  <2> QED
    BY <1>1, <2>1, <2>2, <2>3, <2>4, <2>5, WorkStays
<1>12. StoreGrounded'
  BY <1>5 DEF TypeOK, StoreGrounded, Grounded
<1>13. CommitPolicy'
  <2>1. \A j \in Ids : Grounded(j)' <=> Grounded(j)
    BY DEF Grounded
  <2>2. CommitTrust(r.class) = "USER_PREFERENCE" <=> origin[i] \in USER_CLASSES
    BY <1>1, <1>2 DEF CommitTrust, USER_CLASSES, WEB
  <2> QED
    BY <1>1, <2>1, <2>2 DEF CommitPolicy, TypeOK
<1> QED
  BY <1>8, <1>9, <1>10, <1>11, <1>12, <1>13

\* A session changes one record of its own and goes on with its work.
LEMMA ChangeIInv ==
  ASSUME IInv, NEW w \in Workers, NEW i \in Ids, view[w][i] # None,
         NEW r \in Candidate, RealRecord(i, r), Change(w, i, r),
         NEW p \in {"work", "deny"}, pc' = [pc EXCEPT ![w] = p],
         NEW c \in Ids \cup {None}, cur' = [cur EXCEPT ![w] = c], p = "deny" => c = i,
         todo' \in [Workers -> SUBSET Ids], \A v \in Workers : todo'[v] \subseteq todo[v],
         ops' \in 0..MaxOps,
         UNCHANGED <<disk, facts, old, fresh, history, crashes>>
  PROVE  IInv'
<1> USE DEF IInv, disk, file, history
<1>1. /\ view' \in [Workers -> [Ids -> Candidate \cup {None}]]
      /\ dirty' \in [Workers -> SUBSET Ids]
      /\ \A v \in Workers, j \in Ids :
           IF v = w /\ j = i THEN view'[v][j] = r ELSE view'[v][j] = view[v][j]
      /\ \A v \in Workers \ {w} : dirty'[v] = dirty[v]
      /\ dirty'[w] = dirty[w] \cup {i}
  BY ChangeKnown
<1>2. r # None
  BY NoneAssumption
<1>3. TypeOK'
  BY <1>1 DEF TypeOK
<1>4. RecordsReal'
  <2>1. origin' = origin /\ seen' = seen /\ ledger' = ledger
    OBVIOUS
  <2>2. \A j \in Ids : RealRecord(j, ledger[j])'
    BY <2>1 DEF RecordsReal, RealRecord
  <2>3. ASSUME NEW v \in Workers, NEW j \in Ids
        PROVE  RealRecord(j, view[v][j])'
    <3>1. CASE v = w /\ j = i
      BY <1>1, <2>1, <3>1 DEF RealRecord
    <3>2. CASE ~(v = w /\ j = i)
      <4>1. view'[v][j] = view[v][j]
        BY <1>1, <3>2
      <4> QED
        BY <2>1, <4>1 DEF RecordsReal, RealRecord
    <3> QED
      BY <3>1, <3>2
  <2> QED
    BY <2>2, <2>3 DEF RecordsReal
<1>5. IdleOwesNothing'
  BY <1>1 DEF TypeOK, IdleOwesNothing, Saved
<1>6. WorkIsKnown'
  <2>1. \A v \in Workers, j \in Ids : view[v][j] # None => view'[v][j] # None
    BY <1>1, <1>2
  <2>2. view'[w][i] # None
    BY <1>1, <1>2
  <2>3. \A v \in Workers : dirty'[v] \subseteq dirty[v] \cup (IF v = w THEN {i} ELSE {})
    BY <1>1
  <2>4. \A v \in Workers : pc'[v] \in {"store", "deny"} =>
          (v = w /\ cur'[v] = i) \/ (pc'[v] = pc[v] /\ cur'[v] = cur[v])
    BY DEF TypeOK
  <2>5. /\ fresh \in [Workers -> Ids \cup {None}] /\ fresh' = fresh
        /\ dirty \in [Workers -> SUBSET Ids] /\ todo \in [Workers -> SUBSET Ids]
        /\ WorkIsKnown
    BY DEF TypeOK
  <2> QED
    BY <2>1, <2>2, <2>3, <2>4, <2>5, WorkStays
<1>7. StoreGrounded' /\ CommitPolicy'
  BY <1>3, PolicyStays DEF TypeOK, StoreGrounded, WorkIsKnown
<1> QED
  BY <1>3, <1>4, <1>5, <1>6, <1>7

LEMMA ConsolidateOneIInv ==
  ASSUME IInv, NEW w \in Workers, NEW i \in Ids, ConsolidateOne(w, i)
  PROVE  IInv'
<1> USE DEF IInv
<1> DEFINE o == view[w][i]
           r == [o EXCEPT !.lastEval = Evidence(o)]
           decision == Evaluate(o, i \in old)
           with(s) == [r EXCEPT !.status = s]
<1>1. pc[w] = "work" /\ i \in todo[w] /\ o # None
  BY DEF ConsolidateOne, WorkIsKnown
<1>2. o \in Candidate /\ RealRecord(i, o)
  BY <1>1, RecordIsCandidate DEF RecordsReal
<1>3. Evidence(o) \in Nat
  BY <1>2, FiniteKeys DEF Candidate, Evidence
<1>4. r \in Candidate /\ RealRecord(i, r)
  BY <1>1, <1>2, <1>3 DEF Candidate, RealRecord
<1>5. \A s \in Statuses : with(s) \in Candidate /\ RealRecord(i, with(s))
  BY <1>1, <1>4, NoneAssumption DEF Candidate, RealRecord
<1>6. /\ todo' = [todo EXCEPT ![w] = @ \ {i}]
      /\ UNCHANGED <<disk, facts, old, fresh, history, budget>>
  BY DEF ConsolidateOne
<1>7. todo' \in [Workers -> SUBSET Ids] /\ \A v \in Workers : todo'[v] \subseteq todo[v]
  BY <1>6 DEF TypeOK
<1>8. CASE \E s \in Statuses : Change(w, i, with(s)) /\ UNCHANGED <<pc, cur>>
  <2>1. PICK s \in Statuses : Change(w, i, with(s)) /\ UNCHANGED <<pc, cur>>
    BY <1>8
  <2>2. pc' = [pc EXCEPT ![w] = "work"] /\ cur' = [cur EXCEPT ![w] = cur[w]]
        /\ cur[w] \in Ids \cup {None}
    BY <1>1, <2>1 DEF TypeOK
  <2>3. ops' \in 0..MaxOps /\ UNCHANGED <<disk, facts, old, fresh, history, crashes>>
    BY <1>6 DEF TypeOK, budget
  <2> QED
    BY <1>1, <1>5, <1>7, <2>1, <2>2, <2>3, ChangeIInv
<1>9. CASE decision = "commit" /\ view' = [view EXCEPT ![w][i] = r]
           /\ pc' = [pc EXCEPT ![w] = "store"] /\ cur' = [cur EXCEPT ![w] = i]
           /\ UNCHANGED dirty
  <2> USE DEF disk, file, history, budget
  <2>1. Grounded(i)
    BY <1>2, <1>9, CommitDecision
  <2>2. /\ view' \in [Workers -> [Ids -> Candidate \cup {None}]]
        /\ \A v \in Workers, j \in Ids :
             IF v = w /\ j = i THEN view'[v][j] = r ELSE view'[v][j] = view[v][j]
    <3>1. Change(w, i, r) \/ view' = [view EXCEPT ![w] = [view[w] EXCEPT ![i] = r]]
      BY <1>9
    <3>2. view[w] \in [Ids -> Candidate \cup {None}]
      BY DEF TypeOK
    <3> HIDE DEF r
    <3>3. [view[w] EXCEPT ![i] = r] \in [Ids -> Candidate \cup {None}]
      BY <1>4, <3>2
    <3> QED
      BY <1>9, <3>2, <3>3 DEF TypeOK
  <2>3. r # None
    BY <1>4, NoneAssumption
  <2> HIDE DEF r
  <2>4. TypeOK'
    BY <1>6, <1>7, <1>9, <2>2 DEF TypeOK
  <2>5. RecordsReal'
    BY <1>4, <1>6, <2>2 DEF RecordsReal, RealRecord
  <2>6. IdleOwesNothing'
    BY <1>6, <1>7, <1>9 DEF TypeOK, IdleOwesNothing, Saved
  <2>7. WorkIsKnown'
    BY <1>6, <1>7, <1>9, <2>2, <2>3 DEF TypeOK, WorkIsKnown
  <2>8. StoreGrounded' /\ CommitPolicy'
    BY <1>6, <1>9, <2>1, <2>4, PolicyStays DEF TypeOK, StoreGrounded, WorkIsKnown
  <2> QED
    BY <2>4, <2>5, <2>6, <2>7, <2>8
<1>10. CASE decision = "keep" /\ UNCHANGED <<view, pc, cur, dirty>>
  <2> USE <1>6, <1>10 DEF disk, file, history, budget
  <2>1. TypeOK'
    BY <1>7 DEF TypeOK
  <2>2. RecordsReal'
    BY DEF RecordsReal, RealRecord
  <2>3. IdleOwesNothing' /\ WorkIsKnown'
    BY <1>7 DEF TypeOK, IdleOwesNothing, WorkIsKnown, Saved
  <2>4. StoreGrounded' /\ CommitPolicy'
    BY <2>1, PolicyStays DEF TypeOK, StoreGrounded, WorkIsKnown
  <2> QED
    BY <2>1, <2>2, <2>3, <2>4
<1> QED
  BY <1>8, <1>9, <1>10 DEF ConsolidateOne, Statuses, ACTIVE_STATES

-----------------------------------------------------------------------------
\* Operator requests.

LEMMA RequestIInv ==
  ASSUME IInv, NEW w \in Workers, NEW i \in Ids, Operate(w, i),
         NEW r, r \in Candidate /\ RealRecord(i, r), Change(w, i, r),
         UNCHANGED <<facts, approved>>,
         \/ pc' = [pc EXCEPT ![w] = "work"] /\ cur' = cur
         \/ pc' = [pc EXCEPT ![w] = "deny"] /\ cur' = [cur EXCEPT ![w] = i]
  PROVE  IInv'
<1>1. view[w][i] # None /\ ops' \in 0..MaxOps
      /\ UNCHANGED <<disk, facts, old, fresh, history, crashes>>
  BY NumbersAssumption DEF IInv, TypeOK, Operate, Known, disk, file, history
<1>2. todo' \in [Workers -> SUBSET Ids] /\ \A v \in Workers : todo'[v] \subseteq todo[v]
  BY DEF IInv, TypeOK, Operate
<1>3. CASE pc' = [pc EXCEPT ![w] = "work"] /\ cur' = cur
  <2>1. cur' = [cur EXCEPT ![w] = cur[w]] /\ cur[w] \in Ids \cup {None}
    BY <1>3 DEF IInv, TypeOK
  <2> QED
    BY <1>1, <1>2, <1>3, <2>1, ChangeIInv
<1>4. CASE pc' = [pc EXCEPT ![w] = "deny"] /\ cur' = [cur EXCEPT ![w] = i]
  BY <1>1, <1>2, <1>4, ChangeIInv
<1> QED
  BY <1>3, <1>4

\* An approval is granted for the user's own memory only.
LEMMA ApproveCommitIInv ==
  ASSUME IInv, NEW w \in Workers, NEW i \in Ids, ApproveCommit(w, i)
  PROVE  IInv'
<1> USE DEF IInv, ApproveCommit, Operate, disk, file
<1>1. view[w][i] # None /\ view[w][i].class = origin[i] /\ origin[i] \in USER_CLASSES
  BY DEF Known, Refused, RecordsReal, RealRecord
<1>2. TypeOK'
  BY NumbersAssumption DEF TypeOK
<1>3. Grounded(i)'
  BY <1>1 DEF TypeOK, Grounded, CommitTrust, USER_CLASSES, WEB
<1>4. RecordsReal'
  BY DEF RecordsReal, RealRecord
<1>5. IdleOwesNothing' /\ WorkIsKnown'
  BY <1>1 DEF TypeOK, IdleOwesNothing, WorkIsKnown, Saved
<1>6. StoreGrounded' /\ CommitPolicy'
  BY <1>2, <1>3, PolicyStays DEF TypeOK, StoreGrounded, WorkIsKnown
<1> QED
  BY <1>2, <1>4, <1>5, <1>6

LEMMA ManualIInv ==
  ASSUME IInv, NEW w \in Workers, Manual(w)
  PROVE  IInv'
<1>1. PICK i \in Ids : \/ MarkFalse(w, i) \/ MarkImportant(w, i) \/ RequestEvidence(w, i)
                       \/ Archive(w, i) \/ ApproveCommit(w, i)
  BY DEF Manual
<1> DEFINE o == view[w][i]
<1>2. ASSUME Operate(w, i)
      PROVE  o # None /\ o \in Candidate /\ RealRecord(i, o)
  BY <1>2, RecordIsCandidate DEF IInv, Operate, Known, RecordsReal
<1>3. CASE MarkFalse(w, i)
  <2> DEFINE r == [o EXCEPT !.status = "disputed", !.contra = TRUE]
  <2>1. r \in Candidate /\ RealRecord(i, r)
    BY <1>2, <1>3 DEF MarkFalse, Candidate, Statuses, RealRecord
  <2>2. Change(w, i, r)
    BY <1>3 DEF MarkFalse
  <2> HIDE DEF r
  <2> QED
    BY <1>3, <2>1, <2>2, RequestIInv DEF MarkFalse
<1>4. CASE MarkImportant(w, i)
  <2> DEFINE r == [o EXCEPT !.important = TRUE]
  <2>1. r \in Candidate /\ RealRecord(i, r)
    BY <1>2, <1>4 DEF MarkImportant, Candidate, RealRecord
  <2>2. Change(w, i, r)
    BY <1>4 DEF MarkImportant
  <2> HIDE DEF r
  <2> QED
    BY <1>4, <2>1, <2>2, RequestIInv DEF MarkImportant
<1>5. CASE RequestEvidence(w, i)
  BY <1>2, <1>5, RequestIInv DEF RequestEvidence
<1>6. CASE Archive(w, i)
  <2> DEFINE r == [o EXCEPT !.status = "archived"]
  <2>1. r \in Candidate /\ RealRecord(i, r)
    BY <1>2, <1>6 DEF Archive, Candidate, Statuses, RealRecord
  <2>2. Change(w, i, r)
    BY <1>6 DEF Archive
  <2> HIDE DEF r
  <2> QED
    BY <1>6, <2>1, <2>2, RequestIInv DEF Archive
<1> QED
  BY <1>1, <1>3, <1>4, <1>5, <1>6, ApproveCommitIInv

\* The disputed fact is no committed one.
LEMMA DenyIInv ==
  ASSUME IInv, NEW w \in Workers, Deny(w)
  PROVE  IInv'
<1> USE DEF IInv, Deny, disk, file, history, budget
<1>1. cur[w] \in Ids
  BY DEF WorkIsKnown
<1>2. TypeOK'
  BY <1>1 DEF TypeOK
<1>3. RecordsReal'
  BY DEF RecordsReal, RealRecord
<1>4. IdleOwesNothing' /\ WorkIsKnown'
  BY DEF TypeOK, IdleOwesNothing, WorkIsKnown, Saved
<1>5. \A i \in Ids : Grounded(i)' <=> Grounded(i)
  BY DEF Grounded
<1>6. StoreGrounded'
  BY <1>5 DEF TypeOK, StoreGrounded, WorkIsKnown
<1>7. CommitPolicy'
  BY <1>5 DEF TypeOK, CommitPolicy
<1> QED
  BY <1>2, <1>3, <1>4, <1>6, <1>7

LEMMA AgeIInv ==
  ASSUME IInv, NEW i \in Ids, Age(i)
  PROVE  IInv'
<1> USE DEF IInv, Age, disk, file, history, budget, session
<1>1. TypeOK'
  BY DEF TypeOK
<1>2. RecordsReal' /\ IdleOwesNothing' /\ WorkIsKnown'
  BY DEF RecordsReal, RealRecord, IdleOwesNothing, WorkIsKnown, Saved
<1>3. StoreGrounded' /\ CommitPolicy'
  BY DEF StoreGrounded, CommitPolicy, Grounded
<1> QED
  BY <1>1, <1>2, <1>3

LEMMA CrashIInv ==
  ASSUME IInv, Crash
  PROVE  IInv'
<1> USE DEF IInv, Crash, history, EmptyLedger
<1>1. TypeOK'
  <2>1. view' \in [Workers -> [Ids -> Candidate \cup {None}]]
    OBVIOUS
  <2>2. crashes' \in 0..MaxCrashes
    BY NumbersAssumption DEF TypeOK
  <2>3. torn' \in BOOLEAN
    <3> DEFINE Pending == \E w \in Workers : ~Saved(w)
    <3>1. torn' = torn \/ torn' = (torn \/ Pending)
      OBVIOUS
    <3> HIDE DEF Pending
    <3> QED
      BY <3>1 DEF TypeOK
  <2>4. dropped' \subseteq Ids /\ behind' \in [Workers -> SUBSET Ids]
    BY DEF TypeOK, Contradicted
  <2> QED
    BY <2>1, <2>2, <2>3, <2>4 DEF TypeOK
<1>2. RecordsReal'
  BY DEF RecordsReal, RealRecord
<1>3. IdleOwesNothing' /\ WorkIsKnown'
  BY DEF IdleOwesNothing, WorkIsKnown, Saved
<1>4. StoreGrounded' /\ CommitPolicy'
  BY DEF StoreGrounded, CommitPolicy, Grounded
<1> QED
  BY <1>1, <1>2, <1>3, <1>4

-----------------------------------------------------------------------------
\* Ingestion.

\* RealRecord after the step, of a record of before it.
RealNext(i, r) == r # None => r.class = origin'[i] /\ r.keys \subseteq seen'[i]

\* Whatever else ingestion does to the session's copy, each record in it stays
\* within the evidence ingested for its candidate.
LEMMA IngestIInv ==
  ASSUME IInv, NEW w \in Workers, pc[w] = "loaded", pc' = [pc EXCEPT ![w] = "work"],
         UNCHANGED <<disk, facts, old, todo, cur, approved, budget>>,
         NEW u \in [Ids -> Candidate \cup {None}], view' = [view EXCEPT ![w] = u],
         NEW f \in Ids \cup {None}, fresh' = [fresh EXCEPT ![w] = f],
         NEW D \in SUBSET Ids, dirty' = [dirty EXCEPT ![w] = D],
         f # None => u[f] # None, \A i \in D : u[i] # None,
         origin' \in [Ids -> Classes \cup {"none"}], seen' \in [Ids -> SUBSET Keys],
         \A i \in Ids : origin[i] # "none" => origin'[i] = origin[i] /\ seen[i] \subseteq seen'[i],
         \A i \in Ids : RealNext(i, u[i])
  PROVE  IInv'
<1> USE DEF IInv, disk, file, budget
<1>1. TypeOK'
  BY DEF TypeOK
<1>2. ASSUME NEW i \in Ids, Grounded(i)
      PROVE  Grounded(i)' /\ origin'[i] = origin[i]
  <2>1. origin[i] # "none"
    BY <1>2 DEF Grounded, CommitTrust, USER_CLASSES, WEB
  <2> QED
    BY <1>2, <2>1, GroundedStays DEF TypeOK
<1>3. \A i \in Ids, r \in Candidate \cup {None} : RealRecord(i, r) => RealRecord(i, r)'
  <2> SUFFICES ASSUME NEW i \in Ids, NEW r \in Candidate, RealRecord(i, r)
               PROVE  RealRecord(i, r)'
    BY DEF RealRecord
  <2>1. r # None /\ r.class \in Classes
    BY NoneAssumption DEF Candidate
  <2>2. origin[i] # "none"
    BY <2>1 DEF RealRecord, Classes, CANONICAL_CLASSES, USER_CLASSES, WEB
  <2> QED
    BY <2>2 DEF RealRecord
<1>4. RecordsReal'
  <2>1. \A i \in Ids : RealRecord(i, ledger[i])'
    BY <1>3 DEF TypeOK, RecordsReal
  <2>2. ASSUME NEW v \in Workers, NEW i \in Ids PROVE RealRecord(i, view[v][i])'
    <3>1. CASE v = w
      <4>1. view'[v][i] = u[i]
        BY <3>1 DEF TypeOK
      <4> QED
        BY <4>1 DEF RealRecord, RealNext
    <3>2. CASE v # w
      <4>1. view'[v][i] = view[v][i] /\ view[v][i] \in Candidate \cup {None}
        BY <3>2 DEF TypeOK
      <4>2. RealRecord(i, view[v][i])
        BY DEF RecordsReal
      <4> QED
        BY <1>3, <4>1, <4>2 DEF RealRecord
    <3> QED
      BY <3>1, <3>2
  <2> QED
    BY <2>1, <2>2 DEF RecordsReal
<1>5. IdleOwesNothing'
  BY DEF TypeOK, IdleOwesNothing, Saved
<1>6. WorkIsKnown'
  BY DEF TypeOK, IdleOwesNothing, WorkIsKnown
<1>7. StoreGrounded'
  BY <1>2 DEF TypeOK, StoreGrounded, WorkIsKnown
<1>8. CommitPolicy'
  BY <1>2 DEF TypeOK, CommitPolicy
<1> QED
  BY <1>1, <1>4, <1>5, <1>6, <1>7, <1>8

\* u is the session's copy after candidate n was made, against incumbent inc.
CopyWith(w, n, inc, u) ==
  /\ view' = [view EXCEPT ![w] = u]
  /\ u[n] # None
  /\ \A i \in Ids : (i = inc \/ view[w][i] # None) /\ i # n => u[i] # None
  /\ \A i \in Ids : RealNext(i, u[i])

LEMMA NewCandidateView ==
  ASSUME IInv, NEW w \in Workers, NEW n \in Ids, NEW claim \in Claims, NEW key \in Keys,
         NEW status \in Statuses, NEW contra \in BOOLEAN,
         NEW inc \in Ids \cup {None}, inc \in Ids => view[w][inc] # None,
         NewCandidate(w, n, claim, key, status, contra, inc)
  PROVE  /\ fresh' = [fresh EXCEPT ![w] = n]
         /\ origin' \in [Ids -> Classes \cup {"none"}] /\ seen' \in [Ids -> SUBSET Keys]
         /\ \A i \in Ids : origin[i] # "none" => origin'[i] = origin[i] /\ seen[i] \subseteq seen'[i]
         /\ \E u \in [Ids -> Candidate \cup {None}] : CopyWith(w, n, inc, u)
<1> USE DEF IInv
<1> DEFINE rec == [claim |-> claim, class |-> ClassOf[key], keys |-> {key},
                   contra |-> contra, important |-> FALSE, status |-> status,
                   lastEval |-> 0, challengerOf |-> inc]
           u == [i \in Ids |->
                   CASE i = n -> rec
                     [] i # n /\ i = inc -> [view[w][i] EXCEPT !.contra = TRUE]
                     [] OTHER -> view[w][i]]
<1>1. /\ origin[n] = "none" /\ fresh' = [fresh EXCEPT ![w] = n]
      /\ origin' = [origin EXCEPT ![n] = ClassOf[key]]
      /\ seen' = [seen EXCEPT ![n] = {key}]
      /\ view' = [view EXCEPT ![w] = u]
  BY DEF NewCandidate
<1>2. rec \in Candidate /\ rec.class = ClassOf[key] /\ rec.keys = {key}
  BY KeysAssumption DEF Candidate
<1>3. \A i \in Ids : view[w][i] \in Candidate \cup {None} /\ RealRecord(i, view[w][i])
  BY DEF TypeOK, RecordsReal
<1>4. inc \in Ids => [view[w][inc] EXCEPT !.contra = TRUE] \in Candidate
  BY <1>3 DEF Candidate
<1> HIDE DEF rec
<1>5. u[n] = rec /\ \A i \in Ids \ {n, inc} : u[i] = view[w][i]
  OBVIOUS
<1>6. inc \in Ids /\ inc # n => u[inc] = [view[w][inc] EXCEPT !.contra = TRUE]
  OBVIOUS
<1>7. u = [i \in Ids |-> u[i]]
  OBVIOUS
<1> HIDE DEF u
<1>8. \A i \in Ids : u[i] \in Candidate \cup {None}
  BY <1>2, <1>3, <1>4, <1>5, <1>6
<1>9. u \in [Ids -> Candidate \cup {None}]
  BY <1>7, <1>8
<1>10. /\ origin' \in [Ids -> Classes \cup {"none"}] /\ seen' \in [Ids -> SUBSET Keys]
       /\ \A i \in Ids : origin[i] # "none" => origin'[i] = origin[i] /\ seen[i] \subseteq seen'[i]
  BY <1>1, KeysAssumption DEF TypeOK
<1>11. u[n] # None /\ \A i \in Ids : (i = inc \/ view[w][i] # None) /\ i # n => u[i] # None
  BY <1>2, <1>4, <1>5, <1>6, NoneAssumption
<1>12. ASSUME NEW i \in Ids PROVE RealNext(i, u[i])
  <2>1. CASE i = n
    BY <1>1, <1>2, <1>5, <2>1 DEF RealNext, TypeOK
  <2>2. CASE i # n /\ i # inc
    BY <1>1, <1>3, <1>5, <2>2 DEF RealRecord, RealNext, TypeOK
  <2>3. CASE i # n /\ i = inc
    <3>1. u[i].class = view[w][i].class /\ u[i].keys = view[w][i].keys
      BY <1>3, <1>6, <2>3 DEF Candidate
    <3> QED
      BY <1>1, <1>3, <2>3, <3>1 DEF RealRecord, RealNext, TypeOK
  <2> QED
    BY <2>1, <2>2, <2>3
<1>13. CopyWith(w, n, inc, u)
  BY <1>1, <1>11, <1>12 DEF CopyWith, u
<1> QED
  BY <1>1, <1>9, <1>10, <1>13

\* A session that has just loaded: the frame every ingestion shares.
Ingesting(w) ==
  /\ pc[w] = "loaded" /\ pc' = [pc EXCEPT ![w] = "work"]
  /\ UNCHANGED <<disk, facts, old, todo, cur, approved, budget>>

LEMMA ChallengeIInv ==
  ASSUME IInv, NEW w \in Workers, NEW claim \in Claims, NEW key \in Keys,
         Ingesting(w), Challenge(w, claim, key)
  PROVE  IInv'
<1> USE DEF Ingesting
<1> DEFINE conflicting == Conflicting(view[w], claim, ClassOf[key])
           incumbents == IF conflicting # {} THEN conflicting ELSE Active(view[w])
<1>1. incumbents \subseteq Ids /\ \A i \in incumbents : view[w][i] # None
  BY DEF Conflicting, Active, Known
<1>2. PICK n \in Ids, inc \in IF incumbents = {} THEN {None} ELSE incumbents :
        /\ NewCandidate(w, n, claim, key, "disputed", TRUE, inc)
        /\ dirty' = [dirty EXCEPT ![w] = incumbents \cap {inc}]
  BY DEF Challenge
<1> HIDE DEF incumbents
<1>3. inc \in Ids \cup {None} /\ (inc \in Ids => view[w][inc] # None)
  BY <1>1, <1>2, NoneAssumption
<1>4. "disputed" \in Statuses /\ TRUE \in BOOLEAN
  BY DEF Statuses
<1>5. PICK u \in [Ids -> Candidate \cup {None}] : CopyWith(w, n, inc, u)
  BY <1>2, <1>3, <1>4, NewCandidateView
<1>6. /\ fresh' = [fresh EXCEPT ![w] = n]
      /\ origin' \in [Ids -> Classes \cup {"none"}] /\ seen' \in [Ids -> SUBSET Keys]
      /\ \A i \in Ids : origin[i] # "none" => origin'[i] = origin[i] /\ seen[i] \subseteq seen'[i]
  BY <1>2, <1>3, <1>4, NewCandidateView
<1>7. incumbents \cap {inc} \in SUBSET Ids /\ \A i \in incumbents \cap {inc} : u[i] # None
  BY <1>1, <1>5 DEF CopyWith
<1> QED
  BY <1>2, <1>5, <1>6, <1>7, IngestIInv DEF CopyWith

LEMMA FoundIInv ==
  ASSUME IInv, NEW w \in Workers, NEW claim \in Claims, NEW key \in Keys,
         Ingesting(w), Found(w, claim, key)
  PROVE  IInv'
<1> USE DEF Ingesting
<1> DEFINE D == RelatedBy(view[w], claim, "related")
<1>1. D \in SUBSET Ids /\ \A i \in D : view[w][i] # None
  BY DEF RelatedBy, Active, Known
<1>2. PICK n \in Ids :
        /\ NewCandidate(w, n, claim, key, "candidate", FALSE, None)
        /\ dirty' = [dirty EXCEPT ![w] = D]
  BY DEF Found
<1> HIDE DEF D
<1>3. "candidate" \in Statuses /\ FALSE \in BOOLEAN /\ None \notin Ids
  BY NoneAssumption DEF Statuses, ACTIVE_STATES
<1>4. PICK u \in [Ids -> Candidate \cup {None}] : CopyWith(w, n, None, u)
  BY <1>2, <1>3, NewCandidateView
<1>5. /\ fresh' = [fresh EXCEPT ![w] = n]
      /\ origin' \in [Ids -> Classes \cup {"none"}] /\ seen' \in [Ids -> SUBSET Keys]
      /\ \A i \in Ids : origin[i] # "none" => origin'[i] = origin[i] /\ seen[i] \subseteq seen'[i]
  BY <1>2, <1>3, NewCandidateView
<1>6. \A i \in D : u[i] # None
  BY <1>1, <1>4 DEF CopyWith
<1> QED
  BY <1>1, <1>2, <1>4, <1>5, <1>6, IngestIInv DEF CopyWith

LEMMA MergeIInv ==
  ASSUME IInv, NEW w \in Workers, NEW claim \in Claims, NEW key \in Keys,
         Ingesting(w), Merge(w, claim, key)
  PROVE  IInv'
<1> USE DEF IInv, Ingesting
<1>1. PICK i \in RelatedBy(view[w], claim, "supports") :
        /\ Change(w, i, [view[w][i] EXCEPT !.keys = @ \cup {key}])
        /\ seen' = [seen EXCEPT ![i] = @ \cup {key}]
        /\ UNCHANGED <<fresh, origin>>
  BY DEF Merge
<1> DEFINE r == [view[w][i] EXCEPT !.keys = @ \cup {key}]
<1>2. i \in Ids /\ view[w][i] # None
  BY DEF RelatedBy, Active, Known
<1>3. view[w][i] \in Candidate /\ RealRecord(i, view[w][i])
  BY <1>2, RecordIsCandidate DEF RecordsReal
<1>4. r \in Candidate /\ r.class = origin[i] /\ r.keys \subseteq seen[i] \cup {key}
  BY <1>2, <1>3 DEF Candidate, RealRecord
<1>5. PICK rr : rr = r
  OBVIOUS
<1> HIDE DEF r
<1>6. PICK old_u \in [Ids -> Candidate \cup {None}] : old_u = view[w]
  BY DEF TypeOK
<1>7. PICK D \in SUBSET Ids : D = {i}
  BY <1>2
<1> DEFINE u == [old_u EXCEPT ![i] = rr]
<1>8. u \in [Ids -> Candidate \cup {None}]
  BY <1>4, <1>5
<1>9. view' = [view EXCEPT ![w] = u] /\ dirty' = [dirty EXCEPT ![w] = D]
  BY <1>1, <1>5, <1>6, <1>7 DEF r, Change, TypeOK, IdleOwesNothing, Saved
<1>10. /\ seen' \in [Ids -> SUBSET Keys] /\ origin' \in [Ids -> Classes \cup {"none"}]
       /\ \A j \in Ids : origin'[j] = origin[j] /\ seen[j] \subseteq seen'[j]
  BY <1>1, <1>2 DEF TypeOK
<1>11. \A j \in Ids : RealNext(j, u[j])
  <2> SUFFICES ASSUME NEW j \in Ids PROVE RealNext(j, u[j])
    OBVIOUS
  <2>1. CASE j = i
    BY <1>1, <1>2, <1>4, <1>5, <2>1 DEF RealNext, TypeOK
  <2>2. CASE j # i
    BY <1>1, <1>6, <1>10, <2>2 DEF RealNext, RecordsReal, RealRecord
  <2> QED
    BY <2>1, <2>2
<1>12. \A j \in D : u[j] # None
  BY <1>2, <1>4, <1>5, <1>7, NoneAssumption
<1>13. fresh' = [fresh EXCEPT ![w] = None]
  BY <1>1 DEF TypeOK, IdleOwesNothing, Saved
<1> HIDE DEF u
<1> QED
  BY <1>7, <1>8, <1>9, <1>10, <1>11, <1>12, <1>13, IngestIInv

-----------------------------------------------------------------------------
LEMMA ProgressIInv ==
  ASSUME IInv, NEW w \in Workers, Progress(w)
  PROVE  IInv'
BY FinishIInv, SaveFreshIInv, SaveDirtyIInv, ConsolidateOneIInv, CommitIInv, DenyIInv
   DEF Progress

LEMMA StutterIInv ==
  ASSUME IInv, UNCHANGED vars
  PROVE  IInv'
<1> USE DEF vars, IInv
<1>1. TypeOK'
  BY DEF TypeOK
<1>2. RecordsReal' /\ IdleOwesNothing' /\ WorkIsKnown'
  BY DEF RecordsReal, RealRecord, IdleOwesNothing, WorkIsKnown, Saved
<1>3. StoreGrounded' /\ CommitPolicy'
  BY DEF StoreGrounded, CommitPolicy, Grounded
<1> QED
  BY <1>1, <1>2, <1>3

LEMMA NextIInv == IInv /\ [Next]_vars => IInv'
<1> SUFFICES ASSUME IInv, [Next]_vars PROVE IInv'
  OBVIOUS
<1>1. ASSUME NEW w \in Workers, NEW claim \in Claims, NEW key \in Keys,
             NEW disputed \in BOOLEAN, Ingest(w, claim, key, disputed)
      PROVE  IInv'
  BY <1>1, ChallengeIInv, MergeIInv, FoundIInv DEF Ingest, Ingesting
<1> QED
  BY <1>1, LoadIInv, ConsolidateBeginIInv, ManualIInv, ProgressIInv, AgeIInv, CrashIInv,
     StutterIInv DEF Next

\* The inductive invariant: the types, what sessions hold and owe, and the
\* policy itself.
THEOREM Invariance == Spec => []IInv
BY InitIInv, NextIInv, PTL DEF Spec

\* Every variable stays in its type (the ledger's records, the sessions' copies).
THEOREM TypeCorrect == Spec => []TypeOK
BY Invariance, PTL DEF IInv

\* A fact is stored as committed only on evidence really ingested for its
\* candidate, or the operator's word on the user's own memory: for any number of
\* overlapping sessions, lost appends, torn lines and crashes
\* (CandidateLifecycle._commit and its callers).
THEOREM CommitsFollowPolicy == Spec => []CommitPolicy
BY Invariance, PTL DEF IInv

-----------------------------------------------------------------------------
\* Contradictions.

\* One of the two was saved by a session that was behind on the other.
Unseen(i, j) == <<i, j>> \in unseen \/ <<j, i>> \in unseen

-----------------------------------------------------------------------------
\* The invariants.

IsActive(r) == r # None /\ r.status \in ACTIVE_STATES

\* A record that is contradicted is not committed.
Clean(r) == r # None => (r.status = "committed" => ~r.contra)

AllClean == \A i \in Ids : Clean(ledger[i]) /\ \A w \in Workers : Clean(view[w][i])

\* What is about to be committed is not contradicted.
StoreClean == \A w \in Workers : pc[w] = "store" => ~view[w][cur[w]].contra

\* What a consolidation has still to decide is active, as it was when it began.
TodoActive == \A w \in Workers : \A i \in todo[w] : IsActive(view[w][i]) /\ i # cur[w]

\* Only a session that stores or denies a fact has one at hand.
AtHand == \A w \in Workers : pc[w] \in {"store", "deny"} \/ cur[w] = None

\* A contradiction that reached the ledger stays there, and in every open copy
\* that is not behind on its candidate, unless it was saved over unseen.
ContestKept ==
  \A i \in contested :
    /\ ledger[i] # None
    /\ ledger[i].contra \/ Unseen(i, i)
    /\ \A w \in Workers :
         pc[w] # "idle" /\ i \notin behind[w] =>
           view[w][i] # None /\ (view[w][i].contra \/ Unseen(i, i))

IdleIsBlank == \A w \in Workers : pc[w] = "idle" => view[w] = EmptyLedger /\ behind[w] = {}

\* A session decides what to do with a result on the records it is not behind on.
LoadedIsLedger ==
  \A w \in Workers : pc[w] = "loaded" => \A i \in Ids \ behind[w] : view[w][i] = ledger[i]

Agree(r, s) == IsActive(r) /\ IsActive(s) => ~Conflicts(r.claim, r.class, s.claim, s.class)

\* Active records agree, those a session has not yet appended too, unless one
\* was saved unseen by the other's session.
AllAgree ==
  \A i, j \in Ids :
    /\ Agree(ledger[i], ledger[j]) \/ Unseen(i, j)
    /\ \A w \in Workers :
         /\ i \notin behind[w] => Agree(ledger[i], view[w][j]) \/ Unseen(i, j)
         /\ Agree(view[w][i], view[w][j]) \/ Unseen(i, j)

\* A challenger's incumbent is contested, or about to be by a session, or its
\* contradiction was not written.
Pending(w, c) == c \in dirty[w] /\ view[w][c].contra
Announced(r) ==
  r # None /\ r.challengerOf # None =>
    \/ r.challengerOf \in contested \cup dropped
    \/ \E w \in Workers : Pending(w, r.challengerOf)

AllAnnounced == \A i \in Ids : Announced(ledger[i]) /\ \A w \in Workers : Announced(view[w][i])

CleanInv == AllClean /\ StoreClean /\ TodoActive /\ AtHand
ShareInv == ContestKept /\ IdleIsBlank /\ LoadedIsLedger /\ AllAgree

-----------------------------------------------------------------------------
\* The kinds of steps.

\* Later forms of a record.
Grows(r, s) ==
  /\ r # None /\ s # None
  /\ s.claim = r.claim /\ s.class = r.class /\ s.challengerOf = r.challengerOf
  /\ r.contra => s.contra
  /\ s.status \in ACTIVE_STATES => r.status \in ACTIVE_STATES

\* The new candidate i of a session's result.
Starts(w, i) ==
  LET r == view'[w][i] IN
    /\ pc[w] = "loaded" /\ fresh'[w] = i /\ view[w][i] = None /\ r # None
    /\ r.status \in ACTIVE_STATES =>
         \A j \in Ids : IsActive(view[w][j]) =>
           ~Conflicts(r.claim, r.class, view[w][j].claim, view[w][j].class)
    /\ r.challengerOf # None =>
         r.challengerOf \in dirty'[w] /\ view'[w][r.challengerOf].contra

\* A session changes its own copy.
Edits(w) ==
  /\ pc[w] # "idle" /\ UNCHANGED disk
  /\ \A v \in Workers \ {w} : view'[v] = view[v] /\ pc'[v] = pc[v] /\ cur'[v] = cur[v]
                              /\ dirty'[v] = dirty[v] /\ todo'[v] = todo[v]
  /\ \A i \in Ids : /\ view'[w][i] = view[w][i] \/ Grows(view[w][i], view'[w][i]) \/ Starts(w, i)
                    /\ Clean(view'[w][i])
  /\ dirty[w] \subseteq dirty'[w]
  /\ \A i \in todo'[w] : IsActive(view'[w][i]) /\ i # cur'[w]
  /\ pc'[w] \in {"work", "store", "deny"} /\ (pc'[w] = "work" => cur'[w] = None)
  /\ pc'[w] = "store" => ~view'[w][cur'[w]].contra

\* A session appends its record of i.
Saves(w, i) ==
  /\ Append(w, i) /\ view[w][i] # None /\ pc[w] \notin {"idle", "loaded"}
  /\ UNCHANGED <<view, pc, cur, todo>>
  /\ \A v \in Workers : dirty[v] \ dirty'[v] \subseteq IF v = w THEN {i} ELSE {}

\* The sessions of S are over.
Leaves(S) ==
  /\ UNCHANGED <<ledger, contested, unseen>> /\ dropped \subseteq dropped'
  /\ \A v \in Workers \ S : /\ view'[v] = view[v] /\ pc'[v] = pc[v] /\ behind'[v] = behind[v]
                             /\ cur'[v] = cur[v] /\ todo'[v] = todo[v] /\ dirty'[v] = dirty[v]
  /\ \A v \in S : /\ view'[v] = EmptyLedger /\ pc'[v] = "idle" /\ todo'[v] = {}
                   /\ cur'[v] = None /\ behind'[v] = {}
                   /\ \A c \in dirty[v] : view[v][c].contra => c \in dropped'

\* Nothing a copy or the ledger holds is touched.
Still == UNCHANGED <<disk, view, pc, cur, dirty, todo>>

-----------------------------------------------------------------------------
\* A record that stays clean, whatever sessions overlap.

LEMMA CleanEdits ==
  ASSUME IInv, CleanInv, NEW w \in Workers, Edits(w)
  PROVE  CleanInv'
<1>1. AllClean'
  BY DEF CleanInv, AllClean, Clean, Edits, disk, file
<1>2. StoreClean'
  BY DEF CleanInv, StoreClean, Edits
<1>3. TodoActive'
  BY DEF CleanInv, TodoActive, Edits, IsActive
<1>4. AtHand'
  BY DEF CleanInv, AtHand, Edits
<1> QED BY <1>1, <1>2, <1>3, <1>4 DEF CleanInv

LEMMA CleanSaves ==
  ASSUME IInv, CleanInv, NEW w \in Workers, NEW i \in Ids, Saves(w, i)
  PROVE  CleanInv'
<1>1. \A j \in Ids : ledger'[j] = ledger[j] \/ ledger'[j] = view[w][j]
  BY DEF IInv, TypeOK, Saves, Append, Write, Lose
<1>2. AllClean'
  BY <1>1 DEF CleanInv, AllClean, Clean, Saves
<1>3. StoreClean'
  BY DEF CleanInv, StoreClean, Saves
<1>4. TodoActive'
  BY DEF CleanInv, TodoActive, Saves, IsActive
<1>5. AtHand'
  BY DEF CleanInv, AtHand, Saves
<1> QED BY <1>2, <1>3, <1>4, <1>5 DEF CleanInv

LEMMA CleanLoad ==
  ASSUME IInv, CleanInv, NEW w \in Workers, Load(w)
  PROVE  CleanInv'
<1>1. /\ ledger' = ledger /\ cur' = cur /\ todo' = todo /\ pc[w] = "idle" /\ todo[w] = {}
      /\ \A v \in Workers : view'[v] = view[v] \/ view'[v] \in {ledger, EmptyLedger}
      /\ \A v \in Workers \ {w} : view'[v] = view[v]
      /\ \A v \in Workers : pc'[v] = IF v = w THEN "loaded" ELSE pc[v]
  BY DEF Load, IInv, TypeOK, IdleOwesNothing
<1>2. AllClean'
  BY <1>1 DEF CleanInv, AllClean, Clean, EmptyLedger
<1>3. StoreClean'
  BY <1>1 DEF CleanInv, StoreClean
<1>4. TodoActive'
  BY <1>1 DEF CleanInv, TodoActive, IsActive
<1>5. AtHand'
  BY <1>1 DEF CleanInv, AtHand
<1> QED BY <1>2, <1>3, <1>4, <1>5 DEF CleanInv

LEMMA CleanLeaves ==
  ASSUME IInv, CleanInv, NEW S \in SUBSET Workers, Leaves(S)
  PROVE  CleanInv'
<1>1. AllClean'
  BY DEF CleanInv, AllClean, Clean, Leaves, EmptyLedger
<1>2. StoreClean'
  BY DEF CleanInv, StoreClean, Leaves
<1>3. TodoActive'
  BY DEF CleanInv, TodoActive, Leaves, IsActive
<1>4. AtHand'
  BY DEF CleanInv, AtHand, Leaves
<1> QED BY <1>1, <1>2, <1>3, <1>4 DEF CleanInv

LEMMA CleanStill ==
  ASSUME CleanInv, Still
  PROVE  CleanInv'
BY DEF CleanInv, AllClean, Clean, StoreClean, TodoActive, AtHand, IsActive, Still, disk, file

-----------------------------------------------------------------------------
\* What overlapping sessions know of each other.

LEMMA ConflictsSymmetric ==
  ASSUME NEW r, NEW s, IsActive(r), IsActive(s), r \in Candidate, s \in Candidate
  PROVE  Agree(r, s) <=> Agree(s, r)
BY RelationAssumption DEF Agree, Conflicts, Candidate

LEMMA AgreesWithItself ==
  ASSUME NEW r \in Candidate
  PROVE  Agree(r, r)
BY RelationAssumption DEF Agree, Conflicts, Candidate

\* While the file stays as it is only the copies matter.
LEMMA CopiesAgree ==
  ASSUME AllAgree, ledger' = ledger, unseen' = unseen,
         \A i, j \in Ids, v \in Workers :
           /\ i \notin behind'[v] => Agree(ledger[i], view'[v][j]) \/ Unseen(i, j)
           /\ Agree(view'[v][i], view'[v][j]) \/ Unseen(i, j)
  PROVE  AllAgree'
<1>1. ASSUME NEW i \in Ids, NEW j \in Ids
      PROVE  (Agree(ledger[i], ledger[j]) \/ Unseen(i, j))'
  BY DEF AllAgree, Agree, IsActive, Unseen
<1>2. ASSUME NEW i \in Ids, NEW j \in Ids, NEW v \in Workers, i \notin behind'[v]
      PROVE  (Agree(ledger[i], view[v][j]) \/ Unseen(i, j))'
  <2>1. Agree(ledger[i], view'[v][j]) \/ Unseen(i, j)
    BY <1>2
  <2> QED BY <2>1 DEF Agree, IsActive, Unseen
<1>3. ASSUME NEW i \in Ids, NEW j \in Ids, NEW v \in Workers
      PROVE  (Agree(view[v][i], view[v][j]) \/ Unseen(i, j))'
  <2>1. Agree(view'[v][i], view'[v][j]) \/ Unseen(i, j)
    OBVIOUS
  <2> QED BY <2>1 DEF Agree, IsActive, Unseen
<1> QED BY <1>1, <1>2, <1>3 DEF AllAgree

LEMMA ShareEdits ==
  ASSUME IInv, ShareInv, NEW w \in Workers, Edits(w), TypeOK'
  PROVE  ShareInv'
<1> USE DEF ShareInv
<1>0. /\ ledger' = ledger /\ contested' = contested /\ contested \subseteq Ids
      /\ unseen' = unseen /\ behind' = behind
      /\ \A v \in Workers \ {w} : view'[v] = view[v] /\ pc'[v] = pc[v]
      /\ pc[w] # "idle" /\ pc'[w] \notin {"idle", "loaded"}
      /\ \A i \in Ids : view'[w][i] = view[w][i] \/ Grows(view[w][i], view'[w][i]) \/ Starts(w, i)
  BY DEF Edits, disk, file, IInv, TypeOK
<1>1. ContestKept'
  <2> SUFFICES ASSUME NEW i \in contested, NEW v \in Workers, pc'[v] # "idle", i \notin behind[v]
               PROVE  view'[v][i] # None /\ (view'[v][i].contra \/ Unseen(i, i))
    BY <1>0 DEF ContestKept, Unseen
  <2>1. CASE v = w
    BY <1>0, <2>1 DEF ContestKept, Grows, Starts
  <2>2. CASE v # w
    BY <1>0, <2>2 DEF ContestKept
  <2> QED BY <2>1, <2>2
<1>2. IdleIsBlank' /\ LoadedIsLedger'
  BY <1>0 DEF IdleIsBlank, LoadedIsLedger
<1>3. \A i \in Ids : /\ ledger[i] \in Candidate \cup {None} /\ view[w][i] \in Candidate \cup {None}
                     /\ view'[w][i] \in Candidate \cup {None}
  BY DEF IInv, TypeOK
\* A record active after the step is an active one, or new and in agreement.
<1>4. ASSUME NEW i \in Ids, IsActive(view'[w][i]), ~Starts(w, i)
      PROVE  /\ IsActive(view[w][i]) /\ view'[w][i].claim = view[w][i].claim
             /\ view'[w][i].class = view[w][i].class
  BY <1>0, <1>4 DEF Grows, IsActive
<1>5. ASSUME NEW i \in Ids, NEW j \in Ids, Starts(w, i), IsActive(view'[w][i]), IsActive(view[w][j])
      PROVE  ~Conflicts(view'[w][i].claim, view'[w][i].class, view[w][j].claim, view[w][j].class)
  BY <1>5 DEF Starts, IsActive
<1>6. ASSUME NEW i \in Ids \ behind[w], NEW j \in Ids
      PROVE  Agree(ledger[i], view'[w][j]) \/ Unseen(i, j)
  <2> SUFFICES ASSUME IsActive(ledger[i]), IsActive(view'[w][j])
               PROVE  Agree(ledger[i], view'[w][j]) \/ Unseen(i, j)
    BY DEF Agree
  <2>1. CASE Starts(w, j)
    <3>1. view[w][i] = ledger[i]
      BY <2>1 DEF Starts, LoadedIsLedger
    <3>2. Agree(view'[w][j], ledger[i])
      BY <1>5, <2>1, <3>1 DEF Agree
    <3>3. ledger[i] \in Candidate /\ view'[w][j] \in Candidate
      BY <1>3 DEF IsActive
    <3> QED BY <3>2, <3>3, ConflictsSymmetric
  <2>2. CASE ~Starts(w, j)
    BY <1>4, <2>2 DEF AllAgree, Agree
  <2> QED BY <2>1, <2>2
<1>7. ASSUME NEW i \in Ids, NEW j \in Ids PROVE Agree(view'[w][i], view'[w][j]) \/ Unseen(i, j)
  <2> SUFFICES ASSUME IsActive(view'[w][i]), IsActive(view'[w][j])
               PROVE  Agree(view'[w][i], view'[w][j]) \/ Unseen(i, j)
    BY DEF Agree
  <2>1. view'[w][i] \in Candidate /\ view'[w][j] \in Candidate
    BY <1>3 DEF IsActive
  <2>2. CASE Starts(w, i) /\ Starts(w, j)
    <3>1. i = j
      BY <2>2 DEF Starts
    <3> QED BY <2>1, <3>1, AgreesWithItself
  <2>3. CASE Starts(w, i) /\ ~Starts(w, j)
    <3>1. IsActive(view[w][j]) /\ view'[w][j].claim = view[w][j].claim
          /\ view'[w][j].class = view[w][j].class
      BY <1>4, <2>3
    <3>2. ~Conflicts(view'[w][i].claim, view'[w][i].class, view[w][j].claim, view[w][j].class)
      BY <1>5, <2>3, <3>1
    <3> QED BY <3>1, <3>2 DEF Agree
  <2>4. CASE ~Starts(w, i) /\ Starts(w, j)
    <3>1. Agree(view'[w][j], view'[w][i])
      BY <1>4, <1>5, <2>4 DEF Agree
    <3> QED BY <2>1, <3>1, ConflictsSymmetric
  <2>5. CASE ~Starts(w, i) /\ ~Starts(w, j)
    <3>1. /\ IsActive(view[w][i]) /\ view'[w][i].claim = view[w][i].claim
          /\ view'[w][i].class = view[w][i].class
          /\ IsActive(view[w][j]) /\ view'[w][j].claim = view[w][j].claim
          /\ view'[w][j].class = view[w][j].class
      BY <1>4, <2>5
    <3>2. Agree(view[w][i], view[w][j]) \/ Unseen(i, j)
      BY DEF AllAgree
    <3> QED BY <3>1, <3>2 DEF Agree
  <2> QED BY <2>2, <2>3, <2>4, <2>5
<1>8. AllAgree'
  <2> SUFFICES ASSUME NEW i \in Ids, NEW j \in Ids, NEW v \in Workers
               PROVE  /\ i \notin behind[v] => Agree(ledger[i], view'[v][j]) \/ Unseen(i, j)
                      /\ Agree(view'[v][i], view'[v][j]) \/ Unseen(i, j)
    BY <1>0, CopiesAgree
  <2>1. CASE v = w
    BY <1>6, <1>7, <2>1
  <2>2. CASE v # w
    BY <1>0, <2>2 DEF AllAgree
  <2> QED BY <2>1, <2>2
<1> QED BY <1>1, <1>2, <1>8

\* An append that succeeds.
LEMMA ShareWrites ==
  ASSUME IInv, ShareInv, NEW w \in Workers, NEW i \in Ids, Saves(w, i), Write(w, i)
  PROVE  ShareInv'
<1> USE DEF ShareInv
<1>0. /\ \A j \in Ids : ledger'[j] = IF j = i THEN view[w][i] ELSE ledger[j]
      /\ contested' = contested \cup Contradicted(w, {i})
      /\ \A v \in Workers : behind'[v] = IF v = w \/ pc[v] = "idle" THEN behind[v]
                                          ELSE behind[v] \cup {i}
      /\ unseen' = unseen \cup ({i} \X behind[w])
      /\ view' = view /\ pc' = pc
      /\ view[w][i] # None /\ pc[w] \notin {"idle", "loaded"}
      /\ contested \subseteq Ids
  BY DEF IInv, TypeOK, Saves, Write
<1>1. \A j, k \in Ids : /\ Unseen(j, k) => Unseen(j, k)'
                        /\ k \in behind[w] => Unseen(i, k)' /\ Unseen(k, i)'
  BY <1>0 DEF Unseen
<1>2. ContestKept'
  <2> SUFFICES ASSUME NEW j \in contested'
               PROVE  /\ ledger'[j] # None /\ (ledger'[j].contra \/ Unseen(j, j)')
                      /\ \A v \in Workers :
                           pc[v] # "idle" /\ j \notin behind'[v] =>
                             view[v][j] # None /\ (view[v][j].contra \/ Unseen(j, j)')
    BY <1>0 DEF ContestKept
  <2>0. j \in Ids
    BY <1>0 DEF Contradicted
  <2>1. CASE j # i
    <3>1. j \in contested /\ \A v \in Workers : j \notin behind'[v] => j \notin behind[v]
      BY <1>0, <2>1 DEF Contradicted
    <3> QED BY <1>0, <1>1, <2>0, <2>1, <3>1 DEF ContestKept
  <2>2. CASE j = i
    <3>1. view[w][i].contra \/ Unseen(i, i)'
      BY <1>0, <1>1, <2>2 DEF ContestKept, Contradicted
    <3>2. \A v \in Workers : pc[v] # "idle" /\ i \notin behind'[v] => v = w
      BY <1>0
    <3> QED BY <1>0, <2>2, <3>1, <3>2
  <2> QED BY <2>1, <2>2
<1>3. IdleIsBlank'
  BY <1>0 DEF IdleIsBlank
<1>4. LoadedIsLedger'
  BY <1>0 DEF LoadedIsLedger
\* What the session saves agrees with the rest, where it was not behind.
<1>5. ASSUME NEW k \in Ids PROVE Agree(ledger[k], view[w][i]) \/ Unseen(k, i)'
  BY <1>1 DEF AllAgree
<1>6. ASSUME NEW k \in Ids PROVE Agree(view[w][i], ledger[k]) \/ Unseen(k, i)'
  <2> SUFFICES ASSUME IsActive(view[w][i]), IsActive(ledger[k]), ~Unseen(k, i)'
               PROVE  Agree(view[w][i], ledger[k])
    BY DEF Agree
  <2>1. view[w][i] \in Candidate /\ ledger[k] \in Candidate
    BY DEF IInv, TypeOK, IsActive
  <2> QED BY <1>5, <2>1, ConflictsSymmetric
<1>7. ASSUME NEW j \in Ids, NEW k \in Ids PROVE (Agree(ledger[j], ledger[k]) \/ Unseen(j, k))'
  <2>1. CASE j = i /\ k = i
    BY <1>0, <1>1, <2>1 DEF AllAgree, Agree, IsActive
  <2>2. CASE j = i /\ k # i
    BY <1>0, <1>6, <2>2 DEF Agree, IsActive, Unseen
  <2>3. CASE j # i /\ k = i
    BY <1>0, <1>5, <2>3 DEF Agree, IsActive
  <2>4. CASE j # i /\ k # i
    BY <1>0, <1>1, <2>4 DEF AllAgree, Agree, IsActive
  <2> QED BY <2>1, <2>2, <2>3, <2>4
<1>8. ASSUME NEW j \in Ids, NEW k \in Ids, NEW v \in Workers, j \notin behind'[v]
      PROVE  Agree(ledger'[j], view[v][k]) \/ Unseen(j, k)'
  <2>1. CASE j # i
    BY <1>0, <1>1, <1>8, <2>1 DEF AllAgree
  <2>2. CASE j = i /\ v = w
    BY <1>0, <1>1, <2>2 DEF AllAgree
  <2>3. CASE j = i /\ v # w
    BY <1>0, <1>8, <2>3 DEF IdleIsBlank, EmptyLedger, Agree, IsActive
  <2> QED BY <2>1, <2>2, <2>3
<1>9. ASSUME NEW j \in Ids, NEW k \in Ids, NEW v \in Workers
      PROVE  Agree(view[v][j], view[v][k]) \/ Unseen(j, k)'
  BY <1>1 DEF AllAgree
<1>10. AllAgree'
  BY <1>0, <1>7, <1>8, <1>9 DEF AllAgree, Agree, IsActive
<1> QED BY <1>2, <1>3, <1>4, <1>10

LEMMA ShareSaves ==
  ASSUME IInv, ShareInv, NEW w \in Workers, NEW i \in Ids, Saves(w, i)
  PROVE  ShareInv'
<1>1. CASE Write(w, i)
  BY <1>1, ShareWrites
<1>2. CASE Lose(w, i)
  <2>1. /\ ledger' = ledger /\ contested' = contested /\ behind' = behind /\ unseen' = unseen
        /\ view' = view /\ pc' = pc
    BY <1>2 DEF Saves, Lose
  <2> QED BY <2>1 DEF ShareInv, ContestKept, IdleIsBlank, LoadedIsLedger, AllAgree, Agree,
                      IsActive, Unseen
<1> QED BY <1>1, <1>2 DEF Saves, Append

LEMMA ShareLoad ==
  ASSUME IInv, ShareInv, NEW w \in Workers, Load(w)
  PROVE  ShareInv'
<1> USE DEF ShareInv
<1>1. /\ ledger' = ledger /\ contested' = contested /\ unseen' = unseen
      /\ contested \subseteq Ids
      /\ \A v \in Workers \ {w} : view'[v] = view[v] /\ behind'[v] = behind[v]
      /\ \/ view'[w] = ledger /\ behind'[w] = behind[w]
         \/ view'[w] = EmptyLedger /\ behind'[w] = Known(ledger)
      /\ \A v \in Workers : pc'[v] = IF v = w THEN "loaded" ELSE pc[v]
  BY DEF Load, IInv, TypeOK
<1>2. ContestKept'
  <2> SUFFICES ASSUME NEW i \in contested, NEW v \in Workers, pc'[v] # "idle", i \notin behind'[v]
               PROVE  view'[v][i] # None /\ (view'[v][i].contra \/ Unseen(i, i))
    BY <1>1 DEF ContestKept, Unseen
  <2> QED BY <1>1 DEF ContestKept, Known
<1>3. IdleIsBlank' /\ LoadedIsLedger'
  BY <1>1 DEF IdleIsBlank, LoadedIsLedger, EmptyLedger, Known
<1>4. AllAgree'
  <2> SUFFICES ASSUME NEW i \in Ids, NEW j \in Ids, NEW v \in Workers
               PROVE  /\ i \notin behind'[v] => Agree(ledger[i], view'[v][j]) \/ Unseen(i, j)
                      /\ Agree(view'[v][i], view'[v][j]) \/ Unseen(i, j)
    BY <1>1, CopiesAgree
  <2>1. CASE view'[v] = view[v] /\ behind'[v] = behind[v]
    BY <2>1 DEF AllAgree
  <2>2. CASE view'[v] = ledger
    BY <2>2 DEF AllAgree
  <2>3. CASE view'[v] = EmptyLedger
    BY <2>3 DEF EmptyLedger, Agree, IsActive
  <2> QED BY <1>1, <2>1, <2>2, <2>3
<1> QED BY <1>2, <1>3, <1>4

LEMMA ShareLeaves ==
  ASSUME IInv, ShareInv, NEW S \in SUBSET Workers, Leaves(S)
  PROVE  ShareInv'
<1> USE DEF ShareInv
<1>1. /\ ledger' = ledger /\ contested' = contested /\ unseen' = unseen
      /\ \A v \in Workers : \/ view'[v] = view[v] /\ pc'[v] = pc[v] /\ behind'[v] = behind[v]
                            \/ view'[v] = EmptyLedger /\ pc'[v] = "idle" /\ behind'[v] = {}
  BY DEF Leaves
<1>2. ContestKept'
  BY <1>1 DEF ContestKept, Unseen
<1>3. IdleIsBlank' /\ LoadedIsLedger'
  BY <1>1 DEF IdleIsBlank, LoadedIsLedger
<1>4. AllAgree'
  <2> SUFFICES ASSUME NEW i \in Ids, NEW j \in Ids, NEW v \in Workers
               PROVE  /\ i \notin behind'[v] => Agree(ledger[i], view'[v][j]) \/ Unseen(i, j)
                      /\ Agree(view'[v][i], view'[v][j]) \/ Unseen(i, j)
    BY <1>1, CopiesAgree
  <2>1. CASE view'[v] = view[v] /\ behind'[v] = behind[v]
    BY <2>1 DEF AllAgree
  <2>2. CASE view'[v] = EmptyLedger
    BY <2>2 DEF EmptyLedger, Agree, IsActive
  <2> QED BY <1>1, <2>1, <2>2
<1> QED BY <1>2, <1>3, <1>4

LEMMA ShareStill ==
  ASSUME ShareInv, Still
  PROVE  ShareInv'
BY DEF ShareInv, ContestKept, IdleIsBlank, LoadedIsLedger, AllAgree, Agree, IsActive, Unseen,
       Still, disk, file

-----------------------------------------------------------------------------
\* What becomes of a challenger's word to its incumbent.

LEMMA AnnouncedEdits ==
  ASSUME IInv, AllAnnounced, NEW w \in Workers, Edits(w)
  PROVE  AllAnnounced'
<1>0. /\ ledger' = ledger /\ contested' = contested /\ dropped' = dropped
      /\ \A v \in Workers \ {w} : view'[v] = view[v] /\ dirty'[v] = dirty[v]
      /\ dirty[w] \subseteq dirty'[w]
  BY DEF Edits, disk, file
<1>1. \A i \in Ids : view'[w][i] = view[w][i] \/ Grows(view[w][i], view'[w][i]) \/ Starts(w, i)
  BY DEF Edits
<1>2. \A c \in dirty[w] : c \in Ids /\ view[w][c] # None
  BY DEF IInv, TypeOK, WorkIsKnown
<1>3. \A c \in dirty[w] : Pending(w, c) => Pending(w, c)'
  BY <1>0, <1>1, <1>2 DEF Pending, Grows, Starts
<1>4. ASSUME NEW i \in Ids PROVE Announced(view[w][i])'
  <2>1. Announced(view[w][i])
    BY DEF AllAnnounced
  <2>2. CASE view'[w][i] = view[w][i]
    BY <1>0, <1>3, <2>1, <2>2 DEF Announced, Pending
  <2>3. CASE Grows(view[w][i], view'[w][i])
    BY <1>0, <1>3, <2>1, <2>3 DEF Announced, Grows, Pending
  <2>4. CASE Starts(w, i)
    BY <2>4 DEF Announced, Starts, Pending
  <2> QED BY <1>1, <2>2, <2>3, <2>4
<1> QED BY <1>0, <1>3, <1>4 DEF AllAnnounced, Announced, Pending

LEMMA AnnouncedSaves ==
  ASSUME IInv, AllAnnounced, NEW w \in Workers, NEW i \in Ids, Saves(w, i)
  PROVE  AllAnnounced'
<1>1. /\ \A j \in Ids : ledger'[j] = ledger[j] \/ ledger'[j] = view[w][j]
      /\ contested \subseteq contested' /\ dropped \subseteq dropped'
      /\ view[w][i].contra => i \in contested' \cup dropped'
      /\ view' = view
      /\ \A v \in Workers : dirty[v] \ dirty'[v] \subseteq IF v = w THEN {i} ELSE {}
  BY DEF IInv, TypeOK, Saves, Append, Write, Lose, Contradicted
<1>2. \A v \in Workers : \A c \in dirty[v] :
        Pending(v, c) => c \in contested' \cup dropped' \/ Pending(v, c)'
  BY <1>1 DEF Pending
<1> QED BY <1>1, <1>2 DEF AllAnnounced, Announced, Pending

LEMMA AnnouncedLoad ==
  ASSUME IInv, AllAnnounced, NEW w \in Workers, Load(w)
  PROVE  AllAnnounced'
<1>1. /\ ledger' = ledger /\ contested' = contested /\ dropped' = dropped /\ dirty' = dirty
      /\ dirty[w] = {}
      /\ \A v \in Workers : view'[v] = view[v] \/ (v = w /\ view'[v] \in {ledger, EmptyLedger})
  BY DEF Load, IInv, TypeOK, IdleOwesNothing, Saved
<1> QED BY <1>1 DEF AllAnnounced, Announced, Pending, EmptyLedger

LEMMA AnnouncedLeaves ==
  ASSUME IInv, AllAnnounced, NEW S \in SUBSET Workers, Leaves(S)
  PROVE  AllAnnounced'
<1>1. /\ ledger' = ledger /\ contested' = contested /\ dropped \subseteq dropped'
      /\ \A v \in Workers : view'[v] = view[v] \/ view'[v] = EmptyLedger
  BY DEF Leaves
<1>2. \A v \in Workers : \A c \in dirty[v] : Pending(v, c) => c \in dropped' \/ Pending(v, c)'
  BY DEF Leaves, Pending
<1> QED BY <1>1, <1>2 DEF AllAnnounced, Announced, Pending, EmptyLedger

LEMMA AnnouncedStill ==
  ASSUME AllAnnounced, Still
  PROVE  AllAnnounced'
BY DEF AllAnnounced, Announced, Pending, Still, disk, file

-----------------------------------------------------------------------------
\* Every operation is one of those kinds of steps.

\* A session changes one record it has, and owes it to the ledger.
LEMMA ChangeEdits ==
  ASSUME IInv, CleanInv, NEW w \in Workers, NEW i \in Ids, NEW r \in Candidate,
         Change(w, i, r), Grows(view[w][i], r), Clean(r),
         NEW p \in {"work", "deny"}, pc' = [pc EXCEPT ![w] = p], pc[w] # "idle",
         NEW c \in Ids \cup {None}, cur' = [cur EXCEPT ![w] = c], p = "work" => c = None,
         NEW D \in SUBSET todo[w], todo' = [todo EXCEPT ![w] = D], i \notin D, c \notin D,
         UNCHANGED disk
  PROVE  Edits(w)
<1>1. /\ \A v \in Workers, j \in Ids :
           IF v = w /\ j = i THEN view'[v][j] = r ELSE view'[v][j] = view[v][j]
      /\ \A v \in Workers \ {w} : dirty'[v] = dirty[v]
      /\ dirty[w] \subseteq dirty'[w]
  BY ChangeKnown DEF IInv
<1>2. /\ \A v \in Workers \ {w} : /\ view'[v] = view[v] /\ pc'[v] = pc[v]
                                  /\ cur'[v] = cur[v] /\ todo'[v] = todo[v]
      /\ cur'[w] = c /\ todo'[w] = D
  BY DEF Change, IInv, TypeOK
<1>3. \A j \in Ids : /\ view'[w][j] = view[w][j] \/ Grows(view[w][j], view'[w][j])
                     /\ Clean(view'[w][j])
  BY <1>1 DEF CleanInv, AllClean
<1>4. pc'[w] = p
  BY DEF IInv, TypeOK
<1>5. \A j \in todo'[w] : IsActive(view'[w][j]) /\ j # cur'[w]
  <2> SUFFICES ASSUME NEW j \in D PROVE IsActive(view'[w][j]) /\ j # c
    BY <1>2
  <2>1. j \in Ids /\ j # i /\ IsActive(view[w][j])
    BY DEF CleanInv, TodoActive, IInv, TypeOK
  <2> QED BY <1>1, <2>1
<1> QED BY <1>1, <1>2, <1>3, <1>4, <1>5 DEF Edits

\* A session decides without changing a record.
LEMMA DecideEdits ==
  ASSUME IInv, CleanInv, NEW w \in Workers,
         NEW p \in {"work", "store"}, pc' = [pc EXCEPT ![w] = p], pc[w] # "idle",
         NEW c \in Ids \cup {None}, cur' = [cur EXCEPT ![w] = c],
         p = "store" => ~view[w][c].contra, p = "work" => c = None,
         NEW D \in SUBSET Ids, todo' = [todo EXCEPT ![w] = D],
         \A j \in D : IsActive(view[w][j]) /\ j # c,
         UNCHANGED <<disk, view, dirty>>
  PROVE  Edits(w)
<1>1. \A v \in Workers \ {w} : pc'[v] = pc[v] /\ cur'[v] = cur[v] /\ todo'[v] = todo[v]
  BY DEF IInv, TypeOK
<1>2. pc'[w] = p /\ cur'[w] = c /\ todo'[w] = D
  BY DEF IInv, TypeOK
<1>3. \A j \in Ids : Clean(view'[w][j])
  BY DEF CleanInv, AllClean, Clean
<1>4. \A j \in todo'[w] : IsActive(view'[w][j]) /\ j # cur'[w]
  BY <1>2 DEF IsActive
<1> QED BY <1>1, <1>2, <1>3, <1>4 DEF Edits

LEMMA ConsolidateOneEdits ==
  ASSUME IInv, CleanInv, NEW w \in Workers, NEW i \in Ids, ConsolidateOne(w, i)
  PROVE  Edits(w)
<1> DEFINE r == [view[w][i] EXCEPT !.lastEval = Evidence(view[w][i])]
           decision == Evaluate(view[w][i], i \in old)
           Becomes(s) == Change(w, i, [r EXCEPT !.status = s]) /\ UNCHANGED <<pc, cur>>
<1>1. /\ pc[w] = "work" /\ i \in todo[w]
      /\ UNCHANGED disk
      /\ \/ /\ decision = "commit"
            /\ view' = [view EXCEPT ![w][i] = r]
            /\ pc' = [pc EXCEPT ![w] = "store"]
            /\ cur' = [cur EXCEPT ![w] = i]
            /\ UNCHANGED dirty
         \/ decision = "dispute" /\ Becomes("disputed")
         \/ decision = "archive" /\ Becomes("archived")
         \/ decision = "reinforce" /\ Becomes("reinforced")
         \/ decision = "keep" /\ UNCHANGED <<view, pc, cur, dirty>>
  BY DEF ConsolidateOne
<1>2. view[w][i] # None /\ view[w][i] \in Candidate
  BY <1>1, RecordIsCandidate DEF IInv, WorkIsKnown
<1>3. Evidence(view[w][i]) \in Nat
  BY <1>2, FiniteKeys DEF Evidence, Candidate
<1>4. r \in Candidate /\ r.claim = view[w][i].claim /\ r.class = view[w][i].class
      /\ r.contra = view[w][i].contra /\ r.challengerOf = view[w][i].challengerOf
      /\ r.status = view[w][i].status
  BY <1>2, <1>3 DEF Candidate
<1> HIDE DEF r
<1>5. decision = "commit" => ~view[w][i].contra
  BY DEF Evaluate
<1> HIDE DEF decision
<1>6. /\ pc' = pc => pc' = [pc EXCEPT ![w] = "work"]
      /\ cur' = cur => cur' = [cur EXCEPT ![w] = cur[w]]
      /\ cur[w] \in Ids \cup {None} /\ i \in Ids /\ todo[w] \subseteq Ids
      /\ todo' = [todo EXCEPT ![w] = todo[w] \ {i}]
  BY <1>1 DEF ConsolidateOne, IInv, TypeOK
<1>7. cur[w] = None /\ \A j \in todo[w] : IsActive(view[w][j]) /\ j # cur[w]
  BY <1>1 DEF CleanInv, TodoActive, AtHand
<1>8. CASE decision = "commit" /\ view' = [view EXCEPT ![w][i] = r]
           /\ pc' = [pc EXCEPT ![w] = "store"] /\ cur' = [cur EXCEPT ![w] = i]
           /\ UNCHANGED dirty
  <2>1. /\ \A v \in Workers \ {w} : /\ view'[v] = view[v] /\ pc'[v] = pc[v]
                                  /\ cur'[v] = cur[v] /\ todo'[v] = todo[v]
        /\ \A j \in Ids : view'[w][j] = IF j = i THEN r ELSE view[w][j]
        /\ pc'[w] = "store" /\ cur'[w] = i /\ todo'[w] = todo[w] \ {i}
    BY <1>6, <1>8 DEF IInv, TypeOK
  <2>2. r # None /\ Clean(r) /\ Grows(view[w][i], r) /\ ~r.contra
    BY <1>2, <1>4, <1>5, <1>8, NoneAssumption DEF Clean, Grows
  <2>3. \A j \in todo'[w] : IsActive(view'[w][j]) /\ j # cur'[w]
    BY <1>6, <1>7, <2>1
  <2> QED BY <1>1, <1>8, <2>1, <2>2, <2>3 DEF Edits, CleanInv, AllClean
<1>9. CASE decision = "keep" /\ UNCHANGED <<view, pc, cur, dirty>>
  <2>1. \A j \in todo[w] \ {i} : IsActive(view[w][j]) /\ j # cur[w]
    BY <1>7
  <2>2. PICK D \in SUBSET Ids : D = todo[w] \ {i}
    BY <1>6
  <2>3. PICK c \in Ids \cup {None} : c = cur[w]
    BY <1>6
  <2>4. /\ pc' = [pc EXCEPT ![w] = "work"] /\ cur' = [cur EXCEPT ![w] = c]
        /\ todo' = [todo EXCEPT ![w] = D] /\ pc[w] # "idle" /\ "work" \in {"work", "store"}
        /\ UNCHANGED <<disk, view, dirty>> /\ \A j \in D : IsActive(view[w][j]) /\ j # c
        /\ c = None
    BY <1>1, <1>6, <1>7, <1>9, <2>1, <2>2, <2>3
  <2> QED BY <2>4, DecideEdits
<1>10. ASSUME NEW s \in {"disputed", "archived", "reinforced"}, Becomes(s)
       PROVE  Edits(w)
  <2> DEFINE q == [r EXCEPT !.status = s]
  <2>1. q \in Candidate /\ q.status = s /\ q.claim = r.claim /\ q.class = r.class
        /\ q.contra = r.contra /\ q.challengerOf = r.challengerOf
    BY <1>4 DEF Candidate, Statuses, ACTIVE_STATES
  <2>2. Change(w, i, q) /\ pc' = pc /\ cur' = cur
    BY <1>10
  <2> HIDE DEF q
  <2>3. Clean(q) /\ Grows(view[w][i], q)
    BY <1>1, <1>2, <1>4, <1>7, <2>1, NoneAssumption DEF Clean, Grows, IsActive
  <2>4. i \notin todo[w] \ {i} /\ cur[w] \notin todo[w] \ {i}
    BY <1>7
  <2>5. PICK D \in SUBSET todo[w] : D = todo[w] \ {i}
    OBVIOUS
  <2>6. /\ pc' = [pc EXCEPT ![w] = "work"] /\ cur' = [cur EXCEPT ![w] = None]
        /\ todo' = [todo EXCEPT ![w] = D] /\ pc[w] # "idle" /\ UNCHANGED disk
        /\ i \notin D /\ None \notin D
    BY <1>1, <1>6, <1>7, <2>2, <2>4, <2>5
  <2> QED BY <2>1, <2>2, <2>3, <2>6, ChangeEdits
<1> QED BY <1>1, <1>8, <1>9, <1>10

LEMMA CommitEdits ==
  ASSUME IInv, CleanInv, NEW w \in Workers, Commit(w)
  PROVE  Edits(w)
<1> DEFINE i == cur[w]
           r == [view[w][i] EXCEPT !.status = "committed"]
<1>1. /\ pc[w] = "store" /\ Change(w, i, r)
      /\ pc' = [pc EXCEPT ![w] = "work"] /\ cur' = [cur EXCEPT ![w] = None]
      /\ UNCHANGED <<disk, todo>>
  BY DEF Commit
<1>2. i \in Ids /\ view[w][i] # None /\ view[w][i] \in Candidate /\ ~view[w][i].contra
  BY <1>1, RecordIsCandidate DEF IInv, WorkIsKnown, CleanInv, StoreClean
<1>3. r \in Candidate /\ r.claim = view[w][i].claim /\ r.class = view[w][i].class
      /\ r.contra = view[w][i].contra /\ r.challengerOf = view[w][i].challengerOf
      /\ r.status = "committed"
  BY <1>2 DEF Candidate, Statuses
<1>4. i \notin todo[w] /\ None \notin todo[w]
  BY NoneAssumption DEF CleanInv, TodoActive, IInv, TypeOK
<1>5. PICK D \in SUBSET todo[w] : D = todo[w]
  OBVIOUS
<1>6. todo' = [todo EXCEPT ![w] = D]
  BY <1>1, <1>5 DEF IInv, TypeOK
<1> HIDE DEF r
<1>7. Clean(r) /\ Grows(view[w][i], r)
  BY <1>2, <1>3, NoneAssumption DEF Clean, Grows, ACTIVE_STATES
<1> HIDE DEF i
<1> QED BY <1>1, <1>2, <1>3, <1>4, <1>5, <1>6, <1>7, ChangeEdits

\* An operator's request on a record of the session.
LEMMA OperateEdits ==
  ASSUME IInv, CleanInv, NEW w \in Workers, NEW i \in Ids, Operate(w, i), NEW r \in Candidate,
         Change(w, i, r), Grows(view[w][i], r), Clean(r),
         NEW p \in {"work", "deny"}, pc' = [pc EXCEPT ![w] = p],
         NEW c \in Ids \cup {None}, cur' = [cur EXCEPT ![w] = c], p = "work" => c = None
  PROVE  Edits(w)
<1>1. pc[w] = "loaded" /\ todo[w] = {} /\ todo' = todo /\ UNCHANGED disk
  BY DEF Operate, IInv, IdleOwesNothing
<1>2. todo' = [todo EXCEPT ![w] = {}] /\ {} \in SUBSET todo[w]
  BY <1>1 DEF IInv, TypeOK
<1> QED BY <1>1, <1>2, ChangeEdits

LEMMA ManualEdits ==
  ASSUME IInv, CleanInv, NEW w \in Workers, Manual(w)
  PROVE  Edits(w)
<1>1. PICK i \in Ids : \/ MarkFalse(w, i) \/ MarkImportant(w, i) \/ RequestEvidence(w, i)
                       \/ Archive(w, i) \/ ApproveCommit(w, i)
  BY DEF Manual
<1>2. Operate(w, i) /\ pc[w] = "loaded" /\ view[w][i] # None /\ view[w][i] \in Candidate
  BY <1>1, RecordIsCandidate
     DEF MarkFalse, MarkImportant, RequestEvidence, Archive, ApproveCommit, Operate, Known, IInv
<1>3. Clean(view[w][i])
  BY DEF CleanInv, AllClean
<1>5. cur' = cur => cur' = [cur EXCEPT ![w] = None]
  BY <1>2 DEF IInv, TypeOK, CleanInv, AtHand
<1>6. CASE MarkFalse(w, i)
  <2> DEFINE r == [view[w][i] EXCEPT !.status = "disputed", !.contra = TRUE]
  <2>1. r \in Candidate
    BY <1>2 DEF Candidate, Statuses
  <2>2. r # None /\ r.claim = view[w][i].claim /\ r.class = view[w][i].class
        /\ r.challengerOf = view[w][i].challengerOf /\ r.status = "disputed"
        /\ r.contra = TRUE
    BY <1>2, <2>1, NoneAssumption DEF Candidate
  <2>3. Change(w, i, r) /\ pc' = [pc EXCEPT ![w] = "deny"] /\ cur' = [cur EXCEPT ![w] = i]
    BY <1>6 DEF MarkFalse
  <2> HIDE DEF r
  <2>4. Clean(r) /\ Grows(view[w][i], r)
    BY <1>2, <2>2 DEF Clean, Grows, ACTIVE_STATES
  <2> QED BY <1>2, <2>1, <2>3, <2>4, OperateEdits
<1>7. CASE MarkImportant(w, i)
  <2> DEFINE r == [view[w][i] EXCEPT !.important = TRUE]
  <2>1. r \in Candidate
    BY <1>2 DEF Candidate
  <2>2. r # None /\ r.claim = view[w][i].claim /\ r.class = view[w][i].class
        /\ r.challengerOf = view[w][i].challengerOf /\ r.status = view[w][i].status
        /\ r.contra = view[w][i].contra
    BY <1>2, <2>1, NoneAssumption DEF Candidate
  <2>3. Change(w, i, r) /\ pc' = [pc EXCEPT ![w] = "work"] /\ cur' = cur
    BY <1>7 DEF MarkImportant
  <2> HIDE DEF r
  <2>4. Clean(r) /\ Grows(view[w][i], r)
    BY <1>2, <1>3, <2>2 DEF Clean, Grows
  <2> QED BY <1>2, <1>5, <2>1, <2>3, <2>4, OperateEdits
<1>8. CASE RequestEvidence(w, i)
  <2>1. Grows(view[w][i], view[w][i])
    BY <1>2 DEF Grows
  <2>2. Change(w, i, view[w][i]) /\ pc' = [pc EXCEPT ![w] = "work"] /\ cur' = cur
    BY <1>8 DEF RequestEvidence
  <2> QED BY <1>2, <1>3, <1>5, <2>1, <2>2, OperateEdits
<1>9. CASE Archive(w, i)
  <2> DEFINE r == [view[w][i] EXCEPT !.status = "archived"]
  <2>1. r \in Candidate
    BY <1>2 DEF Candidate, Statuses
  <2>2. r # None /\ r.claim = view[w][i].claim /\ r.class = view[w][i].class
        /\ r.challengerOf = view[w][i].challengerOf /\ r.status = "archived"
        /\ r.contra = view[w][i].contra
    BY <1>2, <2>1, NoneAssumption DEF Candidate
  <2>3. Change(w, i, r) /\ pc' = [pc EXCEPT ![w] = "work"] /\ cur' = cur
    BY <1>9 DEF Archive
  <2> HIDE DEF r
  <2>4. Clean(r) /\ Grows(view[w][i], r)
    BY <1>2, <2>2 DEF Clean, Grows, ACTIVE_STATES
  <2> QED BY <1>2, <1>5, <2>1, <2>3, <2>4, OperateEdits
<1>10. CASE ApproveCommit(w, i)
  <2>1. /\ ~view[w][i].contra /\ pc' = [pc EXCEPT ![w] = "store"]
        /\ cur' = [cur EXCEPT ![w] = i] /\ UNCHANGED <<disk, view, dirty, todo>>
    BY <1>10 DEF ApproveCommit, Refused, Operate
  <2>2. todo' = [todo EXCEPT ![w] = {}]
    BY <1>2, <2>1 DEF IInv, TypeOK, IdleOwesNothing
  <2> QED BY <1>2, <2>1, <2>2, DecideEdits
<1> QED BY <1>1, <1>6, <1>7, <1>8, <1>9, <1>10

LEMMA MergeEdits ==
  ASSUME IInv, CleanInv, NEW w \in Workers, NEW claim \in Claims, NEW key \in Keys,
         Ingesting(w), Merge(w, claim, key)
  PROVE  Edits(w)
<1>1. PICK i \in RelatedBy(view[w], claim, "supports") :
        Change(w, i, [view[w][i] EXCEPT !.keys = @ \cup {key}])
  BY DEF Merge
<1> DEFINE r == [view[w][i] EXCEPT !.keys = @ \cup {key}]
<1>2. i \in Ids /\ view[w][i] # None /\ view[w][i] \in Candidate /\ Clean(view[w][i])
  BY RecordIsCandidate DEF RelatedBy, Active, Known, IInv, CleanInv, AllClean
<1>3. r \in Candidate /\ Clean(r) /\ Grows(view[w][i], r)
  <2>1. r \in Candidate
    BY <1>2 DEF Candidate
  <2>2. r # None /\ r.claim = view[w][i].claim /\ r.class = view[w][i].class
        /\ r.challengerOf = view[w][i].challengerOf /\ r.status = view[w][i].status
        /\ r.contra = view[w][i].contra
    BY <1>2, <2>1, NoneAssumption DEF Candidate
  <2> HIDE DEF r
  <2> QED BY <1>2, <2>1, <2>2 DEF Clean, Grows
<1>4. Change(w, i, r) /\ pc' = [pc EXCEPT ![w] = "work"] /\ pc[w] = "loaded" /\ UNCHANGED disk
  BY <1>1 DEF Ingesting
<1>5. /\ cur' = [cur EXCEPT ![w] = None] /\ todo' = [todo EXCEPT ![w] = {}]
      /\ {} \in SUBSET todo[w] /\ pc[w] # "idle"
  BY DEF Ingesting, IInv, TypeOK, IdleOwesNothing, CleanInv, AtHand
<1>6. PICK q \in Candidate : q = r
  BY <1>3
<1> HIDE DEF r
<1> QED BY <1>2, <1>3, <1>4, <1>5, <1>6, ChangeEdits

\* A result makes a new candidate: u is the session's copy after it, D what the
\* session owes besides.
LEMMA NewCandidateEdits ==
  ASSUME IInv, CleanInv, NEW w \in Workers, NEW n \in Ids, NEW claim \in Claims, NEW key \in Keys,
         NEW status \in {"candidate", "disputed"}, NEW contra \in BOOLEAN,
         contra <=> status = "disputed",
         NEW inc \in Ids \cup {None}, inc # None => IsActive(view[w][inc]),
         NewCandidate(w, n, claim, key, status, contra, inc), Ingesting(w),
         NEW D \in SUBSET Ids, dirty' = [dirty EXCEPT ![w] = D], inc # None => inc \in D,
         status = "candidate" => Conflicting(view[w], claim, ClassOf[key]) = {}
  PROVE  Edits(w)
<1> DEFINE rec == [claim |-> claim, class |-> ClassOf[key], keys |-> {key},
                   contra |-> contra, important |-> FALSE, status |-> status,
                   lastEval |-> 0, challengerOf |-> inc]
           u == [i \in Ids |->
                   CASE i = n -> rec
                     [] i # n /\ i = inc -> [view[w][i] EXCEPT !.contra = TRUE]
                     [] OTHER -> view[w][i]]
<1>1. /\ origin[n] = "none" /\ fresh' = [fresh EXCEPT ![w] = n]
      /\ view' = [view EXCEPT ![w] = u]
  BY DEF NewCandidate
<1>2. /\ rec \in Candidate /\ rec.claim = claim /\ rec.class = ClassOf[key]
      /\ rec.contra = contra /\ rec.status = status /\ rec.challengerOf = inc
  BY KeysAssumption DEF Candidate, Statuses, ACTIVE_STATES
<1> HIDE DEF rec
<1>3. u[n] = rec /\ \A i \in Ids \ {n, inc} : u[i] = view[w][i]
  OBVIOUS
<1>4. inc \in Ids /\ inc # n => u[inc] = [view[w][inc] EXCEPT !.contra = TRUE]
  OBVIOUS
<1>5. u = [i \in Ids |-> u[i]]
  OBVIOUS
<1> HIDE DEF u
<1>6. view[w][n] = None
  <2>1. view[w][n] \in Candidate \cup {None} /\ RealRecord(n, view[w][n])
    BY DEF IInv, TypeOK, RecordsReal
  <2> QED BY <1>1, <2>1 DEF RealRecord, Candidate, Classes, CANONICAL_CLASSES, USER_CLASSES, WEB
<1>7. inc # None => inc \in Ids /\ inc # n /\ view[w][inc] \in Candidate
  BY <1>6, RecordIsCandidate DEF IInv, IsActive
<1>8. \A v \in Workers : view'[v] = IF v = w THEN u ELSE view[v]
  BY <1>1 DEF IInv, TypeOK
<1>9. /\ pc[w] = "loaded" /\ pc'[w] = "work" /\ cur'[w] = None /\ fresh'[w] = n /\ todo'[w] = {} /\ dirty[w] = {}
      /\ dirty'[w] = D /\ UNCHANGED disk
      /\ \A v \in Workers \ {w} : /\ pc'[v] = pc[v] /\ cur'[v] = cur[v]
                                  /\ dirty'[v] = dirty[v] /\ todo'[v] = todo[v]
  BY <1>1 DEF Ingesting, IInv, TypeOK, IdleOwesNothing, Saved, CleanInv, AtHand
<1>10. inc # None => view'[w][inc].contra
  BY <1>4, <1>7, <1>8 DEF Candidate
<1>11. Starts(w, n)
  <2>1. view'[w][n] = rec /\ rec # None
    BY <1>2, <1>3, <1>8, NoneAssumption
  <2>2. ASSUME NEW j \in Ids, status \in ACTIVE_STATES, IsActive(view[w][j])
        PROVE  ~Conflicts(claim, ClassOf[key], view[w][j].claim, view[w][j].class)
    BY <2>2 DEF Conflicting, Active, Known, IsActive, ACTIVE_STATES
  <2> QED BY <1>2, <1>6, <1>9, <1>10, <2>1, <2>2 DEF Starts
<1>12. ASSUME NEW i \in Ids
       PROVE  /\ view'[w][i] = view[w][i] \/ Grows(view[w][i], view'[w][i]) \/ Starts(w, i)
              /\ Clean(view'[w][i])
  <2>1. CASE i = n
    BY <1>2, <1>3, <1>8, <1>11, <2>1 DEF Clean
  <2>2. CASE i # n /\ i # inc
    BY <1>3, <1>8, <2>2 DEF CleanInv, AllClean, Clean
  <2>3. CASE i # n /\ i = inc
    <3> DEFINE s == [view[w][i] EXCEPT !.contra = TRUE]
    <3>1. inc # None /\ view[w][i] \in Candidate /\ IsActive(view[w][i])
      BY <1>7, <2>3, NoneAssumption
    <3>2. /\ s \in Candidate /\ s.claim = view[w][i].claim /\ s.class = view[w][i].class
          /\ s.challengerOf = view[w][i].challengerOf /\ s.status = view[w][i].status
          /\ s.contra
      BY <3>1 DEF Candidate
    <3>3. view'[w][i] = s
      BY <1>4, <1>8, <2>3
    <3> HIDE DEF s
    <3> QED BY <3>1, <3>2, <3>3, NoneAssumption DEF Clean, Grows, IsActive, ACTIVE_STATES
  <2> QED BY <2>1, <2>2, <2>3
<1> QED BY <1>8, <1>9, <1>12 DEF Edits

LEMMA ChallengeEdits ==
  ASSUME IInv, CleanInv, NEW w \in Workers, NEW claim \in Claims, NEW key \in Keys,
         Ingesting(w), Challenge(w, claim, key)
  PROVE  Edits(w)
<1> DEFINE conflicting == Conflicting(view[w], claim, ClassOf[key])
           incumbents == IF conflicting # {} THEN conflicting ELSE Active(view[w])
<1>1. incumbents \subseteq Ids /\ \A i \in incumbents : IsActive(view[w][i])
  BY DEF Conflicting, Active, Known, IsActive
<1>2. PICK n \in Ids, inc \in IF incumbents = {} THEN {None} ELSE incumbents :
        /\ NewCandidate(w, n, claim, key, "disputed", TRUE, inc)
        /\ dirty' = [dirty EXCEPT ![w] = incumbents \cap {inc}]
  BY DEF Challenge
<1> HIDE DEF incumbents
<1>3. inc \in Ids \cup {None} /\ (inc # None => inc \in incumbents /\ IsActive(view[w][inc]))
  BY <1>1, <1>2
<1>4. PICK D \in SUBSET Ids : D = incumbents \cap {inc}
  BY <1>1
<1> QED BY <1>2, <1>3, <1>4, NewCandidateEdits

LEMMA FoundEdits ==
  ASSUME IInv, CleanInv, NEW w \in Workers, NEW claim \in Claims, NEW key \in Keys,
         Ingesting(w), Found(w, claim, key), Conflicting(view[w], claim, ClassOf[key]) = {}
  PROVE  Edits(w)
<1>1. PICK n \in Ids :
        /\ NewCandidate(w, n, claim, key, "candidate", FALSE, None)
        /\ dirty' = [dirty EXCEPT ![w] = RelatedBy(view[w], claim, "related")]
  BY DEF Found
<1>2. PICK D \in SUBSET Ids : D = RelatedBy(view[w], claim, "related")
  BY DEF RelatedBy, Active, Known
<1> QED BY <1>1, <1>2, NewCandidateEdits

LEMMA SessionSaves ==
  ASSUME IInv, NEW w \in Workers, SaveFresh(w) \/ \E i \in Ids : SaveDirty(w, i)
  PROVE  \E i \in Ids : Saves(w, i)
<1>1. CASE SaveFresh(w)
  <2>1. /\ fresh[w] \in Ids /\ view[w][fresh[w]] # None /\ pc[w] \notin {"idle", "loaded"}
        /\ UNCHANGED <<view, pc, cur, todo, dirty>> /\ Append(w, fresh[w])
    BY <1>1 DEF SaveFresh, IInv, TypeOK, WorkIsKnown, IdleOwesNothing, Saved
  <2> QED BY <2>1 DEF Saves
<1>2. ASSUME NEW i \in Ids, SaveDirty(w, i) PROVE Saves(w, i)
  BY <1>2 DEF SaveDirty, Saves, IInv, TypeOK, WorkIsKnown, IdleOwesNothing, Saved
<1> QED BY <1>1, <1>2

LEMMA ConsolidateBeginEdits ==
  ASSUME IInv, CleanInv, NEW w \in Workers, ConsolidateBegin(w)
  PROVE  Edits(w)
<1>1. PICK D \in SUBSET Ids : D = Active(view[w])
  BY DEF Active, Known
<1>2. cur' = [cur EXCEPT ![w] = None]
  BY DEF ConsolidateBegin, IInv, TypeOK, CleanInv, AtHand
<1>3. \A j \in D : IsActive(view[w][j]) /\ j # None
  BY <1>1, NoneAssumption DEF Active, Known, IsActive
<1>4. /\ pc' = [pc EXCEPT ![w] = "work"] /\ pc[w] # "idle" /\ todo' = [todo EXCEPT ![w] = D]
      /\ UNCHANGED <<disk, view, dirty>>
  BY <1>1 DEF ConsolidateBegin
<1> QED BY <1>2, <1>3, <1>4, DecideEdits

LEMMA DenyEdits ==
  ASSUME IInv, CleanInv, NEW w \in Workers, Deny(w)
  PROVE  Edits(w)
<1>1. PICK D \in SUBSET Ids : D = todo[w]
  BY DEF IInv, TypeOK
<1>2. todo' = [todo EXCEPT ![w] = D]
  BY <1>1 DEF Deny, IInv, TypeOK
<1>3. \A j \in D : IsActive(view[w][j]) /\ j # None
  BY <1>1, NoneAssumption DEF CleanInv, TodoActive
<1>4. /\ pc' = [pc EXCEPT ![w] = "work"] /\ pc[w] # "idle" /\ cur' = [cur EXCEPT ![w] = None]
      /\ UNCHANGED <<disk, view, dirty>>
  BY DEF Deny
<1> QED BY <1>2, <1>3, <1>4, DecideEdits

\* The kinds of steps are all there are.
LEMMA StepKinds ==
  ASSUME IInv, CleanInv, [Next]_vars
  PROVE  \/ \E w \in Workers : Load(w) \/ Finish(w) \/ Edits(w) \/ \E i \in Ids : Saves(w, i)
         \/ Crash
         \/ Still
<1>1. ASSUME NEW w \in Workers, NEW claim \in Claims, NEW key \in Keys,
             NEW disputed \in BOOLEAN, Ingest(w, claim, key, disputed)
      PROVE  Edits(w)
  <2>1. Ingesting(w)
    BY <1>1 DEF Ingest, Ingesting
  <2> QED BY <1>1, <2>1, ChallengeEdits, MergeEdits, FoundEdits DEF Ingest
<1>2. ASSUME NEW w \in Workers, Progress(w)
      PROVE  Finish(w) \/ Edits(w) \/ \E i \in Ids : Saves(w, i)
  BY <1>2, SessionSaves, ConsolidateOneEdits, CommitEdits, DenyEdits DEF Progress
<1>3. ASSUME NEW i \in Ids, Age(i) PROVE Still
  BY <1>3 DEF Age, Still, session
<1>4. UNCHANGED vars => Still
  BY DEF vars, Still, disk, file
<1> QED BY <1>1, <1>2, <1>3, <1>4, ConsolidateBeginEdits, ManualEdits DEF Next

LEMMA FinishLeaves ==
  ASSUME IInv, CleanInv, NEW w \in Workers, Finish(w)
  PROVE  Leaves({w})
BY DEF Finish, Leaves, disk, file, IInv, TypeOK, CleanInv, AtHand, Saved

LEMMA CrashLeaves ==
  ASSUME IInv, Crash
  PROVE  Leaves(Workers)
<1>1. \A v \in Workers : \A c \in dirty[v] : view[v][c].contra => c \in dropped'
  BY DEF Crash, Contradicted, IInv, TypeOK
<1> QED BY <1>1 DEF Crash, Leaves

LEMMA CleanNext == IInv /\ CleanInv /\ [Next]_vars => CleanInv'
<1> SUFFICES ASSUME IInv, CleanInv, [Next]_vars PROVE CleanInv'
  OBVIOUS
<1>1. \A w \in Workers : {w} \in SUBSET Workers
  OBVIOUS
<1> QED BY <1>1, StepKinds, CleanLoad, CleanEdits, CleanSaves, CleanLeaves, CleanStill,
           FinishLeaves, CrashLeaves

LEMMA ShareNext == IInv /\ CleanInv /\ ShareInv /\ [Next]_vars => ShareInv'
<1> SUFFICES ASSUME IInv, CleanInv, ShareInv, [Next]_vars PROVE ShareInv'
  OBVIOUS
<1>1. TypeOK'
  BY NextIInv DEF IInv
<1>2. \A w \in Workers : {w} \in SUBSET Workers
  OBVIOUS
<1> QED BY <1>1, <1>2, StepKinds, ShareLoad, ShareEdits, ShareSaves, ShareLeaves, ShareStill,
           FinishLeaves, CrashLeaves

LEMMA AnnouncedNext == IInv /\ CleanInv /\ AllAnnounced /\ [Next]_vars => AllAnnounced'
<1> SUFFICES ASSUME IInv, CleanInv, AllAnnounced, [Next]_vars PROVE AllAnnounced'
  OBVIOUS
<1>1. \A w \in Workers : {w} \in SUBSET Workers
  OBVIOUS
<1> QED BY <1>1, StepKinds, AnnouncedLoad, AnnouncedEdits, AnnouncedSaves, AnnouncedLeaves,
           AnnouncedStill, FinishLeaves, CrashLeaves

LEMMA InitDisputes == Init => CleanInv /\ ShareInv /\ AllAnnounced
<1> SUFFICES ASSUME Init PROVE CleanInv /\ ShareInv /\ AllAnnounced
  OBVIOUS
<1> USE DEF Init, EmptyLedger
<1>1. CleanInv
  BY DEF CleanInv, AllClean, Clean, StoreClean, TodoActive, AtHand
<1>2. ShareInv
  BY DEF ShareInv, ContestKept, IdleIsBlank, LoadedIsLedger, AllAgree, Agree, IsActive
<1>3. AllAnnounced
  BY DEF AllAnnounced, Announced
<1> QED BY <1>1, <1>2, <1>3

LEMMA ShareInvariance == Spec => [](IInv /\ CleanInv /\ ShareInv)
<1>1. Init => CleanInv /\ ShareInv
  BY InitDisputes
<1> QED BY <1>1, CleanNext, ShareNext, Invariance, PTL DEF Spec

-----------------------------------------------------------------------------
\* However sessions overlap, crash and lose appends, no record that anybody
\* holds is committed while it is contradicted (evaluate_candidate, _commit and
\* approve_commit in candidate_lifecycle.py).
THEOREM CommittedIsClean == Spec => []AllClean
<1>1. Init => CleanInv
  BY InitDisputes
<1> QED BY <1>1, CleanNext, Invariance, PTL DEF Spec, CleanInv

\* For any number of overlapping sessions, crashes, torn lines and failed
\* appends: a candidate whose contradiction reached the ledger is committed
\* there only if a session whose copy of that candidate was out of date saved
\* over it (candidate_lifecycle.py:10, _challenge, mark_false and _commit).
THEOREM ContradictionsBlock == Spec => []ContradictionBlocksCommit
<1>1. IInv /\ CleanInv /\ ShareInv => ContradictionBlocksCommit
  BY DEF CleanInv, AllClean, Clean, ShareInv, ContestKept, ContradictionBlocksCommit, Known,
         Unseen
<1> QED BY <1>1, ShareInvariance, PTL

\* For any number of overlapping sessions, crashes, torn lines and failed
\* appends: two active candidates contradict each other only if one was saved
\* by a session that was behind on the other (_find_topic and _challenge in
\* candidate_lifecycle.py).
THEOREM ActivesAgree == Spec => []ActiveAgree
<1>1. ShareInv => ActiveAgree
  BY DEF ShareInv, AllAgree, Agree, IsActive, ActiveAgree, Active, Known, Unseen
<1> QED BY <1>1, ShareInvariance, PTL

\* For any number of overlapping sessions, crashes, torn lines and failed
\* appends: the incumbent of a challenger on file is on file as contradicted,
\* or a session is still saving that, or the contradiction was never written,
\* or it was saved over unseen (_challenge appends the challenger first).
THEOREM DisputesHaveTwoSides == Spec => []DisputeHasTwoSides
<1>1. Init => AllAnnounced
  BY InitDisputes
<1>2. ShareInv /\ AllAnnounced => DisputeHasTwoSides
  BY DEF ShareInv, ContestKept, AllAnnounced, Announced, Pending, DisputeHasTwoSides, Known,
         Unseen
<1> QED BY <1>1, <1>2, AnnouncedNext, ShareInvariance, PTL DEF Spec
=============================================================================
