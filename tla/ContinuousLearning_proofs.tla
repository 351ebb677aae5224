---------------------- MODULE ContinuousLearning_proofs ----------------------
(***************************************************************************)
(* Proofs about the learning ledgers, for any number of request threads,   *)
(* values, operations and crashes, and every threshold: what is promoted   *)
(* was earned, and short of overlap and crash the ledger is exact.         *)
(***************************************************************************)
EXTENDS Learning, TLAPS

\* A thread that has a value to write or to store has it at hand.
ValueAtHand ==
  \A t \in Threads :
    pc[t] \in {"save", "cut", "mirror", "promoted", "disputed"} => value[t] \in Values

\* No copy of the ledger, on disk or in a thread, holds more evidence for a value
\* than was ever given for it, and no thread promotes one that has too little.
EvidenceGiven ==
  /\ \A v \in Values : candidates[v].evidence <= given[v]
  /\ \A t \in Threads, v \in Values :
       /\ rows[t][v].evidence <= given[v]
       /\ v \in todo[t] => given[v] >= Threshold
       /\ pc[t] = "promoted" /\ value[t] = v => given[v] >= Threshold

\* Short of an overlap one thread is under way.
OneAtATime ==
  \A t, u \in Threads : ~overlapped /\ pc[t] # "idle" /\ pc[u] # "idle" => t = u

\* Rows say what was earned, and facts.jsonl has one line for each committed one.
Exact(c) ==
  \A v \in Values : /\ c[v].evidence = earned[v]
                    /\ facts[v] = IF c[v].status = "committed" THEN 1 ELSE 0

\* The copy that counts: the file between operations, the rows of the thread
\* that is to write them; a forget leaves facts.jsonl for its next step, and
\* what is still to be promoted has no line yet.
RowsCount == {"save", "cut", "promote", "promoted", "saveAll", "cutAll"}

ExactAt(t) ==
  /\ pc[t] \in RowsCount => Exact(rows[t])
  /\ pc[t] = "forget1" => candidates = Learn!Empty /\ \A v \in Values : earned[v] = 0
  /\ pc[t] \notin RowsCount \cup {"forget1"} => Exact(candidates)
  /\ \A v \in todo[t] : rows[t][v].status # "committed"

AllExact == (Learn!Quiet => Exact(candidates)) /\ \A t \in Threads : pc[t] # "idle" => ExactAt(t)

IdleOwesNothing == \A t \in Threads : pc[t] \notin {"promote", "promoted"} => todo[t] = {}

IInv ==
  /\ Learn!TypeOK /\ ValueAtHand /\ EvidenceGiven /\ Learn!PromotionEarned
  /\ OneAtATime /\ IdleOwesNothing
  /\ overlapped \/ crashes > 0 \/ AllExact

-----------------------------------------------------------------------------
LEMMA EmptyRows ==
  /\ Learn!NoRow \in Learn!Row /\ Learn!Empty \in [Values -> Learn!Row]
  /\ \A v \in Values : Learn!Empty[v].evidence = 0 /\ Learn!Empty[v].status # "committed"
BY DEF Learn!Empty, Learn!NoRow, Learn!Row, Learn!Statuses

LEMMA InitHolds == ASSUME Learn!Numbers, Learn!Init PROVE IInv
<1>1. Learn!TypeOK
  <2>1. ops \in 0..MaxOps /\ crashes \in 0..MaxCrashes
    BY DEF Learn!Init, Learn!Numbers
  <2> QED BY <2>1, EmptyRows DEF Learn!Init, Learn!TypeOK, Learn!Pcs
<1>2. ValueAtHand /\ OneAtATime /\ Learn!PromotionEarned /\ IdleOwesNothing
  BY DEF Learn!Init, ValueAtHand, OneAtATime, Learn!PromotionEarned, IdleOwesNothing
<1>3. EvidenceGiven
  BY EmptyRows DEF Learn!Init, EvidenceGiven
<1>4. AllExact
  BY EmptyRows DEF Learn!Init, AllExact, Exact
<1> QED BY <1>1, <1>2, <1>3, <1>4 DEF IInv

-----------------------------------------------------------------------------
\* A request begins: from now on it is alone, or there is an overlap.
LEMMA BeginAlone ==
  ASSUME Learn!Numbers, IInv, NEW t \in Threads, Learn!Begin(t)
  PROVE  /\ pc[t] = "idle" /\ overlapped' \in BOOLEAN
         /\ ops' \in 0..MaxOps
         /\ overlapped => overlapped'
         /\ ~overlapped' => \A u \in Threads : pc[u] = "idle"
         /\ todo[t] = {}
<1>1. overlapped' \in BOOLEAN
  BY DEF Learn!Begin
<1>2. ops \in 0..MaxOps /\ MaxOps \in Nat /\ ops' \in 0..MaxOps
  BY DEF Learn!Numbers, IInv, Learn!TypeOK, Learn!Begin
<1> QED BY <1>1, <1>2 DEF IInv, Learn!Begin, IdleOwesNothing

\* What the thread t does leaves the others where they are.
OnlyMoves(t, place) ==
  /\ DOMAIN pc' = Threads /\ pc'[t] = place
  /\ \A u \in Threads \ {t} :
       pc'[u] = pc[u] /\ value'[u] = value[u] /\ rows'[u] = rows[u] /\ todo'[u] = todo[u]

\* The parts of the invariant about one thread at a time.
LEMMA Alone ==
  ASSUME IInv, NEW t \in Threads, NEW place,
         OnlyMoves(t, place),
         \/ overlapped' = overlapped /\ (place = "idle" \/ pc[t] # "idle")
         \/ ~overlapped' => \A u \in Threads : pc[u] = "idle",
         overlapped => overlapped'
  PROVE  OneAtATime'
BY DEF IInv, OneAtATime, OnlyMoves

\* The part about the exact ledger, when t is the one thread under way.
LEMMA Exactly ==
  ASSUME IInv, NEW t \in Threads, NEW place, OnlyMoves(t, place), OneAtATime',
         crashes' = crashes, overlapped => overlapped', ~overlapped' => 
           (\A u \in Threads \ {t} : pc[u] = "idle"),
         AllExact /\ ~overlapped' => IF place = "idle" THEN Exact(candidates)' ELSE ExactAt(t)'
  PROVE  overlapped' \/ crashes' > 0 \/ AllExact'
<1>1. CASE overlapped' \/ crashes > 0
  BY <1>1
<1>2. CASE ~overlapped' /\ ~(crashes > 0)
  <2>1. AllExact
    BY <1>2 DEF IInv
  <2>2. \A u \in Threads \ {t} : pc'[u] = "idle"
    BY <1>2 DEF OnlyMoves
  <2> QED BY <2>1, <2>2 DEF AllExact, OnlyMoves, Learn!Quiet
<1> QED BY <1>1, <1>2

-----------------------------------------------------------------------------
\* The ledger of candidates.

LEMMA UpsertStep ==
  ASSUME Learn!Numbers, IInv, NEW t \in Threads, NEW v \in Values, NEW w \in 1..MaxWeight,
         Learn!Upsert(t, v, w)
  PROVE  IInv'
<1> USE DEF Learn!files, Learn!Upsert, Learn!At
<1>0. /\ pc[t] = "idle" /\ overlapped' \in BOOLEAN /\ ops' \in 0..MaxOps
      /\ overlapped => overlapped'
      /\ ~overlapped' => \A u \in Threads : pc[u] = "idle"
      /\ todo[t] = {}
  BY BeginAlone
<1>1. w \in Nat /\ \A x \in Values : given[x] \in Nat /\ earned[x] \in Nat
  BY DEF Learn!Numbers, IInv, Learn!TypeOK
<1> DEFINE new == Learn!Upserted(candidates[v], w)
<1>2. /\ candidates[v] \in Learn!Row /\ new \in Learn!Row
      /\ new.evidence = candidates[v].evidence + w
      /\ new.status = "committed" <=> candidates[v].status = "committed"
  <2>1. candidates[v] \in Learn!Row
    BY DEF IInv, Learn!TypeOK
  <2> QED BY <1>1, <2>1 DEF Learn!Upserted, Learn!Row, Learn!Statuses
<1> HIDE DEF new
<1>3. /\ rows' = [rows EXCEPT ![t] = [candidates EXCEPT ![v] = new]]
      /\ candidates \in [Values -> Learn!Row] /\ rows \in [Threads -> [Values -> Learn!Row]]
  BY DEF new, IInv, Learn!TypeOK
<1>4. rows'[t] \in [Values -> Learn!Row]
      /\ \A x \in Values : rows'[t][x] = IF x = v THEN new ELSE candidates[x]
  BY <1>2, <1>3
<1>5. OnlyMoves(t, "save") /\ value'[t] = v
  BY <1>3 DEF OnlyMoves, IInv, Learn!TypeOK
<1>6. Learn!TypeOK'
  <2>1. given' \in [Values -> Nat] /\ earned' \in [Values -> Nat]
    BY <1>1 DEF IInv, Learn!TypeOK
  <2>2. rows' \in [Threads -> [Values -> Learn!Row]]
    BY <1>2, <1>3
  <2>3. pc' \in [Threads -> Learn!Pcs] /\ value' \in [Threads -> Values \cup {NoValue}]
    BY DEF IInv, Learn!TypeOK, Learn!Pcs
  <2> QED BY <1>0, <2>1, <2>2, <2>3 DEF IInv, Learn!TypeOK
<1>7. ValueAtHand' /\ IdleOwesNothing'
  BY <1>0, <1>5 DEF ValueAtHand, IdleOwesNothing, OnlyMoves, IInv
<1>8. \A x \in Values : /\ given'[x] \in Nat /\ earned'[x] \in Nat
                        /\ given'[x] = IF x = v THEN given[x] + w ELSE given[x]
                        /\ earned'[x] = IF x = v THEN earned[x] + w ELSE earned[x]
  BY <1>1 DEF IInv, Learn!TypeOK
<1>9. \A x \in Values : given[x] <= given'[x]
  BY <1>1, <1>8
<1>10. \A x \in Values : candidates[x].evidence \in Nat /\ candidates[x].evidence <= given[x]
  BY DEF IInv, Learn!TypeOK, Learn!Row, EvidenceGiven
<1>11. EvidenceGiven'
  <2>1. \A x \in Values : candidates'[x].evidence <= given'[x]
    BY <1>1, <1>8, <1>10
  <2>2. ASSUME NEW u \in Threads, NEW x \in Values
        PROVE  /\ rows'[u][x].evidence <= given'[x]
               /\ x \in todo'[u] => given'[x] >= Threshold
               /\ pc'[u] = "promoted" /\ value'[u] = x => given'[x] >= Threshold
    <3>1. CASE u = t
      BY <1>0, <1>1, <1>2, <1>4, <1>5, <1>8, <1>10, <3>1 DEF OnlyMoves
    <3>2. CASE u # t
      <4>1. /\ rows[u][x].evidence <= given[x]
            /\ x \in todo[u] => given[x] >= Threshold
            /\ pc[u] = "promoted" /\ value[u] = x => given[x] >= Threshold
        BY DEF IInv, EvidenceGiven
      <4>2. rows[u][x].evidence \in Nat /\ Threshold \in Nat
        BY DEF IInv, Learn!TypeOK, Learn!Row, Learn!Numbers
      <4> QED BY <1>1, <1>5, <1>8, <1>9, <3>2, <4>1, <4>2 DEF OnlyMoves
    <3> QED BY <3>1, <3>2
  <2> QED BY <2>1, <2>2 DEF EvidenceGiven
<1>12. Learn!PromotionEarned'
  BY <1>1, <1>8, <1>9 DEF IInv, Learn!PromotionEarned, Learn!Numbers
<1>13. OneAtATime'
  BY <1>0, <1>5, Alone
<1>14. AllExact /\ ~overlapped' => ExactAt(t)'
  <2>1. SUFFICES ASSUME AllExact, ~overlapped' PROVE Exact(rows[t])'
    BY <1>0, <1>5 DEF ExactAt, OnlyMoves, RowsCount
  <2>2. Exact(candidates)
    BY <1>0, <2>1 DEF AllExact, Learn!Quiet
  <2>3. \A x \in Values : rows'[t][x].evidence = earned'[x]
    BY <1>2, <1>4, <1>8, <2>2 DEF Exact
  <2>4. \A x \in Values : facts'[x] = IF rows'[t][x].status = "committed" THEN 1 ELSE 0
    BY <1>2, <1>4, <2>2 DEF Exact
  <2> QED BY <2>3, <2>4 DEF Exact
<1> QED BY <1>0, <1>5, <1>6, <1>7, <1>11, <1>12, <1>13, <1>14, Exactly DEF IInv

\* Evidence is neither given nor forgotten by the other steps of a thread.
LEMMA EvidenceStays ==
  ASSUME IInv, NEW t \in Threads, NEW place, OnlyMoves(t, place), UNCHANGED given,
         \A v \in Values :
           /\ candidates'[v].evidence <= given[v]
           /\ rows'[t][v].evidence <= given[v]
           /\ v \in todo'[t] => given[v] >= Threshold
           /\ place = "promoted" /\ value'[t] = v => given[v] >= Threshold
  PROVE  EvidenceGiven'
<1>1. ASSUME NEW u \in Threads, NEW v \in Values
      PROVE  /\ rows'[u][v].evidence <= given[v]
             /\ v \in todo'[u] => given[v] >= Threshold
             /\ pc'[u] = "promoted" /\ value'[u] = v => given[v] >= Threshold
  <2>1. CASE u = t
    BY <2>1 DEF OnlyMoves
  <2>2. CASE u # t
    BY <2>2 DEF OnlyMoves, IInv, EvidenceGiven
  <2> QED BY <2>1, <2>2
<1> QED BY <1>1 DEF EvidenceGiven

\* A thread that is done has forgotten its locals.
LEMMA DoneMoves ==
  ASSUME IInv, NEW t \in Threads, Learn!Done(t)
  PROVE  /\ OnlyMoves(t, "idle") /\ rows'[t] = Learn!Empty /\ todo'[t] = {}
         /\ pc' \in [Threads -> Learn!Pcs] /\ value' \in [Threads -> Values \cup {NoValue}]
         /\ rows' \in [Threads -> [Values -> Learn!Row]] /\ todo' \in [Threads -> SUBSET Values]
         /\ ValueAtHand' /\ IdleOwesNothing'
<1>1. /\ OnlyMoves(t, "idle") /\ rows'[t] = Learn!Empty /\ todo'[t] = {}
      /\ pc' \in [Threads -> Learn!Pcs] /\ value' \in [Threads -> Values \cup {NoValue}]
      /\ rows' \in [Threads -> [Values -> Learn!Row]] /\ todo' \in [Threads -> SUBSET Values]
  BY EmptyRows DEF Learn!Done, Learn!At, OnlyMoves, IInv, Learn!TypeOK, Learn!Pcs
<1>2. ValueAtHand' /\ IdleOwesNothing'
  BY <1>1 DEF ValueAtHand, IdleOwesNothing, OnlyMoves, IInv
<1> QED BY <1>1, <1>2

LEMMA DoneEvidence ==
  ASSUME IInv, NEW t \in Threads, Learn!Done(t), UNCHANGED given,
         \A v \in Values : candidates'[v].evidence <= given[v]
  PROVE  EvidenceGiven'
<1>1. \A v \in Values : given[v] \in Nat /\ 0 <= given[v]
  BY DEF IInv, Learn!TypeOK
<1> QED BY <1>1, DoneMoves, EmptyRows, EvidenceStays

\* Between the beginning of an operation and its end, t is the one under way.
LEMMA UnderWay ==
  ASSUME IInv, NEW t \in Threads, pc[t] # "idle"
  PROVE  /\ ~overlapped => \A u \in Threads \ {t} : pc[u] = "idle"
         /\ AllExact => ExactAt(t)
BY DEF IInv, OneAtATime, AllExact

\* Short of a new promotion in the ledger or in the memory service, what is
\* promoted was earned before.
LEMMA StaysEarned ==
  ASSUME IInv, UNCHANGED given,
         \A v \in Values : \/ facts'[v] = facts[v]
                           \/ facts'[v] = 0
                           \/ given[v] >= Threshold,
         \A v \in Values : \/ <<v, "committed">> \in service' => <<v, "committed">> \in service
                           \/ given[v] >= Threshold
  PROVE  Learn!PromotionEarned'
BY DEF IInv, Learn!PromotionEarned

-----------------------------------------------------------------------------
\* The files are rewritten.

LEMMA TruncateStep ==
  ASSUME Learn!Numbers, IInv, NEW t \in Threads, Learn!Truncate(t)
  PROVE  IInv'
<1> DEFINE place == IF pc[t] = "save" THEN "cut" ELSE "cutAll"
<1>1. /\ UNCHANGED <<facts, archive, service, buffer, value, rows, todo, ops, crashes,
                     earned, given, overlapped>>
      /\ candidates' = Learn!Empty /\ pc[t] \in {"save", "saveAll"} /\ place \in {"cut", "cutAll"}
      /\ pc' = [pc EXCEPT ![t] = place]
  BY DEF Learn!Truncate, Learn!At, Learn!history
<1>2. OnlyMoves(t, place)
  BY <1>1 DEF OnlyMoves, IInv, Learn!TypeOK
<1>3. Learn!TypeOK'
  BY <1>1, EmptyRows DEF IInv, Learn!TypeOK, Learn!Pcs
<1>4. ValueAtHand' /\ IdleOwesNothing'
  BY <1>1, <1>2 DEF ValueAtHand, IdleOwesNothing, OnlyMoves, IInv
<1>5. \A v \in Values : given[v] \in Nat /\ 0 <= given[v]
  BY DEF IInv, Learn!TypeOK
<1>6. EvidenceGiven'
  BY <1>1, <1>2, <1>5, EmptyRows, EvidenceStays DEF IInv, EvidenceGiven
<1>7. Learn!PromotionEarned'
  BY <1>1, StaysEarned
<1>8. OneAtATime'
  BY <1>1, <1>2, Alone
<1>9. AllExact => ExactAt(t)'
  BY <1>1, <1>2, UnderWay DEF ExactAt, OnlyMoves, RowsCount, Exact
<1>10. overlapped' \/ crashes' > 0 \/ AllExact'
  BY <1>1, <1>2, <1>8, <1>9, UnderWay, Exactly
<1> QED BY <1>3, <1>4, <1>6, <1>7, <1>8, <1>10 DEF IInv

LEMMA WriteStep ==
  ASSUME Learn!Numbers, IInv, NEW t \in Threads, Learn!Write(t)
  PROVE  IInv'
<1>1. /\ UNCHANGED <<facts, archive, service, buffer, ops, crashes, earned, given, overlapped>>
      /\ candidates' = rows[t] /\ pc[t] \in {"cut", "cutAll"}
      /\ candidates' \in [Values -> Learn!Row]
  BY DEF Learn!Write, Learn!history, IInv, Learn!TypeOK
<1>2. \A v \in Values : candidates'[v].evidence <= given[v]
  BY <1>1 DEF IInv, EvidenceGiven
<1>3. Learn!PromotionEarned'
  BY <1>1, StaysEarned
<1>4. AllExact => Exact(candidates)'
  BY <1>1, UnderWay DEF ExactAt, RowsCount, Exact
<1>5. CASE pc[t] = "cut"
  <2>1. pc' = [pc EXCEPT ![t] = "mirror"] /\ UNCHANGED <<value, rows, todo>>
    BY <1>5 DEF Learn!Write, Learn!At
  <2>2. OnlyMoves(t, "mirror")
    BY <2>1 DEF OnlyMoves, IInv, Learn!TypeOK
  <2>3. Learn!TypeOK'
    BY <1>1, <2>1 DEF IInv, Learn!TypeOK, Learn!Pcs
  <2>4. ValueAtHand' /\ IdleOwesNothing'
    BY <1>5, <2>1, <2>2 DEF ValueAtHand, IdleOwesNothing, OnlyMoves, IInv
  <2>5. EvidenceGiven'
    BY <1>1, <1>2, <2>1, <2>2, EvidenceStays DEF IInv, EvidenceGiven
  <2>6. OneAtATime'
    BY <1>1, <2>2, Alone
  <2>7. AllExact => ExactAt(t)'
    BY <1>1, <1>4, <1>5, <2>1, <2>2 DEF ExactAt, OnlyMoves, RowsCount, IInv, IdleOwesNothing
  <2>8. overlapped' \/ crashes' > 0 \/ AllExact'
    BY <1>1, <2>2, <2>6, <2>7, UnderWay, Exactly
  <2> QED BY <1>3, <2>3, <2>4, <2>5, <2>6, <2>8 DEF IInv
<1>6. CASE pc[t] = "cutAll"
  <2>1. Learn!Done(t)
    BY <1>6 DEF Learn!Write
  <2>2. Learn!TypeOK'
    BY <1>1, <2>1, DoneMoves DEF IInv, Learn!TypeOK
  <2>3. EvidenceGiven'
    BY <1>1, <1>2, <2>1, DoneEvidence
  <2>4. OneAtATime'
    BY <1>1, <2>1, DoneMoves, Alone
  <2>5. overlapped' \/ crashes' > 0 \/ AllExact'
    BY <1>1, <1>4, <2>1, <2>4, DoneMoves, UnderWay, Exactly
  <2> QED BY <1>3, <2>1, <2>2, <2>3, <2>4, <2>5, DoneMoves DEF IInv
<1> QED BY <1>1, <1>5, <1>6

\* A stored fact ends an upsert and a dispute.
LEMMA MirrorSteps ==
  ASSUME Learn!Numbers, IInv, NEW t \in Threads, Learn!Mirror(t) \/ Learn!MarkDisputed(t)
  PROVE  IInv'
<1>1. PICK tier \in Learn!Tiers \ {"committed"} : Learn!TryStore(value[t], tier)
  BY DEF Learn!Mirror, Learn!MarkDisputed, Learn!Tiers
<1>2. /\ UNCHANGED <<candidates, facts, archive, buffer, ops, crashes, earned, given, overlapped>>
      /\ Learn!Done(t) /\ pc[t] \in {"mirror", "disputed"}
  BY DEF Learn!Mirror, Learn!MarkDisputed, Learn!files, Learn!history
<1>3. value[t] \in Values /\ service' \subseteq service \cup {<<value[t], tier>>}
  BY <1>1, <1>2 DEF IInv, ValueAtHand, Learn!TryStore
<1>4. Learn!TypeOK'
  <2>1. service' \subseteq Values \X Learn!Tiers
    BY <1>1, <1>3 DEF IInv, Learn!TypeOK
  <2> QED BY <1>2, <2>1, DoneMoves DEF IInv, Learn!TypeOK
<1>5. EvidenceGiven'
  BY <1>2, DoneEvidence DEF IInv, EvidenceGiven
<1>6. Learn!PromotionEarned'
  BY <1>1, <1>2, <1>3, StaysEarned
<1>7. OneAtATime'
  BY <1>2, DoneMoves, Alone
<1>8. AllExact => Exact(candidates)'
  BY <1>2, UnderWay DEF ExactAt, RowsCount, Exact
<1>9. overlapped' \/ crashes' > 0 \/ AllExact'
  BY <1>2, <1>7, <1>8, DoneMoves, UnderWay, Exactly
<1> QED BY <1>2, <1>4, <1>5, <1>6, <1>7, <1>9, DoneMoves DEF IInv

LEMMA DisputeStep ==
  ASSUME Learn!Numbers, IInv, NEW t \in Threads, NEW v \in Values, Learn!Dispute(t, v)
  PROVE  IInv'
<1>0. /\ pc[t] = "idle" /\ overlapped' \in BOOLEAN /\ ops' \in 0..MaxOps
      /\ overlapped => overlapped'
      /\ ~overlapped' => \A u \in Threads : pc[u] = "idle"
      /\ todo[t] = {}
  BY BeginAlone DEF Learn!Dispute
<1>1. /\ UNCHANGED <<candidates, facts, service, buffer, rows, todo, crashes, earned, given>>
      /\ archive' = archive \cup {v} /\ pc' = [pc EXCEPT ![t] = "disputed"]
      /\ value' = [value EXCEPT ![t] = v]
  BY DEF Learn!Dispute, Learn!At
<1>2. OnlyMoves(t, "disputed") /\ value'[t] = v
  BY <1>1 DEF OnlyMoves, IInv, Learn!TypeOK
<1>3. Learn!TypeOK'
  BY <1>0, <1>1 DEF IInv, Learn!TypeOK, Learn!Pcs
<1>4. ValueAtHand' /\ IdleOwesNothing'
  BY <1>0, <1>1, <1>2 DEF ValueAtHand, IdleOwesNothing, OnlyMoves, IInv
<1>5. EvidenceGiven'
  BY <1>1, <1>2, EvidenceStays DEF IInv, EvidenceGiven
<1>6. Learn!PromotionEarned'
  BY <1>1, StaysEarned
<1>7. OneAtATime'
  BY <1>0, <1>2, Alone
<1>8. AllExact /\ ~overlapped' => ExactAt(t)'
  BY <1>0, <1>1, <1>2 DEF AllExact, Learn!Quiet, ExactAt, RowsCount, Exact, OnlyMoves
<1>9. overlapped' \/ crashes' > 0 \/ AllExact'
  BY <1>0, <1>1, <1>2, <1>7, <1>8, Exactly
<1> QED BY <1>3, <1>4, <1>5, <1>6, <1>7, <1>9 DEF IInv

-----------------------------------------------------------------------------
\* Consolidation.

LEMMA ConsolidateStep ==
  ASSUME Learn!Numbers, IInv, NEW t \in Threads, Learn!Consolidate(t)
  PROVE  IInv'
<1>0. /\ pc[t] = "idle" /\ overlapped' \in BOOLEAN /\ ops' \in 0..MaxOps
      /\ overlapped => overlapped'
      /\ ~overlapped' => \A u \in Threads : pc[u] = "idle"
  BY BeginAlone DEF Learn!Consolidate
<1>1. /\ UNCHANGED <<candidates, facts, archive, service, buffer, value, crashes, earned, given>>
      /\ rows' = [rows EXCEPT ![t] = candidates] /\ pc' = [pc EXCEPT ![t] = "promote"]
      /\ todo' = [todo EXCEPT ![t] = {v \in Values : Learn!Ripe(candidates[v])}]
  BY DEF Learn!Consolidate, Learn!At, Learn!files
<1>2. /\ OnlyMoves(t, "promote") /\ rows'[t] = candidates
      /\ todo'[t] = {v \in Values : Learn!Ripe(candidates[v])}
  BY <1>1 DEF OnlyMoves, IInv, Learn!TypeOK
<1>3. Learn!TypeOK'
  BY <1>0, <1>1 DEF IInv, Learn!TypeOK, Learn!Pcs
<1>4. ValueAtHand' /\ IdleOwesNothing'
  BY <1>0, <1>1, <1>2 DEF ValueAtHand, IdleOwesNothing, OnlyMoves, IInv
<1>5. EvidenceGiven'
  <2>1. \A v \in Values : /\ candidates[v].evidence \in Nat /\ given[v] \in Nat
                          /\ candidates[v].evidence <= given[v]
    BY DEF IInv, Learn!TypeOK, Learn!Row, EvidenceGiven
  <2>2. \A v \in todo'[t] : given[v] >= Threshold
    BY <1>2, <2>1 DEF Learn!Ripe, Learn!Numbers
  <2> QED BY <1>1, <1>2, <2>1, <2>2, EvidenceStays
<1>6. Learn!PromotionEarned'
  BY <1>1, StaysEarned
<1>7. OneAtATime'
  BY <1>0, <1>2, Alone
<1>8. AllExact /\ ~overlapped' => ExactAt(t)'
  BY <1>0, <1>1, <1>2 DEF AllExact, Learn!Quiet, ExactAt, RowsCount, Exact, OnlyMoves, Learn!Ripe
<1>9. overlapped' \/ crashes' > 0 \/ AllExact'
  BY <1>0, <1>1, <1>2, <1>7, <1>8, Exactly
<1> QED BY <1>3, <1>4, <1>5, <1>6, <1>7, <1>9 DEF IInv

LEMMA PromoteStep ==
  ASSUME Learn!Numbers, IInv, NEW t \in Threads, NEW v \in Values, Learn!Promote(t, v)
  PROVE  IInv'
<1>1. /\ UNCHANGED <<candidates, archive, service, buffer, ops, crashes, earned, given,
                      overlapped>>
      /\ pc[t] = "promote" /\ v \in todo[t]
      /\ rows' = [rows EXCEPT ![t][v].status = "committed"]
      /\ facts' = [facts EXCEPT ![v] = @ + 1]
      /\ todo' = [todo EXCEPT ![t] = @ \ {v}]
      /\ value' = [value EXCEPT ![t] = v]
      /\ pc' = [pc EXCEPT ![t] = "promoted"]
  BY DEF Learn!Promote, Learn!At, Learn!history
<1>2. given[v] >= Threshold
  BY <1>1 DEF IInv, EvidenceGiven
<1>3. /\ rows[t] \in [Values -> Learn!Row] /\ rows'[t] \in [Values -> Learn!Row]
      /\ \A x \in Values : /\ rows'[t][x].evidence = rows[t][x].evidence
                           /\ x # v => rows'[t][x] = rows[t][x]
      /\ rows'[t][v].status = "committed"
  <2>1. rows \in [Threads -> [Values -> Learn!Row]] /\ rows[t][v] \in Learn!Row
    BY DEF IInv, Learn!TypeOK
  <2>2. rows'[t] = [rows[t] EXCEPT ![v] = [rows[t][v] EXCEPT !.status = "committed"]]
    BY <1>1, <2>1
  <2>3. /\ [rows[t][v] EXCEPT !.status = "committed"] \in Learn!Row
        /\ [rows[t][v] EXCEPT !.status = "committed"].evidence = rows[t][v].evidence
        /\ [rows[t][v] EXCEPT !.status = "committed"].status = "committed"
    BY <2>1 DEF Learn!Row, Learn!Statuses
  <2> QED BY <2>1, <2>2, <2>3
<1>4. OnlyMoves(t, "promoted") /\ value'[t] = v /\ todo'[t] = todo[t] \ {v}
  BY <1>1 DEF OnlyMoves, IInv, Learn!TypeOK
<1>5. Learn!TypeOK'
  <2>1. rows' \in [Threads -> [Values -> Learn!Row]]
    BY <1>1, <1>3 DEF IInv, Learn!TypeOK
  <2>2. facts' \in [Values -> Nat]
    BY <1>1 DEF IInv, Learn!TypeOK
  <2> QED BY <1>1, <2>1, <2>2 DEF IInv, Learn!TypeOK, Learn!Pcs
<1>6. ValueAtHand' /\ IdleOwesNothing'
  BY <1>1, <1>4 DEF ValueAtHand, IdleOwesNothing, OnlyMoves, IInv
<1>7. EvidenceGiven'
  <2>1. \A x \in Values : /\ candidates'[x].evidence <= given[x]
                          /\ rows'[t][x].evidence <= given[x]
                          /\ x \in todo'[t] => given[x] >= Threshold
    BY <1>1, <1>3, <1>4 DEF IInv, EvidenceGiven
  <2> QED BY <1>1, <1>2, <1>4, <2>1, EvidenceStays
<1>8. \A x \in Values : facts'[x] = IF x = v THEN facts[x] + 1 ELSE facts[x]
  BY <1>1 DEF IInv, Learn!TypeOK
<1>9. Learn!PromotionEarned'
  BY <1>1, <1>2, <1>8, StaysEarned
<1>10. OneAtATime'
  BY <1>1, <1>4, Alone
<1>11. ASSUME AllExact PROVE ExactAt(t)'
  <2>1. Exact(rows[t]) /\ rows[t][v].status # "committed"
    BY <1>1, <1>11, UnderWay DEF ExactAt, RowsCount
  <2>2. facts[v] = 0
    BY <2>1 DEF Exact
  <2>3. Exact(rows[t])'
    BY <1>1, <1>3, <1>8, <2>1, <2>2 DEF Exact
  <2>4. \A x \in todo'[t] : rows'[t][x].status # "committed"
    <3>1. todo[t] \subseteq Values
      BY DEF IInv, Learn!TypeOK
    <3>2. \A x \in todo[t] : rows[t][x].status # "committed"
      BY <1>1, <1>11, UnderWay DEF ExactAt
    <3> QED BY <1>3, <1>4, <3>1, <3>2
  <2> QED BY <1>4, <2>3, <2>4 DEF ExactAt, OnlyMoves, RowsCount
<1>12. overlapped' \/ crashes' > 0 \/ AllExact'
  BY <1>1, <1>4, <1>10, <1>11, UnderWay, Exactly
<1> QED BY <1>5, <1>6, <1>7, <1>9, <1>10, <1>12 DEF IInv

LEMMA StorePromotedStep ==
  ASSUME Learn!Numbers, IInv, NEW t \in Threads, Learn!StorePromoted(t)
  PROVE  IInv'
<1>1. /\ UNCHANGED <<candidates, facts, archive, buffer, value, rows, todo, ops, crashes,
                     earned, given, overlapped>>
      /\ pc[t] = "promoted" /\ pc' = [pc EXCEPT ![t] = "promote"]
      /\ service' \subseteq service \cup {<<value[t], "committed">>}
  BY DEF Learn!StorePromoted, Learn!At, Learn!files, Learn!history, Learn!TryStore
<1>2. value[t] \in Values /\ given[value[t]] >= Threshold
  BY <1>1 DEF IInv, ValueAtHand, EvidenceGiven
<1>3. OnlyMoves(t, "promote")
  BY <1>1 DEF OnlyMoves, IInv, Learn!TypeOK
<1>4. Learn!TypeOK'
  <2>1. service' \subseteq Values \X Learn!Tiers
    BY <1>1, <1>2 DEF IInv, Learn!TypeOK, Learn!Tiers
  <2> QED BY <1>1, <2>1 DEF IInv, Learn!TypeOK, Learn!Pcs
<1>5. ValueAtHand' /\ IdleOwesNothing'
  BY <1>1, <1>3 DEF ValueAtHand, IdleOwesNothing, OnlyMoves, IInv
<1>6. EvidenceGiven'
  BY <1>1, <1>3, EvidenceStays DEF IInv, EvidenceGiven
<1>7. Learn!PromotionEarned'
  BY <1>1, <1>2, StaysEarned
<1>8. OneAtATime'
  BY <1>1, <1>3, Alone
<1>9. AllExact => ExactAt(t)'
  BY <1>1, <1>3, UnderWay DEF ExactAt, OnlyMoves, RowsCount, Exact
<1>10. overlapped' \/ crashes' > 0 \/ AllExact'
  BY <1>1, <1>3, <1>8, <1>9, UnderWay, Exactly
<1> QED BY <1>4, <1>5, <1>6, <1>7, <1>8, <1>10 DEF IInv

LEMMA SaveAllStep ==
  ASSUME Learn!Numbers, IInv, NEW t \in Threads, Learn!SaveAll(t)
  PROVE  IInv'
<1>1. /\ UNCHANGED <<candidates, facts, archive, service, buffer, value, rows, todo, ops, crashes,
                     earned, given, overlapped>>
      /\ pc[t] = "promote" /\ todo[t] = {} /\ pc' = [pc EXCEPT ![t] = "saveAll"]
  BY DEF Learn!SaveAll, Learn!At, Learn!files, Learn!history
<1>3. OnlyMoves(t, "saveAll")
  BY <1>1 DEF OnlyMoves, IInv, Learn!TypeOK
<1>4. Learn!TypeOK'
  BY <1>1 DEF IInv, Learn!TypeOK, Learn!Pcs
<1>5. ValueAtHand' /\ IdleOwesNothing'
  BY <1>1, <1>3 DEF ValueAtHand, IdleOwesNothing, OnlyMoves, IInv
<1>6. EvidenceGiven'
  BY <1>1, <1>3, EvidenceStays DEF IInv, EvidenceGiven
<1>7. Learn!PromotionEarned'
  BY <1>1, StaysEarned
<1>8. OneAtATime'
  BY <1>1, <1>3, Alone
<1>9. AllExact => ExactAt(t)'
  BY <1>1, <1>3, UnderWay DEF ExactAt, OnlyMoves, RowsCount, Exact
<1>10. overlapped' \/ crashes' > 0 \/ AllExact'
  BY <1>1, <1>3, <1>8, <1>9, UnderWay, Exactly
<1> QED BY <1>4, <1>5, <1>6, <1>7, <1>8, <1>10 DEF IInv

-----------------------------------------------------------------------------
\* Forgetting.

LEMMA ForgetStep ==
  ASSUME Learn!Numbers, IInv, NEW t \in Threads, Learn!Forget(t)
  PROVE  IInv'
<1>0. /\ pc[t] = "idle" /\ overlapped' \in BOOLEAN /\ ops' \in 0..MaxOps
      /\ overlapped => overlapped'
      /\ ~overlapped' => \A u \in Threads : pc[u] = "idle"
      /\ todo[t] = {}
  BY BeginAlone DEF Learn!Forget
<1>1. /\ UNCHANGED <<facts, archive, service, buffer, value, rows, todo, crashes, given>>
      /\ candidates' = Learn!Empty /\ earned' = [v \in Values |-> 0]
      /\ pc' = [pc EXCEPT ![t] = "forget1"]
  BY DEF Learn!Forget, Learn!At
<1>2. OnlyMoves(t, "forget1")
  BY <1>1 DEF OnlyMoves, IInv, Learn!TypeOK
<1>3. Learn!TypeOK'
  BY <1>0, <1>1, EmptyRows DEF IInv, Learn!TypeOK, Learn!Pcs
<1>4. ValueAtHand' /\ IdleOwesNothing'
  BY <1>0, <1>1, <1>2 DEF ValueAtHand, IdleOwesNothing, OnlyMoves, IInv
<1>5. EvidenceGiven'
  <2>1. \A v \in Values : given[v] \in Nat /\ 0 <= given[v]
    BY DEF IInv, Learn!TypeOK
  <2> QED BY <1>1, <1>2, <2>1, EmptyRows, EvidenceStays DEF IInv, EvidenceGiven
<1>6. Learn!PromotionEarned'
  BY <1>1, StaysEarned
<1>7. OneAtATime'
  BY <1>0, <1>2, Alone
<1>8. ExactAt(t)'
  BY <1>0, <1>1, <1>2 DEF ExactAt, RowsCount, OnlyMoves
<1>9. overlapped' \/ crashes' > 0 \/ AllExact'
  BY <1>0, <1>1, <1>2, <1>7, <1>8, Exactly
<1> QED BY <1>3, <1>4, <1>5, <1>6, <1>7, <1>9 DEF IInv

LEMMA ForgetFactsStep ==
  ASSUME Learn!Numbers, IInv, NEW t \in Threads, Learn!ForgetFacts(t)
  PROVE  IInv'
<1>1. /\ UNCHANGED <<candidates, archive, service, buffer, value, rows, todo, ops, crashes,
                     earned, given, overlapped>>
      /\ pc[t] = "forget1" /\ pc' = [pc EXCEPT ![t] = "forget2"]
      /\ facts' = [v \in Values |-> 0]
  BY DEF Learn!ForgetFacts, Learn!At, Learn!history
<1>3. OnlyMoves(t, "forget2")
  BY <1>1 DEF OnlyMoves, IInv, Learn!TypeOK
<1>4. Learn!TypeOK'
  BY <1>1 DEF IInv, Learn!TypeOK, Learn!Pcs
<1>5. ValueAtHand' /\ IdleOwesNothing'
  BY <1>1, <1>3 DEF ValueAtHand, IdleOwesNothing, OnlyMoves, IInv
<1>6. EvidenceGiven'
  BY <1>1, <1>3, EvidenceStays DEF IInv, EvidenceGiven
<1>7. Learn!PromotionEarned'
  BY <1>1, StaysEarned
<1>8. OneAtATime'
  BY <1>1, <1>3, Alone
<1>9. AllExact => ExactAt(t)'
  BY <1>1, <1>3, EmptyRows, UnderWay DEF ExactAt, OnlyMoves, RowsCount, Exact
<1>10. overlapped' \/ crashes' > 0 \/ AllExact'
  BY <1>1, <1>3, <1>8, <1>9, UnderWay, Exactly
<1> QED BY <1>4, <1>5, <1>6, <1>7, <1>8, <1>10 DEF IInv

LEMMA ForgetArchiveStep ==
  ASSUME Learn!Numbers, IInv, NEW t \in Threads, Learn!ForgetArchive(t)
  PROVE  IInv'
<1>1. /\ UNCHANGED <<candidates, facts, service, buffer, ops, crashes, earned, given, overlapped>>
      /\ archive' = {} /\ Learn!Done(t) /\ pc[t] = "forget2"
  BY DEF Learn!ForgetArchive, Learn!history
<1>4. Learn!TypeOK'
  BY <1>1, DoneMoves DEF IInv, Learn!TypeOK
<1>5. EvidenceGiven'
  BY <1>1, DoneEvidence DEF IInv, EvidenceGiven
<1>6. Learn!PromotionEarned'
  BY <1>1, StaysEarned
<1>7. OneAtATime'
  BY <1>1, DoneMoves, Alone
<1>8. AllExact => Exact(candidates)'
  BY <1>1, UnderWay DEF ExactAt, RowsCount, Exact
<1>9. overlapped' \/ crashes' > 0 \/ AllExact'
  BY <1>1, <1>7, <1>8, DoneMoves, UnderWay, Exactly
<1> QED BY <1>1, <1>4, <1>5, <1>6, <1>7, <1>9, DoneMoves DEF IInv

-----------------------------------------------------------------------------
\* Teaching and the buffer touch no ledger; a crash ends every operation.

LEMMA AsideSteps ==
  ASSUME Learn!Numbers, IInv,
         \/ \E t \in Threads, v \in Values : Learn!Teach(t, v)
         \/ \E v \in Values : Learn!Unbuffer(v)
         \/ UNCHANGED Learn!vars
  PROVE  IInv'
<1>1. /\ UNCHANGED <<candidates, facts, archive, pc, value, rows, todo, crashes, earned, given>>
      /\ overlapped => overlapped'
      /\ overlapped' \in BOOLEAN /\ ops' \in 0..MaxOps
      /\ service' \subseteq Values \X Learn!Tiers /\ buffer' \subseteq Values
      /\ \A v \in Values : <<v, "committed">> \in service' => <<v, "committed">> \in service
  <2>1. ASSUME NEW t \in Threads, NEW v \in Values, Learn!Teach(t, v) PROVE <1>1!:
    <3>1. overlapped' \in BOOLEAN /\ ops' \in 0..MaxOps /\ (overlapped => overlapped')
      BY <2>1, BeginAlone DEF Learn!Teach
    <3>2. /\ \/ service' = service \cup {<<v, "user">>} /\ buffer' = buffer \cup {v}
             \/ UNCHANGED <<service, buffer>>
          /\ UNCHANGED <<candidates, facts, archive, pc, value, rows, todo, crashes, earned,
                         given>>
      BY <2>1 DEF Learn!Teach, Learn!files, Learn!threads
    <3> QED BY <3>1, <3>2 DEF IInv, Learn!TypeOK, Learn!Tiers
  <2>2. ASSUME NEW v \in Values, Learn!Unbuffer(v) PROVE <1>1!:
    BY <2>2 DEF Learn!Unbuffer, Learn!files, Learn!threads, Learn!history, IInv, Learn!TypeOK
  <2>3. ASSUME UNCHANGED Learn!vars PROVE <1>1!:
    BY <2>3 DEF Learn!vars, Learn!files, Learn!threads, Learn!history, IInv, Learn!TypeOK
  <2> QED BY <2>1, <2>2, <2>3
<1>2. Learn!TypeOK'
  BY <1>1 DEF IInv, Learn!TypeOK
<1>3. Learn!PromotionEarned'
  BY <1>1, StaysEarned
<1> QED BY <1>1, <1>2, <1>3
        DEF IInv, ValueAtHand, EvidenceGiven, OneAtATime, IdleOwesNothing, AllExact, ExactAt,
            Exact, Learn!Quiet

LEMMA CrashStep == ASSUME Learn!Numbers, IInv, Learn!Crash PROVE IInv'
<1> USE DEF Learn!Crash, Learn!files, Learn!history
<1>1. crashes' \in 0..MaxCrashes /\ crashes' > 0
  BY DEF IInv, Learn!TypeOK, Learn!Numbers
<1>2. Learn!TypeOK'
  BY <1>1, EmptyRows DEF IInv, Learn!TypeOK, Learn!Pcs
<1>3. \A v \in Values : given[v] \in Nat /\ 0 <= given[v]
  BY DEF IInv, Learn!TypeOK
<1>4. ValueAtHand' /\ IdleOwesNothing' /\ OneAtATime'
  BY DEF ValueAtHand, IdleOwesNothing, OneAtATime
<1>5. EvidenceGiven' /\ Learn!PromotionEarned'
  BY <1>3, EmptyRows DEF IInv, EvidenceGiven, Learn!PromotionEarned
<1> QED BY <1>1, <1>2, <1>4, <1>5 DEF IInv

LEMMA NextHolds == ASSUME Learn!Numbers, IInv, [Learn!Next]_(Learn!vars) PROVE IInv'
BY UpsertStep, TruncateStep, WriteStep, MirrorSteps, DisputeStep, ConsolidateStep, PromoteStep,
   StorePromotedStep, SaveAllStep, ForgetStep, ForgetFactsStep, ForgetArchiveStep, AsideSteps,
   CrashStep
DEF Learn!Next, Learn!Step

-----------------------------------------------------------------------------
\* The theorems.

\* The inductive invariant holds throughout.
THEOREM Invariance == Learn!Spec => []IInv
<1>1. Learn!Init => IInv
  BY LearnNumbers, InitHolds
<1>2. IInv /\ [Learn!Next]_(Learn!vars) => IInv'
  BY LearnNumbers, NextHolds
<1> QED BY <1>1, <1>2, PTL DEF Learn!Spec

\* A value is promoted only after Threshold evidence was given for it
\* (continuous_learning.py), whatever requests overlap and whenever the gateway
\* dies.
THEOREM PromotionsEarned == Learn!Spec => []PromotionEarned
<1>1. IInv => PromotionEarned
  BY DEF IInv, PromotionEarned
<1> QED BY <1>1, Invariance, PTL

\* Short of overlapping requests and a crash the ledger holds just the evidence
\* given since the last forget, and one promotion for each committed row.
THEOREM LedgerIsExact == Learn!Spec => []LedgerExact
<1>1. IInv => LedgerExact
  BY DEF IInv, LedgerExact, Learn!LedgerExact, AllExact, Exact
<1> QED BY <1>1, Invariance, PTL
=============================================================================
