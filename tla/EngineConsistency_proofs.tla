---------------------- MODULE EngineConsistency_proofs -----------------------
(***************************************************************************)
(* Proofs about the read/write marker, for every set of trainers and       *)
(* gateway threads and every bound.                                        *)
(***************************************************************************)
EXTENDS EngineConsistency, TLAPS

OneTrainer == \A v, w \in Writers : Alive(v) /\ Alive(w) => v = w

\* A trainer that has not started is named nowhere: no marker, and no copy of
\* one, can pass for its.
NewIsUnnamed ==
  \A w \in Writers : wpc[w] = "new" =>
    /\ marker.pid # w
    /\ \A v \in Writers : wst[v].pid # w
    /\ \A r \in Readers : rst[r].pid # w

MarkerTrue ==
  \A w \in Writers :
    InBatch(w) <=> marker.writing /\ marker.fresh /\ marker.pid = w /\ Alive(w)

\* A thread that did wait, and after whose wait no batch began, has none to meet.
Waited ==
  \A r \in Readers : rpc[r] \notin {"idle", "wait"} /\ ~timedOut[r] /\ ~late[r] =>
    \A w \in Writers : ~InBatch(w)

IInv ==
  /\ TypeOK
  /\ OneTrainer
  /\ NewIsUnnamed
  /\ Excused \/ (MarkerTrue /\ Waited)
  /\ PartialIsExplained

-----------------------------------------------------------------------------
\* Types.

LEMMA NoMarkerType == NoMarker \in Marker
BY DEF NoMarker, Marker

LEMMA InitStep == Init => IInv
<1>1. SUFFICES ASSUME Init PROVE IInv  OBVIOUS
<1> USE <1>1, NumbersAssumption DEF Init
<1>2. TypeOK
  <2>1. 0 \in 0..BatchItems /\ 0 \in 0..MaxBatches /\ 0 \in 0..MaxReads
        /\ 0 \in 0..MaxFailed /\ 0 \in 0..MaxStalls
    OBVIOUS
  <2>2. wpc \in [Writers -> WriterPcs] /\ rpc \in [Readers -> ReaderPcs]
    BY DEF WriterPcs, ReaderPcs
  <2>3. /\ marker \in Marker /\ wst \in [Writers -> Marker] /\ rst \in [Readers -> Marker]
    BY NoMarkerType
  <2> QED  BY <2>1, <2>2, <2>3 DEF TypeOK
<1>3. OneTrainer  BY DEF OneTrainer, Alive
<1>4. NewIsUnnamed  BY NoPidAssumption DEF NewIsUnnamed, NoMarker
<1>5. MarkerTrue  BY DEF MarkerTrue, InBatch, NoMarker
<1>6. Waited  BY DEF Waited
<1>7. PartialIsExplained  BY DEF PartialIsExplained
<1> QED  BY <1>2, <1>3, <1>4, <1>5, <1>6, <1>7 DEF IInv

LEMMA WriteType ==
  ASSUME TypeOK, NEW rec \in Marker, Write(rec)
  PROVE  marker' \in Marker /\ failed' \in 0..MaxFailed
BY NumbersAssumption DEF TypeOK, Write

LEMMA TrainerType ==
  ASSUME TypeOK, NEW w \in Writers, Trainer(w)
  PROVE  TypeOK'
<1> USE NumbersAssumption, NoMarkerType
<1>1. CASE Start(w)  BY <1>1 DEF Start, TypeOK, WriterPcs, threads, history
<1>2. CASE BeginRead(w)  BY <1>2 DEF BeginRead, TypeOK, WriterPcs, threads, history
<1>3. CASE BeginWrite(w)
  <2> DEFINE rec == [writing |-> TRUE, pid |-> w, batch |-> wst[w].batch + 1, fresh |-> TRUE]
  <2>1. rec \in Marker  BY DEF TypeOK, Marker
  <2>2. Write(rec)  BY <1>3 DEF BeginWrite
  <2>3. marker' \in Marker /\ failed' \in 0..MaxFailed
    <3> HIDE DEF rec
    <3> QED  BY <2>1, <2>2, WriteType
  <2>4. late' \in [Readers -> BOOLEAN]  BY <1>3 DEF BeginWrite, TypeOK
  <2>5. wpc' \in [Writers -> WriterPcs] /\ wst' \in [Writers -> Marker]
    BY <1>3 DEF BeginWrite, TypeOK, WriterPcs
  <2> QED  BY <1>3, <2>3, <2>4, <2>5 DEF BeginWrite, TypeOK, threads
<1>4. ASSUME NEW ok \in BOOLEAN, StoreItem(w, ok)
      PROVE TypeOK'
  <2>1. items' \in [Writers -> 0..BatchItems]  BY <1>4 DEF StoreItem, TypeOK
  <2>2. facts' \in BOOLEAN  BY <1>4, Zenon DEF StoreItem, TypeOK
  <2> QED  BY <1>4, <2>1, <2>2 DEF StoreItem, TypeOK, threads, history
<1>5. CASE CommitRead(w)  BY <1>5 DEF CommitRead, TypeOK, WriterPcs, threads, history
<1>6. CASE CommitWrite(w)
  <2> DEFINE rec == [wst[w] EXCEPT !.writing = FALSE]
  <2>1. rec \in Marker  BY DEF TypeOK, Marker
  <2>2. Write(rec)  BY <1>6 DEF CommitWrite
  <2>3. marker' \in Marker /\ failed' \in 0..MaxFailed
    <3> HIDE DEF rec
    <3> QED  BY <2>1, <2>2, WriteType
  <2>4. wpc' \in [Writers -> WriterPcs] /\ wst' \in [Writers -> Marker]
        /\ items' \in [Writers -> 0..BatchItems]
    BY <1>6 DEF CommitWrite, TypeOK, WriterPcs
  <2> QED  BY <1>6, <2>3, <2>4 DEF CommitWrite, TypeOK, threads, history
<1>7. CASE Exit(w)
  <2>1. wpc' \in [Writers -> WriterPcs] /\ wst' \in [Writers -> Marker]
        /\ items' \in [Writers -> 0..BatchItems]
    BY <1>7 DEF Exit, TypeOK, WriterPcs
  <2> QED  BY <1>7, <2>1 DEF Exit, TypeOK, threads, history
<1> QED  BY <1>1, <1>2, <1>3, <1>4, <1>5, <1>6, <1>7 DEF Trainer, Batch

LEMMA ReaderType ==
  ASSUME TypeOK, NEW r \in Readers, Ask(r) \/ Answer(r)
  PROVE  TypeOK'
<1> USE NumbersAssumption, NoMarkerType
<1>1. CASE Ask(r)
  <2>1. reads' \in 0..MaxReads  BY <1>1 DEF Ask, TypeOK
  <2>2. rpc' \in [Readers -> ReaderPcs]  BY <1>1 DEF Ask, TypeOK, ReaderPcs
  <2> QED  BY <1>1, <2>1, <2>2 DEF Ask, TypeOK, trainers, history
<1>2. CASE PollClear(r)  BY <1>2 DEF PollClear, TypeOK, ReaderPcs, trainers, history
<1>3. CASE PollTimeout(r)  BY <1>3 DEF PollTimeout, TypeOK, ReaderPcs, trainers
<1>4. CASE StampRead(r)  BY <1>4 DEF StampRead, TypeOK, ReaderPcs, trainers, history
<1>5. CASE StampWrite(r)
  <2>1. marker' \in Marker /\ failed' \in 0..MaxFailed
    <3>1. rst[r] \in Marker /\ Write(rst[r])  BY <1>5 DEF StampWrite, TypeOK
    <3> QED  BY <3>1, WriteType
  <2>2. clobbered' \in BOOLEAN  BY <1>5, Zenon DEF StampWrite, TypeOK
  <2>3. rpc' \in [Readers -> ReaderPcs] /\ rst' \in [Readers -> Marker]
    BY <1>5 DEF StampWrite, TypeOK, ReaderPcs
  <2> QED  BY <1>5, <2>1, <2>2, <2>3 DEF StampWrite, TypeOK, trainers
<1>6. CASE Search(r)
  <2>1. PICK h \in Answers :
          /\ got' = [got EXCEPT ![r] = h]
          /\ rpc' = [rpc EXCEPT ![r] = IF h = "hits" THEN "keep" ELSE "empty"]
    BY <1>6 DEF Search
  <2>2. h \in {"hits", "empty", "missed"}  BY DEF Answers
  <2>3. got' \in [Readers -> {"none", "empty", "missed", "hits", "snapshot"}]
        /\ rpc' \in [Readers -> ReaderPcs]
    BY <2>1, <2>2 DEF TypeOK, ReaderPcs
  <2>4. partial' \in [Readers -> BOOLEAN]
    <3>1. partial' = [partial EXCEPT ![r] = \E w \in Writers : MidBatch(w)]  BY <1>6 DEF Search
    <3> QED  BY <3>1 DEF TypeOK
  <2> QED  BY <1>6, <2>3, <2>4 DEF Search, TypeOK, trainers
<1>7. CASE CheckLock(r)  BY <1>7 DEF CheckLock, TypeOK, ReaderPcs, trainers, history
<1>8. CASE RetryHits(r)
  <2>1. partial' \in [Readers -> BOOLEAN]
    <3>1. partial' = [partial EXCEPT ![r] = @ \/ \E w \in Writers : MidBatch(w)]
      BY <1>8 DEF RetryHits
    <3> QED  BY <3>1 DEF TypeOK
  <2> QED  BY <1>8, <2>1 DEF RetryHits, TypeOK, ReaderPcs, trainers
<1>9. CASE RetryEnd(r)
  <2>1. PICK h \in Answers :
          got' = [got EXCEPT ![r] = IF stable = "fresh" THEN "snapshot" ELSE h]
    BY <1>9 DEF RetryEnd
  <2>2. h \in {"hits", "empty", "missed"}  BY DEF Answers
  <2>3. got' \in [Readers -> {"none", "empty", "missed", "hits", "snapshot"}]
    BY <2>1, <2>2 DEF TypeOK
  <2>4. flag' \in BOOLEAN  BY <1>9, Zenon DEF RetryEnd, TypeOK
  <2>5. rpc' \in [Readers -> ReaderPcs]  BY <1>9 DEF RetryEnd, TypeOK, ReaderPcs
  <2> QED  BY <1>9, <2>3, <2>4, <2>5 DEF RetryEnd, TypeOK, trainers, history
<1>10. CASE Keep(r)  BY <1>10 DEF Keep, TypeOK, ReaderPcs, trainers, history
<1>11. CASE Return(r)  BY <1>11 DEF Return, TypeOK, ReaderPcs, trainers
<1> QED  BY <1>1, <1>2, <1>3, <1>4, <1>5, <1>6, <1>7, <1>8, <1>9, <1>10, <1>11 DEF Answer

LEMMA TypeStep == TypeOK /\ [Next]_vars => TypeOK'
<1> SUFFICES ASSUME TypeOK, [Next]_vars PROVE TypeOK'  OBVIOUS
<1>1. ASSUME NEW w \in Writers, Trainer(w) PROVE TypeOK'  BY <1>1, TrainerType
<1>2. ASSUME NEW r \in Readers, Ask(r) \/ Answer(r) PROVE TypeOK'  BY <1>2, ReaderType
<1>3. CASE GoStale
  <2>1. marker' \in Marker  BY <1>3 DEF GoStale, TypeOK, Marker
  <2>2. stalls' \in 0..MaxStalls  BY <1>3, NumbersAssumption DEF GoStale, TypeOK
  <2> QED  BY <1>3, <2>1, <2>2 DEF GoStale, TypeOK, trainers, threads, history
<1>4. CASE Expire  BY <1>4 DEF Expire, TypeOK, trainers, history
<1>5. CASE UNCHANGED vars  BY <1>5 DEF vars, TypeOK
<1> QED  BY <1>1, <1>2, <1>3, <1>4, <1>5 DEF Next

-----------------------------------------------------------------------------
\* One trainer at a time, and the names it leaves.

LEMMA OneTrainerStep == TypeOK /\ OneTrainer /\ [Next]_vars => OneTrainer'
<1> SUFFICES ASSUME TypeOK, OneTrainer, [Next]_vars PROVE OneTrainer'  OBVIOUS
<1> USE DEF OneTrainer, Alive, TypeOK
<1>1. ASSUME NEW w \in Writers, Trainer(w) PROVE OneTrainer'
  <2>1. CASE Start(w)  BY <2>1 DEF Start, Training
  <2>2. CASE BeginRead(w)  BY <2>2 DEF BeginRead
  <2>3. CASE Batch(w)  BY <2>3 DEF Batch, BeginWrite, StoreItem, CommitRead, CommitWrite
  <2>4. CASE Exit(w)  BY <2>4 DEF Exit
  <2> QED  BY <1>1, <2>1, <2>2, <2>3, <2>4 DEF Trainer
<1>2. CASE wpc' = wpc  BY <1>2
<1> QED
  BY <1>1, <1>2 DEF Next, Ask, Answer, PollClear, PollTimeout, StampRead, StampWrite, Search,
     CheckLock, RetryHits, RetryEnd, Keep, Return, GoStale, Expire, trainers, vars

LEMMA NewIsUnnamedStep == TypeOK /\ NewIsUnnamed /\ [Next]_vars => NewIsUnnamed'
<1> SUFFICES ASSUME TypeOK, NewIsUnnamed, [Next]_vars,
                    NEW n \in Writers, wpc'[n] = "new"
             PROVE  /\ marker'.pid # n
                    /\ \A v \in Writers : wst'[v].pid # n
                    /\ \A r \in Readers : rst'[r].pid # n
  BY DEF NewIsUnnamed
<1> USE NoPidAssumption DEF TypeOK
<1>1. NoMarker.pid # n  BY DEF NoMarker
<1>2. ASSUME NEW w \in Writers, Trainer(w)
      PROVE  /\ wpc[n] = "new" /\ n # w
             /\ marker'.pid # n
             /\ \A v \in Writers : wst'[v].pid # n
             /\ \A r \in Readers : rst'[r].pid # n
  <2>1. wpc[n] = "new" /\ n # w
    BY <1>2 DEF Trainer, Batch, Start, BeginRead, BeginWrite, StoreItem, CommitRead,
       CommitWrite, Exit, Alive
  <2>2. /\ marker.pid # n
        /\ \A v \in Writers : wst[v].pid # n
        /\ \A r \in Readers : rst[r].pid # n
    BY <2>1 DEF NewIsUnnamed
  <2>3. CASE Start(w)  BY <2>1, <2>2, <2>3 DEF Start, threads
  <2>4. CASE BeginRead(w)  BY <2>1, <2>2, <2>4 DEF BeginRead, threads
  <2>5. CASE BeginWrite(w)
    <3>1. marker'.pid # n  BY <2>1, <2>2, <2>5 DEF BeginWrite, Write
    <3> QED  BY <1>1, <2>1, <2>2, <2>5, <3>1 DEF BeginWrite, threads
  <2>6. ASSUME NEW ok \in BOOLEAN, StoreItem(w, ok)
        PROVE  marker' = marker /\ wst' = wst /\ rst' = rst
    BY <2>6 DEF StoreItem, threads
  <2>7. CASE CommitRead(w)  BY <2>1, <2>2, <2>7 DEF CommitRead, threads
  <2>8. CASE CommitWrite(w)
    <3>1. [wst[w] EXCEPT !.writing = FALSE].pid # n  BY <2>2 DEF Marker
    <3>2. marker'.pid # n  BY <2>2, <2>8, <3>1 DEF CommitWrite, Write
    <3> QED  BY <1>1, <2>1, <2>2, <2>8, <3>2 DEF CommitWrite, threads
  <2>9. CASE Exit(w)  BY <1>1, <2>1, <2>2, <2>9 DEF Exit, threads
  <2> QED
    BY <1>2, <2>1, <2>2, <2>3, <2>4, <2>5, <2>6, <2>7, <2>8, <2>9 DEF Trainer, Batch
<1>3. ASSUME NEW q \in Readers, StampRead(q) \/ StampWrite(q)
      PROVE  /\ marker'.pid # n
             /\ \A v \in Writers : wst'[v].pid # n
             /\ \A r \in Readers : rst'[r].pid # n
  <2>1. CASE StampRead(q)  BY <2>1 DEF StampRead, NewIsUnnamed, trainers
  <2>2. CASE StampWrite(q)
    BY <1>1, <2>2 DEF StampWrite, Write, NewIsUnnamed, trainers
  <2> QED  BY <1>3, <2>1, <2>2
<1>4. CASE GoStale
  BY <1>4 DEF GoStale, Marker, NewIsUnnamed, trainers, threads
<1>5. CASE wpc' = wpc /\ marker' = marker /\ wst' = wst /\ rst' = rst
  BY <1>5 DEF NewIsUnnamed
<1> QED
  BY <1>2, <1>3, <1>4, <1>5 DEF Next, Ask, Answer, PollClear, PollTimeout, Search,
     CheckLock, RetryHits, RetryEnd, Keep, Return, Expire, trainers, vars

-----------------------------------------------------------------------------
\* The marker and the waits.

LEMMA ExcuseStays == TypeOK /\ Excused /\ [Next]_vars => Excused'
<1> SUFFICES ASSUME TypeOK, Excused, [Next]_vars PROVE Excused'  OBVIOUS
<1>1. /\ clobbered => clobbered'
      /\ failed > 0 => failed' > 0
      /\ stalls > 0 => stalls' > 0
  BY NumbersAssumption DEF TypeOK, Next, Trainer, Batch, Start, BeginRead, BeginWrite, StoreItem,
     CommitRead, CommitWrite, Exit, Ask, Answer, PollClear, PollTimeout, StampRead, StampWrite,
     Search, CheckLock, RetryHits, RetryEnd, Keep, Return, GoStale, Expire, Write,
     trainers, threads, history, vars
<1> QED  BY <1>1 DEF Excused

\* A write that cannot have failed has been made.
LEMMA WriteSucceeds ==
  ASSUME TypeOK, ~Excused', NEW rec, Write(rec)
  PROVE  marker' = rec
BY NumbersAssumption DEF TypeOK, Write, Excused

LEMMA TrainerStep ==
  ASSUME IInv, TypeOK', ~Excused, ~Excused', NEW w \in Writers, Trainer(w)
  PROVE  (MarkerTrue /\ Waited)'
<1>0. TypeOK /\ OneTrainer /\ NewIsUnnamed /\ MarkerTrue /\ Waited  BY DEF IInv
<1> USE <1>0 DEF TypeOK, InBatch, Alive
<1>1. CASE Start(w)
  <2>1. marker.pid # w  BY <1>1 DEF Start, NewIsUnnamed
  <2> QED  BY <1>1, <2>1 DEF Start, MarkerTrue, Waited, threads, history
<1>2. CASE BeginRead(w)  BY <1>2 DEF BeginRead, MarkerTrue, Waited, threads, history
<1>3. CASE BeginWrite(w)
  <2>1. marker' = [writing |-> TRUE, pid |-> w, batch |-> wst[w].batch + 1, fresh |-> TRUE]
    BY <1>3, WriteSucceeds DEF BeginWrite
  <2>2. marker'.writing /\ marker'.fresh /\ marker'.pid = w  BY <2>1
  <2>3. \A v \in Writers \ {w} : ~InBatch(v)  BY <1>3 DEF BeginWrite, OneTrainer
  <2>4. MarkerTrue'  BY <1>3, <2>2, <2>3 DEF BeginWrite, MarkerTrue
  <2>5. Waited'  BY <1>3 DEF BeginWrite, Waited, threads
  <2> QED  BY <2>4, <2>5
<1>4. ASSUME NEW ok \in BOOLEAN, StoreItem(w, ok)
      PROVE (MarkerTrue /\ Waited)'
  BY <1>4 DEF StoreItem, MarkerTrue, Waited, threads, history
<1>5. CASE CommitRead(w)  BY <1>5 DEF CommitRead, MarkerTrue, Waited, threads, history
<1>6. CASE CommitWrite(w)
  <2>1. marker' = [wst[w] EXCEPT !.writing = FALSE]
    BY <1>6, WriteSucceeds DEF CommitWrite
  <2>2. ~marker'.writing  BY <2>1 DEF Marker
  <2>3. \A v \in Writers : ~InBatch(v)'  BY <1>6 DEF CommitWrite, OneTrainer
  <2>4. MarkerTrue'  BY <2>2, <2>3 DEF MarkerTrue
  <2>5. Waited'  BY <2>3 DEF Waited
  <2> QED  BY <2>4, <2>5
<1>7. CASE Exit(w)  BY <1>7 DEF Exit, MarkerTrue, Waited, threads, history
<1> QED  BY <1>1, <1>2, <1>3, <1>4, <1>5, <1>6, <1>7 DEF Trainer, Batch

LEMMA ReaderStep ==
  ASSUME IInv, ~Excused, ~Excused', NEW r \in Readers, Ask(r) \/ Answer(r)
  PROVE  (MarkerTrue /\ Waited)'
<1>0. TypeOK /\ MarkerTrue /\ Waited  BY DEF IInv
<1>1. marker' = marker
  <2>1. CASE StampWrite(r)
    <3>1. rst[r] = marker  BY <2>1 DEF StampWrite, Excused
    <3>2. marker' = rst[r]  BY <1>0, <2>1, WriteSucceeds DEF StampWrite
    <3> QED  BY <3>1, <3>2
  <2>2. CASE ~StampWrite(r)
    BY <2>2 DEF Ask, Answer, PollClear, PollTimeout, StampRead, Search, CheckLock, RetryHits,
       RetryEnd, Keep, Return
  <2> QED  BY <2>1, <2>2
<1>2. wpc' = wpc
  BY DEF Ask, Answer, PollClear, PollTimeout, StampRead, StampWrite, Search, CheckLock, RetryHits,
     RetryEnd, Keep, Return, trainers
<1>3. MarkerTrue'  BY <1>0, <1>1, <1>2 DEF MarkerTrue, InBatch, Alive
<1>4. Waited'
  <2> USE <1>0, <1>2 DEF TypeOK, Waited, InBatch
  <2>1. CASE PollClear(r)
    \* No active writer, so by MarkerTrue no batch.
    <3>1. \A w \in Writers : ~InBatch(w)
      BY <1>0, <2>1 DEF PollClear, WriterActive, MarkerTrue
    <3> QED  BY <3>1
  <2>2. CASE PollTimeout(r)  BY <2>2 DEF PollTimeout
  <2>3. CASE Ask(r) \/ StampRead(r) \/ StampWrite(r) \/ CheckLock(r)
    BY <2>3 DEF Ask, StampRead, StampWrite, CheckLock, history
  <2>4. CASE Search(r)
    <3>1. /\ rpc[r] = "search"
          /\ \A q \in Readers \ {r} : rpc'[q] = rpc[q]
          /\ timedOut' = timedOut /\ late' = late
      BY <2>4 DEF Search
    <3> QED  BY <3>1
  <2>5. CASE RetryHits(r) \/ RetryEnd(r) \/ Keep(r)
    BY <2>5 DEF RetryHits, RetryEnd, Keep, history
  <2>6. CASE Return(r)  BY <2>6 DEF Return
  <2> QED  BY <2>1, <2>2, <2>3, <2>4, <2>5, <2>6 DEF Answer
<1> QED  BY <1>3, <1>4

LEMMA MarkerStep == IInv /\ [Next]_vars /\ ~Excused' => (MarkerTrue /\ Waited)'
<1> SUFFICES ASSUME IInv, [Next]_vars, ~Excused' PROVE (MarkerTrue /\ Waited)'  OBVIOUS
<1>1. TypeOK /\ TypeOK' /\ ~Excused  BY TypeStep, ExcuseStays DEF IInv
<1>2. MarkerTrue /\ Waited  BY <1>1 DEF IInv
<1>3. ASSUME NEW w \in Writers, Trainer(w) PROVE (MarkerTrue /\ Waited)'
  BY <1>1, <1>3, TrainerStep
<1>4. ASSUME NEW r \in Readers, Ask(r) \/ Answer(r) PROVE (MarkerTrue /\ Waited)'
  BY <1>1, <1>4, ReaderStep
<1>5. CASE GoStale
  \* The flag that goes stale is not that of a batch in progress.
  <2>1. ~(marker.pid \in Writers /\ InBatch(marker.pid))
    BY <1>1, <1>5, NumbersAssumption DEF GoStale, TypeOK, Excused
  <2>2. \A w \in Writers : ~InBatch(w)  BY <1>2, <2>1 DEF MarkerTrue
  <2>3. ~marker'.fresh  BY <1>1, <1>5 DEF GoStale, TypeOK, Marker
  <2> QED
    BY <1>5, <2>2, <2>3 DEF GoStale, MarkerTrue, Waited, InBatch, trainers, threads, history
<1>6. CASE Expire
  BY <1>2, <1>6 DEF Expire, MarkerTrue, Waited, InBatch, Alive, trainers, history
<1>7. CASE UNCHANGED vars
  BY <1>2, <1>7 DEF vars, MarkerTrue, Waited, InBatch, Alive
<1> QED  BY <1>3, <1>4, <1>5, <1>6, <1>7 DEF Next

LEMMA PartialStep == IInv /\ [Next]_vars => PartialIsExplained'
<1> SUFFICES ASSUME IInv, [Next]_vars, ~Excused', NEW q \in Readers, partial'[q]
             PROVE  timedOut'[q] \/ late'[q]
  BY DEF PartialIsExplained
<1>1. TypeOK /\ ~Excused  BY ExcuseStays DEF IInv
<1>2. Waited /\ (partial[q] => timedOut[q] \/ late[q])
  BY <1>1 DEF IInv, PartialIsExplained
<1> USE <1>1, <1>2 DEF TypeOK
<1>3. ASSUME NEW r \in Readers, Search(r) \/ RetryHits(r)
      PROVE timedOut'[q] \/ late'[q]
  <2>1. /\ rpc[r] \in {"search", "retry"}
        /\ timedOut' = timedOut /\ late' = late
        /\ partial' \in {[partial EXCEPT ![r] = \E w \in Writers : MidBatch(w)],
                          [partial EXCEPT ![r] = @ \/ \E w \in Writers : MidBatch(w)]}
    BY <1>3 DEF Search, RetryHits
  <2>2. CASE q = r /\ ~partial[q]
    <3>1. \E w \in Writers : MidBatch(w)  BY <2>1, <2>2
    <3>2. \E w \in Writers : InBatch(w)  BY <3>1 DEF MidBatch, InBatch
    <3> QED  BY <2>1, <2>2, <3>2 DEF Waited
  <2>3. CASE q # r  BY <2>1, <2>3
  <2>4. CASE partial[q]  BY <2>1, <2>4
  <2> QED  BY <2>2, <2>3, <2>4
<1>4. ASSUME NEW r \in Readers, PollTimeout(r) \/ Return(r)
      PROVE timedOut'[q] \/ late'[q]
  BY <1>4 DEF PollTimeout, Return
<1>5. ASSUME NEW w \in Writers, BeginWrite(w)
      PROVE timedOut'[q] \/ late'[q]
  BY <1>5 DEF BeginWrite
<1>6. CASE partial' = partial /\ timedOut' = timedOut /\ late' = late  BY <1>6
<1> QED
  BY <1>3, <1>4, <1>5, <1>6 DEF Next, Trainer, Batch, Start, BeginRead, StoreItem, CommitRead,
     CommitWrite, Exit, Ask, Answer, PollClear, StampRead, StampWrite, CheckLock, RetryEnd, Keep,
     GoStale, Expire, history, vars

LEMMA NextStep == IInv /\ [Next]_vars => IInv'
<1> SUFFICES ASSUME IInv, [Next]_vars PROVE IInv'  OBVIOUS
<1>1. TypeOK'  BY TypeStep DEF IInv
<1>2. OneTrainer'  BY OneTrainerStep DEF IInv
<1>3. NewIsUnnamed'  BY NewIsUnnamedStep DEF IInv
<1>4. Excused' \/ (MarkerTrue /\ Waited)'  BY MarkerStep
<1>5. PartialIsExplained'  BY PartialStep
<1> QED  BY <1>1, <1>2, <1>3, <1>4, <1>5 DEF IInv

-----------------------------------------------------------------------------
\* The strengthened invariant: one trainer at a time, unstarted ones named
\* nowhere, and a true marker and honoured waits unless excused.
THEOREM Invariance == Spec => []IInv
<1> QED  BY InitStep, NextStep, PTL DEF Spec

\* Types of the marker, its copies, the trainers and the gateway threads.
THEOREM TypeCorrect == Spec => []TypeOK
<1>1. IInv => TypeOK  BY DEF IInv
<1> QED  BY <1>1, Invariance, PTL

\* begin_write and commit_write (engine_consistency.py:64-78) keep the marker
\* true, whatever readers stamp in between, but for the three excuses.
THEOREM MarkerIsHonest == Spec => []MarkerHonest
<1>1. IInv => MarkerHonest  BY DEF IInv, MarkerHonest, MarkerTrue
<1> QED  BY <1>1, Invariance, PTL

\* wait_consistent before a search (consistent_client.py:69-73): a half-stored
\* batch is met only after a timeout, by a batch begun later, or excused.
THEOREM PartialReadsExplained == Spec => []PartialIsExplained
<1>1. IInv => PartialIsExplained  BY DEF IInv
<1> QED  BY <1>1, Invariance, PTL
=============================================================================
