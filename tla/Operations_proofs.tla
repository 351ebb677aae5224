-------------------------- MODULE Operations_proofs --------------------------
(***************************************************************************)
(* Proofs about what runs around the gateway: the vault lock, the          *)
(* LifeLoop, the launcher and the live evaluation.  They share no state;   *)
(* each theorem is about one of them, under its own specification and for  *)
(* every value of its constants and bounds.                                *)
(***************************************************************************)
EXTENDS VaultLock, Operations, SequenceTheorems, TLAPS

-----------------------------------------------------------------------------
\* The vault lock.

\* Those whose lock it is, the one about to unlink it included.
Owners == {p \in Trainers : pc[p] \in {"writing", "beating", "leaving"}}

OwnersHold == \A p \in Owners : lock = [pid |-> p, fresh |-> TRUE]

\* Whoever found the lock free is the only one, and nobody owns it meanwhile.
FreeIsAlone ==
  \A p, q \in Trainers :
    pc[p] = "free" /\ pc[q] \in {"free", "writing", "beating", "leaving"} => p = q

IInv == TypeOK /\ (Excused \/ (OwnersHold /\ FreeIsAlone))

\* What IInv gives for the two properties: two owners would be two pids in
\* one lock record.
LEMMA Soundness == IInv => AloneUnlessExcused /\ WriterIsVisible
<1>1. SUFFICES ASSUME IInv, ~Excused
               PROVE  AloneUnlessExcused /\ WriterIsVisible
  BY DEF AloneUnlessExcused, WriterIsVisible
<1>2. OwnersHold  BY <1>1 DEF IInv
<1>3. Writers \subseteq Owners  BY DEF Writers, Owners
<1>4. WriterIsVisible  BY <1>2, <1>3 DEF WriterIsVisible, OwnersHold
<1>5. ASSUME NEW p \in Writers, NEW q \in Writers
      PROVE  p = q
  <2>1. [pid |-> p, fresh |-> TRUE] = [pid |-> q, fresh |-> TRUE]
    BY <1>2, <1>3, <1>5 DEF OwnersHold
  <2>2. [pid |-> p, fresh |-> TRUE].pid = [pid |-> q, fresh |-> TRUE].pid  BY <2>1
  <2> QED  BY <2>2
<1>6. AloneUnlessExcused  BY <1>5 DEF AloneUnlessExcused
<1> QED  BY <1>4, <1>6

LEMMA OwnersLock ==
  ASSUME NEW o \in Trainers, lock = [pid |-> o, fresh |-> TRUE]
  PROVE  lock # NoLock /\ lock.pid = o /\ lock.fresh
<1>1. lock \in Lock  BY DEF Lock
<1> QED  BY <1>1, NoLockAssumption

-----------------------------------------------------------------------------
\* The steps, one lemma per group.

LEMMA InitStep == Init => IInv
<1>1. SUFFICES ASSUME Init PROVE IInv  OBVIOUS
<1>2. TypeOK
  <2>1. pc \in [Trainers -> Pcs]  BY <1>1 DEF Init, Pcs
  <2>2. guard \in [pc : {"idle", "list", "stop"}, pids : SUBSET Trainers, stale : BOOLEAN]
    BY <1>1 DEF Init, IdleGuard
  <2>3. guardRuns \in 0..MaxGuardRuns /\ stalls \in 0..MaxStalls
    BY <1>1, NumbersAssumption DEF Init
  <2> QED  BY <1>1, <2>1, <2>2, <2>3 DEF Init, TypeOK
<1>3. Owners = {}  BY <1>1 DEF Init, Owners
<1>4. FreeIsAlone  BY <1>1 DEF Init, FreeIsAlone
<1> QED  BY <1>2, <1>3, <1>4 DEF IInv, OwnersHold

\* Types.
LEMMA TypeStep == TypeOK /\ [Next]_vars => TypeOK'
<1> SUFFICES ASSUME TypeOK, [Next]_vars PROVE TypeOK'  OBVIOUS
<1> USE NumbersAssumption, NoLockAssumption DEF TypeOK, Lock, Pcs
<1>1. ASSUME NEW p \in Trainers, Check(p) PROVE TypeOK'  BY <1>1 DEF Check
<1>2. ASSUME NEW p \in Trainers, Take(p) PROVE TypeOK'  BY <1>2 DEF Take
<1>3. ASSUME NEW p \in Trainers, BeatRead(p) PROVE TypeOK'  BY <1>3 DEF BeatRead
<1>4. ASSUME NEW p \in Trainers, BeatWrite(p) PROVE TypeOK'
  <2>1. [pid |-> p, fresh |-> TRUE] \in Lock  OBVIOUS
  <2>2. lock' \in Lock \cup {NoLock}  BY <1>4, <2>1 DEF BeatWrite
  <2> QED  BY <1>4, <2>2 DEF BeatWrite
<1>5. ASSUME NEW p \in Trainers, ReleaseRead(p) PROVE TypeOK'
  <2>1. pc' \in [Trainers -> Pcs]  BY <1>5 DEF ReleaseRead
  <2> QED  BY <1>5, <2>1 DEF ReleaseRead
<1>6. ASSUME NEW p \in Trainers, Unlink(p) PROVE TypeOK'  BY <1>6 DEF Unlink
<1>7. ASSUME NEW p \in Trainers, Die(p) PROVE TypeOK'  BY <1>7 DEF Die
<1>8. CASE GoStale
  <2>1. lock' \in Lock \cup {NoLock}  BY <1>8 DEF GoStale
  <2>2. stalls' \in 0..MaxStalls  BY <1>8 DEF GoStale
  <2> QED  BY <1>8, <2>1, <2>2 DEF GoStale
<1>9. CASE GuardRead
  <2>1. PICK look \in Looks :
          guard' = [pc |-> "list", stale |-> Stale(look),
                    pids |-> IF IndexingInProgress(look) THEN {lock.pid} ELSE {}]
    BY <1>9 DEF GuardRead
  <2>2. Stale(look) \in BOOLEAN  BY DEF Stale
  <2>3. (IF IndexingInProgress(look) THEN {lock.pid} ELSE {}) \in SUBSET Trainers
    BY DEF IndexingInProgress, Found
  <2>4. guard' \in [pc : {"idle", "list", "stop"}, pids : SUBSET Trainers, stale : BOOLEAN]
    BY <2>1, <2>2, <2>3
  <2> QED  BY <1>9, <2>4 DEF GuardRead
<1>10. CASE GuardList
  <2>1. PICK listed \in {{}, {p \in Trainers : Alive(p)}} :
          guard' = [guard EXCEPT !.pc = "stop", !.pids = listed \ guard.pids]
    BY <1>10 DEF GuardList
  <2>2. listed \ guard.pids \in SUBSET Trainers  OBVIOUS
  <2>3. guard' \in [pc : {"idle", "list", "stop"}, pids : SUBSET Trainers, stale : BOOLEAN]
    BY <2>1, <2>2
  <2> QED  BY <1>10, <2>3 DEF GuardList
<1>11. ASSUME NEW p \in Trainers, GuardStop(p) PROVE TypeOK'
  <2>1. pc' \in [Trainers -> Pcs]  BY <1>11 DEF GuardStop
  <2>2. guard' \in [pc : {"idle", "list", "stop"}, pids : SUBSET Trainers, stale : BOOLEAN]
    BY <1>11 DEF GuardStop
  <2> QED  BY <1>11, <2>1, <2>2 DEF GuardStop
<1>12. CASE GuardUnlink
  <2>1. robbed' \in BOOLEAN  BY <1>12 DEF GuardUnlink
  <2>2. guard' \in [pc : {"idle", "list", "stop"}, pids : SUBSET Trainers, stale : BOOLEAN]
    BY <1>12 DEF GuardUnlink, IdleGuard
  <2> QED  BY <1>12, <2>1, <2>2 DEF GuardUnlink
<1>13. CASE UNCHANGED vars  BY <1>13 DEF vars
<1> QED
  BY <1>1, <1>2, <1>3, <1>4, <1>5, <1>6, <1>7, <1>8, <1>9, <1>10, <1>11, <1>12, <1>13
  DEF Next, Trainer, Guard

\* An excuse is never taken back.
LEMMA ExcuseStays == TypeOK /\ Excused /\ [Next]_vars => Excused'
<1> SUFFICES ASSUME TypeOK, Excused, [Next]_vars PROVE Excused'  OBVIOUS
<1>1. stalls \in Nat /\ (raced => raced') /\ (misled => misled')
     /\ (robbed => robbed') /\ (stalls > 0 => stalls' > 0)
  BY NumbersAssumption DEF TypeOK, Next, Trainer, Guard, Check, Take, BeatRead, BeatWrite,
     ReleaseRead, Unlink, Die, GoStale, GuardRead, GuardList, GuardStop, GuardUnlink, vars
<1> QED  BY <1>1 DEF Excused

LEMMA TrainerStep ==
  ASSUME IInv, ~Excused, ~Excused', NEW r \in Trainers, Trainer(r)
  PROVE  (OwnersHold /\ FreeIsAlone)'
<1> USE DEF OwnersHold, FreeIsAlone, Owners, TypeOK
<1>1. TypeOK /\ OwnersHold /\ FreeIsAlone  BY DEF IInv
<1>2. CASE Check(r)
  <2>1. CASE pc' = [pc EXCEPT ![r] = "gone"] /\ lock' = lock
    BY <1>1, <1>2, <2>1 DEF Check
  <2>2. CASE ~(pc' = [pc EXCEPT ![r] = "gone"] /\ lock' = lock)
    <3>1. /\ pc' = [pc EXCEPT ![r] = "free"]
          /\ raced' = (raced \/ \E q \in Trainers \ {r} : pc[q] = "free")
          /\ misled' = (misled \/ Refused(r, "plain"))
          /\ lock' = lock /\ pc[r] = "new"
      BY <1>2, <2>2 DEF Check
    <3>2. \A q \in Trainers \ {r} : pc[q] # "free"
      BY <3>1 DEF Excused
    \* An owner would hold a fresh lock and be alive: r was misled.
    <3>3. Owners = {}
      <4>1. SUFFICES ASSUME NEW o \in Owners PROVE FALSE  OBVIOUS
      <4>2. lock = [pid |-> o, fresh |-> TRUE] /\ o # r  BY <1>1, <3>1
      <4>3. Refused(r, "plain")
        BY <4>2, OwnersLock DEF Refused, IndexingInProgress, Found, Alive, Stale, Holds
      <4> QED  BY <3>1, <4>3 DEF Excused
    <3> QED  BY <1>1, <3>1, <3>2, <3>3
  <2> QED  BY <2>1, <2>2
<1>3. CASE Take(r)
  \* FreeIsAlone: nobody owned the lock r overwrites.
  <2>1. \A q \in Trainers \ {r} : pc[q] \notin {"free", "writing", "beating", "leaving"}
    BY <1>1, <1>3 DEF Take
  <2> QED  BY <1>1, <1>3, <2>1 DEF Take
<1>4. CASE BeatRead(r)  BY <1>1, <1>4 DEF BeatRead
<1>5. CASE BeatWrite(r)
  <2>1. lock' = lock /\ pc' = [pc EXCEPT ![r] = "writing"]
    BY <1>1, <1>5 DEF BeatWrite
  <2> QED  BY <1>1, <1>5, <2>1 DEF BeatWrite
<1>6. CASE ReleaseRead(r)  BY <1>1, <1>6 DEF ReleaseRead
<1>7. CASE Unlink(r)
  <2>1. Owners \subseteq {r}
    <3>1. SUFFICES ASSUME NEW o \in Owners PROVE o = r  OBVIOUS
    <3>2. lock = [pid |-> o, fresh |-> TRUE] /\ lock = [pid |-> r, fresh |-> TRUE]
      BY <1>1, <1>7 DEF Unlink
    <3>3. lock.pid = o /\ lock.pid = r  BY <3>2
    <3> QED  BY <3>3
  <2> QED  BY <1>1, <1>7, <2>1 DEF Unlink
<1>8. CASE Die(r)  BY <1>1, <1>8 DEF Die
<1> QED  BY <1>2, <1>3, <1>4, <1>5, <1>6, <1>7, <1>8 DEF Trainer

LEMMA GuardStep ==
  ASSUME IInv, ~Excused, ~Excused', Guard
  PROVE  (OwnersHold /\ FreeIsAlone)'
<1> USE DEF OwnersHold, FreeIsAlone, Owners, TypeOK
<1>1. TypeOK /\ OwnersHold /\ FreeIsAlone  BY DEF IInv
<1>2. CASE GuardRead  BY <1>1, <1>2 DEF GuardRead
<1>3. CASE GuardList  BY <1>1, <1>3 DEF GuardList
<1>4. ASSUME NEW p \in Trainers, GuardStop(p) PROVE (OwnersHold /\ FreeIsAlone)'
  BY <1>1, <1>4 DEF GuardStop
<1>5. CASE GuardUnlink
  <2>1. CASE UNCHANGED <<lock, robbed>>  BY <1>1, <1>5, <2>1 DEF GuardUnlink
  <2>2. CASE ~UNCHANGED <<lock, robbed>>
    \* The lock removed was nobody's, or the guard would have robbed a trainer.
    <3>1. pc' = pc /\ ~(lock # NoLock /\ Alive(lock.pid))
      BY <1>5, <2>2 DEF GuardUnlink, Excused
    <3>2. Owners = {}
      <4>1. SUFFICES ASSUME NEW o \in Owners PROVE FALSE  OBVIOUS
      <4>2. lock = [pid |-> o, fresh |-> TRUE]  BY <1>1
      <4>3. lock # NoLock /\ lock.pid = o  BY <4>2, OwnersLock
      <4> QED  BY <3>1, <4>3 DEF Alive
    <3> QED  BY <1>1, <3>1, <3>2
  <2> QED  BY <2>1, <2>2
<1> QED  BY <1>2, <1>3, <1>4, <1>5 DEF Guard

LEMMA NextStep == IInv /\ [Next]_vars => IInv'
<1> SUFFICES ASSUME IInv, [Next]_vars PROVE IInv'  OBVIOUS
<1>1. TypeOK /\ TypeOK'  BY TypeStep DEF IInv
<1>2. CASE Excused  BY <1>1, <1>2, ExcuseStays DEF IInv
<1>3. CASE Excused'  BY <1>1, <1>3 DEF IInv
<1>4. ASSUME ~Excused, ~Excused'
      PROVE  (OwnersHold /\ FreeIsAlone)'
  <2>1. ASSUME NEW r \in Trainers, Trainer(r) PROVE (OwnersHold /\ FreeIsAlone)'
    BY <1>4, <2>1, TrainerStep
  <2>2. CASE Guard  BY <1>4, <2>2, GuardStep
  <2>3. CASE GoStale
    \* A live holder going stale is an excuse; a dead one owns nothing.
    <3>1. pc' = pc /\ lock # NoLock /\ ~Alive(lock.pid)
      BY <1>1, <1>4, <2>3, NumbersAssumption DEF GoStale, Excused, TypeOK
    <3>2. Owners = {}
      <4>1. SUFFICES ASSUME NEW o \in Owners PROVE FALSE  OBVIOUS
      <4>2. lock = [pid |-> o, fresh |-> TRUE]  BY <1>4 DEF IInv, OwnersHold
      <4>3. lock.pid = o  BY <4>2
      <4> QED  BY <3>1, <4>3 DEF Alive, Owners
    <3> QED  BY <1>4, <3>1, <3>2 DEF IInv, OwnersHold, FreeIsAlone, Owners
  <2>4. CASE UNCHANGED vars
    BY <1>4, <2>4 DEF IInv, OwnersHold, FreeIsAlone, Owners, vars
  <2> QED  BY <2>1, <2>2, <2>3, <2>4 DEF Next
<1> QED  BY <1>1, <1>2, <1>3, <1>4 DEF IInv

-----------------------------------------------------------------------------
\* The strengthened invariant of the lock: owners hold it, whoever found it
\* free is alone, or one of the four excuses applies.
THEOREM Invariance == Spec => []IInv
<1> QED  BY InitStep, NextStep, PTL DEF Spec

\* The lock file, the trainers and the guard keep their types.
THEOREM TypeCorrect == Spec => []TypeOK
<1>1. IInv => TypeOK  BY DEF IInv
<1> QED  BY <1>1, Invariance, PTL

\* Mutual exclusion of acquire .. release (write_lock.py:87-123) under crashes,
\* reclaims and the process guard, but for the four excuses.
THEOREM WriterIsAlone == Spec => []AloneUnlessExcused
<1> QED  BY Invariance, Soundness, PTL

\* status (write_lock.py:66-78) shows the trainer that is writing, but for the
\* four excuses.
THEOREM LockShowsWriter == Spec => []WriterIsVisible
<1> QED  BY Invariance, Soundness, PTL

-----------------------------------------------------------------------------
\* The LifeLoop.

\* An ask that waits is not forgotten by who clears the reasons: it came before
\* the consolidation that is over by then.
AskInv ==
  /\ lifePc = [w \in Tickers |-> lifePc[w]] /\ unserved \in BOOLEAN /\ reasons \in BOOLEAN
  /\ \A w \in Tickers : lifePc[w] = "clear" => ~unserved
  /\ Life!AskIsServed

LEMMA AskInit == Life!Init => AskInv
BY DEF Life!Init, AskInv, Life!AskIsServed

\* A step that leaves the tickers and perhaps asks.
LEMMA AskEvent ==
  ASSUME AskInv, UNCHANGED lifePc, Life!Ask \/ Life!NoAsk \/ UNCHANGED <<reasons, unserved>>
  PROVE  AskInv'
<1>1. Life!Consolidating' = Life!Consolidating  BY DEF Life!Consolidating
<1>2. CASE Life!Ask
  <2>1. unserved' \in BOOLEAN  BY <1>2 DEF Life!Ask, AskInv
  <2>2. \A w \in Tickers : lifePc[w] = "clear" => Life!Consolidating  BY DEF Life!Consolidating
  <2> QED BY <1>2, <2>1, <2>2 DEF AskInv, Life!Ask, Life!AskIsServed
<1>3. CASE UNCHANGED <<reasons, unserved>>
  BY <1>1, <1>3 DEF AskInv, Life!AskIsServed
<1> QED BY <1>2, <1>3 DEF Life!NoAsk

\* A step of a ticker that asks nothing, ends no consolidation and clears nothing.
LEMMA AskTicker ==
  ASSUME AskInv, UNCHANGED <<reasons, unserved>>, NEW w \in Tickers,
         NEW q, q # "clear", lifePc' = [lifePc EXCEPT ![w] = q],
         lifePc[w] \notin {"consolidate", "clear"}
  PROVE  AskInv'
BY DEF AskInv, Life!AskIsServed, Life!Consolidating

LEMMA AskStep == AskInv /\ [Life!Next]_(Life!vars) => AskInv'
<1> SUFFICES ASSUME AskInv, [Life!Next]_(Life!vars) PROVE AskInv'  OBVIOUS
<1>1. CASE UNCHANGED Life!vars
  BY <1>1, AskEvent DEF Life!vars
<1>2. ASSUME NEW t \in Topics, NEW st, Life!Interaction(t, st)
      PROVE  AskInv'
  <2>1. UNCHANGED lifePc /\ (Life!Ask \/ Life!NoAsk)  BY <1>2 DEF Life!Interaction
  <2> QED BY <2>1, AskEvent
<1>3. ASSUME NEW t \in Topics, NEW wrong \in BOOLEAN, Life!Feedback(t, wrong)
      PROVE  AskInv'
  <2>1. UNCHANGED lifePc /\ (Life!Ask \/ Life!NoAsk)  BY <1>3 DEF Life!Feedback
  <2> QED BY <2>1, AskEvent
<1>4. ASSUME NEW t \in Topics, Life!MarkResolved(t)
      PROVE  AskInv'
  BY <1>4, AskEvent DEF Life!MarkResolved, Life!asks
<1>5. CASE Life!Withheld \/ Life!MemoryAction \/ Life!Hour
  BY <1>5, AskEvent DEF Life!Withheld, Life!MemoryAction, Life!Hour, Life!asks
<1>6. CASE Life!Restart
  BY <1>6 DEF Life!Restart, AskInv, Life!AskIsServed
<1>7. ASSUME NEW w \in Tickers, Life!Tick(w)
      PROVE  AskInv'
  BY <1>7, AskTicker DEF Life!Tick, Life!asks
<1>8. ASSUME NEW w \in Tickers, Life!Consolidate(w)
      PROVE  AskInv'
  BY <1>8 DEF Life!Consolidate, AskInv, Life!AskIsServed
<1>9. ASSUME NEW w \in Tickers, Life!ClearReasons(w)
      PROVE  AskInv'
  BY <1>9 DEF Life!ClearReasons, AskInv, Life!AskIsServed
<1>10. ASSUME NEW w \in Tickers,
              \/ Life!Decay(w) \/ Life!NothingToRun(w) \/ Life!Run(w) \/ Life!Answered(w)
              \/ Life!Unanswered(w) \/ Life!Failed(w) \/ Life!Settle(w)
              \/ \E i \in DOMAIN tasks : Life!Pick(w, i)
       PROVE  AskInv'
  <2>1. UNCHANGED <<reasons, unserved>> /\ lifePc[w] \notin {"consolidate", "clear"}
    BY <1>10 DEF Life!Decay, Life!NothingToRun, Life!Run, Life!Answered, Life!Unanswered,
                 Life!Failed, Life!Settle, Life!Pick, Life!asks
  <2>2. \E q : q # "clear" /\ lifePc' = [lifePc EXCEPT ![w] = q]
    BY <1>10 DEF Life!Decay, Life!NothingToRun, Life!Run, Life!Answered, Life!Unanswered,
                 Life!Failed, Life!Settle, Life!Pick
  <2> QED BY <2>1, <2>2, AskTicker
<1> QED BY <1>1, <1>2, <1>3, <1>4, <1>5, <1>6, <1>7, <1>8, <1>9, <1>10 DEF Life!Next

\* An ask for a consolidation (record_event, lifeloop.py:201-206) keeps the loop due
\* until a consolidation that began after it: what tick clears (242-250) are the
\* reasons it served, or those of an ask that came while it ran.
THEOREM AsksAreServed == Life!Spec => []AskIsServed
<1>1. AskInv => Life!AskIsServed  BY DEF AskInv
<1> QED BY <1>1, AskInit, AskStep, PTL DEF Life!Spec, AskIsServed

-----------------------------------------------------------------------------
Fields == {"pressure", "unknown", "provisional", "fail", "seen"}

\* A topic's record, whatever its pressure, with its failures.
IsRecord(r) == r = [x \in DOMAIN r |-> r[x]] /\ DOMAIN r = Fields /\ r.fail \in Nat

Busy == {"picked", "run", "close", "block"}

LifeTypes ==
  /\ topics = [t \in Topics |-> topics[t]] /\ \A t \in Topics : IsRecord(topics[t])
  /\ tasks \in Seq([topic : Topics, status : {"pending", "running", "blocked", "closed"}])
  /\ lifePc \in [Tickers -> Busy \cup {"idle", "consolidate", "clear", "decay", "drain"}]
  /\ job \in [Tickers -> Nat \cup {None}]
  /\ doubled \in SUBSET Topics

JobHeld ==
  \A w \in Tickers : /\ job[w] # None <=> lifePc[w] \in Busy
                     /\ job[w] # None => job[w] \in 1 .. Len(tasks)

Pending(i, t) == tasks[i].topic = t /\ tasks[i].status = "pending"

\* A topic has one task to be picked; unless it is doubled, one ticker has a task
\* of it.
OnePending ==
  \A t \in Topics, i, j \in 1 .. Len(tasks) : Pending(i, t) /\ Pending(j, t) => i = j
OneHolder ==
  \A t \in Topics \ doubled, w, v \in Tickers : Life!Has(w, t) /\ Life!Has(v, t) => w = v

\* A failure since the operator let the topic go is on file.
FailsCounted == \A t \in Topics : t \in missed => topics[t].fail >= 1

\* Who runs a topic that has failed runs its only open task, and it is not halted.
SecondRun ==
  \A t \in Topics \ doubled, w \in Tickers :
    Life!Has(w, t) /\ t \in missed /\ lifePc[w] \in {"picked", "run"} =>
      /\ t \notin halted
      /\ lifePc[w] = "picked" => tasks[job[w]].status = "pending"
      /\ lifePc[w] = "run" => /\ tasks[job[w]].status = "running"
                              /\ \A i \in 1 .. Len(tasks) : ~Pending(i, t)

\* A task of a halted topic stays open, so none is filed, and none is pending, so
\* none is run.
Halted ==
  \A t \in Topics \ doubled :
    t \in halted =>
      /\ t \in missed
      /\ \A i \in 1 .. Len(tasks) : ~Pending(i, t)
      /\ \E i \in 1 .. Len(tasks) :
           tasks[i].topic = t /\ tasks[i].status \in {"running", "blocked"}
      /\ \A w \in Tickers : Life!Has(w, t) => lifePc[w] = "block"

FailInv ==
  LifeTypes /\ JobHeld /\ OnePending /\ OneHolder /\ FailsCounted /\ SecondRun /\ Halted

LEMMA PressureSet ==
  ASSUME NEW r, IsRecord(r), NEW a
  PROVE  IsRecord([r EXCEPT !.pressure = a]) /\ [r EXCEPT !.pressure = a].fail = r.fail
BY DEF IsRecord, Fields

LEMMA FailureSet ==
  ASSUME NEW r, IsRecord(r), NEW a, NEW n \in Nat
  PROVE  IsRecord([r EXCEPT !.pressure = a, !.fail = n])
         /\ [r EXCEPT !.pressure = a, !.fail = n].fail = n
<1>1. IsRecord([r EXCEPT !.pressure = a, !.fail = n])
  BY DEF IsRecord, Fields
<1>2. [r EXCEPT !.pressure = a, !.fail = n].fail = n
  BY DEF IsRecord, Fields
<1> QED BY <1>1, <1>2

\* What the pressure model makes of a record leaves its failures, but for a failure.
LEMMA FailStays ==
  ASSUME NEW r, IsRecord(r)
  PROVE  /\ \A status : /\ IsRecord(Life!Observed(r, status))
                        /\ Life!Observed(r, status).fail = r.fail
         /\ \A wrong : IsRecord(Life!Rated(r, wrong)) /\ Life!Rated(r, wrong).fail = r.fail
         /\ \A out \in {"done", "disputed"} :
              IsRecord(Life!Outcome(r, out)) /\ Life!Outcome(r, out).fail = r.fail
         /\ IsRecord(Life!Outcome(r, "failed")) /\ Life!Outcome(r, "failed").fail = r.fail + 1
         /\ IsRecord(Life!Decayed(r)) /\ Life!Decayed(r).fail = r.fail
<1>1. ASSUME NEW status
      PROVE  IsRecord(Life!Observed(r, status)) /\ Life!Observed(r, status).fail = r.fail
  <2>1. \E a, b, c, d : Life!Observed(r, status) =
          [r EXCEPT !.pressure = a, !.unknown = b, !.provisional = c, !.seen = d]
    BY DEF Life!Observed
  <2>2. PICK a, b, c, d : Life!Observed(r, status) =
          [r EXCEPT !.pressure = a, !.unknown = b, !.provisional = c, !.seen = d]
    BY <2>1
  <2> DEFINE s == [r EXCEPT !.pressure = a, !.unknown = b, !.provisional = c, !.seen = d]
  <2>3. IsRecord(s) /\ s.fail = r.fail
    <3>1. IsRecord(s)  BY DEF IsRecord, Fields
    <3>2. s.fail = r.fail  BY DEF IsRecord, Fields
    <3> QED BY <3>1, <3>2
  <2>4. Life!Observed(r, status) = s  BY <2>2
  <2> HIDE DEF s
  <2> QED BY <2>3, <2>4
<1>2. \A wrong : IsRecord(Life!Rated(r, wrong)) /\ Life!Rated(r, wrong).fail = r.fail
  BY PressureSet DEF Life!Rated
<1>3. \A out \in {"done", "disputed"} :
        IsRecord(Life!Outcome(r, out)) /\ Life!Outcome(r, out).fail = r.fail
  BY PressureSet DEF Life!Outcome
<1>4. IsRecord(Life!Outcome(r, "failed")) /\ Life!Outcome(r, "failed").fail = r.fail + 1
  <2>1. \E a : Life!Outcome(r, "failed") = [r EXCEPT !.pressure = a, !.fail = r.fail + 1]
    BY DEF Life!Outcome
  <2>2. PICK a : Life!Outcome(r, "failed") = [r EXCEPT !.pressure = a, !.fail = r.fail + 1]
    BY <2>1
  <2>3. r.fail + 1 \in Nat  BY DEF IsRecord
  <2> DEFINE s == [r EXCEPT !.pressure = a, !.fail = r.fail + 1]
  <2>4. IsRecord(s) /\ s.fail = r.fail + 1  BY <2>3, FailureSet
  <2>5. Life!Outcome(r, "failed") = s  BY <2>2
  <2> HIDE DEF s
  <2> QED BY <2>4, <2>5
<1>5. IsRecord(Life!Decayed(r)) /\ Life!Decayed(r).fail = r.fail
  BY PressureSet DEF Life!Decayed
<1> QED BY <1>1, <1>2, <1>3, <1>4, <1>5

LEMMA TaskTypes ==
  ASSUME LifeTypes
  PROVE  /\ Len(tasks) \in Nat /\ DOMAIN tasks = 1 .. Len(tasks)
         /\ \A i \in 1 .. Len(tasks) :
              /\ tasks[i] \in [topic : Topics,
                               status : {"pending", "running", "blocked", "closed"}]
              /\ tasks[i].topic \in Topics
<1> DEFINE S == [topic : Topics, status : {"pending", "running", "blocked", "closed"}]
<1>1. tasks \in Seq(S)  BY DEF LifeTypes
<1>2. \A r \in S : r.topic \in Topics  OBVIOUS
<1> HIDE DEF S
<1>3. /\ Len(tasks) \in Nat /\ DOMAIN tasks = 1 .. Len(tasks)
      /\ \A i \in 1 .. Len(tasks) : tasks[i] \in S
  BY <1>1
<1> QED BY <1>2, <1>3 DEF S

\* One task gets a status, that is not to be picked.
SetTo(j, status) ==
  /\ tasks' \in Seq([topic : Topics, status : {"pending", "running", "blocked", "closed"}])
  /\ Len(tasks') = Len(tasks)
  /\ \A i \in 1 .. Len(tasks) : /\ tasks'[i].topic = tasks[i].topic
                                /\ i # j => tasks'[i] = tasks[i]
  /\ tasks'[j].status = status /\ status # "pending"

LEMMA TaskSet ==
  ASSUME LifeTypes, NEW j \in 1 .. Len(tasks), NEW status \in {"running", "blocked", "closed"},
         tasks' = [tasks EXCEPT ![j].status = status]
  PROVE  SetTo(j, status)
<1>1. /\ Len(tasks) \in Nat /\ DOMAIN tasks = 1 .. Len(tasks)
      /\ tasks[j] \in [topic : Topics, status : {"pending", "running", "blocked", "closed"}]
  BY TaskTypes
<1> DEFINE r == [tasks[j] EXCEPT !.status = status]
<1>2. /\ r \in [topic : Topics, status : {"pending", "running", "blocked", "closed"}]
      /\ r.topic = tasks[j].topic /\ r.status = status
  BY <1>1
<1>3. tasks' = [tasks EXCEPT ![j] = r]
  OBVIOUS
<1> HIDE DEF r
<1>4. tasks' \in Seq([topic : Topics, status : {"pending", "running", "blocked", "closed"}])
  <2> DEFINE S == [topic : Topics, status : {"pending", "running", "blocked", "closed"}]
  <2>1. tasks \in Seq(S) /\ r \in S  BY <1>2 DEF LifeTypes
  <2> HIDE DEF S
  <2>2. \A i \in 1 .. Len(tasks) : tasks[i] \in S  BY <2>1
  <2>3. tasks' = [i \in 1 .. Len(tasks) |-> IF i = j THEN r ELSE tasks[i]]
    BY <1>1, <1>3
  <2>4. [i \in 1 .. Len(tasks) |-> IF i = j THEN r ELSE tasks[i]] \in Seq(S)
    BY <1>1, <2>1, <2>2
  <2>5. tasks' \in Seq(S)  BY <2>3, <2>4
  <2> QED BY <2>5 DEF S
<1>5. /\ Len(tasks') = Len(tasks) /\ tasks'[j] = r
      /\ \A i \in 1 .. Len(tasks) : i # j => tasks'[i] = tasks[i]
  BY <1>1, <1>3 DEF LifeTypes
<1> QED BY <1>1, <1>2, <1>4, <1>5 DEF SetTo

LEMMA SetToHas ==
  ASSUME FailInv, NEW j, NEW status, SetTo(j, status), UNCHANGED job
  PROVE  /\ \A w \in Tickers, u \in Topics : Life!Has(w, u)' <=> Life!Has(w, u)
         /\ j \in 1 .. Len(tasks) =>
              \A i \in 1 .. Len(tasks), u \in Topics : Pending(i, u)' => Pending(i, u)
BY DEF FailInv, JobHeld, Life!Has, SetTo, Pending

LEMMA FailStart == ASSUME None \notin Nat, Life!Init PROVE FailInv
<1>1. IsRecord(Life!Fresh)
  BY DEF IsRecord, Life!Fresh, Fields
<1>2. LifeTypes
  BY <1>1 DEF Life!Init, LifeTypes
<1>3. JobHeld
  BY DEF Life!Init, JobHeld, Busy
<1>4. OnePending /\ OneHolder /\ SecondRun /\ Halted
  BY DEF Life!Init, OnePending, OneHolder, SecondRun, Halted, Life!Has
<1>5. FailsCounted
  BY DEF Life!Init, FailsCounted, Life!Fresh
<1> QED BY <1>2, <1>3, <1>4, <1>5 DEF FailInv

\* The failures on file do not change.
FailKept ==
  /\ topics' = [t \in Topics |-> topics'[t]]
  /\ \A t \in Topics : IsRecord(topics'[t]) /\ topics'[t].fail = topics[t].fail

\* No ticker takes a task, starts one or lets one go.
LEMMA NoTask ==
  ASSUME FailInv, FailKept, UNCHANGED <<tasks, job, missed, halted, doubled>>,
         lifePc' \in [Tickers -> Busy \cup {"idle", "consolidate", "clear", "decay", "drain"}],
         \A w \in Tickers : \/ lifePc'[w] = lifePc[w]
                            \/ lifePc[w] \notin Busy /\ lifePc'[w] \notin Busy
                            \/ (lifePc[w] = "run" /\ lifePc'[w] = "close")
  PROVE  FailInv'
<1>1. LifeTypes'  BY DEF FailInv, LifeTypes, FailKept
<1>2. JobHeld'  BY DEF FailInv, JobHeld, Busy
<1>3. OnePending' /\ OneHolder'  BY DEF FailInv, OnePending, OneHolder, Life!Has, Pending
<1>4. FailsCounted'  BY DEF FailInv, FailsCounted, FailKept
<1>5. SecondRun'  BY DEF FailInv, SecondRun, Life!Has, Pending, Busy
<1>6. Halted'
  <2>1. ASSUME NEW t \in Topics \ doubled, t \in halted, NEW w \in Tickers, Life!Has(w, t)
        PROVE  lifePc'[w] = "block"
    <3>1. lifePc[w] = "block"  BY <2>1 DEF FailInv, Halted
    <3> QED BY <3>1 DEF Busy
  <2> QED BY <2>1 DEF FailInv, Halted, Life!Has, Pending
<1> QED BY <1>1, <1>2, <1>3, <1>4, <1>5, <1>6 DEF FailInv

\* The topics of the events.
LEMMA FailKeptAt ==
  ASSUME LifeTypes, NEW t \in Topics, NEW r, IsRecord(r), r.fail = topics[t].fail,
         topics' = [topics EXCEPT ![t] = r]
  PROVE  FailKept
BY DEF LifeTypes, FailKept

LEMMA FilesTask ==
  ASSUME FailInv, FailKept, NEW t \in Topics, tasks' = Life!Filed(t),
         UNCHANGED <<lifePc, job, missed, halted, doubled>>
  PROVE  FailInv'
<1>1. CASE tasks' = tasks
  BY <1>1, NoTask DEF FailInv, LifeTypes
<1>2. CASE tasks' # tasks
  <2>1. /\ \A i \in 1 .. Len(tasks) : tasks[i].topic = t => ~Life!Open(tasks[i].status)
        /\ tasks' = Append(tasks, [topic |-> t, status |-> "pending"])
    BY <1>2 DEF Life!Filed, FailInv, LifeTypes
  <2>2. /\ tasks' \in Seq([topic : Topics, status : {"pending", "running", "blocked", "closed"}])
        /\ Len(tasks') = Len(tasks) + 1 /\ Len(tasks) \in Nat
        /\ \A i \in 1 .. Len(tasks) : tasks'[i] = tasks[i]
        /\ tasks'[Len(tasks) + 1] = [topic |-> t, status |-> "pending"]
    BY <2>1 DEF FailInv, LifeTypes
  <2>3. \A i \in 1 .. Len(tasks') : i \in 1 .. Len(tasks) \/ i = Len(tasks) + 1
    BY <2>2
  <2>4. \A w \in Tickers, u \in Topics : Life!Has(w, u)' <=> Life!Has(w, u)
    BY <2>2 DEF FailInv, JobHeld, Life!Has
  <2>5. LifeTypes'  BY <2>2 DEF FailInv, LifeTypes, FailKept
  <2>6. JobHeld'  BY <2>2 DEF FailInv, JobHeld
  <2>7. \A i \in 1 .. Len(tasks'), u \in Topics :
          Pending(i, u)' => \/ i \in 1 .. Len(tasks) /\ Pending(i, u)
                            \/ i = Len(tasks) + 1 /\ u = t
    BY <2>2, <2>3 DEF Pending
  <2>8. \A i \in 1 .. Len(tasks) : ~Pending(i, t)
    BY <2>1 DEF Pending, Life!Open
  <2>9. OnePending'
    BY <2>2, <2>7, <2>8 DEF FailInv, OnePending
  <2>10. OneHolder'  BY <2>4 DEF FailInv, OneHolder
  <2>11. FailsCounted'  BY DEF FailInv, FailsCounted, FailKept
  <2>12. SecondRun'
    <3>1. ASSUME NEW u \in Topics \ doubled, NEW w \in Tickers, Life!Has(w, u), u \in missed,
                 lifePc[w] \in {"picked", "run"}
          PROVE  /\ u \notin halted
                 /\ lifePc[w] = "picked" => tasks'[job[w]].status = "pending"
                 /\ lifePc[w] = "run" => /\ tasks'[job[w]].status = "running"
                                         /\ \A i \in 1 .. Len(tasks') : ~Pending(i, u)'
      <4>1. /\ u \notin halted
            /\ lifePc[w] = "picked" => tasks[job[w]].status = "pending"
            /\ lifePc[w] = "run" => /\ tasks[job[w]].status = "running"
                                    /\ \A i \in 1 .. Len(tasks) : ~Pending(i, u)
        BY <3>1 DEF FailInv, SecondRun
      <4>2. job[w] \in 1 .. Len(tasks) /\ tasks[job[w]].topic = u
        BY <3>1 DEF FailInv, JobHeld, Life!Has
      <4>3. u # t
        BY <3>1, <4>1, <4>2, <2>1 DEF Life!Open
      <4> QED BY <2>2, <2>7, <4>1, <4>2, <4>3
    <3> QED BY <3>1, <2>4 DEF SecondRun
  <2>13. Halted'
    <3>1. ASSUME NEW u \in Topics \ doubled, u \in halted
          PROVE  u # t
      BY <3>1, <2>1 DEF FailInv, Halted, Life!Open
    <3>2. ASSUME NEW u \in Topics \ doubled, u \in halted
          PROVE  /\ \A i \in 1 .. Len(tasks') : ~Pending(i, u)'
                 /\ \E i \in 1 .. Len(tasks') : /\ tasks'[i].topic = u
                                                /\ tasks'[i].status \in {"running", "blocked"}
      <4>1. /\ \A i \in 1 .. Len(tasks) : ~Pending(i, u)
            /\ \E i \in 1 .. Len(tasks) : /\ tasks[i].topic = u
                                          /\ tasks[i].status \in {"running", "blocked"}
        BY <3>2 DEF FailInv, Halted
      <4>2. 1 .. Len(tasks) \subseteq 1 .. Len(tasks')  BY <2>2
      <4> QED BY <2>2, <2>7, <3>1, <3>2, <4>1, <4>2
    <3> QED BY <3>2, <2>4 DEF FailInv, Halted
  <2> QED BY <2>5, <2>6, <2>9, <2>10, <2>11, <2>12, <2>13 DEF FailInv
<1> QED BY <1>1, <1>2

LEMMA LetsGo == ASSUME FailInv, NEW t \in Topics, Life!MarkResolved(t) PROVE FailInv'
<1>1. /\ topics' = [topics EXCEPT ![t].pressure = 0]
      /\ tasks' = [i \in DOMAIN tasks |->
                    IF tasks[i].topic = t /\ Life!Open(tasks[i].status)
                    THEN [tasks[i] EXCEPT !.status = "closed"] ELSE tasks[i]]
      /\ missed' = missed \ {t} /\ halted' = halted \ {t}
      /\ UNCHANGED <<lifePc, job, doubled>>
  BY DEF Life!MarkResolved
<1>2. FailKept
  <2>1. topics' = [topics EXCEPT ![t] = [topics[t] EXCEPT !.pressure = 0]]
    BY <1>1
  <2> QED BY <2>1, PressureSet, FailKeptAt DEF FailInv, LifeTypes
<1>3. /\ tasks' \in Seq([topic : Topics, status : {"pending", "running", "blocked", "closed"}])
      /\ Len(tasks') = Len(tasks)
      /\ \A i \in 1 .. Len(tasks) : /\ tasks'[i].topic = tasks[i].topic
                                    /\ tasks[i].topic # t => tasks'[i] = tasks[i]
                                    /\ tasks'[i].status = "pending" => tasks[i].status = "pending"
  <2>1. \A i \in 1 .. Len(tasks) :
          tasks[i] \in [topic : Topics, status : {"pending", "running", "blocked", "closed"}]
    BY TaskTypes DEF FailInv
  <2> DEFINE new(i) == IF tasks[i].topic = t /\ Life!Open(tasks[i].status)
                       THEN [tasks[i] EXCEPT !.status = "closed"] ELSE tasks[i]
  <2>2. \A i \in 1 .. Len(tasks) :
          /\ new(i) \in [topic : Topics, status : {"pending", "running", "blocked", "closed"}]
          /\ new(i).topic = tasks[i].topic
          /\ tasks[i].topic # t => new(i) = tasks[i]
          /\ new(i).status = "pending" => tasks[i].status = "pending"
    BY <2>1
  <2>3. Len(tasks) \in Nat /\ DOMAIN tasks = 1 .. Len(tasks)
    BY TaskTypes DEF FailInv
  <2>4. tasks' = [i \in 1 .. Len(tasks) |-> new(i)]
    BY <1>1, <2>3
  <2> HIDE DEF new
  <2> QED BY <2>2, <2>3, <2>4
<1>4. \A u \in Topics : (u \in missed' <=> (u # t /\ u \in missed))
                        /\ (u \in halted' <=> (u # t /\ u \in halted))
  BY <1>1
<1>5. LifeTypes'  BY <1>1, <1>2, <1>3 DEF FailInv, LifeTypes, FailKept
<1>6. JobHeld'  BY <1>1, <1>3 DEF FailInv, JobHeld
<1>7. \A w \in Tickers, u \in Topics : Life!Has(w, u)' <=> Life!Has(w, u)
  BY <1>1, <1>3 DEF FailInv, JobHeld, Life!Has
<1>8. \A i \in 1 .. Len(tasks), u \in Topics : Pending(i, u)' => Pending(i, u)
  BY <1>3 DEF Pending
<1>9. OnePending'  BY <1>3, <1>8 DEF FailInv, OnePending
<1>10. OneHolder'  BY <1>1, <1>7 DEF FailInv, OneHolder
<1>11. FailsCounted'
  BY <1>2, <1>4 DEF FailInv, FailsCounted, FailKept, IsRecord
<1>12. SecondRun'
  <2>1. ASSUME NEW u \in Topics \ doubled, NEW w \in Tickers, Life!Has(w, u), u \in missed',
               lifePc[w] \in {"picked", "run"}
        PROVE  /\ u \notin halted'
               /\ lifePc[w] = "picked" => tasks'[job[w]].status = "pending"
               /\ lifePc[w] = "run" => /\ tasks'[job[w]].status = "running"
                                       /\ \A i \in 1 .. Len(tasks) : ~Pending(i, u)'
    <3>1. u # t /\ u \in missed  BY <1>4, <2>1
    <3>2. job[w] \in 1 .. Len(tasks) /\ tasks[job[w]].topic = u
      BY <2>1 DEF FailInv, JobHeld, Life!Has
    <3> QED BY <1>3, <1>4, <1>8, <2>1, <3>1, <3>2 DEF FailInv, SecondRun
  <2> QED BY <1>1, <1>3, <1>7, <2>1 DEF SecondRun
<1>13. Halted'
  <2>1. ASSUME NEW u \in Topics \ doubled, u \in halted'
        PROVE  u # t /\ u \in halted
    BY <1>4, <2>1
  <2> QED BY <1>1, <1>3, <1>4, <1>7, <1>8, <2>1 DEF FailInv, Halted
<1> QED BY <1>5, <1>6, <1>9, <1>10, <1>11, <1>12, <1>13 DEF FailInv

LEMMA Restarts == ASSUME None \notin Nat, FailInv, Life!Restart PROVE FailInv'
<1>1. /\ UNCHANGED <<topics, tasks, missed, halted, doubled>>
      /\ lifePc' = [w \in Tickers |-> "idle"] /\ job' = [w \in Tickers |-> None]
  BY DEF Life!Restart, Life!hist
<1>2. LifeTypes' /\ JobHeld'  BY <1>1 DEF FailInv, LifeTypes, JobHeld, Busy
<1>3. OnePending' /\ OneHolder' /\ FailsCounted' /\ SecondRun' /\ Halted'
  BY <1>1 DEF FailInv, OnePending, OneHolder, FailsCounted, SecondRun, Halted, Life!Has, Pending
<1> QED BY <1>2, <1>3 DEF FailInv

LEMMA Picks ==
  ASSUME None \notin Nat, FailInv, NEW w \in Tickers, NEW i \in DOMAIN tasks, Life!Pick(w, i)
  PROVE  FailInv'
<1>1. /\ UNCHANGED <<topics, tasks, missed, halted>> /\ lifePc[w] = "drain" /\ tasks[i].status = "pending"
      /\ job' = [job EXCEPT ![w] = i] /\ lifePc' = [lifePc EXCEPT ![w] = "picked"]
      /\ doubled' = doubled \union
                      {tasks[i].topic : v \in {u \in Tickers : Life!Has(u, tasks[i].topic)}}
  BY DEF Life!Pick
<1>2. i \in 1 .. Len(tasks) /\ tasks[i].topic \in Topics
  BY TaskTypes DEF FailInv
<1>3. /\ doubled' \in SUBSET Topics /\ doubled \subseteq doubled'
      /\ tasks[i].topic \notin doubled' => \A u \in Tickers : ~Life!Has(u, tasks[i].topic)
  BY <1>1, <1>2 DEF FailInv, LifeTypes
<1>4. /\ job'[w] = i /\ lifePc'[w] = "picked" /\ i # None
      /\ \A v \in Tickers : v # w => job'[v] = job[v] /\ lifePc'[v] = lifePc[v]
  BY <1>1, <1>2 DEF FailInv, LifeTypes
<1>5. LifeTypes'  BY <1>1, <1>2, <1>3 DEF FailInv, LifeTypes, Busy
<1>6. JobHeld'  BY <1>1, <1>2, <1>4 DEF FailInv, JobHeld, Busy
<1>7. OnePending' /\ FailsCounted'
  BY <1>1 DEF FailInv, OnePending, FailsCounted, Pending
<1>8. \A v \in Tickers, u \in Topics :
        Life!Has(v, u)' <=> IF v = w THEN u = tasks[i].topic ELSE Life!Has(v, u)
  BY <1>1, <1>2, <1>4 DEF Life!Has
<1>9. OneHolder'
  BY <1>3, <1>8 DEF FailInv, OneHolder
<1>10. Pending(i, tasks[i].topic)
  BY <1>1 DEF Pending
<1>11. \A u \in Topics \ doubled : u \in halted => u # tasks[i].topic
  BY <1>2, <1>10 DEF FailInv, Halted
<1>12. SecondRun'
  <2>1. ASSUME NEW u \in Topics \ doubled', NEW v \in Tickers, Life!Has(v, u)', u \in missed,
               lifePc'[v] \in {"picked", "run"}
        PROVE  /\ u \notin halted
               /\ lifePc'[v] = "picked" => tasks[job'[v]].status = "pending"
               /\ lifePc'[v] = "run" => /\ tasks[job'[v]].status = "running"
                                        /\ \A j \in 1 .. Len(tasks) : ~Pending(j, u)
    <3>1. CASE v = w
      <4>1. u \notin halted
        BY <1>3, <1>8, <1>11, <2>1, <3>1 DEF FailInv, LifeTypes
      <4> QED BY <1>1, <1>4, <2>1, <3>1, <4>1
    <3>2. CASE v # w
      BY <1>3, <1>4, <1>8, <2>1, <3>2 DEF FailInv, SecondRun
    <3> QED BY <3>1, <3>2
  <2> QED BY <1>1, <2>1 DEF SecondRun, Pending
<1>13. Halted'
  <2>1. ASSUME NEW u \in Topics \ doubled', u \in halted
        PROVE  /\ u \in missed /\ \A j \in 1 .. Len(tasks) : ~Pending(j, u)
               /\ \E j \in 1 .. Len(tasks) : /\ tasks[j].topic = u
                                             /\ tasks[j].status \in {"running", "blocked"}
               /\ \A v \in Tickers : Life!Has(v, u)' => lifePc'[v] = "block"
    BY <1>3, <1>4, <1>8, <1>11, <2>1 DEF FailInv, Halted
  <2> QED BY <1>1, <2>1 DEF Halted, Pending
<1> QED BY <1>5, <1>6, <1>7, <1>9, <1>12, <1>13 DEF FailInv

LEMMA Runs == ASSUME None \notin Nat, FailInv, NEW w \in Tickers, Life!Run(w) PROVE FailInv'
<1>1. /\ UNCHANGED <<topics, job, missed, halted, doubled>> /\ lifePc[w] = "picked"
      /\ tasks' = [tasks EXCEPT ![job[w]].status = "running"]
      /\ lifePc' = [lifePc EXCEPT ![w] = "run"]
  BY DEF Life!Run, Life!hist
<1>2. job[w] \in 1 .. Len(tasks)
  BY <1>1 DEF FailInv, JobHeld, Busy
<1>3. SetTo(job[w], "running")
  BY <1>1, <1>2, TaskSet DEF FailInv
<1>4. /\ lifePc'[w] = "run" /\ \A v \in Tickers : v # w => lifePc'[v] = lifePc[v]
  BY <1>1 DEF FailInv, LifeTypes
<1>5. LifeTypes'  BY <1>1, <1>3 DEF FailInv, LifeTypes, SetTo, Busy
<1>6. JobHeld'  BY <1>1, <1>3, <1>4 DEF FailInv, JobHeld, Busy, SetTo
<1>10. /\ \A v \in Tickers, u \in Topics : Life!Has(v, u)' <=> Life!Has(v, u)
       /\ \A k \in 1 .. Len(tasks), u \in Topics : Pending(k, u)' => Pending(k, u)
  BY <1>1, <1>2, <1>3, SetToHas
<1>7. OnePending' /\ OneHolder' /\ FailsCounted'
  BY <1>1, <1>2, <1>3, <1>10 DEF FailInv, OnePending, OneHolder, FailsCounted, SetTo
<1>8. SecondRun'
  <2>1. ASSUME NEW u \in Topics \ doubled, NEW v \in Tickers, Life!Has(v, u), u \in missed,
               lifePc'[v] \in {"picked", "run"}
        PROVE  /\ u \notin halted
               /\ lifePc'[v] = "picked" => tasks'[job[v]].status = "pending"
               /\ lifePc'[v] = "run" => /\ tasks'[job[v]].status = "running"
                                        /\ \A i \in 1 .. Len(tasks) : ~Pending(i, u)'
    <3>1. CASE v = w
      <4>1. u \notin halted /\ tasks[job[w]].status = "pending" /\ tasks[job[w]].topic = u
        BY <1>1, <2>1, <3>1 DEF FailInv, SecondRun, Life!Has
      <4>2. \A i \in 1 .. Len(tasks) : Pending(i, u) => i = job[w]
        BY <1>2, <4>1 DEF FailInv, OnePending, Pending
      <4>3. \A i \in 1 .. Len(tasks) : ~Pending(i, u)'
        BY <1>2, <1>3, <4>2 DEF SetTo, Pending
      <4> QED BY <1>2, <1>3, <1>4, <3>1, <4>1, <4>3 DEF SetTo
    <3>2. CASE v # w
      <4>1. job[v] \in 1 .. Len(tasks) /\ tasks[job[v]].topic = u /\ ~Life!Has(w, u)
        BY <2>1, <3>2 DEF FailInv, JobHeld, OneHolder, Life!Has
      <4>2. job[v] # job[w]
        BY <1>1, <4>1 DEF Life!Has, FailInv, JobHeld, Busy
      <4>3. /\ u \notin halted
            /\ lifePc[v] = "picked" => tasks[job[v]].status = "pending"
            /\ lifePc[v] = "run" => /\ tasks[job[v]].status = "running"
                                    /\ \A k \in 1 .. Len(tasks) : ~Pending(k, u)
        BY <1>4, <2>1, <3>2 DEF FailInv, SecondRun
      <4>4. tasks'[job[v]] = tasks[job[v]]
        BY <1>3, <4>1, <4>2 DEF SetTo
      <4> QED BY <1>4, <1>10, <3>2, <4>3, <4>4
    <3> QED BY <3>1, <3>2
  <2> QED BY <1>1, <1>3, <1>10, <2>1 DEF SecondRun, SetTo
<1>9. Halted'
  <2>1. ASSUME NEW u \in Topics \ doubled, u \in halted
        PROVE  /\ u \in missed /\ \A i \in 1 .. Len(tasks) : ~Pending(i, u)'
               /\ \E i \in 1 .. Len(tasks) : /\ tasks'[i].topic = u
                                             /\ tasks'[i].status \in {"running", "blocked"}
               /\ \A v \in Tickers : Life!Has(v, u) => lifePc'[v] = "block"
    <3>1. ~Life!Has(w, u)  BY <1>1, <2>1 DEF FailInv, Halted
    <3>2. PICK k \in 1 .. Len(tasks) : /\ tasks[k].topic = u
                                       /\ tasks[k].status \in {"running", "blocked"}
      BY <2>1 DEF FailInv, Halted
    <3>3. tasks'[k].topic = u /\ tasks'[k].status \in {"running", "blocked"}
      BY <1>2, <1>3, <3>2 DEF SetTo
    <3>4. \A v \in Tickers : Life!Has(v, u) => v # w /\ lifePc[v] = "block"
      BY <2>1, <3>1 DEF FailInv, Halted
    <3> QED BY <1>4, <1>10, <2>1, <3>3, <3>4 DEF FailInv, Halted
  <2> QED BY <1>1, <1>3, <1>10, <2>1 DEF Halted, SetTo
<1> QED BY <1>5, <1>6, <1>7, <1>8, <1>9 DEF FailInv

\* A run fails, and its task is closed or, if the topic is halted, blocked.
LEMMA Misses ==
  ASSUME None \notin Nat, FailInv, NEW w \in Tickers, NEW t, t = Life!TopicOf(w),
         NEW q \in {"close", "block"}, lifePc[w] = "run",
         UNCHANGED <<tasks, job, doubled>>,
         topics' = [topics EXCEPT ![t] = Life!Outcome(@, "failed")],
         missed' = missed \union {t},
         halted' = halted \/ (halted' = halted \union {t} /\ t \in missed /\ q = "block"),
         lifePc' = [lifePc EXCEPT ![w] = q]
  PROVE  FailInv'
<1>1. job[w] \in 1 .. Len(tasks) /\ tasks[job[w]].topic = t /\ t \in Topics /\ Life!Has(w, t)
  BY TaskTypes DEF FailInv, JobHeld, Busy, Life!Has, Life!TopicOf
<1>2. /\ topics' = [u \in Topics |-> topics'[u]]
      /\ \A u \in Topics : IsRecord(topics'[u])
      /\ \A u \in Topics : topics'[u].fail = IF u = t THEN topics[u].fail + 1 ELSE topics[u].fail
  BY <1>1, FailStays DEF FailInv, LifeTypes
<1>3. lifePc'[w] = q /\ \A v \in Tickers : v # w => lifePc'[v] = lifePc[v]
  BY DEF FailInv, LifeTypes
<1>4. LifeTypes'  BY <1>2 DEF FailInv, LifeTypes, Busy
<1>5. JobHeld'  BY <1>3 DEF FailInv, JobHeld, Busy
<1>6. OnePending' /\ OneHolder'  BY DEF FailInv, OnePending, OneHolder, Life!Has, Pending
<1>7. FailsCounted'
  <2>1. \A u \in Topics : topics[u].fail \in Nat
    BY DEF FailInv, LifeTypes, IsRecord
  <2> QED BY <1>2, <2>1 DEF FailInv, FailsCounted
<1>8. \A v \in Tickers : t \notin doubled /\ Life!Has(v, t) => v = w
  BY <1>1 DEF FailInv, OneHolder
<1>9. t \notin doubled => t \notin halted
  BY <1>1 DEF FailInv, Halted
<1>10. SecondRun'
  <2>1. ASSUME NEW u \in Topics \ doubled, NEW v \in Tickers, Life!Has(v, u),
               lifePc'[v] \in {"picked", "run"}
        PROVE  u # t /\ v # w
    BY <1>3, <1>8, <2>1
  <2> QED BY <1>3, <2>1 DEF FailInv, SecondRun, Life!Has, Pending
<1>11. Halted'
  <2>1. ASSUME NEW u \in Topics \ doubled, u \in halted'
        PROVE  /\ u \in missed' /\ \A i \in 1 .. Len(tasks) : ~Pending(i, u)
               /\ \E i \in 1 .. Len(tasks) : /\ tasks[i].topic = u
                                             /\ tasks[i].status \in {"running", "blocked"}
               /\ \A v \in Tickers : Life!Has(v, u) => lifePc'[v] = "block"
    <3>1. CASE u # t
      <4>1. ~Life!Has(w, u)  BY <1>1, <3>1 DEF Life!Has
      <4> QED BY <1>3, <2>1, <3>1, <4>1 DEF FailInv, Halted
    <3>2. CASE u = t
      <4>1. t \in missed /\ q = "block"
        BY <1>9, <2>1, <3>2
      <4>2. /\ tasks[job[w]].status = "running"
            /\ \A i \in 1 .. Len(tasks) : ~Pending(i, t)
        BY <1>1, <2>1, <3>2, <4>1 DEF FailInv, SecondRun
      <4> QED BY <1>1, <1>3, <1>8, <2>1, <3>2, <4>1, <4>2
    <3> QED BY <3>1, <3>2
  <2> QED BY <2>1 DEF Halted, Life!Has, Pending
<1> QED BY <1>4, <1>5, <1>6, <1>7, <1>10, <1>11 DEF FailInv

LEMMA Fails ==
  ASSUME None \notin Nat, FailInv, NEW w \in Tickers, Life!Failed(w) \/ Life!Unanswered(w)
  PROVE  FailInv'
<1> DEFINE t == Life!TopicOf(w)
<1>1. /\ UNCHANGED <<tasks, job, doubled>> /\ lifePc[w] = "run"
      /\ topics' = [topics EXCEPT ![t] = Life!Outcome(@, "failed")]
      /\ missed' = missed \union {t}
  BY DEF Life!Failed, Life!Unanswered
<1>2. CASE Life!Unanswered(w)
  <2>1. halted' = halted /\ lifePc' = [lifePc EXCEPT ![w] = "close"]
    BY <1>2 DEF Life!Unanswered
  <2> QED BY <1>1, <2>1, Misses
<1>3. CASE Life!Failed(w)
  <2> DEFINE q == IF topics'[t].fail >= 2 THEN "block" ELSE "close"
  <2>1. /\ halted' = IF t \in missed THEN halted \union {t} ELSE halted
        /\ lifePc' = [lifePc EXCEPT ![w] = q] /\ q \in {"close", "block"}
    BY <1>3 DEF Life!Failed, Life!Halting
  <2>2. t \in Topics
    BY <1>1, TaskTypes DEF FailInv, JobHeld, Busy, Life!TopicOf
  <2>3. t \in missed => q = "block"
    <3>1. topics'[t].fail = topics[t].fail + 1 /\ topics[t].fail \in Nat
      BY <1>1, <2>2, FailStays DEF FailInv, LifeTypes, IsRecord
    <3>2. t \in missed => topics[t].fail >= 1  BY <2>2 DEF FailInv, FailsCounted
    <3> QED BY <3>1, <3>2
  <2> HIDE DEF q
  <2> QED BY <1>1, <2>1, <2>3, Misses
<1> QED BY <1>2, <1>3

LEMMA Settles ==
  ASSUME None \notin Nat, FailInv, NEW w \in Tickers, Life!Settle(w)
  PROVE  FailInv'
<1>1. /\ UNCHANGED <<topics, missed, halted, doubled>> /\ lifePc[w] \in {"close", "block"}
      /\ tasks' = [tasks EXCEPT ![job[w]].status =
                     IF lifePc[w] = "block" THEN "blocked" ELSE "closed"]
      /\ job' = [job EXCEPT ![w] = None] /\ lifePc' = [lifePc EXCEPT ![w] = "idle"]
  BY DEF Life!Settle, Life!hist
<1> DEFINE s == IF lifePc[w] = "block" THEN "blocked" ELSE "closed"
<1>2. job[w] \in 1 .. Len(tasks)
  BY <1>1 DEF FailInv, JobHeld, Busy
<1>3. SetTo(job[w], s)
  BY <1>1, <1>2, TaskSet DEF FailInv
<1>4. /\ lifePc'[w] = "idle" /\ job'[w] = None
      /\ \A v \in Tickers : v # w => lifePc'[v] = lifePc[v] /\ job'[v] = job[v]
  BY <1>1 DEF FailInv, LifeTypes
<1>5. LifeTypes'  BY <1>1, <1>3 DEF FailInv, LifeTypes, SetTo, Busy
<1>6. JobHeld'  BY <1>1, <1>3, <1>4 DEF FailInv, JobHeld, Busy, SetTo
<1>7. \A v \in Tickers, u \in Topics : Life!Has(v, u)' => v # w /\ Life!Has(v, u)
  BY <1>2, <1>3, <1>4 DEF FailInv, JobHeld, Life!Has, SetTo
<1>8. \A i \in 1 .. Len(tasks), u \in Topics : Pending(i, u)' => Pending(i, u)
  BY <1>2, <1>3 DEF SetTo, Pending
<1>9. OnePending' /\ OneHolder' /\ FailsCounted'
  BY <1>1, <1>3, <1>7, <1>8 DEF FailInv, OnePending, OneHolder, FailsCounted, SetTo
<1>10. SecondRun'
  <2>1. ASSUME NEW u \in Topics \ doubled, NEW v \in Tickers, Life!Has(v, u)', u \in missed,
               lifePc'[v] \in {"picked", "run"}
        PROVE  /\ u \notin halted
               /\ lifePc'[v] = "picked" => tasks'[job'[v]].status = "pending"
               /\ lifePc'[v] = "run" => /\ tasks'[job'[v]].status = "running"
                                        /\ \A i \in 1 .. Len(tasks) : ~Pending(i, u)'
    <3>1. v # w /\ Life!Has(v, u) /\ lifePc[v] \in {"picked", "run"} /\ job'[v] = job[v]
      BY <1>4, <1>7, <2>1
    <3>2. job[v] # job[w] /\ job[v] \in 1 .. Len(tasks)
      BY <1>1, <1>2, <2>1, <3>1 DEF FailInv, JobHeld, OneHolder, Life!Has
    <3> QED BY <1>2, <1>3, <1>4, <1>8, <2>1, <3>1, <3>2 DEF FailInv, SecondRun, SetTo
  <2> QED BY <1>1, <1>3, <2>1 DEF SecondRun, SetTo
<1>11. Halted'
  <2>1. ASSUME NEW u \in Topics \ doubled, u \in halted
        PROVE  /\ u \in missed /\ \A i \in 1 .. Len(tasks) : ~Pending(i, u)'
               /\ \E i \in 1 .. Len(tasks) : /\ tasks'[i].topic = u
                                             /\ tasks'[i].status \in {"running", "blocked"}
               /\ \A v \in Tickers : Life!Has(v, u)' => lifePc'[v] = "block"
    <3>1. PICK i \in 1 .. Len(tasks) : /\ tasks[i].topic = u
                                       /\ tasks[i].status \in {"running", "blocked"}
      BY <2>1 DEF FailInv, Halted
    <3>2. /\ tasks'[i].topic = u /\ tasks'[i].status \in {"running", "blocked"}
      <4>1. CASE i = job[w]
        <5>1. Life!Has(w, u)  BY <1>2, <3>1, <4>1 DEF FailInv, JobHeld, Life!Has
        <5>2. lifePc[w] = "block"  BY <2>1, <5>1 DEF FailInv, Halted
        <5> QED BY <1>2, <1>3, <3>1, <4>1, <5>2 DEF SetTo
      <4>2. CASE i # job[w]
        BY <1>2, <1>3, <3>1, <4>2 DEF SetTo
      <4> QED BY <4>1, <4>2
    <3> QED BY <1>4, <1>7, <1>8, <2>1, <3>2 DEF FailInv, Halted
  <2> QED BY <1>1, <1>3, <2>1 DEF Halted, SetTo
<1> QED BY <1>5, <1>6, <1>9, <1>10, <1>11 DEF FailInv

\* The steps that touch no task: pressure rises and falls, a tick moves on.
LEMMA Quietly ==
  ASSUME None \notin Nat, FailInv,
         \/ Life!Withheld \/ Life!MemoryAction \/ Life!Hour
         \/ \E t \in Topics, wrong \in BOOLEAN : Life!Feedback(t, wrong)
         \/ \E w \in Tickers : \/ Life!Tick(w) \/ Life!Consolidate(w) \/ Life!ClearReasons(w)
                               \/ Life!Decay(w) \/ Life!NothingToRun(w) \/ Life!Answered(w)
  PROVE  FailInv'
<1>0. /\ lifePc \in [Tickers -> Busy \cup {"idle", "consolidate", "clear", "decay", "drain"}]
      /\ topics = [t \in Topics |-> topics[t]] /\ \A t \in Topics : IsRecord(topics[t])
  BY DEF FailInv, LifeTypes
<1>1. UNCHANGED topics => FailKept
  BY <1>0 DEF FailKept
<1>2. CASE Life!Withheld \/ Life!MemoryAction \/ Life!Hour
  <2>1. UNCHANGED <<topics, tasks, job, missed, halted, doubled, lifePc>>
    BY <1>2 DEF Life!Withheld, Life!MemoryAction, Life!Hour, Life!hist
  <2> QED BY <1>0, <1>1, <2>1, NoTask
<1>3. ASSUME NEW t \in Topics, NEW wrong \in BOOLEAN, Life!Feedback(t, wrong)
      PROVE  FailInv'
  <2>1. /\ UNCHANGED <<tasks, job, missed, halted, doubled, lifePc>>
        /\ topics' = [topics EXCEPT ![t] = Life!Rated(@, wrong)]
    BY <1>3 DEF Life!Feedback, Life!hist
  <2>2. FailKept
    BY <2>1, FailStays, FailKeptAt DEF FailInv, LifeTypes
  <2> QED BY <1>0, <2>1, <2>2, NoTask
<1>4. ASSUME NEW w \in Tickers, Life!Tick(w) \/ Life!ClearReasons(w) \/ Life!NothingToRun(w)
      PROVE  FailInv'
  <2>1. UNCHANGED <<topics, tasks, job, missed, halted, doubled>> /\ lifePc[w] \notin Busy
    BY <1>4 DEF Life!Tick, Life!ClearReasons, Life!NothingToRun, Life!hist, Busy
  <2>2. \E q \in {"idle", "consolidate", "decay"} : lifePc' = [lifePc EXCEPT ![w] = q]
    BY <1>4 DEF Life!Tick, Life!ClearReasons, Life!NothingToRun
  <2> QED BY <1>0, <1>1, <2>1, <2>2, NoTask DEF Busy
<1>5. ASSUME NEW w \in Tickers, Life!Consolidate(w)
      PROVE  FailInv'
  <2>1. /\ UNCHANGED <<tasks, job, missed, halted, doubled>> /\ lifePc[w] = "consolidate"
        /\ topics' \in Life!Relieved(topics) \union {topics}
        /\ lifePc' = [lifePc EXCEPT ![w] = "clear"]
    BY <1>5 DEF Life!Consolidate, Life!hist
  <2>2. FailKept
    <3>1. ASSUME NEW r, topics' = [t \in Topics |-> [topics[t] EXCEPT !.pressure = r[t]]]
          PROVE  FailKept
      BY <1>0, <3>1, PressureSet DEF FailKept
    <3>2. CASE topics' \in Life!Relieved(topics)
      <4> DEFINE Left(r, t) == Life!AtLeastZero(4 -
                   Life!SumFunctionOnSet(Life!Pressures(topics), {u \in Topics : r[u] < r[t]}))
      <4>1. PICK r \in Life!Orders(topics) :
              topics' = [t \in Topics |->
                          [topics[t] EXCEPT !.pressure = Life!AtLeastZero(@ - Left(r, t))]]
        BY <3>2 DEF Life!Relieved
      <4> DEFINE p == [t \in Topics |-> Life!AtLeastZero(topics[t].pressure - Left(r, t))]
      <4>2. topics' = [t \in Topics |-> [topics[t] EXCEPT !.pressure = p[t]]]
        BY <4>1
      <4> HIDE DEF p
      <4> QED BY <3>1, <4>2
    <3> QED BY <1>1, <2>1, <3>2
  <2> QED BY <1>0, <2>1, <2>2, NoTask DEF Busy
<1>6. ASSUME NEW w \in Tickers, Life!Decay(w)
      PROVE  FailInv'
  <2>1. /\ UNCHANGED <<tasks, job, missed, halted, doubled>> /\ lifePc[w] = "decay"
        /\ topics' = [t \in Topics |-> Life!Decayed(topics[t])]
        /\ lifePc' = [lifePc EXCEPT ![w] = "drain"]
    BY <1>6 DEF Life!Decay, Life!hist
  <2>2. FailKept
    BY <1>0, <2>1, FailStays DEF FailKept
  <2> QED BY <1>0, <2>1, <2>2, NoTask DEF Busy
<1>7. ASSUME NEW w \in Tickers, Life!Answered(w)
      PROVE  FailInv'
  <2>1. /\ UNCHANGED <<tasks, job, missed, halted, doubled>> /\ lifePc[w] = "run"
        /\ lifePc' = [lifePc EXCEPT ![w] = "close"]
    BY <1>7 DEF Life!Answered, Life!hist
  <2>2. PICK out \in {"done", "disputed"} :
          topics' = [topics EXCEPT ![Life!TopicOf(w)] = Life!Outcome(@, out)]
    BY <1>7 DEF Life!Answered
  <2>3. Life!TopicOf(w) \in Topics
    BY <2>1, TaskTypes DEF FailInv, JobHeld, Busy, Life!TopicOf
  <2>4. FailKept
    BY <1>0, <2>2, <2>3, FailStays, FailKeptAt DEF FailInv
  <2> QED BY <1>0, <2>1, <2>4, NoTask DEF Busy
<1> QED BY <1>2, <1>3, <1>4, <1>5, <1>6, <1>7

LEMMA Asks ==
  ASSUME None \notin Nat, FailInv, NEW t \in Topics, NEW st, Life!Interaction(t, st)
  PROVE  FailInv'
<1>1. /\ topics' = [topics EXCEPT ![t] = Life!Observed(@, st)]
      /\ tasks' = Life!Filed(t) \/ tasks' = tasks
      /\ UNCHANGED <<lifePc, job, missed, halted, doubled>>
  BY DEF Life!Interaction, Life!hist
<1>2. FailKept
  BY <1>1, FailStays, FailKeptAt DEF FailInv, LifeTypes
<1>3. lifePc \in [Tickers -> Busy \cup {"idle", "consolidate", "clear", "decay", "drain"}]
  BY DEF FailInv, LifeTypes
<1> QED BY <1>1, <1>2, <1>3, FilesTask, NoTask

LEMMA FailStep == ASSUME None \notin Nat, FailInv, [Life!Next]_(Life!vars) PROVE FailInv'
<1>1. CASE UNCHANGED Life!vars
  BY <1>1, NoTask DEF Life!vars, FailInv, LifeTypes, FailKept
<1> QED BY <1>1, Asks, Quietly, LetsGo, Restarts, Picks, Runs, Fails, Settles DEF Life!Next

\* Once a run of a topic ended in an error after an earlier one had failed
\* (drain_tasks, lifeloop.py:403-407), no ticker takes up a task of it, whatever asks,
\* ratings, ticks and restarts come, unless two tickers had a task of it at once or
\* the operator let it go (mark_resolved, 435-440).
THEOREM FailuresStop == Life!Spec => []RepeatedFailureStops
<1>1. FailInv => Life!RepeatedFailureStops
  <2> SUFFICES ASSUME FailInv, NEW t \in halted \ doubled, NEW w \in Tickers, Life!Has(w, t)
               PROVE  lifePc[w] = "block"
    BY DEF Life!RepeatedFailureStops
  <2>1. t \in Topics
    BY TaskTypes DEF FailInv, JobHeld, Life!Has
  <2> QED BY <2>1 DEF FailInv, Halted
<1>2. Life!Init => FailInv  BY NoneAssumption, FailStart
<1>3. FailInv /\ [Life!Next]_(Life!vars) => FailInv'  BY NoneAssumption, FailStep
<1> QED BY <1>1, <1>2, <1>3, PTL DEF Life!Spec, RepeatedFailureStops

-----------------------------------------------------------------------------
\* The launcher.

LaunchTypes ==
  /\ launchPc \in [Launches -> Launch!Running \cup {"off", "ended", "killed"}]
  /\ mem \in [Launches -> {"none", "booting", "serving", "dead"}]
  /\ gw \in [Launches -> {"none", "booting", "serving", "dead"}]
  /\ gwPort \in [Launches -> Launch!GatewayPorts \cup {Nobody}]
  /\ owner \in [Launch!Ports -> Launches \cup {Nobody}]
  /\ old \in SUBSET Launches /\ caught \in SUBSET Launches /\ spared \in SUBSET Launches

\* A launch that has begun and has no gateway yet.
BeforeGateway == {"off", "chosen", "waitMemory", "ready"}

\* Who owns the gateway's port is a gateway that serves, and a launch has a
\* gateway only once it has come that far.
ListenerServes ==
  /\ owner[8090] # Nobody => gw[owner[8090]] = "serving" /\ gwPort[owner[8090]] = 8090
  /\ \A l \in Launches : /\ launchPc[l] \in BeforeGateway => gw[l] = "none"
                         /\ launchPc[l] # "off" => gwPort[l] \in Launch!GatewayPorts

\* Once the listeners are stopped, a gateway that neither was caught starting nor
\* was spared is gone for good; once the launchers are, so is its launch.
OldIsGone ==
  /\ restart = "listeners" =>
       \A l \in Launches : l \notin caught /\ l \notin spared =>
                            gw[l] # "booting" /\ owner[8090] # l
  /\ restart \in {"freed", "up", "down"} =>
       \A l \in old : l \notin caught /\ l \notin spared =>
                       /\ launchPc[l] \in {"ended", "killed"}
                       /\ gw[l] # "booting" /\ owner[8090] # l

\* The gateway that was taught has booted, and was spared or has lost its port.
TaughtHasBooted ==
  /\ gate # "idle" =>
       /\ taught \in Launches /\ gw[taught] \in {"serving", "dead"}
       /\ restart # "idle" => taught \in spared \/ owner[8090] # taught
  /\ gate = "passed" => restart # "idle"

LInv ==
  /\ LaunchTypes /\ ListenerServes /\ OldIsGone /\ TaughtHasBooted /\ Launch!RecallIsNoEcho

NobodyIsNone == Nobody \notin Launches

LEMMA LInit == ASSUME NobodyIsNone, Launch!Init PROVE LInv
BY DEF NobodyIsNone, Launch!Init, LInv, LaunchTypes, ListenerServes, OldIsGone,
       TaughtHasBooted, Launch!RecallIsNoEcho, Launch!Ports, Launch!GatewayPorts

LEMMA LSound == ASSUME NobodyIsNone, LInv PROVE Launch!RestartReplaces
BY DEF NobodyIsNone, LInv, LaunchTypes, OldIsGone, Launch!RestartReplaces

\* A step of one launch that has no gateway to start or boot.
LEMMA LLaunch ==
  ASSUME NobodyIsNone, LInv, NEW l \in Launches,
         \/ Launch!Launch(l) \/ Launch!StartMemory(l)
         \/ Launch!MemoryHealthy(l) \/ Launch!GatewayHealthy(l)
  PROVE  LInv'
<1>0. launchPc[l] # "off" => gwPort[l] \in Launch!GatewayPorts
  BY DEF LInv, ListenerServes
<1>1. /\ UNCHANGED <<gw, owner, restart, old, caught, spared, gate, taught, answered>>
      /\ launchPc[l] \notin {"ended", "killed"}
      /\ launchPc' = [launchPc EXCEPT ![l] = launchPc'[l]] /\ launchPc'[l] \in Launch!Running
      /\ launchPc'[l] \in BeforeGateway => gw[l] = "none"
  BY DEF Launch!Launch, Launch!StartMemory, Launch!MemoryHealthy, Launch!GatewayHealthy,
         Launch!children, Launch!escaped, Launch!recall, LInv, LaunchTypes,
         ListenerServes, Launch!Running, BeforeGateway
<1>2. /\ \E m \in {mem[l], "booting"} : mem' = [mem EXCEPT ![l] = m]
      /\ gwPort' = [gwPort EXCEPT ![l] = gwPort'[l]] /\ gwPort'[l] \in Launch!GatewayPorts
      /\ gwPort'[l] = gwPort[l] \/ gw[l] = "none"
  BY <1>0 DEF Launch!Launch, Launch!StartMemory, Launch!MemoryHealthy, Launch!GatewayHealthy,
              Launch!children, Launch!escaped, Launch!recall, LInv, LaunchTypes,
         ListenerServes, BeforeGateway, Launch!GatewayPorts
<1>3. LaunchTypes'  BY <1>1, <1>2 DEF LInv, LaunchTypes, Launch!GatewayPorts
<1>6. ListenerServes'
  <2>1. \A k \in Launches : k # l => launchPc'[k] = launchPc[k] /\ gwPort'[k] = gwPort[k]
    BY <1>1, <1>2 DEF LInv, LaunchTypes
  <2>2. owner[8090] # Nobody => gwPort'[owner[8090]] = 8090
    BY <1>2, <2>1 DEF LInv, LaunchTypes, ListenerServes, Launch!Ports, Launch!GatewayPorts
  <2> QED BY <1>1, <1>2, <2>1, <2>2 DEF LInv, ListenerServes, NobodyIsNone
<1>4. OldIsGone'  BY <1>1 DEF LInv, LaunchTypes, OldIsGone, Launch!escaped, Launch!recall
<1>5. TaughtHasBooted' /\ Launch!RecallIsNoEcho'
  BY <1>1 DEF LInv, TaughtHasBooted, Launch!RecallIsNoEcho, Launch!escaped, Launch!recall
<1> QED BY <1>3, <1>4, <1>5, <1>6 DEF LInv

LEMMA LStart ==
  ASSUME NobodyIsNone, LInv, NEW l \in Launches, Launch!StartGateway(l)
  PROVE  LInv'
<1>1. /\ UNCHANGED <<mem, gwPort, owner, restart, old, crashes, spared, gate, taught, answered>>
      /\ caught' = IF restart = "listeners" THEN caught \cup {l} ELSE caught
      /\ launchPc[l] = "ready" /\ launchPc' = [launchPc EXCEPT ![l] = "waitGateway"]
      /\ gw[l] = "none" /\ gw' = [gw EXCEPT ![l] = "booting"]
  BY DEF Launch!StartGateway, Launch!escaped, Launch!recall, LInv, ListenerServes, BeforeGateway
<1>2. LaunchTypes'  BY <1>1 DEF LInv, LaunchTypes, Launch!Running
<1>3. ListenerServes'
  BY <1>1 DEF NobodyIsNone, LInv, LaunchTypes, ListenerServes, BeforeGateway
<1>4. OldIsGone'  BY <1>1 DEF LInv, LaunchTypes, OldIsGone
<1>5. TaughtHasBooted' /\ Launch!RecallIsNoEcho'
  BY <1>1 DEF LInv, LaunchTypes, TaughtHasBooted, Launch!RecallIsNoEcho
<1> QED BY <1>2, <1>3, <1>4, <1>5 DEF LInv

LEMMA LEnd ==
  ASSUME NobodyIsNone, LInv, NEW l \in Launches, Launch!GiveUp(l) \/ Launch!Quit(l)
  PROVE  LInv'
<1>1. /\ UNCHANGED <<gwPort, restart, old, crashes, caught, spared, gate, taught, answered>>
      /\ launchPc' = [launchPc EXCEPT ![l] = "ended"]
      /\ mem' = Launch!Stopped(mem, l) /\ gw' = Launch!Stopped(gw, l)
      /\ owner' = Launch!Freed({l})
  BY DEF Launch!GiveUp, Launch!Quit, Launch!End, Launch!escaped, Launch!recall
<1>2. LaunchTypes'
  <2>1. mem' \in [Launches -> {"none", "booting", "serving", "dead"}]
    BY <1>1 DEF LInv, LaunchTypes, Launch!Stopped
  <2>2. gw' \in [Launches -> {"none", "booting", "serving", "dead"}]
    BY <1>1 DEF LInv, LaunchTypes, Launch!Stopped
  <2>3. owner' \in [Launch!Ports -> Launches \cup {Nobody}]
    BY <1>1 DEF LInv, LaunchTypes, Launch!Freed
  <2> QED BY <1>1, <2>1, <2>2, <2>3 DEF LInv, LaunchTypes
<1>3. /\ (owner'[8090] = owner[8090] /\ owner[8090] # l) \/ owner'[8090] = Nobody
      /\ \A k \in Launches \ {l} : gw'[k] = gw[k]
      /\ gw'[l] = gw[l] \/ gw'[l] = "dead"
      /\ gw'[l] # "booting" \/ gw[l] = "booting"
  BY <1>1 DEF LInv, LaunchTypes, Launch!Freed, Launch!Stopped, Launch!Ports, Launch!GatewayPorts
<1>4. ListenerServes'
  <2>1. owner'[8090] # Nobody => gw'[owner'[8090]] = "serving" /\ gwPort[owner'[8090]] = 8090
    BY <1>3 DEF LInv, LaunchTypes, ListenerServes, Launch!Ports, Launch!GatewayPorts
  <2>2. ASSUME NEW k \in Launches
        PROVE  /\ launchPc'[k] \in BeforeGateway => gw'[k] = "none"
               /\ launchPc'[k] # "off" => gwPort[k] \in Launch!GatewayPorts
    <3>1. CASE k = l
      BY <1>1, <3>1 DEF LInv, LaunchTypes, ListenerServes, BeforeGateway, Launch!GiveUp,
                        Launch!Quit, Launch!Running
    <3>2. CASE k # l
      BY <1>1, <1>3, <3>2 DEF LInv, LaunchTypes, ListenerServes
    <3> QED BY <3>1, <3>2
  <2> QED BY <1>1, <2>1, <2>2 DEF ListenerServes
<1>5. OldIsGone'
  BY <1>1, <1>3 DEF NobodyIsNone, LInv, LaunchTypes, OldIsGone
<1>6. TaughtHasBooted'
  BY <1>1, <1>3 DEF NobodyIsNone, LInv, TaughtHasBooted
<1>7. Launch!RecallIsNoEcho'
  BY <1>1 DEF LInv, Launch!RecallIsNoEcho
<1> QED BY <1>2, <1>4, <1>5, <1>6, <1>7 DEF LInv

\* A memory-service boots or dies: the gateway's port is not its own.
LEMMA LMemory ==
  ASSUME NobodyIsNone, LInv,
         UNCHANGED <<launchPc, gw, gwPort, restart, old, caught, spared, gate, taught, answered>>,
         mem' \in [Launches -> {"none", "booting", "serving", "dead"}],
         owner' \in [Launch!Ports -> Launches \cup {Nobody}], owner'[8090] = owner[8090]
  PROVE  LInv'
<1>1. LaunchTypes'
  BY DEF LInv, LaunchTypes
<1>2. ListenerServes' /\ OldIsGone'
  BY <1>1 DEF LInv, ListenerServes, OldIsGone
<1>3. TaughtHasBooted' /\ Launch!RecallIsNoEcho'
  BY DEF LInv, TaughtHasBooted, Launch!RecallIsNoEcho
<1> QED BY <1>1, <1>2, <1>3 DEF LInv

LEMMA LBoots ==
  ASSUME NobodyIsNone, LInv, NEW l \in Launches, Launch!GatewayBoots(l)
  PROVE  LInv'
<1>1. /\ UNCHANGED <<launchPc, mem, gwPort, restart, old, crashes, caught, spared, gate,
                      taught, answered>>
      /\ gw[l] = "booting"
      /\ \/ /\ gw' = [gw EXCEPT ![l] = "serving"]
            /\ owner[gwPort[l]] = Nobody
            /\ owner' = [owner EXCEPT ![gwPort[l]] = l]
         \/ gw' = [gw EXCEPT ![l] = "dead"] /\ owner' = owner
  BY DEF Launch!GatewayBoots, Launch!escaped, Launch!recall
<1>2. LaunchTypes'  BY <1>1 DEF LInv, LaunchTypes, Launch!Ports, Launch!GatewayPorts
<1>3. /\ \/ owner'[8090] = owner[8090]
         \/ owner'[8090] = l /\ gw'[l] = "serving" /\ gwPort[l] = 8090
      /\ \A k \in Launches \ {l} : gw'[k] = gw[k]
      /\ gw'[l] \in {"serving", "dead"}
  BY <1>1 DEF LInv, LaunchTypes, Launch!Ports, Launch!GatewayPorts
<1>4. owner[8090] # l
  BY <1>1 DEF NobodyIsNone, LInv, ListenerServes
<1>5. ListenerServes'
  BY <1>1, <1>3, <1>4 DEF NobodyIsNone, LInv, LaunchTypes, ListenerServes, Launch!Ports,
                          Launch!GatewayPorts
<1>6. OldIsGone'
  BY <1>1, <1>3 DEF NobodyIsNone, LInv, LaunchTypes, OldIsGone
<1>7. TaughtHasBooted' /\ Launch!RecallIsNoEcho'
  BY <1>1, <1>3 DEF LInv, LaunchTypes, TaughtHasBooted, Launch!RecallIsNoEcho
<1> QED BY <1>2, <1>5, <1>6, <1>7 DEF LInv

\* A gateway dies; its port falls free.
LEMMA LGatewayDies ==
  ASSUME NobodyIsNone, LInv, NEW l \in Launches,
         gw[l] = "serving", gw' = [gw EXCEPT ![l] = "dead"],
         owner' = [owner EXCEPT ![gwPort[l]] = Nobody],
         UNCHANGED <<launchPc, mem, gwPort, restart, old, caught, spared, gate, taught, answered>>
  PROVE  LInv'
<1>1. LaunchTypes'
  <2>1. owner' \in [Launch!Ports -> Launches \cup {Nobody}]
    BY DEF LInv, LaunchTypes
  <2> QED BY <2>1 DEF LInv, LaunchTypes
<1>2. /\ owner'[8090] = Nobody \/ (owner'[8090] = owner[8090] /\ gwPort[l] # 8090)
      /\ \A k \in Launches \ {l} : gw'[k] = gw[k]
      /\ gw'[l] = "dead"
  BY DEF LInv, LaunchTypes, Launch!Ports, Launch!GatewayPorts
<1>3. ListenerServes'
  BY <1>2 DEF NobodyIsNone, LInv, LaunchTypes, ListenerServes
<1>4. OldIsGone'
  BY <1>2 DEF NobodyIsNone, LInv, LaunchTypes, OldIsGone
<1>5. TaughtHasBooted'
  BY <1>2 DEF NobodyIsNone, LInv, TaughtHasBooted
<1>6. Launch!RecallIsNoEcho'
  BY DEF LInv, Launch!RecallIsNoEcho
<1> QED BY <1>1, <1>3, <1>4, <1>5, <1>6 DEF LInv

LEMMA LListeners == ASSUME NobodyIsNone, LInv, Launch!StopListeners PROVE LInv'
<1>1. /\ UNCHANGED <<launchPc, gwPort, old, crashes, gate, taught, answered>>
      /\ restart = "idle" /\ restart' = "listeners"
      /\ caught' = {l \in Launches : gw[l] = "booting"}
  BY DEF Launch!StopListeners, Launch!recall
<1>2. PICK hit \in SUBSET {8000, 8090} :
        /\ Launch!Kill(hit)
        /\ spared' = IF 8090 \in hit THEN {} ELSE Launch!Listening(8090)
  BY DEF Launch!StopListeners
<1>3. /\ mem' = [l \in Launches |-> IF 8000 \in hit /\ owner[8000] = l THEN "dead" ELSE mem[l]]
      /\ gw' = [l \in Launches |-> IF 8090 \in hit /\ owner[8090] = l THEN "dead" ELSE gw[l]]
      /\ owner' = [p \in Launch!Ports |-> IF p \in hit THEN Nobody ELSE owner[p]]
  BY <1>2 DEF Launch!Kill
<1>4. 8090 \in Launch!Ports  BY DEF Launch!Ports, Launch!GatewayPorts
<1>5. /\ owner'[8090] = IF 8090 \in hit THEN Nobody ELSE owner[8090]
      /\ owner[8090] \in Launches \cup {Nobody}
  BY <1>3, <1>4 DEF LInv, LaunchTypes
<1>6. /\ spared' \subseteq Launches
      /\ 8090 \notin hit => \A l \in Launches : owner[8090] = l => l \in spared'
  BY <1>2, <1>5 DEF Launch!Listening, NobodyIsNone
<1>7. LaunchTypes'
  <2>1. /\ mem' \in [Launches -> {"none", "booting", "serving", "dead"}]
        /\ gw' \in [Launches -> {"none", "booting", "serving", "dead"}]
    BY <1>3 DEF LInv, LaunchTypes
  <2>2. owner' \in [Launch!Ports -> Launches \cup {Nobody}]
    BY <1>3 DEF LInv, LaunchTypes
  <2>3. caught' \subseteq Launches  BY <1>1
  <2> QED BY <1>1, <1>6, <2>1, <2>2, <2>3 DEF LInv, LaunchTypes
<1>8. ListenerServes'
  <2>1. owner'[8090] # Nobody => gw'[owner'[8090]] = "serving" /\ gwPort[owner'[8090]] = 8090
    BY <1>3, <1>5 DEF LInv, ListenerServes
  <2>2. ASSUME NEW l \in Launches, launchPc[l] \in BeforeGateway
        PROVE  gw'[l] = "none"
    <3>1. gw[l] = "none"  BY <2>2 DEF LInv, ListenerServes
    <3>2. owner[8090] # l  BY <3>1 DEF NobodyIsNone, LInv, ListenerServes
    <3> QED BY <1>3, <3>1, <3>2
  <2> QED BY <1>1, <2>1, <2>2 DEF LInv, ListenerServes
<1>9. OldIsGone'
  <2>1. ASSUME NEW l \in Launches, l \notin caught', l \notin spared'
        PROVE  gw'[l] # "booting" /\ owner'[8090] # l
    <3>1. gw[l] # "booting"  BY <1>1, <2>1
    <3>2. gw'[l] # "booting"  BY <1>3, <3>1
    <3>3. owner'[8090] # l  BY <1>5, <1>6, <2>1 DEF NobodyIsNone
    <3> QED BY <3>2, <3>3
  <2> QED BY <1>1, <2>1 DEF OldIsGone
<1>10. TaughtHasBooted'
  <2>1. ASSUME gate # "idle"
        PROVE  /\ taught \in Launches /\ gw'[taught] \in {"serving", "dead"}
               /\ taught \in spared' \/ owner'[8090] # taught
    <3>1. taught \in Launches /\ gw[taught] \in {"serving", "dead"}
      BY <2>1 DEF LInv, TaughtHasBooted
    <3> QED BY <1>3, <1>5, <1>6, <3>1 DEF NobodyIsNone
  <2> QED BY <1>1, <2>1 DEF TaughtHasBooted
<1>11. Launch!RecallIsNoEcho'
  BY <1>1 DEF LInv, TaughtHasBooted, Launch!RecallIsNoEcho
<1> QED BY <1>7, <1>8, <1>9, <1>10, <1>11 DEF LInv

LEMMA LLaunchers == ASSUME NobodyIsNone, LInv, Launch!StopLaunchers PROVE LInv'
<1>1. /\ UNCHANGED <<mem, gw, owner, gwPort, caught, crashes, gate, taught, answered>>
      /\ restart = "listeners" /\ restart' = "freed"
      /\ old' = {l \in Launches : launchPc[l] # "off"}
  BY DEF Launch!StopLaunchers, Launch!children, Launch!recall
<1>2. PICK hit \in SUBSET {l \in Launches : launchPc[l] \in Launch!Running} :
        /\ launchPc' = [l \in Launches |-> IF l \in hit THEN "killed" ELSE launchPc[l]]
        /\ spared' = spared \union {l \in Launches \ hit : launchPc[l] \in Launch!Running}
  BY DEF Launch!StopLaunchers
<1>3. LaunchTypes'
  <2>1. launchPc' \in [Launches -> Launch!Running \cup {"off", "ended", "killed"}]
    BY <1>2 DEF LInv, LaunchTypes
  <2>2. old' \subseteq Launches /\ spared' \subseteq Launches
    BY <1>1, <1>2 DEF LInv, LaunchTypes
  <2> QED BY <1>1, <2>1, <2>2 DEF LInv, LaunchTypes
<1>4. ListenerServes'
  <2>1. \A l \in Launches : \/ launchPc'[l] = launchPc[l]
                           \/ (launchPc'[l] = "killed" /\ launchPc[l] # "off")
    BY <1>2 DEF Launch!Running
  <2> QED BY <1>1, <2>1 DEF LInv, ListenerServes, BeforeGateway
<1>5. OldIsGone'
  <2>1. ASSUME NEW l \in old', l \notin caught, l \notin spared'
        PROVE  launchPc'[l] \in {"ended", "killed"} /\ gw[l] # "booting" /\ owner[8090] # l
    <3>1. l \in Launches /\ launchPc[l] # "off" /\ l \notin spared
      BY <1>1, <1>2, <2>1
    <3>2. gw[l] # "booting" /\ owner[8090] # l
      BY <1>1, <2>1, <3>1 DEF LInv, OldIsGone
    <3>3. launchPc[l] \in Launch!Running \cup {"ended", "killed"}
      BY <3>1 DEF LInv, LaunchTypes
    <3>4. launchPc'[l] \in {"ended", "killed"}
      BY <1>2, <2>1, <3>1, <3>3
    <3> QED BY <3>2, <3>4
  <2> QED BY <1>1, <2>1 DEF OldIsGone
<1>6. TaughtHasBooted' /\ Launch!RecallIsNoEcho'
  BY <1>1, <1>2 DEF LInv, TaughtHasBooted, Launch!RecallIsNoEcho
<1> QED BY <1>3, <1>4, <1>5, <1>6 DEF LInv

LEMMA LDies == ASSUME NobodyIsNone, LInv, Launch!RestartDies PROVE LInv'
<1>1. /\ UNCHANGED <<launchPc, mem, gw, owner, gwPort, old, caught, crashes, gate, taught,
                      answered>>
      /\ restart' = "died"
      /\ spared' = IF restart = "idle" THEN Launch!Listening(8090) ELSE spared
  BY DEF Launch!RestartDies, Launch!children, Launch!recall
<1>2. owner[8090] \in Launches \cup {Nobody}
  BY DEF LInv, LaunchTypes, Launch!Ports, Launch!GatewayPorts
<1>3. spared' \subseteq Launches
  BY <1>1, <1>2 DEF Launch!Listening, LInv, LaunchTypes
<1>4. LaunchTypes' /\ ListenerServes' /\ OldIsGone'
  BY <1>1, <1>3 DEF LInv, LaunchTypes, ListenerServes, OldIsGone
<1>5. TaughtHasBooted'
  BY <1>1 DEF LInv, TaughtHasBooted, Launch!Listening, NobodyIsNone
<1>6. Launch!RecallIsNoEcho'
  BY <1>1 DEF LInv, TaughtHasBooted, Launch!RecallIsNoEcho
<1> QED BY <1>4, <1>5, <1>6 DEF LInv

LEMMA LRecall ==
  ASSUME NobodyIsNone, LInv,
         Launch!WaitHealth \/ Launch!Prepare \/ Launch!Verify \/ Launch!AutoTimesOut
  PROVE  LInv'
<1>1. UNCHANGED <<launchPc, mem, gw, owner, gwPort, old, crashes, caught, spared>>
  BY DEF Launch!WaitHealth, Launch!Prepare, Launch!Verify, Launch!AutoTimesOut,
         Launch!children, Launch!escaped
<1>2. restart' = restart \/ (restart = "freed" /\ restart' \in {"up", "down"} /\ UNCHANGED Launch!recall)
  BY DEF Launch!WaitHealth, Launch!Prepare, Launch!Verify, Launch!AutoTimesOut
<1>3. LaunchTypes' /\ ListenerServes'  BY <1>1 DEF LInv, LaunchTypes, ListenerServes
<1>4. OldIsGone'  BY <1>1, <1>2 DEF LInv, OldIsGone
<1>5. TaughtHasBooted'
  <2>1. CASE Launch!Prepare
    BY <1>1, <2>1 DEF Launch!Prepare, LInv, LaunchTypes, ListenerServes, TaughtHasBooted,
                      Launch!Ports,
       Launch!GatewayPorts
  <2>2. CASE ~Launch!Prepare
    BY <1>1, <1>2, <2>2 DEF Launch!WaitHealth, Launch!Verify, Launch!AutoTimesOut, LInv,
                            TaughtHasBooted, Launch!escaped, Launch!recall
  <2> QED BY <2>1, <2>2
<1>6. Launch!RecallIsNoEcho'
  <2>1. CASE Launch!Verify
    <3>1. taught \in spared \/ owner[8090] # taught
      BY <2>1 DEF Launch!Verify, LInv, TaughtHasBooted
    <3> QED BY <1>1, <2>1, <3>1 DEF Launch!Verify, Launch!RecallIsNoEcho
  <2>2. CASE ~Launch!Verify
    BY <1>1, <2>2 DEF Launch!WaitHealth, Launch!Prepare, Launch!AutoTimesOut, LInv,
                Launch!RecallIsNoEcho, Launch!escaped, Launch!recall
  <2> QED BY <2>1, <2>2
<1> QED BY <1>3, <1>4, <1>5, <1>6 DEF LInv

\* A step of the launches, of their children or of the scripts.
LEMMA LStep == ASSUME NobodyIsNone, LInv, [Launch!Next]_(Launch!vars) PROVE LInv'
<1>1. CASE UNCHANGED Launch!vars
  BY <1>1 DEF Launch!vars, Launch!children, Launch!escaped, Launch!recall, LInv, LaunchTypes, ListenerServes,
              OldIsGone,
     TaughtHasBooted, Launch!RecallIsNoEcho
<1>2. ASSUME NEW l \in Launches, Launch!MemoryBoots(l)
      PROVE  LInv'
  <2>1. UNCHANGED <<launchPc, gw, gwPort, restart, old, caught, spared, gate, taught, answered>>
    BY <1>2 DEF Launch!MemoryBoots, Launch!escaped, Launch!recall
  <2>2. mem' \in [Launches -> {"none", "booting", "serving", "dead"}]
    BY <1>2 DEF Launch!MemoryBoots, LInv, LaunchTypes
  <2>3. owner' \in [Launch!Ports -> Launches \cup {Nobody}] /\ owner'[8090] = owner[8090]
    BY <1>2 DEF Launch!MemoryBoots, LInv, LaunchTypes, Launch!Ports, Launch!GatewayPorts
  <2> QED BY <2>1, <2>2, <2>3, LMemory
<1>3. ASSUME NEW l \in Launches, Launch!Crash(l)
      PROVE  LInv'
  <2>1. UNCHANGED <<launchPc, gwPort, restart, old, caught, spared, gate, taught, answered>>
    BY <1>3 DEF Launch!Crash, Launch!escaped, Launch!recall
  <2>2. CASE mem[l] = "serving" /\ mem' = [mem EXCEPT ![l] = "dead"]
             /\ owner' = [owner EXCEPT ![8000] = Nobody] /\ UNCHANGED gw
    <3>1. mem' \in [Launches -> {"none", "booting", "serving", "dead"}]
      BY <2>2 DEF LInv, LaunchTypes
    <3>2. owner' \in [Launch!Ports -> Launches \cup {Nobody}] /\ owner'[8090] = owner[8090]
      BY <2>2 DEF LInv, LaunchTypes, Launch!Ports, Launch!GatewayPorts
    <3> QED BY <2>1, <2>2, <3>1, <3>2, LMemory
  <2>3. CASE gw[l] = "serving" /\ gw' = [gw EXCEPT ![l] = "dead"]
             /\ owner' = [owner EXCEPT ![gwPort[l]] = Nobody] /\ UNCHANGED mem
    BY <2>1, <2>3, LGatewayDies
  <2> QED BY <1>3, <2>2, <2>3 DEF Launch!Crash
<1> QED BY <1>1, <1>2, <1>3, LLaunch, LStart, LEnd, LBoots, LListeners, LLaunchers, LDies, LRecall
   DEF Launch!Next

\* On either system the gateway that answers once the restart is reported up was
\* launched after restart_app stopped the launchers (restart_app.py:22-61), unless it
\* was listening on nothing when the listeners were stopped, was started between the
\* two kills, or was left alone by them, or its launcher was.
THEOREM GatewayRestarts == Launch!Spec => []RestartReplaces
<1>0. NobodyIsNone  BY NobodyAssumption DEF NobodyIsNone
<1>1. Launch!Init => LInv  BY <1>0, LInit
<1>2. LInv /\ [Launch!Next]_(Launch!vars) => LInv'  BY <1>0, LStep
<1>3. LInv => Launch!RestartReplaces  BY <1>0, LSound
<1> QED BY <1>1, <1>2, <1>3, PTL DEF Launch!Spec, RestartReplaces

\* A recall the restart gate passes (live_restart_recall_eval.py:79-131), however
\* restart_app ended, was answered by another gateway than the one that was taught,
\* not out of its write buffer, unless that gateway was left listening.
THEOREM RecallsAreReal == Launch!Spec => []RecallIsNoEcho
<1>0. NobodyIsNone  BY NobodyAssumption DEF NobodyIsNone
<1>1. Launch!Init => LInv  BY <1>0, LInit
<1>2. LInv /\ [Launch!Next]_(Launch!vars) => LInv'  BY <1>0, LStep
<1>3. LInv => Launch!RecallIsNoEcho  BY DEF LInv
<1> QED BY <1>1, <1>2, <1>3, PTL DEF Launch!Spec, RecallIsNoEcho

-----------------------------------------------------------------------------
\* The live evaluation.

\* Gates that fail when the gateway is away, and those the guard is not asked
\* around.
Loud == {"strict", "check"}
Unchecked == {"local", "memory", "recall", "perhaps", "lax", "strict", "planted"}
Letters == Unchecked \cup {"check", "checkLax", "checkPlanted"}

LEMMA TimesIsSuite ==
  ASSUME NEW n \in Nat, NEW S, NEW g \in S
  PROVE  /\ Eval!Times(n, g) \in Seq(S) /\ Len(Eval!Times(n, g)) = n
         /\ n > 0 => Eval!Times(n, g)[1] = g
BY DEF Eval!Times

\* A suite of gates in S that opens with a loud one.
Suite(c, S) == c \in Seq(S) /\ Len(c) > 0 /\ c[1] \in Loud

LEMMA CheckedSuites ==
  /\ Suite(Eval!Basic, Letters) /\ Suite(Eval!Adversarial, Letters)
  /\ Suite(Eval!Paraphrase, Letters)
<1>2. /\ "lax" \in Letters /\ "check" \in Letters /\ "checkLax" \in Letters
      /\ "checkPlanted" \in Letters
  BY DEF Letters, Unchecked
<1>6. <<"lax">> \in Seq(Letters) /\ <<"checkLax">> \in Seq(Letters)
  BY <1>2
<1>3. Suite(Eval!Basic, Letters)
  <2>1. Eval!Times(14, "check") \in Seq(Letters) /\ Len(Eval!Times(14, "check")) = 14
        /\ Eval!Times(14, "check")[1] = "check"
    BY <1>2 DEF Eval!Times
  <2> QED BY <2>1, <1>6 DEF Eval!Basic, Suite, Loud
<1>4. Suite(Eval!Adversarial, Letters)
  <2>1. Eval!Times(6, "check") \in Seq(Letters) /\ Len(Eval!Times(6, "check")) = 6
        /\ Eval!Times(6, "check")[1] = "check" /\ Eval!Times(3, "check") \in Seq(Letters)
    BY <1>2 DEF Eval!Times
  <2> QED BY <2>1, <1>6 DEF Eval!Adversarial, Suite, Loud
<1>5. Suite(Eval!Paraphrase, Letters)
  <2>1. Eval!Times(7, "check") \in Seq(Letters) /\ Len(Eval!Times(7, "check")) = 7
        /\ Eval!Times(7, "check")[1] = "check" /\ Eval!Times(2, "checkPlanted") \in Seq(Letters)
    BY <1>2 DEF Eval!Times
  <2> QED BY <2>1 DEF Eval!Paraphrase, Suite, Loud
<1> QED BY <1>3, <1>4, <1>5

LEMMA UncheckedSuites ==
  /\ Suite(Eval!Cycle5, Unchecked) /\ Suite(Eval!Cycle6, Unchecked)
  /\ Suite(Eval!Cycle7, Unchecked) /\ Suite(Eval!Cycle8, Unchecked)
  /\ Suite(Eval!Cycle9, Unchecked) /\ Suite(Eval!Cycle10, Unchecked)
  /\ Suite(Eval!Cycle11, Unchecked) /\ Suite(Eval!Cycle12, Unchecked)
  /\ Suite(Eval!Cycle13, Unchecked)
  /\ Suite(Eval!Cycle15, Unchecked)
  /\ Len(Eval!Cycle8) = 17 /\ Eval!Cycle8[6] = "recall"
<1>1. \A n \in Nat, g \in Unchecked : /\ Eval!Times(n, g) \in Seq(Unchecked)
                                      /\ Len(Eval!Times(n, g)) = n
                                      /\ n > 0 => Eval!Times(n, g)[1] = g
  BY TimesIsSuite
<1>2. Suite(Eval!Cycle5, Unchecked) BY <1>1 DEF Eval!Cycle5, Suite, Unchecked, Loud
<1>3. Suite(Eval!Cycle6, Unchecked) BY <1>1 DEF Eval!Cycle6, Suite, Unchecked, Loud
<1>4. Suite(Eval!Cycle7, Unchecked) BY <1>1 DEF Eval!Cycle7, Suite, Unchecked, Loud
<1>5. Suite(Eval!Cycle8, Unchecked)
  BY <1>1 DEF Eval!Cycle8, Suite, Unchecked, Loud
<1>12. Len(Eval!Cycle8) = 17 /\ Eval!Cycle8[6] = "recall"
  BY <1>1 DEF Eval!Cycle8, Unchecked
<1>6. Suite(Eval!Cycle9, Unchecked) BY <1>1 DEF Eval!Cycle9, Suite, Unchecked, Loud
<1>7. Suite(Eval!Cycle10, Unchecked) BY <1>1 DEF Eval!Cycle10, Suite, Unchecked, Loud
<1>8. Suite(Eval!Cycle11, Unchecked) BY <1>1 DEF Eval!Cycle11, Suite, Unchecked, Loud
<1>9. Suite(Eval!Cycle12, Unchecked) BY <1>1 DEF Eval!Cycle12, Suite, Unchecked, Loud
<1>10. Suite(Eval!Cycle13, Unchecked) BY <1>1 DEF Eval!Cycle13, Suite, Unchecked, Loud
<1>11. Suite(Eval!Cycle15, Unchecked) BY <1>1 DEF Eval!Cycle15, Suite, Unchecked, Loud
<1> QED BY <1>2, <1>3, <1>4, <1>5, <1>6, <1>7, <1>8, <1>9, <1>10, <1>11, <1>12

LEMMA SubstrateSuite ==
  Eval!Substrate \in Seq(Unchecked) /\ Len(Eval!Substrate) = 6 /\ Eval!Substrate[5] = "strict"
BY DEF Eval!Substrate, Unchecked

LEMMA FourteenSuites ==
  ASSUME NEW S, NEW a \in S, NEW b \in S, NEW c \in S, NEW d \in S, NEW e \in S, NEW f \in S,
         NEW g \in S, NEW h \in S, NEW i \in S, NEW j \in S, NEW k \in S, NEW l \in S,
         NEW m \in S, NEW n \in S
  PROVE  LET t == <<a, b, c, d, e, f, g, h, i, j, k, l, m, n>>
         IN  /\ t \in Seq(S) /\ Len(t) = 14
             /\ t[1] = a /\ t[2] = b /\ t[3] = c /\ t[4] = d /\ t[5] = e /\ t[6] = f /\ t[7] = g
             /\ t[8] = h /\ t[9] = i /\ t[10] = j /\ t[11] = k /\ t[12] = l /\ t[13] = m
             /\ t[14] = n
OBVIOUS

LoudOf(s) == IF s = 4 THEN 5 ELSE 1

LEMMA OneMore ==
  ASSUME NEW S, NEW c \in Seq(S), NEW r \in Seq(S), Len(r) = 1
  PROVE  /\ Len(c \o r) = Len(c) + 1 /\ (c \o r)[Len(c) + 1] = r[1]
         /\ \A s \in 1 .. Len(c) : (c \o r)[s] = c[s]
BY ConcatProperties

\* What the course is like: every suite but the fourth opens with a loud gate,
\* no gate is checked from the fourth on, and the eighth has a recall.
Graded(s, c) ==
  /\ c \in Seq(Letters) /\ Len(c) >= LoudOf(s) /\ c[LoudOf(s)] \in Loud
  /\ s >= 4 => c \in Seq(Unchecked)
  /\ s = 8 => Len(c) = 17 /\ c[6] = "recall"

LEMMA GradedSuite ==
  ASSUME NEW s \in 1 .. 15, s # 4, s # 8, NEW c,
         Suite(c, Unchecked) \/ (s < 4 /\ Suite(c, Letters))
  PROVE  Graded(s, c)
BY DEF Suite, Graded, LoudOf, Letters

LEMMA CourseShape ==
  Len(Eval!Course) \in {14, 15} /\ \A s \in 1 .. Len(Eval!Course) : Graded(s, Eval!Course[s])
<1> DEFINE C == <<Eval!Basic, Eval!Adversarial, Eval!Paraphrase, Eval!Substrate, Eval!Cycle5,
                  Eval!Cycle6, Eval!Cycle7, Eval!Cycle8, Eval!Cycle9, Eval!Cycle10,
                  Eval!Cycle11, Eval!Cycle12, Eval!Cycle13, Eval!Cycle15>>
<1>1. /\ Graded(1, Eval!Basic) /\ Graded(2, Eval!Adversarial) /\ Graded(3, Eval!Paraphrase)
  BY GradedSuite, CheckedSuites
<1>2. Graded(4, Eval!Substrate)
  BY SubstrateSuite DEF Graded, LoudOf, Loud, Letters
<1>3. Graded(8, Eval!Cycle8)
  BY UncheckedSuites DEF Graded, LoudOf, Suite, Letters
<1>4. /\ Graded(5, Eval!Cycle5) /\ Graded(6, Eval!Cycle6) /\ Graded(7, Eval!Cycle7)
      /\ Graded(9, Eval!Cycle9)
      /\ Graded(10, Eval!Cycle10) /\ Graded(11, Eval!Cycle11) /\ Graded(12, Eval!Cycle12)
      /\ Graded(13, Eval!Cycle13) /\ Graded(14, Eval!Cycle15)
  BY GradedSuite, UncheckedSuites
<1>5. /\ C \in Seq(Seq(Letters)) /\ Len(C) = 14
      /\ C[1] = Eval!Basic /\ C[2] = Eval!Adversarial /\ C[3] = Eval!Paraphrase
      /\ C[4] = Eval!Substrate /\ C[5] = Eval!Cycle5 /\ C[6] = Eval!Cycle6
      /\ C[7] = Eval!Cycle7 /\ C[8] = Eval!Cycle8 /\ C[9] = Eval!Cycle9
      /\ C[10] = Eval!Cycle10 /\ C[11] = Eval!Cycle11 /\ C[12] = Eval!Cycle12
      /\ C[13] = Eval!Cycle13
      /\ C[14] = Eval!Cycle15
  <2>1. \A s : \A c : Graded(s, c) => c \in Seq(Letters)
    BY DEF Graded
  <2> QED BY <2>1, <1>1, <1>2, <1>3, <1>4, FourteenSuites
<1>6. \A s \in 1 .. 14 : Graded(s, C[s])
  <2> HIDE DEF C
  <2>1. \A s \in 1 .. 14 : s = 1 \/ s = 2 \/ s = 3 \/ s = 4 \/ s = 5 \/ s = 6 \/ s = 7 \/ s = 8
                           \/ s = 9 \/ s = 10 \/ s = 11 \/ s = 12 \/ s = 13 \/ s = 14
    OBVIOUS
  <2> QED BY <2>1, <1>1, <1>2, <1>3, <1>4, <1>5
<1>7. Eval!RestartRecall = << >> \/ Eval!RestartRecall = << <<"strict">> >>
  BY DEF Eval!RestartRecall
<1>8. Eval!Course = C \o Eval!RestartRecall
  BY DEF Eval!Course
<1> HIDE DEF C
<1>9. CASE Eval!RestartRecall = << >>
  <2>1. Eval!Course = C  BY <1>5, <1>8, <1>9
  <2> QED BY <2>1, <1>5, <1>6
<1>10. CASE Eval!RestartRecall = << <<"strict">> >>
  <2>1. << <<"strict">> >> \in Seq(Seq(Letters))
    BY DEF Letters, Unchecked
  <2>2. /\ Len(Eval!Course) = 15 /\ \A s \in 1 .. 14 : Eval!Course[s] = C[s]
        /\ Eval!Course[15] = <<"strict">>
    <3>1. C \in Seq(Seq(Letters)) /\ Len(C) = 14
      BY <1>5
    <3>2. Len(<< <<"strict">> >>) = 1 /\ << <<"strict">> >>[1] = <<"strict">>
      OBVIOUS
    <3> DEFINE R == << <<"strict">> >>
    <3>3. R \in Seq(Seq(Letters)) /\ Len(R) = 1 /\ R[1] = <<"strict">>  BY <2>1, <3>2
    <3>4. Eval!Course = C \o R  BY <1>8, <1>10
    <3> HIDE DEF R
    <3>5. /\ Len(C \o R) = Len(C) + 1 /\ (C \o R)[Len(C) + 1] = R[1]
          /\ \A s \in 1 .. Len(C) : (C \o R)[s] = C[s]
      BY <3>1, <3>3, OneMore
    <3>6. Len(C) + 1 = 15 /\ 1 .. Len(C) = 1 .. 14
      BY <3>1
    <3> QED BY <3>3, <3>4, <3>5, <3>6
  <2>3. <<"strict">> \in Seq(Unchecked) /\ Len(<<"strict">>) = 1 /\ <<"strict">>[1] = "strict"
    BY DEF Unchecked
  <2>4. Graded(15, <<"strict">>)
    <3>1. Suite(<<"strict">>, Unchecked)  BY <2>3 DEF Suite, Loud
    <3>2. 15 \in 1 .. 15 /\ 15 # 4 /\ 15 # 8  OBVIOUS
    <3> QED BY <3>1, <3>2, GradedSuite
  <2>5. \A s \in 1 .. 15 : s \in 1 .. 14 \/ s = 15
    OBVIOUS
  <2> QED BY <2>2, <2>4, <2>5, <1>6
<1> QED BY <1>7, <1>9, <1>10

-----------------------------------------------------------------------------
\* The place in the course.
AtPlace ==
  \/ at = <<0, 0>>
  \/ /\ at \in Nat \X Nat /\ at[1] >= 1 /\ at[2] >= 1
     /\ Eval!InCourse => at[2] <= Len(Eval!Course[at[1]])

EvalTypes ==
  /\ memUp \in BOOLEAN /\ gwUp \in BOOLEAN /\ crashed \in BOOLEAN /\ failed \in BOOLEAN
  /\ seen \in BOOLEAN /\ quiet \in BOOLEAN /\ mute \in BOOLEAN
  /\ report \in {"none", "failures", "all_pass"}

\* A gateway that has been away since the suite began has failed its loud gate,
\* once that is past; a suite it was away for has failed.
SilenceFails ==
  /\ quiet => ~gwUp /\ (Eval!InCourse /\ at[2] > LoudOf(at[1]) => failed)
  /\ mute => failed

\* A death the guard has seen and that lasts fails the recall of the eighth suite.
SeenFails ==
  seen => /\ ~memUp
          /\ at[1] > 8 \/ (at[1] = 8 /\ at[2] > 6) => failed

EInv ==
  /\ AtPlace /\ EvalTypes /\ SilenceFails /\ SeenFails
  /\ at = <<0, 0>> => ~quiet /\ ~mute /\ ~seen
  /\ report # "none" => at[1] > Len(Eval!Course)
  /\ report = "all_pass" => ~failed

\* The gate at hand.
LEMMA GateAtHand ==
  ASSUME AtPlace, Eval!InCourse
  PROVE  /\ at \in Nat \X Nat /\ at[1] \in 1 .. 15 /\ at[2] \in 1 .. Len(Eval!Course[at[1]])
         /\ Graded(at[1], Eval!Course[at[1]]) /\ Len(Eval!Course[at[1]]) \in Nat
         /\ Eval!Gate \in Letters
         /\ at[1] >= 4 => Eval!Gate \notin Eval!Checked
         /\ at[2] = LoudOf(at[1]) => Eval!Gate \in Loud
         /\ at = <<8, 6>> => Eval!Gate = "recall"
<1>1. /\ at \in Nat \X Nat /\ at[1] \in 1 .. 15 /\ at[2] \in Nat /\ at[2] >= 1
      /\ at[2] <= Len(Eval!Course[at[1]]) /\ Graded(at[1], Eval!Course[at[1]])
  BY CourseShape DEF AtPlace, Eval!InCourse
<1> DEFINE c == Eval!Course[at[1]]
<1>2. c \in Seq(Letters) /\ Len(c) \in Nat /\ at[2] \in 1 .. Len(c)
  BY <1>1 DEF Graded
<1>3. Eval!Gate = c[at[2]]
  BY DEF Eval!Gate
<1>4. Eval!Gate \in Letters
  BY <1>2, <1>3
<1>5. at[1] >= 4 => Eval!Gate \notin Eval!Checked
  <2>1. at[1] >= 4 => c[at[2]] \in Unchecked
    BY <1>1, <1>2 DEF Graded
  <2> QED BY <1>3, <2>1 DEF Unchecked, Eval!Checked
<1>6. at[2] = LoudOf(at[1]) => Eval!Gate \in Loud
  BY <1>1, <1>3 DEF Graded
<1>7. at = <<8, 6>> => Eval!Gate = "recall"
  BY <1>1, <1>3 DEF Graded
<1> QED BY <1>1, <1>2, <1>4, <1>5, <1>6, <1>7

\* On to the next gate: within the suite, or to the first of the next.
LEMMA NextPlace ==
  ASSUME AtPlace, Eval!InCourse, at' = Eval!NextGate
  PROVE  /\ AtPlace' /\ at' # <<0, 0>>
         /\ Eval!LastOfSuite => at' = <<at[1] + 1, 1>>
         /\ ~Eval!LastOfSuite => at' = <<at[1], at[2] + 1>> /\ Eval!InCourse'
         /\ Eval!InCourse' => LoudOf(at'[1]) >= 1
<1>1. /\ at \in Nat \X Nat /\ at[1] \in 1 .. 15 /\ at[2] \in 1 .. Len(Eval!Course[at[1]])
      /\ Len(Eval!Course[at[1]]) \in Nat
  BY GateAtHand
<1>2. CASE Eval!LastOfSuite
  <2>1. at' = <<at[1] + 1, 1>>
    BY <1>2 DEF Eval!NextGate
  <2>2. Eval!InCourse' => Len(Eval!Course[at'[1]]) >= 1
    BY <2>1, <1>1, CourseShape DEF Eval!InCourse, Graded, LoudOf
  <2> QED BY <1>1, <1>2, <2>1, <2>2 DEF AtPlace, LoudOf
<1>3. CASE ~Eval!LastOfSuite
  <2>1. at' = <<at[1], at[2] + 1>> /\ Eval!InCourse'
    BY <1>3, <1>1 DEF Eval!NextGate, Eval!InCourse
  <2> QED BY <1>1, <1>3, <2>1 DEF AtPlace, LoudOf, Eval!LastOfSuite
<1> QED BY <1>2, <1>3

LEMMA EInit == Eval!Init => EInv
BY DEF Eval!Init, EInv, AtPlace, EvalTypes, SilenceFails, SeenFails

LEMMA EPrecheck == EInv /\ Eval!Precheck => EInv'
<1> SUFFICES ASSUME EInv, Eval!Precheck PROVE EInv'  OBVIOUS
<1>1. AtPlace'
  BY CourseShape DEF Eval!Precheck, AtPlace, Eval!InCourse, Graded, LoudOf
<1> QED BY <1>1 DEF EInv, Eval!Precheck, EvalTypes, SilenceFails, SeenFails, LoudOf, Eval!world

LEMMA ESkip == EInv /\ Eval!Skip => EInv'
<1> SUFFICES ASSUME EInv, Eval!Skip PROVE EInv'  OBVIOUS
<1>1. /\ UNCHANGED <<memUp, gwUp, crashed, failed, report, seen, mute>>
      /\ Eval!InCourse /\ Eval!Gate \in Eval!Checked /\ at' = Eval!NextGate
      /\ quiet' = (Eval!LastOfSuite /\ ~gwUp)
  BY DEF Eval!Skip, Eval!world
<1>2. /\ at \in Nat \X Nat /\ at[1] \in 1 .. 15 /\ at[1] < 4
  BY <1>1, GateAtHand DEF EInv
<1>3. /\ AtPlace' /\ at' # <<0, 0>>
      /\ Eval!LastOfSuite => at' = <<at[1] + 1, 1>>
      /\ ~Eval!LastOfSuite => at' = <<at[1], at[2] + 1>>
  BY <1>1, NextPlace DEF EInv
<1>4. at'[1] <= 4 /\ (Eval!LastOfSuite => ~(at'[2] > LoudOf(at'[1])))
  BY <1>2, <1>3 DEF LoudOf
<1>5. SilenceFails'
  BY <1>1, <1>4 DEF EInv, SilenceFails
<1>6. at'[1] \in Nat
  BY <1>2, <1>3
<1>7. SeenFails'
  BY <1>1, <1>4, <1>6 DEF EInv, SeenFails
<1>8. report' = "none"
  BY <1>1, CourseShape DEF EInv, EvalTypes, Eval!InCourse
<1> QED BY <1>1, <1>3, <1>5, <1>7, <1>8 DEF EInv, EvalTypes

LEMMA ERun == EInv /\ Eval!Run => EInv'
<1> SUFFICES ASSUME EInv, Eval!Run PROVE EInv'  OBVIOUS
<1>1. PICK v \in Eval!Verdicts(Eval!Gate) :
        /\ failed' = (failed \/ v = "fail")
        /\ crashed' = IF v = "skip" THEN crashed ELSE Eval!AfterGate(Eval!Gate)
        /\ seen' = (seen \/ (v # "skip" /\ Eval!Gate \in Eval!Checked /\ ~memUp))
  BY DEF Eval!Run
<1>2. /\ Eval!InCourse /\ at' = Eval!NextGate /\ UNCHANGED <<memUp, gwUp, report>>
      /\ mute' = (mute \/ (Eval!LastOfSuite /\ quiet))
      /\ quiet' = IF Eval!LastOfSuite THEN ~gwUp ELSE quiet
      /\ AtPlace /\ EvalTypes
  BY DEF Eval!Run, Eval!Advance, Eval!world, EInv
<1>3. AtPlace' /\ at' # <<0, 0>>
  BY <1>2, NextPlace
<1>4. EvalTypes'
  BY <1>1, <1>2 DEF EvalTypes, Eval!AfterGate
<1>5. ~gwUp /\ Eval!Gate \in Loud => failed'
  BY <1>1 DEF Eval!Verdicts, Loud, Eval!Planted, Eval!Lax
<1>6. ~memUp /\ Eval!Gate = "recall" => failed'
  BY <1>1 DEF Eval!Verdicts, Eval!Planted
<1>11. /\ at \in Nat \X Nat /\ at[1] \in 1 .. 15 /\ LoudOf(at[1]) \in Nat
       /\ at[1] >= 4 => Eval!Gate \notin Eval!Checked
       /\ at[2] = LoudOf(at[1]) => Eval!Gate \in Loud
       /\ at = <<8, 6>> => Eval!Gate = "recall"
  BY <1>2, GateAtHand DEF LoudOf
<1>7. quiet /\ at[2] >= LoudOf(at[1]) => failed'
  <2>1. CASE at[2] = LoudOf(at[1])
    BY <1>5, <1>11, <2>1 DEF EInv, SilenceFails
  <2>2. CASE at[2] > LoudOf(at[1])
    BY <1>1, <1>2, <2>2 DEF EInv, SilenceFails
  <2> QED BY <1>11, <2>1, <2>2
<1>8. SilenceFails'
  <2>1. Eval!LastOfSuite => at[2] >= LoudOf(at[1])
    BY <1>2, GateAtHand DEF Eval!LastOfSuite, Graded
  <2>2. mute' => failed'
    BY <1>1, <1>2, <1>7, <2>1 DEF EInv, SilenceFails
  <2>3. quiet' => ~gwUp'
    BY <1>2 DEF EInv, SilenceFails
  <2>4. CASE Eval!LastOfSuite
    <3>1. at' = <<at[1] + 1, 1>>  BY <1>2, <2>4, NextPlace
    <3>2. ~(at'[2] > LoudOf(at'[1]))  BY <3>1 DEF LoudOf
    <3> QED BY <2>2, <2>3, <3>2 DEF SilenceFails
  <2>5. CASE ~Eval!LastOfSuite
    BY <1>2, <1>7, <2>2, <2>3, <2>5, NextPlace, GateAtHand DEF SilenceFails, LoudOf
  <2> QED BY <2>4, <2>5
<1>9. SeenFails'
  <2>1. seen' => ~memUp'
    BY <1>1, <1>2 DEF EInv, SeenFails
  <2>2. ASSUME seen', at'[1] > 8 \/ (at'[1] = 8 /\ at'[2] > 6)
        PROVE  failed'
    <3>1. at[1] >= 7
      BY <1>2, <2>2, NextPlace, GateAtHand
    <3>2. seen
      <4>1. Eval!Gate \notin Eval!Checked  BY <1>11, <3>1
      <4> QED BY <1>1, <2>2, <4>1
    <3>3. at[1] > 8 \/ (at[1] = 8 /\ at[2] > 6) \/ at = <<8, 6>>
      BY <1>2, <2>2, NextPlace, GateAtHand DEF Eval!LastOfSuite, Graded
    <3> QED BY <1>1, <1>2, <1>6, <2>1, <3>2, <3>3, GateAtHand DEF EInv, SeenFails
  <2> QED BY <2>1, <2>2 DEF SeenFails
<1>10. report' = "none"
  BY <1>2, CourseShape DEF EInv, EvalTypes, Eval!InCourse
<1> QED BY <1>3, <1>4, <1>8, <1>9, <1>10 DEF EInv

LEMMA EFinish == EInv /\ Eval!Finish => EInv'
<1> SUFFICES ASSUME EInv, Eval!Finish PROVE EInv'  OBVIOUS
<1>1. /\ UNCHANGED <<at, memUp, gwUp, crashed, failed, seen, quiet, mute>>
      /\ at[1] = Len(Eval!Course) + 1 /\ report' = IF failed THEN "failures" ELSE "all_pass"
  BY DEF Eval!Finish, Eval!world
<1>2. AtPlace'  BY <1>1 DEF EInv, AtPlace, Eval!InCourse
<1>3. EvalTypes'  BY <1>1 DEF EInv, EvalTypes
<1>4. SilenceFails' /\ SeenFails'  BY <1>1 DEF EInv, SilenceFails, SeenFails, Eval!InCourse
<1>5. at'[1] > Len(Eval!Course)  BY <1>1, CourseShape
<1> QED BY <1>1, <1>2, <1>3, <1>4, <1>5 DEF EInv

LEMMA EServices ==
  /\ EInv
  /\ Eval!MemoryDies \/ Eval!MemoryReturns \/ Eval!GatewayGoes \/ Eval!GatewayReturns
  => EInv'
<1> SUFFICES ASSUME EInv, \/ Eval!MemoryDies \/ Eval!MemoryReturns
                          \/ Eval!GatewayGoes \/ Eval!GatewayReturns
             PROVE  EInv'
  OBVIOUS
<1>1. /\ UNCHANGED <<at, crashed, failed, report, mute>> /\ report = "none"
      /\ memUp' \in BOOLEAN /\ gwUp' \in BOOLEAN
      /\ (UNCHANGED <<memUp, seen>>) \/ (~memUp' /\ UNCHANGED seen) \/ ~seen'
      /\ \/ UNCHANGED <<gwUp, quiet>>
         \/ ~gwUp' /\ quiet' = (Eval!InCourse /\ at[2] = 1)
         \/ ~quiet'
      /\ seen' \in BOOLEAN /\ quiet' \in BOOLEAN
  BY DEF Eval!MemoryDies, Eval!MemoryReturns, Eval!GatewayGoes, Eval!GatewayReturns, EInv,
         EvalTypes
<1>2. AtPlace'  BY <1>1 DEF EInv, AtPlace, Eval!InCourse
<1>3. EvalTypes'  BY <1>1 DEF EInv, EvalTypes
<1>4. SilenceFails'
  BY <1>1 DEF EInv, SilenceFails, Eval!InCourse, LoudOf
<1>5. SeenFails'
  BY <1>1 DEF EInv, SeenFails
<1>6. at = <<0, 0>> => ~quiet' /\ ~seen'
  BY <1>1 DEF EInv, Eval!InCourse
<1> QED BY <1>1, <1>2, <1>3, <1>4, <1>5, <1>6 DEF EInv

LEMMA EStep == EInv /\ [Eval!Next]_(Eval!vars) => EInv'
<1>1. EInv /\ UNCHANGED Eval!vars => EInv'
  BY DEF Eval!vars, EInv, AtPlace, EvalTypes, SilenceFails, SeenFails, Eval!InCourse
<1> QED BY <1>1, EPrecheck, ESkip, ERun, EFinish, EServices DEF Eval!Next

\* A course in which the gateway was away for a whole suite is not reported all_pass
\* (live_byon_eval.py:249-303, :402-449), however many of its gates are content with
\* an ERROR answer.
THEOREM NoSuiteInSilence == Eval!Spec => []SilenceIsNoPass
<1>1. EInv => Eval!SilenceIsNoPass  BY DEF EInv, SilenceFails, Eval!SilenceIsNoPass
<1> QED BY <1>1, EInit, EStep, PTL DEF Eval!Spec, SilenceIsNoPass

\* A memory-service death that the guard saw (live_byon_eval.py:143-172) and that
\* lasts to the end of the course is not reported all_pass (:423).
THEOREM SeenDeathsFail == Eval!Spec => []LastingCrashFails
<1>1. EInv => Eval!LastingCrashFails
  <2> SUFFICES ASSUME EInv, report = "all_pass", seen PROVE FALSE
    BY DEF Eval!LastingCrashFails
  <2>1. at[1] > 8
    <3>1. at[1] > Len(Eval!Course)  BY DEF EInv
    <3>2. at[1] \in Nat  BY DEF EInv, AtPlace
    <3>3. Len(Eval!Course) \in {14, 15}  BY CourseShape
    <3>4. \A a \in Nat, n \in {14, 15} : a > n => a > 8  OBVIOUS
    <3> QED BY <3>1, <3>2, <3>3, <3>4
  <2> QED BY <2>1 DEF EInv, SeenFails
<1> QED BY <1>1, EInit, EStep, PTL DEF Eval!Spec, LastingCrashFails
=============================================================================
