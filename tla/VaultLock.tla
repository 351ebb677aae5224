------------------------------ MODULE VaultLock ------------------------------
(***************************************************************************)
(* The single-writer lock of vault training (gateway/write_lock.py), as    *)
(* its users run it: trainer processes that acquire it, beat, and release  *)
(* it (gateway/vault_training.py), and the operator's process guard that   *)
(* stops orphan trainers (scripts/byon_process_guard.py).                  *)
(*                                                                         *)
(* The lock is a file.  Each method reads it in one step and writes or     *)
(* removes it in another; nothing makes the two one.  A read that fails    *)
(* says there is no lock, and a live holder may be taken for dead.         *)
(***************************************************************************)
EXTENDS Naturals, FiniteSets

CONSTANTS
  Trainers,      \* trainer processes, each by its pid
  NoLock,        \* no lock file
  MaxStalls,     \* bound: times a live holder stays silent beyond stale_after
  MaxGuardRuns   \* bound: runs of "byon_process_guard.py stop-stale"

ASSUME NumbersAssumption == MaxStalls \in Nat /\ MaxGuardRuns \in Nat

\* "fresh": the heartbeat is no older than stale_after.
Lock == [pid : Trainers, fresh : BOOLEAN]
ASSUME NoLockAssumption == NoLock \notin Lock

VARIABLES
  lock,       \* runtime/locks/vault_training.lock
  pc,         \* where each trainer is
  guard,      \* the guard's place, the processes it spares or will stop, and
              \* whether it saw a stale lock
  guardRuns,
  stalls,     \* how often a live holder fell silent
  raced,      \* history: two trainers had both found the lock free
  misled,     \* history: acquire did not see that a live, fresh holder was there
  robbed      \* history: the guard removed the lock of a live trainer

vars == <<lock, pc, guard, guardRuns, stalls, raced, misled, robbed>>

\* new: not started; free: status allowed it to go on; writing: _held, indexing;
\* beating, leaving: between reading the lock and writing or removing it.
Pcs == {"new", "free", "writing", "beating", "leaving", "gone"}
Alive(p) == pc[p] \notin {"new", "gone"}
Writers == {p \in Trainers : pc[p] \in {"writing", "beating"}}

IdleGuard == [pc |-> "idle", pids |-> {}, stale |-> FALSE]

Init ==
  /\ lock = NoLock
  /\ pc = [p \in Trainers |-> "new"]
  /\ guard = IdleGuard
  /\ guardRuns = 0
  /\ stalls = 0
  /\ raced = FALSE
  /\ misled = FALSE
  /\ robbed = FALSE

-----------------------------------------------------------------------------
\* status.

\* One look at the lock: it is seen as it is; the read fails or the record is
\* broken, and there seems to be none; or the holder's process cannot be opened,
\* and it seems to be dead.
Looks == {"plain", "failed", "unopened"}

Found(look) == lock # NoLock /\ look # "failed"

Stale(look) ==
  Found(look) /\ (~Alive(lock.pid) \/ look = "unopened" \/ ~lock.fresh)

IndexingInProgress(look) == Found(look) /\ ~Stale(look)

Holds(p) == lock # NoLock /\ lock.pid = p

-----------------------------------------------------------------------------
\* A trainer process.

Refused(p, look) == IndexingInProgress(look) /\ ~Holds(p)

\* Mutant: the holder is looked at, nobody is refused.
MutCheck(p) ==
  /\ pc[p] = "new"
  /\ pc' = [pc EXCEPT ![p] = "free"]
  /\ raced' = (raced \/ \E q \in Trainers \ {p} : pc[q] = "free")
  /\ UNCHANGED <<lock, guard, guardRuns, stalls, misled, robbed>>

\* acquire up to the refusal: status is read, a live fresh holder refuses.
Check(p) ==
  /\ pc[p] = "new"
  /\ \E look \in Looks :
       IF Refused(p, look)
       THEN pc' = [pc EXCEPT ![p] = "gone"] /\ UNCHANGED <<raced, misled>>
       ELSE /\ pc' = [pc EXCEPT ![p] = "free"]
            /\ raced' = (raced \/ \E q \in Trainers \ {p} : pc[q] = "free")
            /\ misled' = (misled \/ Refused(p, "plain"))
  /\ UNCHANGED <<lock, guard, guardRuns, stalls, robbed>>

\* Mutant: the first record has no heartbeat_at, which status reads as 0.
MutTake(p) ==
  /\ pc[p] = "free"
  /\ lock' = [pid |-> p, fresh |-> FALSE]
  /\ pc' = [pc EXCEPT ![p] = "writing"]
  /\ UNCHANGED <<guard, guardRuns, stalls, raced, misled, robbed>>

\* The rest of acquire: whatever the file says by now is overwritten.
Take(p) ==
  /\ pc[p] = "free"
  /\ lock' = [pid |-> p, fresh |-> TRUE]
  /\ pc' = [pc EXCEPT ![p] = "writing"]
  /\ UNCHANGED <<guard, guardRuns, stalls, raced, misled, robbed>>

\* heartbeat: silently nothing once the lock is another's, or its read fails.
BeatRead(p) ==
  /\ pc[p] = "writing"
  /\ Holds(p)
  /\ pc' = [pc EXCEPT ![p] = "beating"]
  /\ UNCHANGED <<lock, guard, guardRuns, stalls, raced, misled, robbed>>

\* The record read is written back, whatever the file says by now; a write that
\* fails is swallowed.
BeatWrite(p) ==
  /\ pc[p] = "beating"
  /\ lock' \in {lock, [pid |-> p, fresh |-> TRUE]}
  /\ pc' = [pc EXCEPT ![p] = "writing"]
  /\ UNCHANGED <<guard, guardRuns, stalls, raced, misled, robbed>>

\* release, from train_vault's finally; after a failed read the file stays.
ReleaseRead(p) ==
  /\ pc[p] = "writing"
  /\ \E read \in BOOLEAN :
       pc' = [pc EXCEPT ![p] = IF read /\ Holds(p) THEN "leaving" ELSE "gone"]
  /\ UNCHANGED <<lock, guard, guardRuns, stalls, raced, misled, robbed>>

Unlink(p) ==
  /\ pc[p] = "leaving"
  /\ lock' \in {lock, NoLock}
  /\ pc' = [pc EXCEPT ![p] = "gone"]
  /\ UNCHANGED <<guard, guardRuns, stalls, raced, misled, robbed>>

\* Killed or crashed: the file stays.
Die(p) ==
  /\ Alive(p)
  /\ pc' = [pc EXCEPT ![p] = "gone"]
  /\ UNCHANGED <<lock, guard, guardRuns, stalls, raced, misled, robbed>>

\* stale_after passes without a heartbeat.  A dead holder needs no bound.
GoStale ==
  /\ lock # NoLock /\ lock.fresh
  /\ IF Alive(lock.pid) THEN stalls < MaxStalls /\ stalls' = stalls + 1
                        ELSE stalls' = stalls
  /\ lock' = [lock EXCEPT !.fresh = FALSE]
  /\ UNCHANGED <<pc, guard, guardRuns, raced, misled, robbed>>

-----------------------------------------------------------------------------
\* The process guard: the lock is read, then the processes are listed, then
\* every trainer that is not the holder is stopped, then a stale lock removed.

GuardRead ==
  /\ guard.pc = "idle" /\ guardRuns < MaxGuardRuns
  /\ \E look \in Looks :
       guard' = [pc |-> "list", stale |-> Stale(look),
                 pids |-> IF IndexingInProgress(look) THEN {lock.pid} ELSE {}]
  /\ guardRuns' = guardRuns + 1
  /\ UNCHANGED <<lock, pc, stalls, raced, misled, robbed>>

\* A listing that fails lists nobody.
GuardList ==
  /\ guard.pc = "list"
  /\ \E listed \in {{}, {p \in Trainers : Alive(p)}} :
       guard' = [guard EXCEPT !.pc = "stop", !.pids = listed \ guard.pids]
  /\ UNCHANGED <<lock, pc, guardRuns, stalls, raced, misled, robbed>>

\* SIGTERM, which no trainer handles: its finally does not run.  A kill that
\* fails is swallowed.
GuardStop(p) ==
  /\ guard.pc = "stop" /\ p \in guard.pids
  /\ pc' \in {pc, [pc EXCEPT ![p] = "gone"]}
  /\ guard' = [guard EXCEPT !.pids = @ \ {p}]
  /\ UNCHANGED <<lock, guardRuns, stalls, raced, misled, robbed>>

GuardUnlink ==
  /\ guard.pc = "stop" /\ guard.pids = {}
  /\ \/ /\ guard.stale
        /\ lock' = NoLock
        /\ robbed' = (robbed \/ (lock # NoLock /\ Alive(lock.pid)))
     \/ UNCHANGED <<lock, robbed>>   \* not stale, or the unlink fails
  /\ guard' = IdleGuard
  /\ UNCHANGED <<pc, guardRuns, stalls, raced, misled>>

-----------------------------------------------------------------------------
Trainer(p) ==
  \/ Check(p) \/ Take(p)
  \/ BeatRead(p) \/ BeatWrite(p)
  \/ ReleaseRead(p) \/ Unlink(p)
  \/ Die(p)

Guard == GuardRead \/ GuardList \/ (\E p \in Trainers : GuardStop(p)) \/ GuardUnlink

Next == (\E p \in Trainers : Trainer(p)) \/ GoStale \/ Guard

Spec == Init /\ [][Next]_vars

-----------------------------------------------------------------------------
TypeOK ==
  /\ lock \in Lock \cup {NoLock}
  /\ pc \in [Trainers -> Pcs]
  /\ guard \in [pc : {"idle", "list", "stop"}, pids : SUBSET Trainers, stale : BOOLEAN]
  /\ guardRuns \in 0..MaxGuardRuns
  /\ stalls \in 0..MaxStalls
  /\ raced \in BOOLEAN
  /\ misled \in BOOLEAN
  /\ robbed \in BOOLEAN

\* The four ways this lock fails: two trainers between acquire's status and its
\* write, a status in acquire that misses a live holder, a live holder silent for
\* stale_after, and a guard that unlinks the lock of a trainer it did not stop.
Excused == raced \/ misled \/ stalls > 0 \/ robbed

\* Two trainers write the canonical memory service at once only after one of
\* the four: crashes, reclaims, late or failed heartbeats, late or failed
\* unlinks of release, reads that fail in heartbeat, release or the guard, and
\* the guard's kills, done or failed, in any order, are not a fifth.
AloneUnlessExcused == Excused \/ \A p, q \in Writers : p = q

\* While a trainer writes, the file shows it: no reclaim, release or heartbeat of
\* another leaves a live writer without a fresh lock in its name, with the same
\* four exceptions.
WriterIsVisible ==
  Excused \/ \A p \in Writers : lock = [pid |-> p, fresh |-> TRUE]

\* "makes sure only ONE vault trainer writes to the canonical memory-service at
\* a time" (write_lock.py:5-6).
OneWriter == \A p, q \in Writers : p = q
=============================================================================
