-------------------------- MODULE EngineConsistency --------------------------
(***************************************************************************)
(* The read/write coordination of the memory service: the marker file of   *)
(* gateway/engine_consistency.py, the trainers that mark their batches in  *)
(* it (gateway/vault_training.py, _flush) and the gateway threads that     *)
(* wait for it, search and fall back to a snapshot                         *)
(* (gateway/consistent_client.py, search_facts), all for one query.        *)
(*                                                                         *)
(* Every access to the marker reads the file in one step and replaces it   *)
(* in another.  A threading.Lock makes the two one among the threads of a  *)
(* process, not between the gateway and a trainer.                         *)
(*                                                                         *)
(* One trainer at a time runs: what VaultLock shows of the write lock is   *)
(* assumed here.                                                           *)
(***************************************************************************)
EXTENDS Naturals

CONSTANTS
  Writers,      \* trainer processes, each by its pid, each run once
  Readers,      \* request threads of the gateway, which share one client
  NoPid,        \* no writer_pid in the marker
  BatchItems,   \* facts stored in a batch
  MaxBatches,   \* bound: batches begun
  MaxReads,     \* bound: searches asked for
  MaxFailed,    \* bound: writes of the marker that fail silently
  MaxStalls     \* bound: batches that outlive WRITER_STALE_SECONDS

ASSUME NumbersAssumption ==
  /\ BatchItems \in Nat /\ MaxBatches \in Nat /\ MaxReads \in Nat
  /\ MaxFailed \in Nat /\ MaxStalls \in Nat
ASSUME NoPidAssumption == NoPid \notin Writers

\* fresh: write_started_ts is no older than WRITER_STALE_SECONDS.  The marker's
\* timestamps and last_write_batch_id, which nobody acts on, are left out.
Marker == [writing : BOOLEAN, pid : Writers \cup {NoPid}, batch : Nat, fresh : BOOLEAN]
NoMarker == [writing |-> FALSE, pid |-> NoPid, batch |-> 0, fresh |-> FALSE]

VARIABLES
  marker,     \* runtime/locks/memory_engine.json
  wpc,        \* where each trainer is
  wst,        \* the marker as a trainer read it
  items,      \* how many facts of its current batch a trainer has stored
  facts,      \* whether the service holds a fact the query matches
  batches,    \* batches begun
  rpc,        \* where each gateway thread is
  rst,        \* the marker as a thread read it
  got,        \* what a thread's search has come to
  stable,     \* whether the client has a snapshot for the query, and a fresh one
  flag,       \* last_read_timed_out, one for all threads
  reads,      \* searches asked for
  failed,     \* marker writes that failed
  stalls,     \* batches that outlived the limit
  clobbered,  \* history: a thread wrote back a marker that had changed
  timedOut,   \* history: the thread's wait ended by its deadline
  late,       \* history: a batch began after the thread's wait
  partial     \* history: the thread searched in the middle of a batch

trainers == <<wpc, wst, items, facts, batches>>
threads == <<rpc, rst, got, stable, flag, reads>>
history == <<clobbered, timedOut, late, partial>>
vars == <<marker, wpc, wst, items, facts, batches, rpc, rst, got, stable, flag, reads,
          failed, stalls, clobbered, timedOut, late, partial>>

WriterPcs == {"new", "ready", "begin", "storing", "commit", "gone"}
ReaderPcs == {"idle", "wait", "stamp", "stamping", "search", "empty", "retry", "keep", "done"}
Alive(w) == wpc[w] \notin {"new", "gone"}
InBatch(w) == wpc[w] \in {"storing", "commit"}
MidBatch(w) == wpc[w] = "storing" /\ 0 < items[w] /\ items[w] < BatchItems
Training == \E w \in Writers : Alive(w)

Init ==
  /\ marker = NoMarker
  /\ wpc = [w \in Writers |-> "new"]
  /\ wst = [w \in Writers |-> NoMarker]
  /\ items = [w \in Writers |-> 0]
  /\ facts \in BOOLEAN
  /\ batches = 0
  /\ rpc = [r \in Readers |-> "idle"]
  /\ rst = [r \in Readers |-> NoMarker]
  /\ got = [r \in Readers |-> "none"]
  /\ stable = "none"
  /\ flag = FALSE
  /\ reads = 0
  /\ failed = 0
  /\ stalls = 0
  /\ clobbered = FALSE
  /\ timedOut = [r \in Readers |-> FALSE]
  /\ late = [r \in Readers |-> FALSE]
  /\ partial = [r \in Readers |-> FALSE]

-----------------------------------------------------------------------------
\* The marker.

\* Mutant: the age of the flag is not looked at.
MutWriterActive == marker.writing /\ marker.pid \in Writers /\ Alive(marker.pid)

WriterActive ==
  /\ marker.writing
  /\ marker.pid \in Writers /\ Alive(marker.pid)
  /\ marker.fresh

\* _write: an OSError is swallowed.
Write(rec) ==
  \/ marker' = rec /\ failed' = failed
  \/ failed < MaxFailed /\ failed' = failed + 1 /\ marker' = marker

\* WRITER_STALE_SECONDS pass.  Only a batch that really lasts so long is bounded.
GoStale ==
  /\ marker.writing /\ marker.fresh
  /\ IF marker.pid \in Writers /\ InBatch(marker.pid)
     THEN stalls < MaxStalls /\ stalls' = stalls + 1
     ELSE stalls' = stalls
  /\ marker' = [marker EXCEPT !.fresh = FALSE]
  /\ UNCHANGED <<trainers, threads, failed, history>>

-----------------------------------------------------------------------------
\* A trainer: any number of batches under the write lock.

Start(w) ==
  /\ wpc[w] = "new"
  /\ ~Training
  /\ wpc' = [wpc EXCEPT ![w] = "ready"]
  /\ UNCHANGED <<marker, wst, items, facts, batches, threads, failed, stalls, history>>

BeginRead(w) ==
  /\ wpc[w] = "ready"
  /\ batches < MaxBatches
  /\ batches' = batches + 1
  /\ wst' = [wst EXCEPT ![w] = marker]
  /\ wpc' = [wpc EXCEPT ![w] = "begin"]
  /\ UNCHANGED <<marker, items, facts, threads, failed, stalls, history>>

BeginWrite(w) ==
  /\ wpc[w] = "begin"
  /\ Write([writing |-> TRUE, pid |-> w, batch |-> wst[w].batch + 1, fresh |-> TRUE])
  /\ late' = [r \in Readers |-> late[r] \/ rpc[r] \notin {"idle", "wait"}]
  /\ wpc' = [wpc EXCEPT ![w] = "storing"]
  /\ wst' = [wst EXCEPT ![w] = NoMarker]
  /\ UNCHANGED <<items, facts, batches, threads, stalls, clobbered, timedOut, partial>>

\* One item of store_facts_batch: stored, or counted as failed.
StoreItem(w, ok) ==
  /\ wpc[w] = "storing" /\ items[w] < BatchItems
  /\ items' = [items EXCEPT ![w] = @ + 1]
  /\ facts' = (facts \/ ok)
  /\ UNCHANGED <<marker, wpc, wst, batches, threads, failed, stalls, history>>

CommitRead(w) ==
  /\ wpc[w] = "storing" /\ items[w] = BatchItems
  /\ wst' = [wst EXCEPT ![w] = marker]
  /\ wpc' = [wpc EXCEPT ![w] = "commit"]
  /\ UNCHANGED <<marker, items, facts, batches, threads, failed, stalls, history>>

\* Mutant: last_write_batch_id is set, "writing" is not cleared.
MutCommitWrite(w) ==
  /\ wpc[w] = "commit"
  /\ Write(wst[w])
  /\ wpc' = [wpc EXCEPT ![w] = "ready"]
  /\ wst' = [wst EXCEPT ![w] = NoMarker]
  /\ items' = [items EXCEPT ![w] = 0]
  /\ UNCHANGED <<facts, batches, threads, stalls, history>>

CommitWrite(w) ==
  /\ wpc[w] = "commit"
  /\ Write([wst[w] EXCEPT !.writing = FALSE])
  /\ wpc' = [wpc EXCEPT ![w] = "ready"]
  /\ wst' = [wst EXCEPT ![w] = NoMarker]
  /\ items' = [items EXCEPT ![w] = 0]
  /\ UNCHANGED <<facts, batches, threads, stalls, history>>

\* The run is over, or the process was killed.
Exit(w) ==
  /\ Alive(w)
  /\ wpc' = [wpc EXCEPT ![w] = "gone"]
  /\ wst' = [wst EXCEPT ![w] = NoMarker]
  /\ items' = [items EXCEPT ![w] = 0]
  /\ UNCHANGED <<marker, facts, batches, threads, failed, stalls, history>>

-----------------------------------------------------------------------------
\* A gateway thread in search_facts: wait_consistent first.

Ask(r) ==
  /\ rpc[r] = "idle" /\ reads < MaxReads
  /\ reads' = reads + 1
  /\ flag' = FALSE
  /\ rpc' = [rpc EXCEPT ![r] = "wait"]
  /\ UNCHANGED <<marker, trainers, rst, got, stable, failed, stalls, history>>

\* Mutant: the marker is read once and not waited for.
MutPollClear(r) ==
  /\ rpc[r] = "wait"
  /\ rpc' = [rpc EXCEPT ![r] = "stamp"]
  /\ UNCHANGED <<marker, trainers, rst, got, stable, flag, reads, failed, stalls, history>>

PollClear(r) ==
  /\ rpc[r] = "wait"
  /\ ~WriterActive
  /\ rpc' = [rpc EXCEPT ![r] = "stamp"]
  /\ UNCHANGED <<marker, trainers, rst, got, stable, flag, reads, failed, stalls, history>>

\* The client does not look at what wait_consistent returns.
PollTimeout(r) ==
  /\ rpc[r] = "wait"
  /\ WriterActive
  /\ rpc' = [rpc EXCEPT ![r] = "stamp"]
  /\ timedOut' = [timedOut EXCEPT ![r] = TRUE]
  /\ UNCHANGED <<marker, trainers, rst, got, stable, flag, reads, failed, stalls,
                 clobbered, late, partial>>

\* last_consistent_read_ts is put into the marker, under the gateway's own lock.
StampRead(r) ==
  /\ rpc[r] = "stamp"
  /\ \A q \in Readers : rpc[q] # "stamping"
  /\ rst' = [rst EXCEPT ![r] = marker]
  /\ rpc' = [rpc EXCEPT ![r] = "stamping"]
  /\ UNCHANGED <<marker, trainers, got, stable, flag, reads, failed, stalls, history>>

StampWrite(r) ==
  /\ rpc[r] = "stamping"
  /\ Write(rst[r])
  /\ clobbered' = (clobbered \/ rst[r] # marker)
  /\ rst' = [rst EXCEPT ![r] = NoMarker]
  /\ rpc' = [rpc EXCEPT ![r] = "search"]
  /\ UNCHANGED <<trainers, got, stable, flag, reads, stalls, timedOut, late, partial>>

\* While a batch is being stored the churned index may give nothing for what
\* the service holds: such an answer is "missed" here, though nobody can tell
\* it from a true "empty".
Answers ==
  (IF facts THEN {"hits"} ELSE {"empty"}) \cup
  (IF facts /\ \E w \in Writers : InBatch(w) THEN {"missed"} ELSE {})

Search(r) ==
  /\ rpc[r] = "search"
  /\ \E h \in Answers :
       /\ got' = [got EXCEPT ![r] = h]
       /\ rpc' = [rpc EXCEPT ![r] = IF h = "hits" THEN "keep" ELSE "empty"]
  /\ partial' = [partial EXCEPT ![r] = \E w \in Writers : MidBatch(w)]
  /\ UNCHANGED <<marker, trainers, rst, stable, flag, reads, failed, stalls,
                 clobbered, timedOut, late>>

\* Nothing found: only while the write lock is held is that doubted.
CheckLock(r) ==
  /\ rpc[r] = "empty"
  /\ rpc' = [rpc EXCEPT ![r] = IF Training THEN "retry" ELSE "done"]
  /\ UNCHANGED <<marker, trainers, rst, got, stable, flag, reads, failed, stalls, history>>

RetryHits(r) ==
  /\ rpc[r] = "retry"
  /\ "hits" \in Answers
  /\ got' = [got EXCEPT ![r] = "hits"]
  /\ rpc' = [rpc EXCEPT ![r] = "keep"]
  /\ partial' = [partial EXCEPT ![r] = @ \/ \E w \in Writers : MidBatch(w)]
  /\ UNCHANGED <<marker, trainers, rst, stable, flag, reads, failed, stalls,
                 clobbered, timedOut, late>>

\* Mutant: the retries go on until there is something to serve.
MutRetryEnd(r) ==
  /\ rpc[r] = "retry"
  /\ stable = "fresh"
  /\ \E h \in Answers \ {"hits"} : got' = [got EXCEPT ![r] = "snapshot"]
  /\ flag' = TRUE
  /\ rpc' = [rpc EXCEPT ![r] = "keep"]
  /\ UNCHANGED <<marker, trainers, rst, stable, reads, failed, stalls, history>>

\* The last retry gave nothing either: a snapshot within its ttl is served.
RetryEnd(r) ==
  /\ rpc[r] = "retry"
  /\ \E h \in Answers \ {"hits"} :
       got' = [got EXCEPT ![r] = IF stable = "fresh" THEN "snapshot" ELSE h]
  /\ flag' = (flag \/ stable = "fresh")
  /\ rpc' = [rpc EXCEPT ![r] = IF stable = "fresh" THEN "keep" ELSE "done"]
  /\ UNCHANGED <<marker, trainers, rst, stable, reads, failed, stalls, history>>

\* What is returned, a served snapshot too, becomes the fresh snapshot.
Keep(r) ==
  /\ rpc[r] = "keep"
  /\ stable' = "fresh"
  /\ rpc' = [rpc EXCEPT ![r] = "done"]
  /\ UNCHANGED <<marker, trainers, rst, got, flag, reads, failed, stalls, history>>

\* vault_fact_count reads last_read_timed_out when search_facts has returned.
Return(r) ==
  /\ rpc[r] = "done"
  /\ rpc' = [rpc EXCEPT ![r] = "idle"]
  /\ got' = [got EXCEPT ![r] = "none"]
  /\ timedOut' = [timedOut EXCEPT ![r] = FALSE]
  /\ late' = [late EXCEPT ![r] = FALSE]
  /\ partial' = [partial EXCEPT ![r] = FALSE]
  /\ UNCHANGED <<marker, trainers, rst, stable, flag, reads, failed, stalls, clobbered>>

\* snapshot_ttl passes.
Expire ==
  /\ stable = "fresh"
  /\ stable' = "expired"
  /\ UNCHANGED <<marker, trainers, rpc, rst, got, flag, reads, failed, stalls, history>>

-----------------------------------------------------------------------------
Batch(w) ==
  \/ BeginWrite(w)
  \/ \E ok \in BOOLEAN : StoreItem(w, ok)
  \/ CommitRead(w)
  \/ CommitWrite(w)

Trainer(w) == Start(w) \/ BeginRead(w) \/ Batch(w) \/ Exit(w)

Answer(r) ==
  \/ PollClear(r) \/ PollTimeout(r)
  \/ StampRead(r) \/ StampWrite(r)
  \/ Search(r) \/ CheckLock(r) \/ RetryHits(r) \/ RetryEnd(r)
  \/ Keep(r) \/ Return(r)

Next ==
  \/ \E w \in Writers : Trainer(w)
  \/ \E r \in Readers : Ask(r) \/ Answer(r)
  \/ GoStale
  \/ Expire

Spec == Init /\ [][Next]_vars

\* A thread in search_facts goes on, its loops have deadlines; a trainer in a
\* batch stores it and commits; time passes.  No trainer need ever end.
Fairness ==
  /\ \A r \in Readers : WF_vars(Answer(r))
  /\ \A w \in Writers : WF_vars(Batch(w))
  /\ WF_vars(GoStale)

FairSpec == Spec /\ Fairness

-----------------------------------------------------------------------------
TypeOK ==
  /\ marker \in Marker
  /\ wpc \in [Writers -> WriterPcs]
  /\ wst \in [Writers -> Marker]
  /\ items \in [Writers -> 0..BatchItems]
  /\ facts \in BOOLEAN
  /\ batches \in 0..MaxBatches
  /\ rpc \in [Readers -> ReaderPcs]
  /\ rst \in [Readers -> Marker]
  /\ got \in [Readers -> {"none", "empty", "missed", "hits", "snapshot"}]
  /\ stable \in {"none", "fresh", "expired"}
  /\ flag \in BOOLEAN
  /\ reads \in 0..MaxReads
  /\ failed \in 0..MaxFailed
  /\ stalls \in 0..MaxStalls
  /\ clobbered \in BOOLEAN
  /\ timedOut \in [Readers -> BOOLEAN]
  /\ late \in [Readers -> BOOLEAN]
  /\ partial \in [Readers -> BOOLEAN]

Excused == clobbered \/ failed > 0 \/ stalls > 0

\* The marker tells the truth about batches in progress: crashes in a batch,
\* successors of a crashed trainer and readers' stamps in between do not make
\* it hide a batch or show one that is over.  Only a stamp that writes back an
\* old marker, a marker write that failed or a batch of over 120 seconds can.
MarkerHonest ==
  Excused \/ \A w \in Writers :
    InBatch(w) <=> marker.writing /\ marker.fresh /\ marker.pid = w /\ Alive(w)

\* A search meets a half-stored batch only if the thread's wait timed out, the
\* batch began after the wait, or the marker was wrong (MarkerHonest's excuses).
PartialIsExplained ==
  \A r \in Readers : partial[r] => timedOut[r] \/ late[r] \/ Excused

\* A search that was asked for is answered.
ReadEnds == \A r \in Readers : rpc[r] = "wait" ~> rpc[r] = "idle"

\* A writing flag left behind, by a crash or by a stamp written back, does not
\* hold readers up for ever: the writer it names ceases to count as active,
\* though it may live on and never write again.
FlagEnds == WriterActive ~> ~WriterActive

\* "explicit: served stale snapshot" (consistent_client.py:85): whoever was given
\* the snapshot is told so.
SnapshotIsAnnounced ==
  \A r \in Readers : rpc[r] = "done" /\ got[r] = "snapshot" => flag
=============================================================================
