# Verification of BYON Optimus

TLA+ models of the parts of BYON Optimus whose correctness depends on *order*:
threads and processes that read a file, decide, and write it back a step later;
records that are appended one by one and reloaded after a crash; queues, locks and
ledgers that several actors work on without a common lock; stages of a search that
may end it early; probes that take live state away and put it back. TLC checks small
instances of every model; TLAPS proves every safety property the passing runs check, for
every instance. Liveness is TLC's alone.

Contents: [the system](#the-system) · [the modules](#the-modules) ·
[the runs](#the-runs) · [what the violated properties show](#what-the-violated-properties-show) ·
[fairness](#fairness) · [the proofs](#the-proofs) ·
[hazards no property covers](#hazards-no-property-covers) ·
[what is not modelled](#what-is-not-modelled) · [the plan](#the-plan)

Run a check with `tlc -config MCOperations.cfg MCOperations.tla`, a proof with
`tlapm Operations_proofs.tla`. `PROJECT.json` lists every run, property, theorem,
mutant and hazard, and maps each definition to the lines it models. A definition
whose name starts with `Mut` is a plausible bug in the definition after it; no
specification uses one.

## The system

The gateway (`gateway/`) answers requests over HTTP, keeps what it learns in a
memory service, researches open questions in the background and indexes the
user's vault of notes. D_Cortex (`dcortex/`) is a neural model with an addressable
memory beside it. Processes and threads:

| Process | Threads | Works on |
| --- | --- | --- |
| gateway (`app.py`, `server.py`) | HTTP threads; one life daemon (`lifeloop.py`) | task queue, candidate ledger, learning ledgers, tombstones, relation ledger, engine marker (reads, stamps) |
| vault trainer (`vault_training.py`), one or more by accident | one | vault lock, engine marker, manifest, memory service |
| process guard (`scripts/byon_process_guard.py`) | one | vault lock, the trainers themselves |
| compaction (`scripts/compact_vault_memory.py`) | one | tombstones |
| launcher (`run_byon.py`), restart script, restart-recall gate | one each | child processes, ports |
| live evaluation (`scripts/live_byon_eval.py`) | one | asks gateway and memory service |
| D_Cortex | one | its buffers, a checkpoint |
| memory service | external | facts, a search index |

They share **files** (`runtime/locks/*.json`, `*.jsonl` ledgers): each is read in
one step and replaced or appended to in another. A `threading.Lock`, where there is
one, orders the threads of one process and never two processes.

### Components

| Component | State | Operations | Interacts with | Hard behaviour | What makes it correct |
| --- | --- | --- | --- | --- | --- |
| Research tasks (`research_tasks.py`) | `tasks`, jsonl file | create, set_status, approve_web, cancel, mark_resolved, reload | LifeLoop drains it, routes run/approve/cancel | look-then-set from two threads, swallowed write errors, restart | web only with permission; no two open tasks per topic; nothing stays RUNNING |
| LifeLoop, pressure (`lifeloop.py`, `pressure.py`) | pressure per topic, counters, reasons | record, feedback, tick, consolidate, drain | tasks, candidates | tick of daemon against tick of a route, events during a consolidation | no ask lost, repeated failure stops |
| Candidates (`candidate_lifecycle.py`, `evidence_semantics.py`) | append-only ledger, one private copy per session | ingest, merge, dispute, consolidate, commit, manual operations | memory service, LifeLoop | lost updates, torn lines, store-then-save | commit only on real evidence, contradiction blocks commit |
| Vault lock (`write_lock.py`), process guard | lock file | acquire, heartbeat, release; stop-stale | trainers | check-then-write, a stalled holder | one writer at a time |
| Engine marker (`engine_consistency.py`) | marker file | begin_write, commit_write, wait_consistent | trainers, gateway | lost update between processes | marker tells the truth |
| Consistent client (`consistent_client.py`) | last stable snapshot, `last_read_timed_out` | search_facts, vault_fact_count, store_facts_batch | marker, lock, tombstones | act on an old look | no half read, stale data announced |
| Vault training, manifest | manifest jsonl, pending batch | index run, flush, supersede, bootstrap | lock, marker, memory service | crash between store and record, edits | nothing skipped that is not stored, nothing stored twice |
| Tombstones, compaction (`tombstones.py`) | records, sets, mtime seen | tombstone, revive, filter, reload; compact | two processes | reload by mtime, clear before read | retired stays hidden, kept stays visible |
| Relation field (`relation_*.py`) | ledger of relations, one copy per request | observe, contradict, resolve, consolidate, compact, scan gaps, paths, reports | tasks, HTTP threads | whole records from old copies, echo of one's own answers | commit only what the sources allow; paths exact |
| Epistemic search (`epistemic_search.py`, `perspective_synthesis.py`, `acquisition/`, `source_policy.py`, `normalizer.py`) | evidence of one question | search, acquire, synthesize, normalise, deliver | memory, web, project files, other models | early exits, re-pooling | the verdict is what the evidence justifies |
| Continuous learning, recent writes | four jsonl ledgers, a buffer | upsert, reinforce, dispute, consolidate, forget | HTTP threads, memory service | read-modify-rewrite without a lock | nothing promoted unearned |
| D_Cortex memory (`v99_source.py`) | current, archive, relation, trust, challenger per key | event, sleep, checkpoint, probe, clear | its audits, its training world | sleep-gated overwrite, restore after a probe | a consolidated value changes only by repeated correction |
| Launcher, supervisor, restart gate | children, ports | launch, wait, attach, stop, restart | services | asks the port, not the child | a restart replaces, a recall is no echo |
| Live evaluation | course of gates, guard | gate, skip, poll, report | gateway, memory service | outages in the course | silence is no pass |
| Rate limiter, audit, auth, UI, MCP, other scripts | | | | | below |

## The modules

Every module starts with a comment that says what it stands for; each action is
one step of the code *between two moments at which another thread or process can
act*: an operation that reads a file and then writes it is two actions. Variables
marked `history` are no state of the code: they record how a state came about, so that
an invariant can say "only if ...". Variables marked `bound` cap what would not end.

| Module | Models | With |
| --- | --- | --- |
| `ResearchTasks` | the task queue under all threads that work on it | `ResearchTasks_proofs`, `MCResearchTasks` |
| `CandidateLifecycle` | candidates of one topic, overlapping sessions | `CandidateLifecycle_proofs`, `MCCandidateLifecycle` |
| `EngineConsistency` | marker, client, trainers in turn | `EngineConsistency_proofs`, `MCEngineConsistency` |
| `EpistemicContract` | what an answer promises, abstractly | refined by `EpistemicSearch` |
| `EpistemicSearch` | one question's way to a delivered verdict | `EpistemicSearch_proofs`, `MCEpistemicSearch`, in `MCSearch` |
| `ContinuousLearning` | learning ledgers under request threads | `Learning`, `ContinuousLearning_proofs`, in `MCSearch` |
| `RelationField` | relation ledger under overlapping requests | `Relations_proofs`, in `MCRelations` |
| `RelationPaths` | path search, scores and verdicts on a loaded copy | `Relations`, `Relations_proofs`, in `MCRelations` |
| `VaultTraining` | trainer and manifest | `Memory_proofs`, in `MCMemory` |
| `Tombstones` | ledger, reader threads, compaction | `Memory`, `Memory_proofs`, in `MCMemory` |
| `CortexLedger` | operators: what an event, a sleep, a query do | used by the next two |
| `CortexMemory` | the life of the memory, with probes and restarts | `Memory`, `Memory_proofs`, in `MCMemory` |
| `CortexCourses` | the courses of the audits | `Memory`, `Memory_proofs`, in `MCMemory` |
| `CortexEpisode` | the training world beside the forward ledger | `Memory`, `Memory_proofs`, in `MCMemory` |
| `VaultLock` | lock and guard | `Operations_proofs`, in `MCOperations` |
| `LifeLoop` | pressure, consolidation, the drain, of two tickers | `Operations`, `Operations_proofs`, in `MCOperations` |
| `Launcher` | launches, children, ports, restart, restart gate | `Operations`, `Operations_proofs`, in `MCOperations` |
| `LiveEval` | the course of gates and its guard | `Operations`, `Operations_proofs`, in `MCOperations` |

`Learning`, `Relations`, `Memory` and `Operations` hold components side by side as instances of their
modules, each with variables of its own, and state in their words what they promise; the
proof modules and the MC modules extend them, so a run and a theorem name one property.
`MCSearch`, `MCRelations`, `MCMemory` and `MCOperations` put side by side components
that share no state while they run: a behaviour chooses one, its `part`, and the others
stay where they started. Putting them together saves runs and costs only the sum of
their states.

### ResearchTasks

| Model | Code |
| --- | --- |
| `mem`, `disk` | `ResearchTaskQueue.tasks`, last record per id of the jsonl file |
| `Write` | `_append`: memory first, the file unless the write raises (which is swallowed) |
| `Create` | `create`: open task on the topic returned, else a new one with the permission decided from the environment |
| `ApproveWeb`, `Cancel`, `ResolveStart/One` | the methods of the same name |
| `DrainStart/Pick/End/Claim/Outcome/Failed` | `LifeLoop.drain_tasks`: snapshot, live status check, set RUNNING, run, pressure outcome, final status |
| `RunTaskCheck/Claim/Call/Finish` | the route `POST /v1/lifeloop/run-task` |
| `Restart` | process gone, `_load` |

Abstracted: topics are model values (no secret topic, so `is_memory_only`'s secret
test is constant); the order of a drain is arbitrary, a superset of the code's order by
priority (what holds for any order holds for that one, and the liveness property is
checked for any order); results, notes and the figures of `counts` are left out.

### LifeLoop

| Model | Code |
| --- | --- |
| `topics`, `Observed`, `Rated`, `Outcome`, `Decayed`, `Relieved` | `PressureModel.topics` and `observe`, `feedback`, `task_outcome`, `decay`, `relieve`, in halves of a unit |
| `Interaction`, `Withheld`, `Feedback`, `MemoryAction`, `MarkResolved` | `record_interaction` (with the secret question that only counts), `record_feedback`, `record_event`, `mark_resolved` |
| `Tick`, `Consolidate`, `ClearReasons`, `Decay` | `tick`: look, `fce_consolidate`, clear and reset, decay, each with another ticker or event in between |
| `Pick`, `NothingToRun`, `Run`, `Settle` | `drain_tasks`, one task a tick |
| `Answered`, `Unanswered`, `Failed` | how a run ends. One that finds no answer is a failure to `task_outcome` and leaves its task DONE (409); one that raises is BLOCKED if its topic had failed before, with or without an answer |
| `Hour`, `Restart` | time, and a restart: pressure and tasks from their files, the rest from nothing |

A question is its own topic. Left out: `run_relation_cycle`, event counters and rates,
`freeze`, `correction` (no route calls it), self-state snapshots, write errors.

### CandidateLifecycle

Every drained task, tick and operator request of the gateway builds a
`CandidateLifecycle`, which loads the file into a private copy (`view`), changes that
copy and appends whole records.

| Model | Code |
| --- | --- |
| `ledger` | what `_load` gets: the last record per id, up to a torn line (`torn`) |
| `view[w]`, `fresh`, `dirty` | `_by_id` of a session and the records it has still to `_save` |
| `Ingest` = `Challenge`, `Merge` or `Found` | `ingest_task_result` with `_find_topic`, `_challenge`, `_merge_evidence`, `_new_candidate` |
| `Evaluate`, `Quality`, `Committable`, `VerifiedWeb` | `evaluate_candidate`, `evidence_quality_score`, `_committable`, the web-verification test |
| `Load` | `_load`; a file that exists and does not open is an empty ledger (163) |
| `Append` = `Write` or `Lose` | `_save`: the line can be read, or its write failed in silence, or it lies behind a torn one |
| `ConsolidateBegin/One`, `Commit` | `consolidate`, `_commit` (fact stored, then record saved) |
| `MarkFalse`, `MarkImportant`, `RequestEvidence`, `Archive`, `ApproveCommit` | the manual operations behind `POST /v1/lifeloop/candidate/{id}/{op}` |
| `Age`, `Crash` | `stale_days` go by; the gateway dies, perhaps in the middle of a line |

Abstracted: a claim is a model value; how two texts relate is the constant
`Relation`, constrained to be symmetric and reflexive-supporting as
`classify_evidence_relation` is on one topic. `Quality` is in twentieths, so that
0.70 is 14 and the weights are integers. Sets stand for the list of source keys,
because `_merge_evidence` keeps a key once. Four histories say what a session could not know or
did not get written: `behind` (records others saved since it loaded, or all of them if its
load failed), `unseen` (what was saved by a session behind on what), `contested`
(contradictions that reached the ledger) and `dropped` (those that did not). The
properties of disputes are stated relative to them, for any number of sessions.

### VaultLock

| Model | Code |
| --- | --- |
| `lock` (pid, fresh) | the lock file: pid, heartbeat no older than `stale_after` |
| `Check`, `Take` | `acquire`: `status`, then the write of the file |
| `Looks`, `Found`, `Stale`, `IndexingInProgress` | `status` and its callers: a read that fails or a record that is broken is no lock (60-69), a process that cannot be opened is a dead one (34-35) |
| `BeatRead`, `BeatWrite`; `ReleaseRead`, `Unlink` | `heartbeat`, `release`: owner read, file then written or unlinked; each of these may fail in silence |
| `Die`, `GoStale` | a killed trainer (file stays), a silent one |
| `GuardRead/List/Stop/Unlink` | `byon_process_guard.py stop-stale` in its own order; a listing that fails lists nobody, a kill or unlink that fails is swallowed |

### EngineConsistency

The marker file, trainers (one alive at a time: what `VaultLock` establishes is
assumed by the guard of `Start`) and gateway threads in `search_facts`.

| Model | Code |
| --- | --- |
| `marker` | writing flag, `writer_pid`, `current_write_batch_id`, age of `write_started_ts` |
| `BeginRead/Write`, `StoreItem`, `CommitRead/Write` | `begin_write`, the items of `store_facts_batch`, `commit_write` as `_flush` calls them |
| `Ask`, `PollClear/Timeout`, `StampRead/Write` | `search_facts` up to and through `wait_consistent` |
| `Search`, `CheckLock`, `RetryHits/End`, `Keep`, `Return`, `Expire` | the search, the doubt about an empty answer, the retries, the snapshot, and `vault_fact_count`'s read of `last_read_timed_out` |
| `Exit` | end of a run or a kill at any step |

What the memory service answers while a batch is being stored is external: `Answers`
lets it give hits, a true empty, or (only during a batch) a miss of what it holds, as
`consistent_client.py`'s comments say of the churned index.

### VaultTraining

| Model | Code |
| --- | --- |
| `manifest` (sequence in load order), `Put`, `FileSha`, `HasActiveSha` | `VaultManifest` and its lookups; `file_sha` is that of the first active record |
| `Begin`, `BootstrapHit/End/Fails` | loading, and `bootstrap_from_memory` on a manifest with nothing active |
| `SkipFile`, `UnreadableFile`, `ReadFile` | the loop over notes: skip unchanged, log unreadable, supersede the former text's records |
| `DedupChunk`, `PendChunk`, `FileDone`, `End` | the loop over chunks, the flush every `progress_every` notes, the last flush |
| `StoreItem`, `RecordItem`, `Flushed` | `_flush`: store every item, then record those stored |
| `Edit`, `Crash` | the user saves a note; the trainer dies at any step |

A chunk of text stands for its sha. `supersede_file` appends one record per chunk; the
model supersedes a note's records in one step (a run cut in the middle finds the rest
active with the old sha and supersedes them when it comes back). `max_files`, tags,
backlinks, report figures and the final `fce_consolidate` change none of this state.

### Tombstones

| Model | Code |
| --- | --- |
| `log` | `tombstones.jsonl`, appended to by gateway and compaction |
| `records`, `sets`, `mtime` | the gateway's `TombstoneStore`: latest record per key, what is hidden, the mtime it has read |
| `Stat`, `ClearRecords`, `Load`, `ParseLine`, `RebuildSets` | `maybe_reload`, step by step, because its threads share the store without a lock; `RebuildRaises` is the dictionary that changes size under `_rebuild_sets` |
| `Filter` | the hits of `ConsistentMemoryClient.search_facts` passed through `filter` |
| `Tombstone`, `Revive`, `RecordOwn`, `TakeMtime` | the append of a record, its own copy in memory, the mtime taken as read |
| `StartCompaction`, `Retire`, `StopCompaction` | `compact_vault_memory.py`: copies grouped by content, all but the newest retired |

The mtime is the number of lines: every append is taken to change it. The audit log
and dry runs are left out. Histories: `due` is what the ledger hid when a search looked;
`masked` says that an append of this process took lines as read that it never read, and
`excused` who may therefore answer a hidden fact, or because its call overlapped another's.

### EpistemicContract and EpistemicSearch

`EpistemicContract` says what an answer promises whatever produces it: evidence is
only gathered; one verdict is passed, and only one the evidence justifies (KNOWN needs
the program's own state, a committed fact, the user's own words, another backend's word,
or results that converge; DISPUTED a conflict; and so on for each status); that verdict,
or an empty refusal, is delivered.
`EpistemicSearch` is the way there:

| Model | Code |
| --- | --- |
| `Ask`, `Down`, `Learned`, `StylePreference`, `Search` | the chat and research routes: `byon_backend.py`, `local_backend.py`, `memory_service_backend.py` |
| `Secret`, `SelfState`, `Operational`, `Retrieve`, `PoolHits`, `UnsafeNote` | the stages of `EpistemicSearch.run` in their order: the tests that answer without a search, the hits, the pool with relations, the unsafe vault claim |
| `Bleeds`, `SourceClass`, `AllowedPrimary`, `CommittedTrust` | `_bleeds`, `source_class_of`, `allowed_as_primary`, `query_router.committed` |
| `SystemFast/Slow`, `Buffered`, `FastOk`, `FastPath` | the early exits, with the recent-write buffer |
| `Claude`, `AcquireBefore`, `Web`/`NoWeb`, `AcquireAfter`, `BudgetRequired` | the hypothesis, the acquisition router and its adapters (project files, corpus, other models, budget), the web |
| `Synthesize`, `Verdict`, `Supported` | `synthesize`, `web_search`'s grouping of results by claim |
| `Normalized`, `Deliver` | `normalizer.py`: the status gate and the audit gate |

What a text says is an input: the kind of the question, the hits in the order of their
score, the claim a result makes. Pacing by the clock is an allowance that may run out.
What the model shows besides its properties: relation hits are always dropped by
`_bleeds` for an objective question (lines 313-316); the class line 563 reports is that of
`memory_hits[0]`, which need not be the hit the answer came from; `BUDGET_REQUIRED` is no
valid status of the normaliser, so a chat gets ERROR for it; opinions of other models
count as web supports under auto-commit (`evidence_packet.py:34`); the research route
delivers without the normaliser.

### ContinuousLearning

| Model | Code |
| --- | --- |
| `candidates`, `facts`, `archive`, `service`, `buffer` | the three jsonl ledgers, the facts of the user in the memory service, `RecentWriteBuffer` |
| `Upsert`, `Truncate`, `Write`, `Mirror` | `upsert_candidate`, `reinforce`: load and change; `write_text` opens (and truncates), then writes; then the service |
| `Dispute`, `MarkDisputed`; `Consolidate`, `Promote`, `StorePromoted`, `SaveAll` | the methods of the same name, row by row |
| `Forget`, `ForgetFacts`, `ForgetArchive`, `Teach`, `Unbuffer`, `Crash` | forget and teach of the backend, expiry or confirmation of a recent write, death |

Seen on the way: forget leaves the buffer and the facts of the service;
`evidence_count` counts asks, not sources; a disputed candidate is still promoted,
although the route answers "removed_from_candidates" (`memory_service_backend.py:318`).

### RelationField and RelationPaths

`RelationField` is the ledger under requests that each hold a copy of it.

| Model | Code |
| --- | --- |
| `file`, `copy[p]`, `behind[p]` | the last record per relation in the file; a request's `_rel`; history: relations another request appended since `p` loaded |
| `Open`, `Close`, `missed[p]` | `RelationField(...)`, which `_load`s; the end of the request; history: what a load that could not open the file did not get |
| `Put`, `Note`, `Lost`, `torn` | `_append` to either ledger: done, failed in silence, or failed and left a line that ends every later load |
| `Added`, `StatusFor`, `Evaluate`, `CommitAllowed`, `Quality` | `add_relation`, `_status_for`, `evaluate_relation`, `relation_policy.commit_allowed`, `relation_quality` |
| `Seed`, `Observe`, `Contradict`, `Dispute`, `RecordContradiction`, `Resolve`, `Consolidate` | the builder and the routes that call these methods |
| `Promote`, `Report` | `ingest_candidate` of a committed candidate (1066-1070) and the event of a relation fact (1189-1194); `ingest_dispute`, a challenger's edge and the event of a relation that marks itself |
| `FoldEdges`/`ReplaceEdges`, `FoldHistory`/`ReplaceHistory` | `compact`: read and fold the file, later replace it |
| `ScanGaps`, `RunGapTask`, `GrowOld` | `RelationGapScanner`, a gap task's answer and its candidate, `stale_days` |

`Promote` commits a record on the spot, from one source of any class, and asks no policy:
`Vouches` names the pairs of source and relation for which a source can do so, and
`CommitEarned` says that this route and the policy are the only two. A load keeps what
precedes a line it cannot parse (292): what is appended behind that line no longer counts
as written, and a compaction leaves a ledger it cannot read to its end as it is.

`RelationPaths` takes a loaded copy as given and walks it: `Visit` is one turn of
`multi_hop_path`'s stack; `Weight`, `Fade`, `Decayed`, `Penalties`, `PathWeight`, `Best`
are `relation_weight_score`, `relation_decay` and `path_score` in ten-thousandths,
rounded down factor by factor; `Explain`, `ExplainV2`, `Score` and `RenderPath` are the
four places that judge a path; they do not mean the same by KNOWN, and `VerdictLadder` says
how each differs from the next: `Explain` wants committed hops, with a source and none
rendered in reverse; `ExplainV2` (`relation_reports.py:253`) committed hops, although its
own text (257-258) says of such a path that it cannot be asserted as known, and the
docstring of the first (177-179) that it is provisional; `Score` also takes reinforced
hops; `RenderPath` anything undisputed. `About`, `Shown`, `AnswerList` the lists of
`relation_reports.py`. Left out of both: entities and aliases, the rebuild's reading of
the vault, proposals, inference of relations from text, wording.

### The cortex

Neural logits, Z registers and the plastic prior are left out: at evaluation the
ledger's one-hot answer dominates them. What is left is a memory with a discipline.

| Model | Code (`v99_source.py`) |
| --- | --- |
| `CortexLedger.Heard`, `Stated`, `Challenged`, `Written` | one event of `ingest_events_into_persistent_memory`: trusted statements write; against a consolidated value they count a challenger |
| `Slept`, `Wins` | `sleep_consolidate_persistent_memory` |
| `Answer`, `ArchiveAnswer`, `ReadKey` | the query of `forward`, the archive readout, the key read through a relation |
| `CortexMemory`: `Hear`, `Sleep`, `Clear`, `Checkpoint`, `Restart`, `Disable`, `Enable` | its life: export and import, and a probe that clears the buffers and restores them |
| `CortexCourses`: `Teach`, `SleepOnIt`, `Contradict`, `TeachContrary`, `Forget` ... | the audits of `v99_source.py`, `v10_developmental_loop.py`, `v10_milestone.py`, with the real sizes and domains |
| `CortexEpisode`: `WorldAfter`, `CoreAfter`, `World*`, `Core*` | `MorphogeneticEpisodeWorld`'s books beside the ledger of `forward`, and the labels of one with the answers of the other |

`CortexMemory`'s properties do not repeat the update: `Holds`, `belief`, `before` work
from the log of statements and the docstrings' rule. A relation row that says no relation
(`rel = 0`, lines 734, 1519) hides the relation of key 0; `HiddenRelation` names that
case. Seen on the way: trust 2 is never lowered after a flip (2039); an episode may have
no flip before its last query when the lag is short (682, against the docstring at 625).

### Launcher

| Model | Code |
| --- | --- |
| `Launch`, `StartMemory`, `StartGateway`, `MemoryHealthy`, `GatewayHealthy`, `GiveUp`, `Quit` | `run_byon.py`'s `main` with `ServiceSupervisor.start`, `wait_http`, `stop_all` |
| `MemoryBoots`, `GatewayBoots`, `Crash` | a child binds its port, or exits because it is taken; dies |
| `StopListeners`, `StopLaunchers`, `RestartDies`, `WaitHealth` | `restart_app.py`: who listens is killed, then the launchers, each kill may fail in silence, and the shell may run into its time limit (33) before, between or after |
| `Prepare`, `Verify`, `AutoTimesOut` | `live_restart_recall_eval.py --phase auto`; how the restart ended is not looked at (123-129) |

Two histories name what escapes a restart: `caught`, a gateway that listened on nothing
yet when the listeners were stopped, or was started before the launchers were; `spared`,
a gateway left listening or a launcher left running, because a kill failed, is not tried
on this system, or the script had died.

### LiveEval

`Course` is the order of the gates, one letter each: what its verdict is when nobody
answers (`Verdicts`: fails, passes by itself, or accepts an ERROR answer), and whether
`check` asks the guard around it. `Precheck`, `Skip`, `Run`, `AfterGate`, `Finish` are
`run`, `_gate` and the report; `MemoryDies/Returns`, `GatewayGoes/Returns` the world.
Left out: what the questions are about, failure categories, printing.

## The runs

Twelve runs; each answers one question. Every property has a mutant (a plausible bug in
one mapped definition) that TLC finds under the run's own configuration.

| Run | Instance | Question |
| --- | --- | --- |
| `tasks_safety` | 1 topic, 2 ids, daemon + 1 HTTP thread, 2 operator requests, 1 lost append, 1 restart | `WebOnlyWithPermission`, `DrainRunsMemoryOnly`, `DuplicatesOnlyByReopening`, `RunningHasWorker` |
| `tasks_live` | same, no lost append, no restart, no symmetry | `PendingIsDrained`, `RunningIsSettled` |
| `candidates` | 2 ids, 3 claims (one narrower), user and two web sources, 1 session at a time, 1 request, 1 crash (may tear a line) | `CommitPolicy` |
| `candidates_concurrent` | 2 overlapping sessions, 2 ids, 2 contradicting claims, one source enough to commit, 1 request, 1 fault: a crash (may tear a line), or a load or append that fails | `ContradictionBlocksCommit`, `ActiveAgree`, `DisputeHasTwoSides` |
| `candidates_live` | 1 claim, 2 sources, ageing, 1 request, 1 load or append that fails | `ReadyIsDecided` |
| `candidates_rival` | as `candidates` without a crash | `CommittedAgree` is **violated** |
| `engine` | 2 trainers in turn, 1 gateway thread, 2 batches of 2, 2 searches, 1 failed write, 1 stall | `MarkerHonest`, `PartialIsExplained`, `ReadEnds`, `FlagEnds` |
| `engine_flag` | 1 trainer, 2 gateway threads, 3 searches | `SnapshotIsAnnounced` is **violated** |
| `search` | search: 2 claims, 8 kinds of hits, up to 2 hits and 2 web results, 2 web sources needed; learning: 2 threads, 2 values, threshold 2, 4 operations, 1 crash | `NoBleed`, `IndependentIsSought`, `Promise`; `PromotionEarned`, `LedgerExact` |
| `relations` | field: 2 requests, a relation, a seeded one and a negative one between the same entities, 4 sources of which one echoes another, 3 requests opened, or 2 and one load or append that fails or tears a line, 3 appends; paths: a triangle of one relation per directionality, each in any of 6 conditions, limit 12 (more than there are paths), depth 2 | `CommitEarned`, `LossIsExplained`; `PathsAreExact`, `VerdictLadder` |
| `memory` | training: 2 notes, 3 texts, batch of 2, 1 edit, 1 crash, 1 failed item; tombstones: 3 facts (2 copies of one chunk, one more of the same words), 2 threads, 3 records, 2 compactions; cortex: 2 keys, 3 values, M = 2, 3 events, 3 nights; courses: the real 8 keys, 6 values and six domains; episodes: 18 steps, 3 keys, 3 values | `ActiveIsStored`, `RestoredForAReason`, `SkipsIndexed`; `LeakIsExcused`; `MemoryFollowsTheLog`, `AnswersAreGrounded`; `AuditsPass`; `LabelsAgree` |
| `operations` | lock: 3 trainers, 1 stall, 2 guard runs, any look, write, unlink or kill may fail; LifeLoop: 1 topic, 2 tickers, consolidation every 2, 4 events (or 3 and an hour), 3 ticks, none ahead of the events and at most two events ahead of the ticks; launcher: 2 launches, 2 crashes, any kill may fail, Windows (which has every behaviour of the other systems, where no listener is killed); evaluation: the real course with the restart phase, 2 deaths, 2 outages | `AloneUnlessExcused`, `WriterIsVisible`; `AskIsServed`, `RepeatedFailureStops`; `RestartReplaces`, `RecallIsNoEcho`; `SilenceIsNoPass`, `LastingCrashFails` |

**Bounds and why they are enough.** Faults (`MaxCrashes`, `MaxRestarts`,
`MaxLostWrites`, `MaxFailed`, `MaxStalls`, `MaxFailures`, `MaxSlips`, `MaxDeaths`) are bounded by one
or two of a kind: the properties excuse what one fault explains, so one of each at every
possible step is the informative case, and the proofs lift the bound. Two task ids make a
duplicate, two candidate ids a challenger and its incumbent, two sessions, requests,
threads or tickers a lost update; a third brings no new kind of interference, only more
of it. Three trainers let a lock be raced for, reclaimed from a dead holder, and
reclaimed again. A batch of two items has a middle. Three texts make two notes share a
chunk, one note hold it twice, and a note lose a chunk by an edit. Two hits are one that
answers and one that hides behind it. A triangle has a cycle, a detour and a path in
either direction. Three events and three nights let a value be stated, consolidated,
contradicted and overturned; the courses and the evaluation run at their real size. The
thresholds that count evidence keep the code's values (`CommitEvidence = 2`,
two web sources, `EVIDENCE_THRESHOLD = 2`); `MaxTasksPerTick`, `Every` and
the failures after which a task is blocked are small so that they are reached.
Where the domain is symmetric (ids, sessions, trainers of the marker, sources of a class,
threads, tickers) safety runs use it where it pays; runs with liveness properties never do.

**Deadlock** is checked in the task and candidate runs. The others set
`CHECK_DEADLOCK FALSE`: their processes end (each trainer runs once, a question is
answered, operations are bounded), and a state where all have gone home has no
successor and should have none.

## What the violated properties show

Two runs end in a violation of what the repository says:

- **`CommittedAgree`** — `candidate_lifecycle.py:11-12` says a contradiction never
  overwrites a committed fact. `_find_topic` (line 188) compares a new claim with
  candidate and reinforced records only. Claim Monday is reported twice and
  committed; Friday is reported, finds no active candidate, is created as a fresh
  candidate, and its second report commits it too.
- **`SnapshotIsAnnounced`** — `last_read_timed_out` (`consistent_client.py:66`) belongs
  to the client that all request threads share. A thread is served a stale snapshot
  and sets it; another thread enters `search_facts` and resets it; the first then
  reports a live answer.

More disagreements have a configuration of their own, to be run by hand; each takes
TLC seconds and each ends in the violation described. They are kept out of the list of
runs because the same component has a listed run whose property says what *does* hold.

| Configuration (module) | Property | Code and what it says of itself |
| --- | --- | --- |
| `MCVaultLockRace` (`VaultLock`) | `OneWriter` | `write_lock.py:5-6` promises one trainer at a time; `acquire` reads (90) and replaces (98) the file in two steps, so two trainers both read "free" and both write |
| `MCVaultTrainingSkip` (`MCMemory`) | `SkippedIsIndexed` | "file unchanged since last index" (`vault_training.py:258`); a note of two chunks, one of which failed to store, has one record with the note's sha and is skipped from then on |
| `MCRelationsEcho` (`MCRelations`) | `CommitIsIndependent` | "everything else needs >=2 independent sources" (`relation_field.py:838-839`); `evaluate_relation` (815) counts ids: a gap task filed about a relation of one source is answered from memory, and its candidate is the second "source" |
| `MCEpistemicSearchFall` (`MCEpistemicSearch`) | `FallsThrough` | "fall through to honest UNKNOWN/PROVISIONAL" (`epistemic_search.py:400`); the hit whose class was refused stays in `memory_hits`, and `synthesize` (553) answers KNOWN from it |
| `MCTombstonesKept` (`MCMemory`) | `NewestIsKept` | "keep the newest copy" (`compact_vault_memory.py:63`); an older copy is retired with its `source_id` (73), which the kept copy of a chunk indexed twice has too |
| `MCLifeLoopFade` (`LifeLoop`) | `FadesSlowly` | "unattended pressure slowly fades" (`pressure.py:159`); decay takes half a unit per hour since `last_seen_ts` at every tick, and feedback never sets it: a rating's pressure is gone at the next tick |
| `MCLauncherRestart` (`Launcher`) | `RestartIsReal` | "Stop the running BYON app and relaunch it" (`restart_app.py:4`); off Windows (35) the launcher gets SIGTERM, its children keep their ports, and the relaunch reuses the old gateway |
| `MCLiveEvalReported` (`LiveEval`) | `DeathIsReported` | "a memory-service death is reported as MEMORY_SERVICE_CRASH" (`live_byon_eval.py:123`); no gate after the paraphrase suite goes through `check`, and `unstable` (181) is not in the report |

## Fairness

Liveness needs that *somebody* goes on; the code justifies no more than this:

- `ResearchTasks`: `WF(Work(th))` – a thread that is inside a drain, a run-task or
  a resolve goes on (each call it makes is bounded by a timeout); `WF(DrainStart)` for
  the daemon only, whose loop sleeps a bounded interval and ticks again. No operator
  or client owes a request, and requests are bounded: an operator who re-approves
  other tasks for ever could keep the ticks busy.
- `CandidateLifecycle`: `WF(Load)` and `WF(Progress)` – sessions are opened by
  every tick and run to their end; `SF(ConsolidateBegin)` – a loaded session
  may be one that ingests, but a tick drains a bounded number of tasks and then always
  consolidates, so consolidation, enabled infinitely often, happens infinitely often.
- `EngineConsistency`: `WF(Answer(r))` – all of the client's loops have deadlines;
  `WF(Batch(w))` – a trainer in a batch ends the batch; `WF(GoStale)` – time
  passes. No trainer is obliged to start another batch, or to end.

The other modules make no liveness claim: a trainer, a launch or an evaluation may be
killed any time, and nothing obliges a user to ask again.

## The proofs

The modules `*_proofs` prove what the runs check for every value of the constants under
the named assumptions of the modules (finite sets only where a cardinality is taken,
bounds in `Nat`, "no such thing" values outside their sets). Each component has an
inductive invariant, one lemma per action or group of actions, a lemma that the invariant
implies the property, and a final theorem by `PTL`. TLC had found each invariant to hold
before its proof was begun.

| Module | Component: inductive invariant | Theorems (a property where the name differs) |
| --- | --- | --- |
| `ResearchTasks_proofs` | `TypeOK`, `DiskFollowsMem`, `PermissionRecorded`, `ThreadsHoldTasks` and the four properties | `TypeCorrect`, `WebNeedsPermission` (`WebOnlyWithPermission`), `DrainIsMemoryOnly` (`DrainRunsMemoryOnly`), `CreateIsIdempotent` (`DuplicatesOnlyByReopening`), `RunningIsOwned` (`RunningHasWorker`) |
| `CandidateLifecycle_proofs` | `TypeOK`, `RecordsReal`, `IdleOwesNothing`, `WorkIsKnown`, `StoreGrounded`, `CommitPolicy`; for disputes also `CleanInv`, `ShareInv` (`ContestKept`, `IdleIsBlank`, `LoadedIsLedger`, `AllAgree`), `AllAnnounced` | `TypeCorrect`, `CommitsFollowPolicy` (`CommitPolicy`), `CommittedIsClean`, `ContradictionsBlock` (`ContradictionBlocksCommit`), `ActivesAgree` (`ActiveAgree`), `DisputesHaveTwoSides` (`DisputeHasTwoSides`) |
| `EngineConsistency_proofs` | `TypeOK`, `OneTrainer`, `NewIsUnnamed`, (`Excused` or `MarkerTrue`, `Waited`), `PartialIsExplained` | `TypeCorrect`, `MarkerIsHonest` (`MarkerHonest`), `PartialReadsExplained` (`PartialIsExplained`) |
| `EpistemicSearch_proofs` | `TypeOK`, `OneVerdict`, `CleanHits`, `Progress`, `Fresh`, `NoBleed`, `IndependentIsSought` | `TypeCorrect`, `Unbled` (`NoBleed`), `IndependenceKept` (`IndependentIsSought`), `AuditKept`, `Implements` (`Promise`) |
| `ContinuousLearning_proofs` | `TypeOK`, `ValueAtHand`, `EvidenceGiven`, `OneAtATime`, `IdleOwesNothing`, (an overlap, a crash or `AllExact`) | `PromotionsEarned` (`PromotionEarned`), `LedgerIsExact` (`LedgerExact`) |
| `Relations_proofs` | ledger: `TypeOK`, `AllSound`, `Current` | `TypeCorrect`, `CommitsEarned` (`CommitEarned`), `LossBounded` (`LossIsExplained`), `RecordsAreSettled` |
| | path search: `SearchInv` = `PathTypes`, `Walked`, `Found`, `Apart`, `Covered` | `SearchInvariance`, `PathsExact` (`PathsAreExact`), `VerdictsLadder` (`VerdictLadder`) |
| `Memory_proofs` | training: `TypeOK`, `PosInBatch`, `LandedIsStored`, `ActiveIsStored`, `PendingIsNew`, `TwinsAreNoticed`, `NoteAtHand`, `NothingLeft`, (a crash or `Restoring`); `SkipInv` = `ScannedIsOut`, (a fault or `VouchedIsKept`, `PastIsStored`) | `TypeCorrect`, `ManifestIsTrue` (`ActiveIsStored`), `NoIdleRestore` (`RestoredForAReason`), `SkippedNotesAreIndexed` (`SkipsIndexed`) |
| | tombstones: `TombInv` = `LogTypes`, `ReadFromLog`, `OwnLine`, `ReadIsKept`, `SetsFollow`, `AloneSince` | `LeaksAreExcused` (`LeakIsExcused`) |
| | cortex memory: `CortexInv` = `Mirrors` of the live memory, of what a probe put aside, of the checkpoint | `CortexInvariance`, `FollowsTheLog` (`MemoryFollowsTheLog`), `Answers` (`AnswersAreGrounded`) |
| | courses: `CourseInv` = `CourseTypes`, `CourseOf` (`TaughtUpTo`, `Resists`) | `AuditsHold` (`AuditsPass`) |
| | episodes: `EpisodeInv` = `Books` (`Same`, `Older`, `Known`, `Linked`, `Unrevised`), `RowFits` | `LabelsAreTrue` (`LabelsAgree`) |
| `Operations_proofs` | lock: `TypeOK`, (`Excused` or `OwnersHold`, `FreeIsAlone`) | `TypeCorrect`, `WriterIsAlone` (`AloneUnlessExcused`), `LockShowsWriter` (`WriterIsVisible`) |
| | LifeLoop: `AskInv`; `FailInv` = `LifeTypes`, `JobHeld`, `OnePending`, `OneHolder`, `FailsCounted`, `SecondRun`, `Halted` | `AsksAreServed` (`AskIsServed`), `FailuresStop` (`RepeatedFailureStops`) |
| | launcher: `LInv` = `LaunchTypes`, `ListenerServes`, `OldIsGone`, `TaughtHasBooted`, `RecallIsNoEcho` | `GatewayRestarts` (`RestartReplaces`), `RecallsAreReal` (`RecallIsNoEcho`) |
| | evaluation: `EInv` = `AtPlace`, `EvalTypes`, `SilenceFails`, `SeenFails` | `NoSuiteInSilence` (`SilenceIsNoPass`), `SeenDeathsFail` (`LastingCrashFails`) |

Why the strengthenings are needed:

- *Tasks*: a restart replaces memory by the file, so what is true of memory must be
  known of the file: `DiskFollowsMem` (what the file holds is in memory too, under the
  same topic and sources), `PermissionRecorded` (in memory and in the file a task that may
  use the web was approved or filed under autonomous web). `ThreadsHoldTasks` ties a
  thread's place to a task that exists.
- *Candidates*: a commit rests on a private copy that may be long out of date.
  `RecordsReal` says of *every* copy, the ledger's and each session's, that class and
  sources are those really created and ingested; that survives any overwriting, because
  whole records of real history replace one another. `StoreGrounded` carries the decision
  over the step between deciding and storing.
- *Disputes*: `CleanInv` says of every copy that what is committed, and what is about to
  be, carries no contradiction. That a recorded contradiction *stays* does not hold, because
  sessions overwrite one another; what is proved, of any number of sessions, crashes, torn
  lines and failed loads and appends, is that a session can only overwrite what it is
  `behind` on. A record it is not behind on is in its copy as it is in the ledger when it
  decides what to do with a result (`LoadedIsLedger`); what reached the ledger as contested
  is contested there and in every copy that is not behind on it, or was saved over unseen
  (`ContestKept`); and two active records agree, within and across copies, or one was saved
  by a session that had not seen the other (`AllAgree`). A challenger's incumbent is
  contested, or some session still owes that record, or its contradiction was never written
  (`AllAnnounced`).
- *Engine*: `MarkerTrue` is honesty without its excuses. It holds across trainers only
  because one is alive at a time (`OneTrainer`) and the marker never names one that has not
  started (`NewIsUnnamed`). `Waited` says that a thread past its wait meets no batch unless
  one began since or it timed out.
- *Search*: `CleanHits` says that no hit the search may still answer from bleeds,
  `Progress` which sources have been consulted when a stage is reached, `Fresh` what an
  early stage cannot have found yet, `OneVerdict` that there is no answer before the verdict.
  `Implements` shows every step a `Gather`, a `Judge`, a `Deliver` or a stutter of
  `EpistemicContract` under the mapping `evidence <- Gathered`: evidence never shrinks,
  because what the search has read stays read.
- *Learning*: lost updates can only lower a count, so `EvidenceGiven` bounds the evidence
  in *every* copy of the ledger, in threads too, by what was really given. That rows are
  exact holds only short of an overlap, when one thread is under way (`OneAtATime`), and of
  one copy at a time: `ExactAt` says which one counts at each of its places (the file, the
  rows about to be written, the ledger a forget has already emptied).
- *Relations*: `AllSound` says of the ledger and every copy that a record not seeded is not
  canonical, and if committed carries the sources that allow it; whole records replace one
  another, so no overlap of requests can combine two into an unsound one. `Current` says
  that a copy has the sources and the contradictions of the ledger but for the relations
  others appended since it was loaded (`behind`) and those its load did not get (`missed`),
  which is why a loss needs such a relation.
- *Paths*: that every path found is a path (`Found`) follows step by step. That every path
  is found needs `Covered`: below the limit of paths, each one the question wants is found
  or has a beginning that waits on the stack; that none is found twice needs `Apart`: no walk
  on the stack is a beginning of another one, or of a path found. The ladder of verdicts is
  shown of one path at a time (lemma `OnePathLadder`): a path that was found has a hop, and
  each rung widens the condition of the one before. It holds only on records that are
  *settled* (canonical ones are committed, and so on); the search's module assumes that of
  the copy it is given, and `RecordsAreSettled` proves it of every copy the field hands out.
- *Training*: the flush stores first and records later, so `LandedIsStored` says
  that the items of the batch that were stored are in the service, and `PendingIsNew` that
  nothing pending is active. `Restoring` (short of a crash) says that whatever the service
  holds is in the manifest, was superseded in it, or is in the batch being flushed, which is
  why nothing known is stored again. For skips, `VouchedIsKept` says that each chunk of a
  note whose sha the manifest vouches for is stored or still on its way, and `ScannedIsOut`
  that a note scanned is out of the files to scan.
- *Tombstones*: `SetsFollow` says that the sets are those of the records unless somebody
  is changing these, `ReadFromLog` that records are lines of the file, `ReadIsKept` that
  lines taken as read are in the records or on their way (unless an append masked them).
  `AloneSince` follows a thread that is alone since it looked at the file: what was hidden
  then is hidden by the lines it reads, and at last by the sets it filters with.
- *Cortex*: `Mirrors` is a statement per key about a memory and a log of statements,
  true of the memory at work, or put aside while a probe runs, and of the checkpoint with
  *its* log, to which a restart goes back. `Contest` says that the challenger's count is how
  often it was insisted on last (lemma `InsistedAppend`).
- *Courses*: `TaughtUpTo` says after n lessons what is known and that nothing else is;
  `Resists` that a contrary lesson leaves the value and exactly two statements against it,
  which is why a sleep overturns it when M is at most 2. The scrambled probe is right for
  one key at most, the one where the keys wrap, hence two keys at least.
- *Episodes*: `Books` says that the world's book and the ledger of the forward pass agree
  (`Same`), up to what is archived of a value that never changed (`Older`), and what the
  steps so far have put there; `RowFits` which events a script produces at which step. Twelve
  steps are enough for the relation to be drawn before the rules flip.
- *Lock*: absent the four excuses (a race in `acquire`, a look in `acquire` that missed a
  live holder, a stalled holder, a guard that unlinks another's lock), who writes owns a
  fresh lock and who found it free is alone: nothing else that may fail is a fifth.
- *LifeLoop*: `OnePending` says that at most one task of a topic is pending, `OneHolder`
  that short of a doubled topic one ticker has it, `FailsCounted` that a failure
  since the operator last let the topic go is on file, `SecondRun` that who runs a topic that
  has failed runs its only open task, and that the topic is not halted, `Halted` that a task of
  a halted topic stays open, so that none is filed, and that none is pending.
- *Launcher*: `ListenerServes` says that who owns the gateway's port serves, `OldIsGone`
  that once the listeners are stopped a gateway that is neither `caught` nor `spared` is gone,
  and once the launchers are, its launch too; `TaughtHasBooted` that the gateway that was
  taught was none of the caught ones: it was spared, or has lost its port.
- *Evaluation*: the lemma `CourseShape` finds in every suite of the real course a gate
  that fails when nobody answers (`LoudOf`); past it, a gateway away since the suite began
  has been recorded as a failure (`SilenceFails`), and so has a death the guard saw and that
  lasts, past the recall of the eighth suite (`SeenFails`).

What the proofs changed. Two properties that the small instances satisfied were false and
are stated more exactly now: `RepeatedFailureStops` (an operator lets a topic go while its
task runs, a new task is opened beside it, and a third failure follows; history `doubled`),
and `LeakIsExcused` (with facts of four source ids a later load clears `masked` while an
answer given before it still stands; history `excused`). Three definitions were restated
so that they could be reasoned about, with the same steps as before: the script of an
episode as a chain of conditions, the search's next hops by their order in the ledger, and
a lesson as the four statements it consists of.

Only model-checked:

- all liveness (`PendingIsDrained`, `RunningIsSettled`, `ReadyIsDecided`, `ReadEnds`,
  `FlagEnds`): fairness and `ENABLED` are out of the prover's reach;
- the number of values in the courses: the theorem takes the six of `V92Config`, because
  the provers do not divide by a variable; the number of keys is free.

The two violated properties have counterexamples and no theorem.

## Hazards no property covers

`PROJECT.json` lists the hazards some property covers. These bite for certain, and a
property could only restate the bug. Their schedules:

- **False zero** (`consistent_client.py:75`). During a batch the search misses what the
  service holds. Before the client looks at the lock the trainer commits its
  batch and releases. The lock is free, the miss is final, and a fresh snapshot that
  would have answered is not looked at.
- **A snapshot outlives its ttl** (`consistent_client.py:87`). Serving it stores it again
  with a new timestamp.
- **The guard stops the wrong trainer** (`byon_process_guard.py:100-103`). The guard
  reads the lock: free. A trainer acquires it. The guard lists the processes: that
  trainer is not the holder it read, and is stopped as an orphan.
- **Two open tasks on a topic** (`research_tasks.py:122`). A blocked task is
  cancelled; the topic is filed anew; `approve_web` on the cancelled one reopens it.
  `DuplicatesOnlyByReopening` says this family of schedules is the only one.
- **A contradiction overwritten** (`candidate_lifecycle.py:166`). A session that loaded
  the ledger before another recorded a contradiction appends its own whole record of
  the incumbent afterwards; the contradiction is gone and the incumbent may commit.
  `CommitPolicy` is what still holds, and `ContradictionBlocksCommit`, `ActiveAgree` and
  `DisputeHasTwoSides` name these schedules and show that there are no others. The relation
  ledger has the same shape (`relation_field.py:281`, `:307`); `LossIsExplained` bounds it.
- **A half-stored batch is read** (`consistent_client.py:70-73`). The wait sees no
  writer; a batch begins; the search runs in its middle. `PartialIsExplained` lists
  this (`late`) among the ways it happens.
- **Two LifeLoops over the same files** (`gateway/server.py:19-23`). `python -m
  gateway.server` builds the app when it is imported and once more in `main`.
- **Another launch's gateway goes away** (`run_byon.py:116-121`). A launch that found a
  healthy gateway attaches its UI to it; the launch that started it exits and stops it.
- **A revived fact stays hidden** (`tombstones.py:70`). The reload of one thread is torn by
  another's; an older line of the revived key is what stays, until the file grows again.
- **An empty ledger that is written back** (`candidate_lifecycle.py:163`,
  `relation_field.py:292`). A file that is there and does not open is loaded as an empty one;
  what the session appends replaces whatever was known of its record. The properties of both
  ledgers count such a load among their excuses.
- **A vault of more than 20000 facts** (`vault_training.py:151`). Counts and bootstrap
  ask for that many hits and see no more.

## What is not modelled

- *The neural part of D_Cortex*: real-valued tensors, losses, training and the experiment
  drivers (`orchestration/` too) are outside what TLC can enumerate. So are the audits on
  real text, whose questions come from a trained reader.
- *UI, MCP server, monitors and release checks*: clients that hold no state the rest
  relies on.
- *Text*: classification of questions, evidence and relation extraction, tokenising,
  scoring of hits. Where their verdict matters it is a constant or a nondeterministic choice.
- *Vault errors, audit, session events, self-state, self-training*: append-only logs and
  reports nothing reads back to decide on.
- *The rate limiter, auth, namespace*: one locked method over one list, a comparison, a name.
- *In the modelled components*: what each section above names as left out; in short the
  relation cycle of the LifeLoop, the ingestion of vault relations and proposals, and
  everything that only formats or counts for a report.
- *Reads that fail*: a file that exists and does not open, or does not parse, is read as
  empty all over the gateway. The models of the vault lock, the candidate ledger and the
  relation ledger have that step; those of the task queue (`research_tasks.py:59`), the
  marker (`engine_consistency.py:41`, where it is a further way to a half read beside those
  `PartialIsExplained` lists), the manifest (`vault_manifest.py:67`), the tombstones
  (`tombstones.py:91`) and the pressure file (`pressure.py:51`) read what was written.
- *Edges of the instances*: the limit of 12 paths is never reached, so `PathsAreExact` is
  about searches that were not cut; asks that come while a consolidation runs are excused by
  `AskIsServed`, since the code drops them; `RunningIsSettled` is about a gateway that stays
  up, since a task left RUNNING by a crash is picked up by nobody.
- *Composition beyond the sections above*: the ledgers of candidates, relations and
  learning meet in one gateway but share no file; the task queue and the candidates are
  each composed with the LifeLoop's turn inside their own module, not in one product,
  which TLC could not exhaust.

## The plan

In order of what the system depends on.

1. `ResearchTasks` – done, proved.
2. `CandidateLifecycle` – done, proved, disputes included.
3. `VaultLock` – done, proved; open: an abstract single-writer lock, refined while
   none of the four excuses has happened.
4. `EngineConsistency` – done, proved; it takes the lock's mutual exclusion as its guard.
5. `VaultTraining` – done, proved, the skipping of notes included.
6. `EpistemicSearch` – done, with its contract refined and proved.
7. `RelationField`, `RelationPaths` – done, proved. Open: proposals.
8. `Tombstones` – done, proved; open: what a whole reload shows, as a theorem.
9. `LifeLoop` with `Pressure` – done for one topic, proved; open: the relation cycle.
10. `ContinuousLearning` with the recent-write buffer – done, proved.
11. `Cortex*` – done, proved; open: the working label of keys never taught.
12. `Launcher`, `LiveEval` – done, proved.
13. Open: action properties of the proved invariants (what a step may never do to a
    ledger), and the field's copies as the `Records` the path search is given.
