---------------------------- MODULE VaultTraining ----------------------------
(***************************************************************************)
(* Indexing a vault into the memory service (gateway/vault_training.py)    *)
(* with the content-addressed manifest (gateway/vault_manifest.py): runs   *)
(* that batch the chunks of changed notes, store each batch, record it in  *)
(* the manifest, and are cut short by crashes at any step.                 *)
(*                                                                         *)
(* The manifest file is appended to and reloaded, last record per chunk id *)
(* wins, in the order in which the ids first came: that is one sequence    *)
(* here.  A text stands for its sha256, a chunk for its own.  One trainer  *)
(* runs at a time (VaultLock).                                             *)
(***************************************************************************)
EXTENDS Naturals, Sequences, FiniteSets

CONSTANTS
  Files,          \* the eligible notes
  Texts,          \* what a note may contain
  Chunks,         \* contents of chunks
  ChunksOf,       \* md_heading_chunks: the chunks of a text, in order
  NoText,         \* no sha: a record made from a memory hit
  NoFile,         \* no note is being indexed
  BatchSize,      \* BYON_VAULT_WRITE_BATCH_SIZE
  ProgressEvery,  \* notes between two partial reports
  MaxEdits,       \* bound: edits of a note
  MaxCrashes,     \* bound: trainers that die
  MaxFailures     \* bound: items the service fails to store, notes that are unreadable

ASSUME NumbersAssumption ==
  /\ BatchSize \in Nat \ {0} /\ ProgressEvery \in Nat \ {0}
  /\ MaxEdits \in Nat /\ MaxCrashes \in Nat /\ MaxFailures \in Nat
ASSUME TextsAssumption ==
  NoText \notin Texts /\ NoFile \notin Files /\ ChunksOf \in [Texts -> Seq(Chunks)]

Statuses == {"active", "superseded"}

\* Its chunk id is file, index and chunk.  Error records are never looked up.
Record == [file : Files, index : Nat, chunk : Chunks, sha : Texts \cup {NoText},
           status : Statuses]
Item == [file : Files, index : Nat, chunk : Chunks, sha : Texts]

VARIABLES
  text,       \* what each note contains now
  memory,     \* facts the service holds: the note each came from and its chunk
  manifest,   \* manifest.jsonl, and the trainer's copy of it
  pc,         \* where the trainer is, "off" when none runs
  resume,     \* the run's --resume
  todo,       \* notes not yet scanned
  cur,        \* the note being indexed
  read,       \* its text as it was read
  idx,        \* the chunk of it that comes next
  pending,    \* chunks waiting for a flush
  pos,        \* the item a flush is at
  bad,        \* items of it that were not stored
  after,      \* where the trainer goes on when the flush is done
  retired,    \* history: chunks some record of which was superseded
  again,      \* history: chunks stored though the service held them
  twins,      \* history: chunks that were pending twice at once
  edits,      \* edits made
  crashes,    \* trainers that died
  failures    \* items that failed

progress == <<resume, todo, cur, read, idx>>
flush == <<pending, pos, bad, after>>
history == <<retired, again, twins>>
budget == <<edits, crashes, failures>>
vars == <<text, memory, manifest, pc, resume, todo, cur, read, idx, pending, pos, bad,
          after, retired, again, twins, edits, crashes, failures>>

InMemory(c) == \E f \in Files : <<f, c>> \in memory
Active(rec) == rec.status = "active"
Records == {manifest[i] : i \in DOMAIN manifest}
HasActiveSha(c) == \E rec \in Records : Active(rec) /\ rec.chunk = c
ActiveOf(f) == {i \in DOMAIN manifest : Active(manifest[i]) /\ manifest[i].file = f}

\* file_sha: of the first active record of the note.
FileSha(f) ==
  IF ActiveOf(f) = {} THEN NoText
  ELSE manifest[CHOOSE i \in ActiveOf(f) : \A j \in ActiveOf(f) : i <= j].sha

SameId(r, s) == r.file = s.file /\ r.index = s.index /\ r.chunk = s.chunk

\* _append: in the place of the record with that chunk id, or at the end.
Put(man, rec) ==
  IF \E i \in DOMAIN man : SameId(man[i], rec)
  THEN [i \in DOMAIN man |-> IF SameId(man[i], rec) THEN rec ELSE man[i]]
  ELSE Append(man, rec)

NewRecord(f, i, c, sha) ==
  [file |-> f, index |-> i, chunk |-> c, sha |-> sha, status |-> "active"]

Init ==
  /\ text \in [Files -> Texts]
  /\ memory = {}
  /\ manifest = <<>>
  /\ pc = "off"
  /\ resume = FALSE
  /\ todo = {}
  /\ cur = NoFile
  /\ read = NoText
  /\ idx = 1
  /\ pending = <<>>
  /\ pos = 1
  /\ bad = {}
  /\ after = "files"
  /\ retired = {}
  /\ again = {}
  /\ twins = {}
  /\ edits = 0
  /\ crashes = 0
  /\ failures = 0

-----------------------------------------------------------------------------
\* The run over the notes.

\* The manifest is loaded; a resumed run whose manifest has nothing active
\* first takes over what the service holds.
Begin(r) ==
  /\ pc = "off"
  /\ resume' = r
  /\ todo' = Files
  /\ pc' = IF r /\ \A rec \in Records : ~Active(rec) THEN "bootstrap" ELSE "files"
  /\ UNCHANGED <<text, memory, manifest, cur, read, idx, flush, history, budget>>

\* One hit of bootstrap_from_memory, in the order of the search: its index is
\* how many hits of that note came before.
BootstrapHit(f, c) ==
  /\ pc = "bootstrap"
  /\ <<f, c>> \in memory
  /\ ~HasActiveSha(c)
  /\ manifest' = Put(manifest, NewRecord(f, Cardinality(ActiveOf(f)), c, NoText))
  /\ UNCHANGED <<text, memory, pc, progress, flush, history, budget>>

BootstrapEnd ==
  /\ pc = "bootstrap"
  /\ \A fact \in memory : HasActiveSha(fact[2])
  /\ pc' = "files"
  /\ UNCHANGED <<text, memory, manifest, progress, flush, history, budget>>

\* The search for them fails: nothing is taken over.
BootstrapFails ==
  /\ pc = "bootstrap"
  /\ \A rec \in Records : ~Active(rec)
  /\ failures < MaxFailures /\ failures' = failures + 1
  /\ pc' = "files"
  /\ UNCHANGED <<text, memory, manifest, progress, flush, history, edits, crashes>>

\* Unchanged since the last index: skipped.
SkipFile(f) ==
  /\ pc = "files" /\ f \in todo
  /\ resume /\ FileSha(f) = text[f]
  /\ todo' = todo \ {f}
  /\ UNCHANGED <<text, memory, manifest, pc, resume, cur, read, idx, flush, history, budget>>

UnreadableFile(f) ==
  /\ pc = "files" /\ f \in todo
  /\ failures < MaxFailures /\ failures' = failures + 1
  /\ todo' = todo \ {f}
  /\ UNCHANGED <<text, memory, manifest, pc, resume, cur, read, idx, flush, history,
                 edits, crashes>>

\* supersede_file: every active record of the note.
Superseded(f) ==
  [i \in DOMAIN manifest |->
     IF i \in ActiveOf(f) THEN [manifest[i] EXCEPT !.status = "superseded"] ELSE manifest[i]]

\* Otherwise it is read, and the records of its former text are superseded; a
\* note whose first record has no sha keeps its records.
ReadFile(f) ==
  /\ pc = "files" /\ f \in todo
  /\ ~(resume /\ FileSha(f) = text[f])
  /\ IF FileSha(f) \notin {NoText, text[f]}
     THEN /\ manifest' = Superseded(f)
          /\ retired' = retired \cup {manifest[i].chunk : i \in ActiveOf(f)}
     ELSE UNCHANGED <<manifest, retired>>
  /\ todo' = todo \ {f}
  /\ cur' = f
  /\ read' = text[f]
  /\ idx' = 1
  /\ pc' = "chunks"
  /\ UNCHANGED <<text, memory, resume, flush, again, twins, budget>>

ChunkAt == ChunksOf[read][idx]

\* A chunk whose content is active already is recorded, not stored.  (The code
\* counts chunks from 0.)
DedupChunk ==
  /\ pc = "chunks" /\ idx <= Len(ChunksOf[read])
  /\ HasActiveSha(ChunkAt)
  /\ manifest' = Put(manifest, NewRecord(cur, idx - 1, ChunkAt, read))
  /\ idx' = idx + 1
  /\ UNCHANGED <<text, memory, pc, resume, todo, cur, read, flush, history, budget>>

\* Mutant: nothing is looked up before a chunk is stored.
MutPendChunk ==
  /\ pc = "chunks" /\ idx <= Len(ChunksOf[read])
  /\ pending' = Append(pending, [file |-> cur, index |-> idx - 1, chunk |-> ChunkAt, sha |-> read])
  /\ idx' = idx + 1
  /\ twins' = IF \E i \in DOMAIN pending : pending[i].chunk = ChunkAt
              THEN twins \cup {ChunkAt} ELSE twins
  /\ IF Len(pending) + 1 >= BatchSize
     THEN pc' = "store" /\ after' = "chunks"
     ELSE UNCHANGED <<pc, after>>
  /\ UNCHANGED <<text, memory, manifest, resume, todo, cur, read, pos, bad,
                 retired, again, budget>>

PendChunk ==
  /\ pc = "chunks" /\ idx <= Len(ChunksOf[read])
  /\ ~HasActiveSha(ChunkAt)
  /\ pending' = Append(pending, [file |-> cur, index |-> idx - 1, chunk |-> ChunkAt, sha |-> read])
  /\ idx' = idx + 1
  /\ twins' = IF \E i \in DOMAIN pending : pending[i].chunk = ChunkAt
              THEN twins \cup {ChunkAt} ELSE twins
  /\ IF Len(pending) + 1 >= BatchSize
     THEN pc' = "store" /\ after' = "chunks"
     ELSE UNCHANGED <<pc, after>>
  /\ UNCHANGED <<text, memory, manifest, resume, todo, cur, read, pos, bad,
                 retired, again, budget>>

\* The note is indexed; every ProgressEvery notes what is pending is flushed.
FileDone ==
  /\ pc = "chunks" /\ idx > Len(ChunksOf[read])
  /\ cur' = NoFile /\ read' = NoText /\ idx' = 1
  /\ IF Cardinality(Files \ todo) % ProgressEvery = 0 /\ pending # <<>>
     THEN pc' = "store" /\ after' = "files"
     ELSE pc' = "files" /\ after' = after
  /\ UNCHANGED <<text, memory, manifest, resume, todo, pending, pos, bad, history, budget>>

\* Mutant: the last flush is forgotten.
MutEnd ==
  /\ pc = "files" /\ todo = {}
  /\ pc' = "off" /\ resume' = FALSE /\ pending' = <<>>
  /\ UNCHANGED <<text, memory, manifest, todo, cur, read, idx, pos, bad, after, history, budget>>

\* Every note is scanned: the last flush, then the complete report.
End ==
  /\ pc = "files" /\ todo = {}
  /\ IF pending # <<>>
     THEN pc' = "store" /\ after' = "files" /\ resume' = resume
     ELSE pc' = "off" /\ after' = after /\ resume' = FALSE
  /\ UNCHANGED <<text, memory, manifest, todo, cur, read, idx, pending, pos, bad, history, budget>>

-----------------------------------------------------------------------------
\* _flush: store every item, then record those that were stored.

MoveOn(next) ==
  IF pos = Len(pending) THEN pos' = 1 /\ pc' = next ELSE pos' = pos + 1 /\ pc' = pc

StoreItem(ok) ==
  /\ pc = "store"
  /\ IF ok
     THEN /\ memory' = memory \cup {<<pending[pos].file, pending[pos].chunk>>}
          /\ again' = IF InMemory(pending[pos].chunk)
                      THEN again \cup {pending[pos].chunk} ELSE again
          /\ UNCHANGED <<bad, failures>>
     ELSE /\ failures < MaxFailures /\ failures' = failures + 1
          /\ bad' = bad \cup {pos}
          /\ UNCHANGED <<memory, again>>
  /\ MoveOn("record")
  /\ UNCHANGED <<text, manifest, progress, pending, after, retired, twins, edits, crashes>>

\* Mutant: an item is recorded whether or not it was stored.
MutRecordItem ==
  /\ pc = "record"
  /\ manifest' = Put(manifest, NewRecord(pending[pos].file, pending[pos].index,
                                        pending[pos].chunk, pending[pos].sha))
  /\ MoveOn("flushed")
  /\ UNCHANGED <<text, memory, progress, pending, bad, after, history, budget>>

RecordItem ==
  /\ pc = "record"
  /\ manifest' = IF pos \in bad THEN manifest
                 ELSE Put(manifest, NewRecord(pending[pos].file, pending[pos].index,
                                              pending[pos].chunk, pending[pos].sha))
  /\ MoveOn("flushed")
  /\ UNCHANGED <<text, memory, progress, pending, bad, after, history, budget>>

Flushed ==
  /\ pc = "flushed"
  /\ pending' = <<>>
  /\ bad' = {}
  /\ pc' = after
  /\ after' = "files"
  /\ UNCHANGED <<text, memory, manifest, progress, pos, history, budget>>

-----------------------------------------------------------------------------
\* The trainer dies: what it stored and appended stays.
Crash ==
  /\ pc # "off"
  /\ crashes < MaxCrashes /\ crashes' = crashes + 1
  /\ pc' = "off"
  /\ resume' = FALSE /\ todo' = {} /\ cur' = NoFile /\ read' = NoText /\ idx' = 1
  /\ pending' = <<>> /\ pos' = 1 /\ bad' = {} /\ after' = "files"
  /\ UNCHANGED <<text, memory, manifest, history, edits, failures>>

\* The user edits a note, also while a run is on.
Edit(f, t) ==
  /\ edits < MaxEdits /\ edits' = edits + 1
  /\ t # text[f]
  /\ text' = [text EXCEPT ![f] = t]
  /\ UNCHANGED <<memory, manifest, pc, progress, flush, history, crashes, failures>>

Next ==
  \/ \E r \in BOOLEAN : Begin(r)
  \/ \E f \in Files, c \in Chunks : BootstrapHit(f, c)
  \/ BootstrapEnd \/ BootstrapFails
  \/ \E f \in Files : SkipFile(f) \/ UnreadableFile(f) \/ ReadFile(f)
  \/ DedupChunk \/ PendChunk \/ FileDone \/ End
  \/ \E ok \in BOOLEAN : StoreItem(ok)
  \/ RecordItem \/ Flushed
  \/ Crash
  \/ \E f \in Files, t \in Texts : Edit(f, t)

Spec == Init /\ [][Next]_vars

-----------------------------------------------------------------------------
Pcs == {"off", "bootstrap", "files", "chunks", "store", "record", "flushed"}

TypeOK ==
  /\ text \in [Files -> Texts]
  /\ memory \subseteq Files \X Chunks
  /\ manifest \in Seq(Record)
  /\ pc \in Pcs
  /\ resume \in BOOLEAN
  /\ todo \subseteq Files
  /\ cur \in Files \cup {NoFile}
  /\ read \in Texts \cup {NoText}
  /\ idx \in Nat \ {0}
  /\ pending \in Seq(Item)
  /\ pos \in Nat \ {0}
  /\ bad \subseteq Nat
  /\ after \in {"files", "chunks"}
  /\ retired \subseteq Chunks /\ again \subseteq Chunks /\ twins \subseteq Chunks
  /\ edits \in 0..MaxEdits /\ crashes \in 0..MaxCrashes /\ failures \in 0..MaxFailures

\* The manifest never claims what the service does not hold, wherever a run is
\* cut and whatever the service failed to store: a chunk that is skipped as
\* known is known.
ActiveIsStored == \A rec \in Records : Active(rec) => InMemory(rec.chunk)

\* "Re-indexing a vault must NOT re-store unchanged chunks" (vault_manifest.py:5):
\* what is stored again was superseded once, was pending twice in one batch, or
\* had been stored by a trainer that died before it recorded it.
RestoredForAReason ==
  \A c \in again : c \in retired \/ c \in twins \/ crashes > 0

\* Between faults a resumed run skips only notes that are in memory to the last
\* chunk, however batches cut across notes and edits fall between read and flush.
SkipsIndexed ==
  [][\A f \in Files : SkipFile(f) =>
       \/ \A i \in DOMAIN ChunksOf[text[f]] : InMemory(ChunksOf[text[f]][i])
       \/ crashes > 0 \/ failures > 0]_vars

\* "file unchanged since last index -> skip" (vault_training.py:258): a note that
\* is skipped has been indexed, all of it.
SkippedIsIndexed ==
  [][\A f \in Files : SkipFile(f) =>
       \A i \in DOMAIN ChunksOf[text[f]] : InMemory(ChunksOf[text[f]][i])]_vars
=============================================================================
