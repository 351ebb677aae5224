---------------------------- MODULE Memory_proofs ----------------------------
(***************************************************************************)
(* Proofs about what keeps facts: the vault manifest, for every set of     *)
(* notes, texts and batch sizes; the tombstones, for any facts, threads    *)
(* and compactions; the memory of the cortex, for any keys, values and     *)
(* sources; its episodes, for any world and length from 12 steps; and the  *)
(* courses it is audited with, for any domain, keys, sources and cycles.   *)
(***************************************************************************)
EXTENDS VaultTraining, Memory, FiniteSetTheorems, WellFoundedInduction, TLAPS

\* The item a flush is at exists, a flush begins with the first, and with none
\* that failed.
PosInBatch ==
  /\ IF pc \in {"store", "record"} THEN pos <= Len(pending) ELSE pos = 1
  /\ pc = "store" => \A i \in bad : i < pos
  /\ pc \notin {"store", "record", "flushed"} => bad = {}

\* The items of the batch the service holds and the manifest does not name yet.
Landed ==
  CASE pc = "store" -> {i \in DOMAIN pending : i < pos} \ bad
    [] pc = "record" -> {i \in DOMAIN pending : i >= pos} \ bad
    [] OTHER -> {}

\* A flush records only what it stored.
LandedIsStored == \A i \in Landed : InMemory(pending[i].chunk)

\* Whatever the service holds is known to the manifest, was retired from it, or
\* is being flushed.
StoredIsKnown ==
  \A c \in Chunks :
    InMemory(c) => \/ HasActiveSha(c)
                   \/ c \in retired
                   \/ \E i \in Landed : pending[i].chunk = c

\* Nothing that waits for a flush is known, unless it waited twice.
PendingIsNew ==
  pc \in {"bootstrap", "files", "chunks", "store"} =>
    \A i \in DOMAIN pending : ~HasActiveSha(pending[i].chunk)

TwinsAreNoticed ==
  \A i, j \in DOMAIN pending : i # j /\ pending[i].chunk = pending[j].chunk =>
    pending[i].chunk \in twins

\* A note is at hand while its chunks are taken, also across a flush.
NoteAtHand ==
  pc = "chunks" \/ (pc \in {"store", "record", "flushed"} /\ after = "chunks") =>
    cur \in Files /\ read \in Texts

\* No batch is left over from an earlier run.
NothingLeft == pc \in {"off", "bootstrap"} => pending = <<>>

Restoring == StoredIsKnown /\ again \subseteq retired \cup twins

IInv ==
  /\ TypeOK
  /\ PosInBatch /\ LandedIsStored /\ ActiveIsStored
  /\ PendingIsNew /\ TwinsAreNoticed /\ NoteAtHand /\ NothingLeft
  /\ (crashes > 0 \/ Restoring)
-----------------------------------------------------------------------------
\* What the manifest's operations do to what it knows.

\* A record is put in the place of one of the same chunk, or at the end.
LEMMA PutRecord ==
  ASSUME manifest \in Seq(Record), NEW f \in Files, NEW i \in Nat, NEW c \in Chunks,
         NEW s \in Texts \cup {NoText},
         manifest' = Put(manifest, NewRecord(f, i, c, s))
  PROVE  /\ manifest' \in Seq(Record)
         /\ \A d : HasActiveSha(d)' <=> HasActiveSha(d) \/ d = c
<1> DEFINE new == NewRecord(f, i, c, s)
<1>1. new \in Record /\ Active(new) /\ new.chunk = c
  BY DEF NewRecord, Record, Statuses, Active
<1> HIDE DEF new
<1>2. \A d : HasActiveSha(d) <=>
             \E k \in DOMAIN manifest : Active(manifest[k]) /\ manifest[k].chunk = d
  BY DEF HasActiveSha, Records
<1>3. \A d : HasActiveSha(d)' <=>
             \E k \in DOMAIN manifest' : Active(manifest'[k]) /\ manifest'[k].chunk = d
  BY DEF HasActiveSha, Records, Active
<1>4. CASE \E k \in DOMAIN manifest : SameId(manifest[k], new)
  <2>1. manifest' = [k \in DOMAIN manifest |->
                       IF SameId(manifest[k], new) THEN new ELSE manifest[k]]
    BY <1>4 DEF Put, new
  <2>2. manifest' \in Seq(Record)  BY <1>1, <2>1
  <2>3. DOMAIN manifest' = DOMAIN manifest  BY <2>1
  <2>4. ASSUME NEW d PROVE HasActiveSha(d)' => HasActiveSha(d) \/ d = c
    BY <1>1, <1>2, <1>3, <2>1, <2>3
  <2>5. ASSUME NEW d, HasActiveSha(d) PROVE HasActiveSha(d)'
    <3>1. PICK k \in DOMAIN manifest : Active(manifest[k]) /\ manifest[k].chunk = d
      BY <1>2, <2>5
    <3>2. SameId(manifest[k], new) => new.chunk = d  BY <3>1 DEF SameId
    <3>3. Active(manifest'[k]) /\ manifest'[k].chunk = d  BY <1>1, <2>1, <3>1, <3>2
    <3> QED  BY <1>3, <2>3, <3>3
  <2>6. HasActiveSha(c)'
    <3>1. PICK k \in DOMAIN manifest : SameId(manifest[k], new)  BY <1>4
    <3>2. manifest'[k] = new  BY <2>1, <3>1
    <3> QED  BY <1>1, <1>3, <2>3, <3>2
  <2> QED  BY <2>2, <2>4, <2>5, <2>6
<1>5. CASE ~\E k \in DOMAIN manifest : SameId(manifest[k], new)
  <2>1. manifest' = Append(manifest, new)  BY <1>5 DEF Put, new
  <2>2. manifest' \in Seq(Record)  BY <1>1, <2>1
  <2>3. /\ DOMAIN manifest' = DOMAIN manifest \cup {Len(manifest) + 1}
        /\ manifest'[Len(manifest) + 1] = new
        /\ \A k \in DOMAIN manifest : manifest'[k] = manifest[k]
    BY <1>1, <2>1
  <2> QED  BY <1>1, <1>2, <1>3, <2>2, <2>3
<1> QED  BY <1>4, <1>5

\* Superseding a note forgets only what it counts as retired.
LEMMA SupersedeFile ==
  ASSUME manifest \in Seq(Record), NEW f \in Files, manifest' = Superseded(f)
  PROVE  /\ manifest' \in Seq(Record)
         /\ \A d : HasActiveSha(d)' => HasActiveSha(d)
         /\ \A d : HasActiveSha(d) =>
              HasActiveSha(d)' \/ d \in {manifest[i].chunk : i \in ActiveOf(f)}
<1>1. manifest' = [i \in DOMAIN manifest |->
                     IF i \in ActiveOf(f) THEN [manifest[i] EXCEPT !.status = "superseded"]
                     ELSE manifest[i]]
  BY DEF Superseded
<1>2. \A i \in DOMAIN manifest : manifest[i] \in Record  OBVIOUS
<1>3. \A i \in DOMAIN manifest : manifest'[i] \in Record
  BY <1>1, <1>2 DEF Record, Statuses
<1>4. manifest' \in Seq(Record)  BY <1>1, <1>3
<1>5. DOMAIN manifest' = DOMAIN manifest  BY <1>1
<1>6. \A i \in DOMAIN manifest :
         Active(manifest'[i]) => i \notin ActiveOf(f) /\ manifest'[i] = manifest[i]
  BY <1>1, <1>2 DEF Active, Record
<1>7. ASSUME NEW d, HasActiveSha(d)'
      PROVE  HasActiveSha(d)
  BY <1>5, <1>6, <1>7 DEF HasActiveSha, Records, Active
<1>8. ASSUME NEW d, HasActiveSha(d), d \notin {manifest[i].chunk : i \in ActiveOf(f)}
      PROVE  HasActiveSha(d)'
  <2>1. PICK i \in DOMAIN manifest : Active(manifest[i]) /\ manifest[i].chunk = d
    BY <1>8 DEF HasActiveSha, Records
  <2>2. i \notin ActiveOf(f)  BY <1>8, <2>1
  <2>3. manifest'[i] = manifest[i]  BY <1>1, <2>1, <2>2
  <2> QED  BY <1>5, <2>1, <2>3 DEF HasActiveSha, Records, Active
<1> QED  BY <1>4, <1>7, <1>8

\* A record's place in its note, while the manifest is taken over.
LEMMA ActiveCount ==
  ASSUME manifest \in Seq(Record), NEW f \in Files
  PROVE  Cardinality(ActiveOf(f)) \in Nat
<1>1. ActiveOf(f) \subseteq 1..Len(manifest)  BY DEF ActiveOf
<1>2. IsFiniteSet(1..Len(manifest))  BY FS_Interval
<1> QED  BY <1>1, <1>2, FS_Subset, FS_CardinalityType
-----------------------------------------------------------------------------
\* IInv is kept, by one lemma for each part of a run.

LEMMA InitStep == Init => IInv
<1>1. SUFFICES ASSUME Init PROVE IInv  OBVIOUS
<1> USE <1>1, NumbersAssumption DEF Init
<1>2. Records = {}  BY DEF Records
<1>3. TypeOK
  <2>1. manifest \in Seq(Record) /\ pending \in Seq(Item)  OBVIOUS
  <2>2. 0 \in 0..MaxEdits /\ 0 \in 0..MaxCrashes /\ 0 \in 0..MaxFailures  OBVIOUS
  <2>3. pc \in Pcs /\ after \in {"files", "chunks"} /\ resume \in BOOLEAN  BY DEF Pcs
  <2>4. idx \in Nat \ {0} /\ pos \in Nat \ {0}  OBVIOUS
  <2>5. cur \in Files \cup {NoFile} /\ read \in Texts \cup {NoText}  OBVIOUS
  <2> QED  BY <2>1, <2>2, <2>3, <2>4, <2>5 DEF TypeOK
<1>4. PosInBatch /\ NothingLeft /\ NoteAtHand  BY DEF PosInBatch, NothingLeft, NoteAtHand
<1>5. Landed = {}  BY DEF Landed
<1>6. ActiveIsStored /\ LandedIsStored
  BY <1>2, <1>5 DEF ActiveIsStored, LandedIsStored
<1>7. PendingIsNew /\ TwinsAreNoticed  BY DEF PendingIsNew, TwinsAreNoticed
<1>8. Restoring  BY DEF Restoring, StoredIsKnown, InMemory
<1> QED  BY <1>3, <1>4, <1>6, <1>7, <1>8 DEF IInv

\* What holds of a chunk before a step holds of it after, when the step
\* touches neither the service nor the manifest.
LEMMA NothingNew ==
  ASSUME UNCHANGED <<memory, manifest>>
  PROVE  /\ \A d : HasActiveSha(d)' <=> HasActiveSha(d)
         /\ \A d : InMemory(d)' <=> InMemory(d)
         /\ ActiveIsStored => ActiveIsStored'
BY DEF HasActiveSha, InMemory, ActiveIsStored, Records, Active

\* Outside a flush the parts of IInv about one say nothing.
LEMMA NoFlush ==
  ASSUME pc \notin {"store", "record"}
  PROVE  Landed = {} /\ LandedIsStored
BY DEF Landed, LandedIsStored

\* Steps that only scan: the service, the manifest and what is pending stay.
LEMMA ScanStep ==
  ASSUME IInv, UNCHANGED <<memory, manifest, pending, pos, bad, retired, again, twins, crashes>>,
         pc \in {"off", "bootstrap", "files"}, pc' \in {"bootstrap", "files"},
         pc' = "bootstrap" => pc # "files", TypeOK'
  PROVE  IInv'
<1> USE DEF IInv
<1>1. /\ \A d : HasActiveSha(d)' <=> HasActiveSha(d)
      /\ \A d : InMemory(d)' <=> InMemory(d)
      /\ ActiveIsStored'
  BY NothingNew
<1>2. Landed = {} /\ Landed' = {}  BY DEF Landed
<1>3. PosInBatch' /\ LandedIsStored'  BY <1>2 DEF PosInBatch, LandedIsStored
<1>4. NothingLeft' /\ TwinsAreNoticed' /\ NoteAtHand'
  BY DEF NothingLeft, TwinsAreNoticed, NoteAtHand
<1>5. PendingIsNew'  BY <1>1 DEF PendingIsNew, NothingLeft
<1>6. Restoring => Restoring'  BY <1>1, <1>2 DEF Restoring, StoredIsKnown
<1> QED  BY <1>1, <1>3, <1>4, <1>5, <1>6

LEMMA ScanSteps ==
  ASSUME IInv,
         \/ \E r \in BOOLEAN : Begin(r)
         \/ BootstrapEnd \/ BootstrapFails
         \/ \E f \in Files : SkipFile(f) \/ UnreadableFile(f)
         \/ \E f \in Files, t \in Texts : Edit(f, t)
  PROVE  IInv'
<1> USE NumbersAssumption DEF IInv, progress, flush, history, budget
<1>1. ASSUME NEW r \in BOOLEAN, Begin(r) PROVE IInv'
  <2>1. TypeOK'  BY <1>1 DEF TypeOK, Begin, Pcs
  <2>2. pc = "off" /\ pc' \in {"bootstrap", "files"}  BY <1>1 DEF Begin
  <2> QED  BY <1>1, <2>1, <2>2, ScanStep DEF Begin
<1>2. CASE BootstrapEnd
  <2>1. TypeOK'  BY <1>2 DEF TypeOK, BootstrapEnd, Pcs
  <2> QED  BY <1>2, <2>1, ScanStep DEF BootstrapEnd
<1>3. CASE BootstrapFails
  <2>1. failures' \in 0..MaxFailures  BY <1>3 DEF TypeOK, BootstrapFails
  <2>2. TypeOK'  BY <1>3, <2>1 DEF TypeOK, BootstrapFails, Pcs
  <2> QED  BY <1>3, <2>2, ScanStep DEF BootstrapFails
<1>4. ASSUME NEW f \in Files, SkipFile(f) PROVE IInv'
  <2>1. TypeOK'  BY <1>4 DEF TypeOK, SkipFile
  <2> QED  BY <1>4, <2>1, ScanStep DEF SkipFile
<1>5. ASSUME NEW f \in Files, UnreadableFile(f) PROVE IInv'
  <2>1. failures' \in 0..MaxFailures  BY <1>5 DEF TypeOK, UnreadableFile
  <2>2. TypeOK'  BY <1>5, <2>1 DEF TypeOK, UnreadableFile
  <2> QED  BY <1>5, <2>2, ScanStep DEF UnreadableFile
<1>6. ASSUME NEW f \in Files, NEW t \in Texts, Edit(f, t) PROVE IInv'
  <2>1. edits' \in 0..MaxEdits  BY <1>6 DEF TypeOK, Edit
  <2>2. TypeOK'  BY <1>6, <2>1 DEF TypeOK, Edit
  <2>3. UNCHANGED <<memory, manifest, pc, pending, pos, bad, retired, again, twins, crashes>>
    BY <1>6 DEF Edit
  <2>4. /\ \A d : HasActiveSha(d)' <=> HasActiveSha(d)
        /\ \A d : InMemory(d)' <=> InMemory(d)
        /\ ActiveIsStored'
    BY <2>3, NothingNew
  <2>5. Landed' = Landed  BY <2>3 DEF Landed
  <2>6. PosInBatch' /\ NothingLeft' /\ TwinsAreNoticed' /\ PendingIsNew' /\ NoteAtHand'
    BY <1>6, <2>3, <2>4
    DEF PosInBatch, NothingLeft, TwinsAreNoticed, PendingIsNew, NoteAtHand, Edit
  <2>7. LandedIsStored'  BY <2>3, <2>4, <2>5 DEF LandedIsStored
  <2>8. Restoring => Restoring'  BY <2>3, <2>4, <2>5 DEF Restoring, StoredIsKnown
  <2> QED  BY <2>2, <2>3, <2>4, <2>6, <2>7, <2>8
<1> QED  BY <1>1, <1>2, <1>3, <1>4, <1>5, <1>6

\* A record of what the service holds is added outside a flush.
LEMMA TakeOver ==
  ASSUME IInv, NEW f \in Files, NEW c \in Chunks, BootstrapHit(f, c)
  PROVE  IInv'
<1> USE DEF IInv, BootstrapHit, progress, flush, history, budget
<1>1. Cardinality(ActiveOf(f)) \in Nat  BY ActiveCount DEF TypeOK
<1>2. /\ manifest' \in Seq(Record)
      /\ \A d : HasActiveSha(d)' <=> HasActiveSha(d) \/ d = c
  BY <1>1, PutRecord DEF TypeOK
<1>3. TypeOK'  BY <1>2 DEF TypeOK
<1>4. \A d : InMemory(d)' <=> InMemory(d)  BY DEF InMemory
<1>5. \A d : HasActiveSha(d) => InMemory(d)
  BY DEF ActiveIsStored, HasActiveSha
<1>6. \A d : HasActiveSha(d)' => InMemory(d)'  BY <1>2, <1>4, <1>5 DEF InMemory
<1>7. ActiveIsStored'  BY <1>6 DEF ActiveIsStored, HasActiveSha
<1>8. Landed = {} /\ Landed' = {}  BY DEF Landed
<1>9. LandedIsStored' /\ PosInBatch'  BY <1>8 DEF LandedIsStored, PosInBatch
<1>10. NothingLeft' /\ TwinsAreNoticed' /\ PendingIsNew' /\ NoteAtHand'
  BY DEF NothingLeft, TwinsAreNoticed, PendingIsNew, NoteAtHand
<1>11. Restoring => Restoring'  BY <1>2, <1>4, <1>8 DEF Restoring, StoredIsKnown
<1> QED  BY <1>3, <1>7, <1>9, <1>10, <1>11

LEMMA ReadStep ==
  ASSUME IInv, NEW f \in Files, ReadFile(f)
  PROVE  IInv'
<1> USE DEF IInv, ReadFile, flush, budget
<1>1. /\ manifest' \in Seq(Record)
      /\ \A d : HasActiveSha(d)' => HasActiveSha(d)
      /\ \A d : HasActiveSha(d) => HasActiveSha(d)' \/ d \in retired'
      /\ retired \subseteq retired' /\ retired' \subseteq Chunks
  <2>1. CASE manifest' = Superseded(f)
               /\ retired' = retired \cup {manifest[i].chunk : i \in ActiveOf(f)}
    <3>1. \A i \in ActiveOf(f) : manifest[i] \in Record  BY DEF TypeOK, ActiveOf
    <3>2. {manifest[i].chunk : i \in ActiveOf(f)} \subseteq Chunks  BY <3>1 DEF Record
    <3> QED  BY <2>1, <3>2, SupersedeFile DEF TypeOK
  <2>2. CASE UNCHANGED <<manifest, retired>>
    BY <2>2 DEF TypeOK, HasActiveSha, Records, Active
  <2> QED  BY <2>1, <2>2
<1>2. TypeOK'  BY <1>1 DEF TypeOK, Pcs
<1>3. \A d : InMemory(d)' <=> InMemory(d)  BY DEF InMemory
<1>4. \A d : HasActiveSha(d) => InMemory(d)  BY DEF ActiveIsStored, HasActiveSha
<1>5. \A d : HasActiveSha(d)' => InMemory(d)'  BY <1>1, <1>3, <1>4
<1>6. ActiveIsStored'  BY <1>5 DEF ActiveIsStored, HasActiveSha
<1>7. Landed = {} /\ Landed' = {}  BY DEF Landed
<1>8. LandedIsStored' /\ PosInBatch'  BY <1>7 DEF LandedIsStored, PosInBatch
<1>9. NothingLeft' /\ TwinsAreNoticed' /\ PendingIsNew' /\ NoteAtHand'
  BY <1>1 DEF NothingLeft, TwinsAreNoticed, PendingIsNew, NoteAtHand, TypeOK
<1>10. Restoring => Restoring'  BY <1>1, <1>3, <1>7 DEF Restoring, StoredIsKnown
<1> QED  BY <1>2, <1>6, <1>8, <1>9, <1>10

\* The chunk at hand is one.
LEMMA ChunkType ==
  ASSUME IInv, pc = "chunks", idx <= Len(ChunksOf[read])
  PROVE  cur \in Files /\ read \in Texts /\ ChunkAt \in Chunks /\ idx - 1 \in Nat
<1>1. cur \in Files /\ read \in Texts  BY DEF IInv, NoteAtHand
<1>2. ChunksOf[read] \in Seq(Chunks) /\ idx \in Nat \ {0}
  BY <1>1, TextsAssumption DEF IInv, TypeOK
<1> QED  BY <1>1, <1>2 DEF ChunkAt

LEMMA DedupStep ==
  ASSUME IInv, DedupChunk
  PROVE  IInv'
<1> USE DEF IInv, DedupChunk, flush, history, budget
<1>1. cur \in Files /\ read \in Texts /\ ChunkAt \in Chunks /\ idx - 1 \in Nat
  BY ChunkType
<1>2. /\ manifest' \in Seq(Record)
      /\ \A d : HasActiveSha(d)' <=> HasActiveSha(d)
  BY <1>1, PutRecord DEF TypeOK
<1>3. TypeOK'  BY <1>2 DEF TypeOK
<1>4. \A d : InMemory(d)' <=> InMemory(d)  BY DEF InMemory
<1>5. \A d : HasActiveSha(d) => InMemory(d)  BY DEF ActiveIsStored, HasActiveSha
<1>6. ActiveIsStored'  BY <1>2, <1>4, <1>5 DEF ActiveIsStored, HasActiveSha
<1>7. Landed = {} /\ Landed' = {}  BY DEF Landed
<1>8. LandedIsStored' /\ PosInBatch'  BY <1>7 DEF LandedIsStored, PosInBatch
<1>9. NothingLeft' /\ TwinsAreNoticed' /\ PendingIsNew' /\ NoteAtHand'
  BY <1>2 DEF NothingLeft, TwinsAreNoticed, PendingIsNew, NoteAtHand
<1>10. Restoring => Restoring'  BY <1>2, <1>4, <1>7 DEF Restoring, StoredIsKnown
<1> QED  BY <1>3, <1>6, <1>8, <1>9, <1>10

\* A chunk joins the batch: it is new, or its twin is in it and that is noticed.
LEMMA PendStep ==
  ASSUME IInv, PendChunk
  PROVE  IInv'
<1> USE DEF IInv, PendChunk, budget
<1> DEFINE item == [file |-> cur, index |-> idx - 1, chunk |-> ChunkAt, sha |-> read]
<1>1. cur \in Files /\ read \in Texts /\ ChunkAt \in Chunks /\ idx - 1 \in Nat
  BY ChunkType
<1>2. item \in Item /\ item.chunk = ChunkAt  BY <1>1 DEF Item
<1>3. pending' = Append(pending, item)  OBVIOUS
<1> HIDE DEF item
<1>4. pending \in Seq(Item)  BY DEF TypeOK
<1>5. /\ pending' \in Seq(Item) /\ Len(pending') = Len(pending) + 1
      /\ DOMAIN pending' = DOMAIN pending \cup {Len(pending) + 1}
      /\ Len(pending) + 1 \notin DOMAIN pending
      /\ pending'[Len(pending) + 1] = item
      /\ \A i \in DOMAIN pending : pending'[i] = pending[i]
  BY <1>2, <1>3, <1>4
<1>6. /\ \A d : HasActiveSha(d)' <=> HasActiveSha(d)
      /\ \A d : InMemory(d)' <=> InMemory(d)
      /\ ActiveIsStored'
  BY NothingNew
<1>7. /\ pc' \in {"chunks", "store"} /\ after' \in {"files", "chunks"}
      /\ pc' = "store" => after' = "chunks"
  BY DEF TypeOK
<1>8. TypeOK'
  <2>1. twins' \subseteq Chunks  BY <1>1 DEF TypeOK
  <2>2. idx' \in Nat \ {0}  BY DEF TypeOK
  <2> QED  BY <1>5, <1>7, <2>1, <2>2 DEF TypeOK, Pcs
<1>9. pos = 1  BY DEF PosInBatch
<1>10. Landed = {} /\ Landed' = {}
  <2>1. \A i \in DOMAIN pending' : ~(i < 1)  BY <1>5
  <2> QED  BY <1>7, <1>9, <2>1 DEF Landed
<1>11. LandedIsStored' /\ PosInBatch'
  BY <1>4, <1>5, <1>9, <1>10 DEF LandedIsStored, PosInBatch
<1>12. PendingIsNew'
  <2>1. ~HasActiveSha(item.chunk)  BY <1>2
  <2>2. \A i \in DOMAIN pending : ~HasActiveSha(pending[i].chunk)  BY DEF PendingIsNew
  <2> QED  BY <1>5, <1>6, <2>1, <2>2 DEF PendingIsNew
<1>13. TwinsAreNoticed'
  <2>1. twins \subseteq twins'  OBVIOUS
  <2>2. \A i \in DOMAIN pending : pending[i].chunk = item.chunk => item.chunk \in twins'
    BY <1>2
  <2> QED  BY <1>5, <2>1, <2>2 DEF TwinsAreNoticed
<1>14. NothingLeft' /\ NoteAtHand'  BY <1>1, <1>7 DEF NothingLeft, NoteAtHand
<1>15. Restoring => Restoring'
  BY <1>6, <1>10 DEF Restoring, StoredIsKnown
<1> QED  BY <1>6, <1>8, <1>11, <1>12, <1>13, <1>14, <1>15

\* The end of a note or of the run, with or without a flush.
LEMMA EndSteps ==
  ASSUME IInv, FileDone \/ End
  PROVE  IInv'
<1> USE DEF IInv, FileDone, End, history, budget
<1>1. /\ UNCHANGED <<memory, manifest, pending, pos, bad, retired, again, twins, crashes>>
      /\ pc \in {"chunks", "files"}
      /\ \/ pc' = "store" /\ pending # <<>> /\ after' = "files"
         \/ pc' = "files"
         \/ pc' = "off" /\ pending = <<>>
  OBVIOUS
<1>2. TypeOK'
  <2>1. after' \in {"files", "chunks"} /\ resume' \in BOOLEAN  BY DEF TypeOK
  <2>2. CASE FileDone  BY <2>1, <2>2 DEF TypeOK, Pcs
  <2>3. CASE End  BY <2>1, <2>3 DEF TypeOK, Pcs
  <2> QED  BY <2>2, <2>3
<1>3. /\ \A d : HasActiveSha(d)' <=> HasActiveSha(d)
      /\ \A d : InMemory(d)' <=> InMemory(d)
      /\ ActiveIsStored'
  BY <1>1, NothingNew
<1>4. pos = 1 /\ pending \in Seq(Item)  BY <1>1 DEF PosInBatch, TypeOK
<1>5. Landed = {} /\ Landed' = {}
  <2>1. \A i \in DOMAIN pending : ~(i < 1)  BY <1>4
  <2> QED  BY <1>1, <1>4, <2>1 DEF Landed
<1>6. pending # <<>> => 1 <= Len(pending)  BY <1>4
<1>7. LandedIsStored' /\ PosInBatch'
  BY <1>1, <1>4, <1>5, <1>6 DEF LandedIsStored, PosInBatch
<1>8. PendingIsNew' /\ TwinsAreNoticed' /\ NoteAtHand' /\ NothingLeft'
  BY <1>1, <1>3 DEF PendingIsNew, TwinsAreNoticed, NoteAtHand, NothingLeft
<1>9. Restoring => Restoring'  BY <1>1, <1>3, <1>5 DEF Restoring, StoredIsKnown
<1> QED  BY <1>1, <1>2, <1>3, <1>7, <1>8, <1>9

\* A batch item reaches the service, or is among the bad ones: either way it
\* is accounted for before the flush moves on.
LEMMA StoreStep ==
  ASSUME IInv, NEW ok \in BOOLEAN, StoreItem(ok)
  PROVE  IInv'
<1> USE DEF IInv, progress
<1>1. /\ pc = "store" /\ pos \in DOMAIN pending /\ pending \in Seq(Item)
      /\ pos \in Nat \ {0}
  <2>1. pc = "store"  BY DEF StoreItem
  <2>2. pos <= Len(pending) /\ pos \in Nat \ {0} /\ pending \in Seq(Item)
    BY <2>1 DEF PosInBatch, TypeOK
  <2> QED  BY <2>1, <2>2
<1>0. PICK item \in Item : item = pending[pos]  BY <1>1
<1>2. /\ item.chunk \in Chunks /\ <<item.file, item.chunk>> \in Files \X Chunks
      /\ item.file \in Files
  BY <1>0 DEF Item
<1>3. \/ /\ ok /\ memory' = memory \cup {<<item.file, item.chunk>>}
         /\ again' = IF InMemory(item.chunk) THEN again \cup {item.chunk} ELSE again
         /\ UNCHANGED <<bad, failures>>
      \/ /\ ~ok /\ failures < MaxFailures /\ failures' = failures + 1
         /\ bad' = bad \cup {pos} /\ UNCHANGED <<memory, again>>
  BY <1>0 DEF StoreItem
<1>4. \/ pos = Len(pending) /\ pos' = 1 /\ pc' = "record"
      \/ pos # Len(pending) /\ pos' = pos + 1 /\ pc' = "store"
  BY <1>1 DEF StoreItem, MoveOn
<1>5. UNCHANGED <<text, manifest, progress, pending, after, retired, twins, edits, crashes>>
  BY DEF StoreItem
<1>6. \A d : HasActiveSha(d)' <=> HasActiveSha(d)
  BY <1>5 DEF HasActiveSha, Records, Active
<1>7. \A d : InMemory(d)' => InMemory(d) \/ d = item.chunk
  BY <1>2, <1>3 DEF InMemory
<1>8. memory \subseteq memory' /\ \A d : InMemory(d) => InMemory(d)'
  BY <1>3 DEF InMemory
<1>9. pos \in bad' \/ InMemory(item.chunk)'  BY <1>2, <1>3 DEF InMemory
<1>10. TypeOK'
  <2>1. memory' \subseteq Files \X Chunks /\ again' \subseteq Chunks
    BY <1>2, <1>3 DEF TypeOK
  <2>2. bad' \subseteq Nat  BY <1>1, <1>3 DEF TypeOK
  <2>3. failures' \in 0..MaxFailures  BY <1>3, NumbersAssumption DEF TypeOK
  <2>4. pos' \in Nat \ {0} /\ pc' \in Pcs  BY <1>1, <1>4 DEF Pcs
  <2> QED  BY <1>5, <2>1, <2>2, <2>3, <2>4 DEF TypeOK
<1>11. PosInBatch'
  <2>1. \A i \in bad : i \in Nat /\ i < pos  BY <1>1 DEF PosInBatch, TypeOK
  <2>2. bad' \subseteq bad \cup {pos}  BY <1>3
  <2>3. \A i \in bad \cup {pos} : i < pos + 1  BY <1>1, <2>1
  <2> QED  BY <1>1, <1>4, <1>5, <2>2, <2>3 DEF PosInBatch
<1>12. bad \subseteq bad'  BY <1>3
<1>13. Landed = {i \in DOMAIN pending : i < pos} \ bad  BY <1>1 DEF Landed
<1>14. Landed' = {i \in DOMAIN pending : i <= pos} \ bad'
  <2>1. CASE pc' = "record"
    <3>1. pos = Len(pending) /\ pos' = 1  BY <1>4, <2>1
    <3>2. Landed' = {i \in DOMAIN pending : i >= 1} \ bad'  BY <1>5, <2>1, <3>1 DEF Landed
    <3>3. \A i \in DOMAIN pending : i >= 1 /\ i <= pos  BY <1>1, <3>1
    <3> QED  BY <3>2, <3>3
  <2>2. CASE pc' = "store"
    <3>1. pos' = pos + 1  BY <1>4, <2>2
    <3>2. Landed' = {i \in DOMAIN pending : i < pos + 1} \ bad'  BY <1>5, <2>2, <3>1 DEF Landed
    <3>3. \A i \in DOMAIN pending : i < pos + 1 <=> i <= pos  BY <1>1
    <3> QED  BY <3>2, <3>3
  <2> QED  BY <1>4, <2>1, <2>2
<1>15. Landed' \subseteq Landed \cup {pos}
  <2>1. \A i \in DOMAIN pending : i <= pos => i < pos \/ i = pos  BY <1>1
  <2> QED  BY <1>12, <1>13, <1>14, <2>1
<1>16. LandedIsStored'
  <2>1. ASSUME NEW i \in Landed' PROVE InMemory(pending[i].chunk)'
    <3>1. CASE i \in Landed  BY <1>5, <1>8, <3>1 DEF LandedIsStored
    <3>2. CASE i = pos  BY <1>0, <1>5, <1>9, <1>14, <2>1, <3>2
    <3> QED  BY <1>15, <2>1, <3>1, <3>2
  <2> QED  BY <1>5, <2>1 DEF LandedIsStored
<1>17. ActiveIsStored'
  BY <1>5, <1>8 DEF ActiveIsStored, Records, Active
<1>18. PendingIsNew' /\ TwinsAreNoticed' /\ NoteAtHand' /\ NothingLeft'
  BY <1>1, <1>4, <1>5, <1>6
  DEF PendingIsNew, TwinsAreNoticed, NoteAtHand, NothingLeft
<1>19. ASSUME Restoring PROVE Restoring'
  <2>1. ASSUME InMemory(item.chunk) PROVE item.chunk \in retired \cup twins
    <3>1. ~HasActiveSha(item.chunk)  BY <1>0, <1>1 DEF PendingIsNew
    <3>2. CASE item.chunk \in retired  BY <3>2
    <3>3. CASE \E i \in Landed : pending[i].chunk = item.chunk
      <4>1. PICK i \in Landed : pending[i].chunk = item.chunk  BY <3>3
      <4>2. i \in DOMAIN pending /\ i # pos  BY <1>1, <1>13, <4>1
      <4> QED  BY <1>0, <1>1, <4>1, <4>2 DEF TwinsAreNoticed
    <3> QED  BY <1>2, <1>19, <2>1, <3>1, <3>2, <3>3 DEF Restoring, StoredIsKnown
  <2>2. again' \subseteq retired \cup twins
    BY <1>3, <1>19, <2>1 DEF Restoring
  <2>3. StoredIsKnown'
    <3>1. SUFFICES ASSUME NEW c \in Chunks, InMemory(c)'
                   PROVE  \/ HasActiveSha(c) \/ c \in retired
                          \/ \E i \in Landed' : pending[i].chunk = c
      BY <1>5, <1>6 DEF StoredIsKnown
    <3>2. CASE ok /\ c = item.chunk
      <4>1. pos \notin bad  BY <1>1 DEF PosInBatch
      <4>2. bad' = bad  BY <1>3, <1>12, <3>2, <4>1
      <4>3. pos \in Landed'  BY <1>1, <1>14, <4>1, <4>2
      <4> QED  BY <1>0, <3>2, <4>3
    <3>3. CASE InMemory(c)
      <4>1. Landed \subseteq Landed'
        <5>1. pos \notin Landed  BY <1>1, <1>13
        <5>2. \A i \in DOMAIN pending : i < pos => i <= pos  BY <1>1
        <5> QED  BY <1>3, <1>13, <1>14, <5>1, <5>2
      <4> QED  BY <1>19, <3>3, <4>1 DEF Restoring, StoredIsKnown
    <3> QED  BY <1>3, <1>7, <3>1, <3>2, <3>3 DEF InMemory
  <2> QED  BY <1>5, <2>2, <2>3 DEF Restoring
<1> QED  BY <1>5, <1>10, <1>11, <1>16, <1>17, <1>18, <1>19

\* An item that landed is recorded; one that failed is passed over.
LEMMA RecordStep ==
  ASSUME IInv, RecordItem
  PROVE  IInv'
<1> USE DEF IInv, RecordItem, progress, history, budget
<1>1. /\ pc = "record" /\ pos \in DOMAIN pending /\ pending \in Seq(Item)
      /\ pos \in Nat \ {0}
  <2>1. pos <= Len(pending) /\ pos \in Nat \ {0} /\ pending \in Seq(Item)
    BY DEF PosInBatch, TypeOK
  <2> QED  BY <2>1
<1>2. PICK item \in Item : item = pending[pos]  BY <1>1
<1>3. \/ pos = Len(pending) /\ pos' = 1 /\ pc' = "flushed"
      \/ pos # Len(pending) /\ pos' = pos + 1 /\ pc' = "record"
  BY <1>1 DEF MoveOn
<1>4. /\ manifest' \in Seq(Record)
      /\ \A d : HasActiveSha(d)' <=> HasActiveSha(d) \/ (pos \notin bad /\ d = item.chunk)
  <2>1. CASE pos \in bad
    BY <2>1 DEF HasActiveSha, Records, Active, TypeOK
  <2>2. CASE pos \notin bad
    <3>1. /\ item.file \in Files /\ item.index \in Nat /\ item.chunk \in Chunks
          /\ item.sha \in Texts \cup {NoText}
      BY DEF Item
    <3>2. manifest' = Put(manifest, NewRecord(item.file, item.index, item.chunk, item.sha))
      BY <1>2, <2>2
    <3> QED  BY <2>2, <3>1, <3>2, PutRecord DEF TypeOK
  <2> QED  BY <2>1, <2>2
<1>5. TypeOK'
  <2>1. pos' \in Nat \ {0} /\ pc' \in Pcs  BY <1>1, <1>3 DEF Pcs
  <2> QED  BY <1>4, <2>1 DEF TypeOK
<1>6. PosInBatch'  BY <1>1, <1>3 DEF PosInBatch
<1>7. \A d : InMemory(d)' <=> InMemory(d)  BY DEF InMemory
<1>8. Landed = {i \in DOMAIN pending : i >= pos} \ bad  BY <1>1 DEF Landed
<1>9. Landed' = Landed \ {pos}
  <2>1. CASE pc' = "flushed"
    <3>1. Landed' = {}  BY <2>1 DEF Landed
    <3>2. \A i \in DOMAIN pending : i >= pos => i = pos  BY <1>1, <1>3, <2>1
    <3> QED  BY <1>8, <3>1, <3>2
  <2>2. CASE pc' = "record"
    <3>1. Landed' = {i \in DOMAIN pending : i >= pos + 1} \ bad  BY <1>3, <2>2 DEF Landed
    <3>2. \A i \in DOMAIN pending : i >= pos + 1 <=> i >= pos /\ i # pos  BY <1>1
    <3> QED  BY <1>8, <3>1, <3>2
  <2> QED  BY <1>3, <2>1, <2>2
<1>10. LandedIsStored'  BY <1>7, <1>9 DEF LandedIsStored
<1>11. ActiveIsStored'
  <2>1. \A d : HasActiveSha(d) => InMemory(d)  BY DEF ActiveIsStored, HasActiveSha
  <2>2. pos \notin bad => InMemory(item.chunk)
    <3>1. pos \notin bad => pos \in Landed  BY <1>1, <1>8
    <3> QED  BY <1>2, <3>1 DEF LandedIsStored
  <2>3. \A d : HasActiveSha(d)' => InMemory(d)'  BY <1>4, <1>7, <2>1, <2>2
  <2> QED  BY <2>3 DEF ActiveIsStored, HasActiveSha
<1>12. PendingIsNew' /\ TwinsAreNoticed' /\ NoteAtHand' /\ NothingLeft'
  BY <1>3 DEF PendingIsNew, TwinsAreNoticed, NoteAtHand, NothingLeft
<1>13. ASSUME Restoring PROVE Restoring'
  <2>1. SUFFICES ASSUME NEW c \in Chunks, InMemory(c)
                 PROVE  \/ HasActiveSha(c)' \/ c \in retired
                        \/ \E i \in Landed' : pending[i].chunk = c
    BY <1>7, <1>13 DEF Restoring, StoredIsKnown
  <2>2. CASE \E i \in Landed : pending[i].chunk = c
    <3>1. PICK i \in Landed : pending[i].chunk = c  BY <2>2
    <3>2. CASE i = pos  BY <1>2, <1>4, <1>8, <3>1, <3>2
    <3>3. CASE i # pos  BY <1>9, <3>1, <3>3
    <3> QED  BY <3>2, <3>3
  <2> QED  BY <1>4, <1>13, <2>1, <2>2 DEF Restoring, StoredIsKnown
<1> QED  BY <1>5, <1>6, <1>10, <1>11, <1>12, <1>13

\* The batch is dropped when it is recorded, and when the trainer dies: then
\* what landed may be unknown, and a death is on record.
LEMMA DropStep ==
  ASSUME IInv, Flushed \/ Crash
  PROVE  IInv'
<1> USE DEF IInv, Flushed, Crash, history, budget
<1>1. /\ UNCHANGED <<memory, manifest, retired, again, twins>>
      /\ pending' = <<>> /\ bad' = {} /\ after' = "files"
      /\ \/ pc = "flushed" /\ pc' = after /\ UNCHANGED <<pos, crashes, progress>>
         \/ pc' = "off" /\ pos' = 1 /\ crashes' = crashes + 1 /\ crashes < MaxCrashes
  OBVIOUS
<1>2. after \in {"files", "chunks"} /\ pending' \in Seq(Item)  BY <1>1 DEF TypeOK
<1>3. TypeOK'
  <2>1. CASE Flushed  BY <1>1, <1>2, <2>1 DEF TypeOK, Pcs, progress
  <2>2. CASE Crash
    <3>1. crashes' \in 0..MaxCrashes  BY <2>2, NumbersAssumption DEF TypeOK
    <3>2. 1 \in Nat \ {0}  OBVIOUS
    <3> QED  BY <1>1, <1>2, <2>2, <3>1, <3>2 DEF TypeOK, Pcs
  <2> QED  BY <2>1, <2>2
<1>4. /\ \A d : HasActiveSha(d)' <=> HasActiveSha(d)
      /\ \A d : InMemory(d)' <=> InMemory(d)
      /\ ActiveIsStored'
  BY <1>1, NothingNew
<1>5. pc' \in {"off", "files", "chunks"} /\ (pc' = "chunks" => pc = "flushed" /\ after = "chunks")
  BY <1>1, <1>2
<1>6. PosInBatch'  BY <1>1, <1>5 DEF PosInBatch
<1>7. Landed' = {}  BY <1>5 DEF Landed
<1>8. LandedIsStored' /\ PendingIsNew' /\ TwinsAreNoticed' /\ NothingLeft'
  BY <1>1, <1>7 DEF LandedIsStored, PendingIsNew, TwinsAreNoticed, NothingLeft
<1>9. NoteAtHand'  BY <1>1, <1>5 DEF NoteAtHand, progress
<1>10. crashes' > 0 \/ Restoring'
  <2>1. CASE Flushed
    <3>1. Landed = {}  BY <2>1 DEF Landed
    <3> QED  BY <1>1, <1>4, <1>7, <2>1, <3>1 DEF Restoring, StoredIsKnown
  <2>2. CASE Crash  BY <2>2 DEF TypeOK
  <2> QED  BY <2>1, <2>2
<1> QED  BY <1>3, <1>4, <1>6, <1>8, <1>9, <1>10

LEMMA NextStep == IInv /\ [Next]_vars => IInv'
<1>1. SUFFICES ASSUME IInv, [Next]_vars PROVE IInv'  OBVIOUS
<1>2. ASSUME NEW f \in Files, NEW c \in Chunks, BootstrapHit(f, c) PROVE IInv'
  BY <1>1, <1>2, TakeOver
<1>3. ASSUME NEW f \in Files, ReadFile(f) PROVE IInv'  BY <1>1, <1>3, ReadStep
<1>4. CASE DedupChunk  BY <1>1, <1>4, DedupStep
<1>5. CASE PendChunk  BY <1>1, <1>5, PendStep
<1>6. CASE FileDone \/ End  BY <1>1, <1>6, EndSteps
<1>7. ASSUME NEW ok \in BOOLEAN, StoreItem(ok) PROVE IInv'  BY <1>1, <1>7, StoreStep
<1>8. CASE RecordItem  BY <1>1, <1>8, RecordStep
<1>9. CASE Flushed \/ Crash  BY <1>1, <1>9, DropStep
<1>10. CASE UNCHANGED vars
  <2>1. /\ \A d : HasActiveSha(d)' <=> HasActiveSha(d)
        /\ \A d : InMemory(d)' <=> InMemory(d)
        /\ ActiveIsStored'
    BY <1>1, <1>10, NothingNew DEF vars, IInv
  <2>2. Landed' = Landed  BY <1>10 DEF vars, Landed
  <2>3. TypeOK' /\ PosInBatch' /\ TwinsAreNoticed' /\ NoteAtHand' /\ NothingLeft'
    BY <1>1, <1>10
    DEF vars, IInv, TypeOK, PosInBatch, TwinsAreNoticed, NoteAtHand, NothingLeft
  <2>4. LandedIsStored' /\ PendingIsNew' /\ (Restoring => Restoring') /\ crashes' = crashes
    BY <1>1, <1>10, <2>1, <2>2
    DEF vars, IInv, LandedIsStored, PendingIsNew, Restoring, StoredIsKnown
  <2> QED  BY <1>1, <2>1, <2>3, <2>4 DEF IInv
<1>11. CASE \/ \E r \in BOOLEAN : Begin(r)
            \/ BootstrapEnd \/ BootstrapFails
            \/ \E f \in Files : SkipFile(f) \/ UnreadableFile(f)
            \/ \E f \in Files, t \in Texts : Edit(f, t)
  BY <1>1, <1>11, ScanSteps
<1> QED  BY <1>1, <1>2, <1>3, <1>4, <1>5, <1>6, <1>7, <1>8, <1>9, <1>10, <1>11 DEF Next

-----------------------------------------------------------------------------
\* IInv is an invariant: on it the properties rest.
THEOREM Invariance == Spec => []IInv
BY InitStep, NextStep, PTL DEF Spec

\* The types, for any vault.
THEOREM TypeCorrect == Spec => []TypeOK
<1>1. IInv => TypeOK  BY DEF IInv
<1> QED  BY <1>1, Invariance, PTL

\* The manifest never names a chunk the service does not hold, for every number
\* of crashes, failed items and edits and every batch size.
THEOREM ManifestIsTrue == Spec => []ActiveIsStored
<1>1. IInv => ActiveIsStored  BY DEF IInv
<1> QED  BY <1>1, Invariance, PTL

\* A chunk the service holds is stored again only when it was retired, stood
\* twice in a batch, or a trainer died.
THEOREM NoIdleRestore == Spec => []RestoredForAReason
<1>1. IInv => RestoredForAReason
  BY DEF IInv, Restoring, RestoredForAReason
<1> QED  BY <1>1, Invariance, PTL

-----------------------------------------------------------------------------
\* What a note that is skipped rests on: short of a fault, a record that is
\* active vouches for every chunk of the text it was made from.

Faultless == crashes = 0 /\ failures = 0

\* A text is vouched for by a record, by an item of the batch, or is being read.
Vouched(f, s) ==
  \/ \E i \in DOMAIN manifest :
       Active(manifest[i]) /\ manifest[i].file = f /\ manifest[i].sha = s
  \/ \E i \in DOMAIN pending : pending[i].file = f /\ pending[i].sha = s
  \/ cur = f /\ read = s

\* Its chunk is stored; or waits in the batch of a note already scanned; or is
\* still to be taken.
Kept(f, s, k) ==
  \/ InMemory(ChunksOf[s][k])
  \/ f \notin todo /\ \E i \in DOMAIN pending : pending[i].chunk = ChunksOf[s][k]
  \/ cur = f /\ read = s /\ k >= idx

VouchedIsKept ==
  \A f \in Files, s \in Texts :
    Vouched(f, s) => \A k \in DOMAIN ChunksOf[s] : Kept(f, s, k)

\* Between notes there is none at hand, and what is at hand or in the batch was
\* scanned in this run.
ScannedIsOut ==
  /\ pc \in {"off", "bootstrap", "files"} \/ (pc \notin {"chunks"} /\ after = "files") =>
       cur = NoFile
  /\ cur \notin todo
  /\ \A i \in DOMAIN pending : pending[i].file \notin todo

\* The part of the batch the flush has stored.
Past ==
  CASE pc = "store" -> {i \in DOMAIN pending : i < pos}
    [] pc \in {"record", "flushed"} -> DOMAIN pending
    [] OTHER -> {}

PastIsStored == bad = {} /\ \A i \in Past : InMemory(pending[i].chunk)

SkipInv == ScannedIsOut /\ (Faultless => VouchedIsKept /\ PastIsStored)

-----------------------------------------------------------------------------
LEMMA SkipInit == Init => SkipInv
<1> SUFFICES ASSUME Init PROVE SkipInv
  OBVIOUS
<1>1. ScannedIsOut
  BY TextsAssumption DEF Init, ScannedIsOut
<1>2. \A f \in Files, s \in Texts : ~Vouched(f, s)
  BY TextsAssumption DEF Init, Vouched
<1>3. PastIsStored
  BY DEF Init, PastIsStored, Past
<1> QED BY <1>1, <1>2, <1>3 DEF SkipInv, VouchedIsKept

\* A record that is put vouches for no text but its own.
LEMMA PutVouches ==
  ASSUME manifest \in Seq(Record), NEW rec \in Record, manifest' = Put(manifest, rec)
  PROVE  \A i \in DOMAIN manifest' :
            manifest'[i] = rec \/ (i \in DOMAIN manifest /\ manifest'[i] = manifest[i])
<1>1. CASE \E i \in DOMAIN manifest : SameId(manifest[i], rec)
  BY <1>1 DEF Put
<1>2. CASE ~\E i \in DOMAIN manifest : SameId(manifest[i], rec)
  <2>1. manifest' = Append(manifest, rec)
    BY <1>2 DEF Put
  <2> QED BY <2>1
<1> QED BY <1>1, <1>2

\* The general step: nothing is vouched for that was not before, and what was
\* kept is kept.
LEMMA VouchedStays ==
  ASSUME VouchedIsKept,
         \A f \in Files, s \in Texts : Vouched(f, s)' => Vouched(f, s),
         \A f \in Files, s \in Texts : \A k \in DOMAIN ChunksOf[s] :
           Vouched(f, s) /\ Kept(f, s, k) => Kept(f, s, k)'
  PROVE  VouchedIsKept'
BY DEF VouchedIsKept

\* Steps between notes.
LEMMA SkipScan ==
  ASSUME IInv, SkipInv,
         \/ \E r \in BOOLEAN : Begin(r)
         \/ \E f \in Files, c \in Chunks : BootstrapHit(f, c)
         \/ BootstrapEnd \/ BootstrapFails
         \/ \E f \in Files : SkipFile(f) \/ UnreadableFile(f)
         \/ \E f \in Files, t \in Texts : Edit(f, t)
  PROVE  SkipInv'
<1> USE DEF progress, flush, history, budget
<1>1. CASE \E r \in BOOLEAN : Begin(r)
  <2>1. pending = <<>> /\ cur = NoFile /\ pending' = <<>> /\ cur' = NoFile
    BY <1>1 DEF IInv, NothingLeft, SkipInv, ScannedIsOut, Begin
  <2>2. ScannedIsOut'
    BY <1>1, <2>1, TextsAssumption DEF ScannedIsOut, Begin
  <2>3. ASSUME Faultless PROVE VouchedIsKept' /\ PastIsStored'
    <3>1. Past' = {}
      BY <1>1 DEF Past, Begin
    <3>2. PastIsStored'
      BY <1>1, <2>3, <3>1 DEF PastIsStored, SkipInv, Begin
    <3>3. \A f \in Files, s \in Texts : Vouched(f, s)' <=> Vouched(f, s)
      BY <1>1 DEF Vouched, Begin, Active
    <3>4. \A f \in Files, s \in Texts : \A k \in DOMAIN ChunksOf[s] :
            Kept(f, s, k) => Kept(f, s, k)'
      <4>1. DOMAIN pending = {} /\ memory' = memory
        BY <1>1, <2>1 DEF Begin
      <4> QED BY <2>1, <4>1, TextsAssumption DEF Kept, InMemory
    <3> QED BY <2>3, <3>2, <3>3, <3>4, VouchedStays DEF SkipInv
  <2> QED BY <1>1, <2>2, <2>3 DEF SkipInv, Faultless, Begin
<1>2. ASSUME NEW f \in Files, NEW c \in Chunks, BootstrapHit(f, c) PROVE SkipInv'
  <2> DEFINE rec == NewRecord(f, Cardinality(ActiveOf(f)), c, NoText)
  <2>1. rec \in Record /\ rec.sha = NoText
    BY ActiveCount DEF IInv, TypeOK, NewRecord, Record, Statuses
  <2> HIDE DEF rec
  <2>2. manifest' = Put(manifest, rec)
    BY <1>2 DEF BootstrapHit, rec
  <2>3. \A i \in DOMAIN manifest' :
           manifest'[i] = rec \/ (i \in DOMAIN manifest /\ manifest'[i] = manifest[i])
    BY <2>1, <2>2, PutVouches DEF IInv, TypeOK
  <2>4. \A g \in Files, s \in Texts : Vouched(g, s)' => Vouched(g, s)
    BY <1>2, <2>1, <2>3, TextsAssumption DEF Vouched, Active, BootstrapHit
  <2>5. \A g \in Files, s \in Texts : \A k \in DOMAIN ChunksOf[s] : Kept(g, s, k) => Kept(g, s, k)'
    BY <1>2 DEF Kept, InMemory, BootstrapHit
  <2>6. ScannedIsOut' /\ (PastIsStored => PastIsStored')
    BY <1>2 DEF SkipInv, ScannedIsOut, PastIsStored, Past, BootstrapHit, InMemory
  <2> QED BY <1>2, <2>4, <2>5, <2>6, VouchedStays DEF SkipInv, Faultless, BootstrapHit
<1>3. CASE BootstrapEnd \/ \E f \in Files : SkipFile(f)
  <2>1. /\ UNCHANGED <<memory, manifest, pending, pos, bad, after, cur, read, idx, crashes,
                       failures>>
        /\ todo' \subseteq todo /\ pc \in {"bootstrap", "files"} /\ pc' \in {"bootstrap", "files"}
    BY <1>3 DEF BootstrapEnd, SkipFile
  <2>2. ScannedIsOut' /\ (PastIsStored => PastIsStored')
    BY <2>1 DEF SkipInv, ScannedIsOut, PastIsStored, Past, InMemory
  <2>3. \A g \in Files, s \in Texts : Vouched(g, s)' <=> Vouched(g, s)
    BY <2>1 DEF Vouched, Active
  <2>4. \A g \in Files, s \in Texts : \A k \in DOMAIN ChunksOf[s] : Kept(g, s, k) => Kept(g, s, k)'
    BY <2>1 DEF Kept, InMemory
  <2> QED BY <2>1, <2>2, <2>3, <2>4, VouchedStays DEF SkipInv, Faultless
<1>4. CASE BootstrapFails \/ \E f \in Files : UnreadableFile(f)
  <2>1. failures' > 0
    BY <1>4 DEF IInv, TypeOK, BootstrapFails, UnreadableFile
  <2>2. /\ UNCHANGED <<pending, after, cur>> /\ todo' \subseteq todo
        /\ pc \in {"bootstrap", "files"} /\ pc' \in {"bootstrap", "files"}
    BY <1>4 DEF BootstrapFails, UnreadableFile
  <2> QED BY <2>1, <2>2 DEF SkipInv, Faultless, ScannedIsOut
<1>5. CASE \E f \in Files, t \in Texts : Edit(f, t)
  BY <1>5 DEF Edit, SkipInv, Faultless, ScannedIsOut, VouchedIsKept, Vouched, Kept, PastIsStored,
              Past, InMemory, Active
<1> QED BY <1>1, <1>2, <1>3, <1>4, <1>5

\* A note is read, and its chunks are taken one by one.
LEMMA SkipRead ==
  ASSUME IInv, SkipInv, NEW f \in Files, ReadFile(f)
  PROVE  SkipInv'
<1> USE DEF flush, budget
<1>1. /\ UNCHANGED <<memory, pending, pos, bad, after, crashes, failures>>
      /\ pc = "files" /\ pc' = "chunks" /\ f \in todo /\ todo' = todo \ {f}
      /\ cur' = f /\ idx' = 1 /\ cur = NoFile
  BY DEF ReadFile, SkipInv, ScannedIsOut
<1>2. ScannedIsOut'
  BY <1>1 DEF SkipInv, ScannedIsOut
<1>3. Past' = {} /\ (PastIsStored => PastIsStored')
  BY <1>1 DEF PastIsStored, Past
<1>4. DOMAIN manifest' = DOMAIN manifest
  BY DEF ReadFile, Superseded
<1>5. \A i \in DOMAIN manifest : Active(manifest'[i]) => manifest'[i] = manifest[i]
  <2>1. \A i \in DOMAIN manifest : manifest[i] \in Record
    BY DEF IInv, TypeOK
  <2> QED BY <2>1 DEF ReadFile, Superseded, Active, Record
<1>6. \A g \in Files, s \in Texts :
        Vouched(g, s)' => Vouched(g, s) \/ (g = cur' /\ s = read')
  BY <1>1, <1>4, <1>5 DEF Vouched, Active
<1>7. ASSUME VouchedIsKept, NEW g \in Files, NEW s \in Texts, Vouched(g, s)',
             NEW k \in DOMAIN ChunksOf[s]
      PROVE  Kept(g, s, k)'
  <2>1. CASE Vouched(g, s)
    <3>1. Kept(g, s, k)
      BY <1>7, <2>1 DEF VouchedIsKept
    <3> QED BY <1>1, <3>1, TextsAssumption DEF Kept, InMemory
  <2>2. CASE g = cur' /\ s = read'
    <3>1. ChunksOf[s] \in Seq(Chunks)
      BY TextsAssumption
    <3>2. k >= 1
      BY <3>1
    <3> QED BY <1>1, <2>2, <3>2 DEF Kept
  <2> QED BY <1>6, <1>7, <2>1, <2>2
<1>8. VouchedIsKept => VouchedIsKept'
  BY <1>7 DEF VouchedIsKept
<1> QED BY <1>1, <1>2, <1>3, <1>8 DEF SkipInv, Faultless

LEMMA SkipChunk ==
  ASSUME IInv, SkipInv, DedupChunk \/ PendChunk
  PROVE  SkipInv'
<1> USE DEF history, flush, budget
<1>1. /\ cur \in Files /\ read \in Texts /\ ChunkAt \in Chunks /\ idx - 1 \in Nat
      /\ pc = "chunks" /\ idx \in DOMAIN ChunksOf[read] /\ idx \in Nat
  <2>1. pc = "chunks" /\ idx <= Len(ChunksOf[read])
    BY DEF DedupChunk, PendChunk
  <2>2. cur \in Files /\ read \in Texts /\ ChunkAt \in Chunks /\ idx - 1 \in Nat
    BY <2>1, ChunkType
  <2>3. ChunksOf[read] \in Seq(Chunks) /\ idx \in Nat \ {0}
    BY <2>2, TextsAssumption DEF IInv, TypeOK
  <2> QED BY <2>1, <2>2, <2>3
<1>2. /\ UNCHANGED <<memory, todo, cur, read, pos, bad, crashes, failures>>
      /\ idx' = idx + 1 /\ cur \notin todo
      /\ pos = 1 /\ pending \in Seq(Item) /\ manifest \in Seq(Record)
  BY <1>1 DEF DedupChunk, PendChunk, SkipInv, ScannedIsOut, IInv, PosInBatch, TypeOK
<1>3. CASE DedupChunk
  <2> DEFINE rec == NewRecord(cur, idx - 1, ChunkAt, read)
  <2>1. rec \in Record /\ rec.file = cur /\ rec.sha = read
    BY <1>1 DEF NewRecord, Record, Statuses
  <2> HIDE DEF rec
  <2>2. manifest' = Put(manifest, rec) /\ UNCHANGED <<pending, pc, after>>
    BY <1>3 DEF DedupChunk, rec
  <2>3. \A i \in DOMAIN manifest' :
          manifest'[i] = rec \/ (i \in DOMAIN manifest /\ manifest'[i] = manifest[i])
    BY <1>2, <2>1, <2>2, PutVouches
  <2>4. \A g \in Files, s \in Texts : Vouched(g, s)' => Vouched(g, s)
    BY <1>2, <2>1, <2>2, <2>3 DEF Vouched, Active
  <2>5. InMemory(ChunkAt)
    BY <1>3 DEF IInv, ActiveIsStored, DedupChunk, HasActiveSha
  <2>6. ASSUME NEW g \in Files, NEW s \in Texts, NEW k \in DOMAIN ChunksOf[s], Kept(g, s, k)
        PROVE  Kept(g, s, k)'
    <3>1. k \in Int
      BY TextsAssumption
    <3>2. CASE cur = g /\ read = s /\ k = idx
      BY <1>2, <2>5, <3>2 DEF Kept, InMemory, ChunkAt
    <3>3. CASE cur = g /\ read = s /\ k > idx
      <4>1. k >= idx + 1
        BY <1>1, <3>1, <3>3
      <4> QED BY <1>2, <3>3, <4>1 DEF Kept
    <3>4. CASE ~(cur = g /\ read = s /\ k >= idx)
      BY <1>2, <2>2, <2>6, <3>4 DEF Kept, InMemory
    <3> QED BY <1>1, <3>1, <3>2, <3>3, <3>4
  <2>7. ScannedIsOut' /\ (PastIsStored => PastIsStored')
    BY <1>1, <1>2, <2>2 DEF SkipInv, ScannedIsOut, PastIsStored, Past, InMemory
  <2> QED BY <1>2, <2>4, <2>6, <2>7, VouchedStays DEF SkipInv, Faultless
<1>4. CASE PendChunk
  <2> DEFINE item == [file |-> cur, index |-> idx - 1, chunk |-> ChunkAt, sha |-> read]
  <2>1. item \in Item /\ item.file = cur /\ item.sha = read /\ item.chunk = ChunkAt
    BY <1>1 DEF Item
  <2> HIDE DEF item
  <2>2. /\ pending' = Append(pending, item) /\ manifest' = manifest
        /\ (pc' = "store" /\ after' = "chunks") \/ UNCHANGED <<pc, after>>
    BY <1>4 DEF PendChunk, item
  <2>3. /\ DOMAIN pending' = DOMAIN pending \cup {Len(pending) + 1}
        /\ pending'[Len(pending) + 1] = item
        /\ \A i \in DOMAIN pending : pending'[i] = pending[i]
    BY <1>2, <2>1, <2>2
  <2>4. \A g \in Files, s \in Texts : Vouched(g, s)' => Vouched(g, s)
    BY <1>2, <2>1, <2>2, <2>3 DEF Vouched, Active
  <2>5. \E i \in DOMAIN pending' : pending'[i].chunk = ChunkAt
    BY <2>1, <2>3
  <2>6. ASSUME NEW g \in Files, NEW s \in Texts, NEW k \in DOMAIN ChunksOf[s], Kept(g, s, k)
        PROVE  Kept(g, s, k)'
    <3>1. k \in Int
      BY TextsAssumption
    <3>2. CASE cur = g /\ read = s /\ k = idx
      BY <1>2, <2>5, <3>2 DEF Kept, ChunkAt
    <3>3. CASE cur = g /\ read = s /\ k > idx
      <4>1. k >= idx + 1
        BY <1>1, <3>1, <3>3
      <4> QED BY <1>2, <3>3, <4>1 DEF Kept
    <3>4. CASE InMemory(ChunksOf[s][k])
      BY <1>2, <3>4 DEF Kept, InMemory
    <3>5. CASE g \notin todo /\ \E i \in DOMAIN pending : pending[i].chunk = ChunksOf[s][k]
      BY <1>2, <2>3, <3>5 DEF Kept
    <3> QED BY <1>1, <2>6, <3>1, <3>2, <3>3, <3>4, <3>5 DEF Kept
  <2>7. ScannedIsOut'
    BY <1>1, <1>2, <2>1, <2>2, <2>3 DEF SkipInv, ScannedIsOut
  <2>8. Past' = {}
    <3>1. \A i \in DOMAIN pending' : ~(i < 1)
      BY <1>2, <2>3
    <3> QED BY <1>1, <1>2, <2>2, <3>1 DEF Past
  <2>9. PastIsStored => PastIsStored'
    BY <1>2, <2>8 DEF PastIsStored
  <2> QED BY <1>2, <2>4, <2>6, <2>7, <2>9, VouchedStays DEF SkipInv, Faultless
<1> QED BY <1>3, <1>4

\* A note is done only when all its chunks are taken.
LEMMA SkipEnd ==
  ASSUME IInv, SkipInv, FileDone \/ End
  PROVE  SkipInv'
<1> USE DEF history, budget
<1>1. /\ UNCHANGED <<memory, manifest, todo, pending, pos, bad, crashes, failures>>
      /\ pc \in {"chunks", "files"} /\ pc' \in {"store", "files", "off"}
      /\ pos = 1 /\ pending \in Seq(Item)
  BY DEF FileDone, End, IInv, PosInBatch, TypeOK
<1>2. cur' = NoFile
  BY DEF FileDone, End, SkipInv, ScannedIsOut
<1>3. ScannedIsOut'
  BY <1>1, <1>2, TextsAssumption DEF SkipInv, ScannedIsOut, IInv, TypeOK
<1>4. Past' = {} /\ (PastIsStored => PastIsStored')
  <2>1. \A i \in DOMAIN pending : ~(i < 1)
    BY <1>1
  <2>2. Past' = {}
    BY <1>1, <2>1 DEF Past
  <2> QED BY <1>1, <2>2 DEF PastIsStored
<1>5. \A f \in Files, s \in Texts : Vouched(f, s)' => Vouched(f, s)
  BY <1>1, <1>2, TextsAssumption DEF Vouched, Active
<1>6. ASSUME NEW f \in Files, NEW s \in Texts, NEW k \in DOMAIN ChunksOf[s], Kept(f, s, k)
      PROVE  Kept(f, s, k)'
  <2>1. CASE cur = f /\ read = s /\ k >= idx
    <3>1. FileDone /\ ChunksOf[s] \in Seq(Chunks)
      BY <2>1, TextsAssumption DEF End, SkipInv, ScannedIsOut
    <3>2. idx > Len(ChunksOf[s]) /\ idx \in Nat /\ Len(ChunksOf[s]) \in Nat
      BY <2>1, <3>1 DEF FileDone, IInv, TypeOK
    <3>3. k <= Len(ChunksOf[s]) /\ k \in Nat
      BY <3>1
    <3> QED BY <2>1, <3>2, <3>3
  <2>2. CASE ~(cur = f /\ read = s /\ k >= idx)
    BY <1>1, <1>6, <2>2 DEF Kept, InMemory
  <2> QED BY <2>1, <2>2
<1> QED BY <1>1, <1>3, <1>4, <1>5, <1>6, VouchedStays DEF SkipInv, Faultless

\* The flush: what it stored, it has; what it records, the batch vouched for.
LEMMA SkipStore ==
  ASSUME IInv, SkipInv, NEW ok \in BOOLEAN, StoreItem(ok)
  PROVE  SkipInv'
<1> USE DEF progress
<1>1. /\ pc = "store" /\ pos \in DOMAIN pending /\ pending \in Seq(Item) /\ pos \in Nat \ {0}
      /\ UNCHANGED <<manifest, todo, cur, read, idx, pending, after, crashes>>
      /\ pc' \in {"store", "record"}
  BY DEF StoreItem, MoveOn, IInv, PosInBatch, TypeOK
<1>2. ScannedIsOut'
  BY <1>1 DEF SkipInv, ScannedIsOut
<1>3. CASE ~ok
  <2>1. failures' > 0
    BY <1>3 DEF StoreItem, IInv, TypeOK
  <2> QED BY <1>2, <2>1 DEF SkipInv, Faultless
<1>4. CASE ok
  <2>1. PICK item \in Item : item = pending[pos]
    BY <1>1
  <2>2. /\ UNCHANGED <<bad, failures>> /\ memory \subseteq memory'
        /\ InMemory(item.chunk)'
    BY <1>4, <2>1 DEF StoreItem, InMemory, Item
  <2>3. \A d : InMemory(d) => InMemory(d)'
    BY <2>2 DEF InMemory
  <2>4. Past' \subseteq Past \cup {pos}
    <3>1. \/ pos = Len(pending) /\ pc' = "record"
          \/ pos' = pos + 1 /\ pc' = "store"
      BY <1>1 DEF StoreItem, MoveOn
    <3>2. CASE pos = Len(pending) /\ pc' = "record"
      <4>1. \A i \in DOMAIN pending : i < pos \/ i = pos
        BY <1>1, <3>2
      <4> QED BY <1>1, <3>2, <4>1 DEF Past
    <3>3. CASE pos' = pos + 1 /\ pc' = "store"
      <4>1. \A i \in DOMAIN pending : i < pos + 1 => i < pos \/ i = pos
        BY <1>1
      <4> QED BY <1>1, <3>3, <4>1 DEF Past
    <3> QED BY <3>1, <3>2, <3>3
  <2>5. PastIsStored => PastIsStored'
    BY <1>1, <2>1, <2>2, <2>3, <2>4 DEF PastIsStored
  <2>6. \A f \in Files, s \in Texts : Vouched(f, s)' <=> Vouched(f, s)
    BY <1>1 DEF Vouched, Active
  <2>7. \A f \in Files, s \in Texts : \A k \in DOMAIN ChunksOf[s] :
          Kept(f, s, k) => Kept(f, s, k)'
    BY <1>1, <2>3 DEF Kept
  <2> QED BY <1>1, <1>2, <2>2, <2>5, <2>6, <2>7, VouchedStays DEF SkipInv, Faultless
<1> QED BY <1>3, <1>4

LEMMA SkipRecord ==
  ASSUME IInv, SkipInv, RecordItem
  PROVE  SkipInv'
<1> USE DEF progress, history, budget
<1>1. /\ pc = "record" /\ pos \in DOMAIN pending /\ pending \in Seq(Item) /\ pos \in Nat \ {0}
      /\ UNCHANGED <<memory, todo, cur, read, idx, pending, bad, after, crashes, failures>>
      /\ pc' \in {"record", "flushed"}
  BY DEF RecordItem, MoveOn, IInv, PosInBatch, TypeOK
<1>2. PICK item \in Item : item = pending[pos]
  BY <1>1
<1> DEFINE rec == NewRecord(item.file, item.index, item.chunk, item.sha)
<1>3. rec \in Record /\ rec.file = item.file /\ rec.sha = item.sha
  BY DEF NewRecord, Record, Item, Statuses
<1> HIDE DEF rec
<1>4. manifest' = manifest \/ manifest' = Put(manifest, rec)
  BY <1>2 DEF RecordItem, rec
<1>5. \A i \in DOMAIN manifest' :
        manifest'[i] = rec \/ (i \in DOMAIN manifest /\ manifest'[i] = manifest[i])
  BY <1>3, <1>4, PutVouches DEF IInv, TypeOK
<1>6. \A f \in Files, s \in Texts : Vouched(f, s)' => Vouched(f, s)
  BY <1>1, <1>2, <1>3, <1>5 DEF Vouched, Active
<1>7. \A f \in Files, s \in Texts : \A k \in DOMAIN ChunksOf[s] : Kept(f, s, k) => Kept(f, s, k)'
  BY <1>1 DEF Kept, InMemory
<1>8. ScannedIsOut' /\ (PastIsStored => PastIsStored')
  BY <1>1 DEF SkipInv, ScannedIsOut, PastIsStored, Past, InMemory
<1> QED BY <1>1, <1>6, <1>7, <1>8, VouchedStays DEF SkipInv, Faultless

LEMMA SkipDrop ==
  ASSUME IInv, SkipInv, Flushed \/ Crash
  PROVE  SkipInv'
<1> USE DEF progress, history, budget
<1>1. CASE Flushed
  <2>1. /\ UNCHANGED <<memory, manifest, todo, cur, read, idx, crashes, failures>>
        /\ pc = "flushed" /\ pc' = after /\ pending' = <<>> /\ bad' = {} /\ after' = "files"
        /\ after \in {"files", "chunks"}
    BY <1>1 DEF Flushed, IInv, TypeOK
  <2>2. ScannedIsOut'
    BY <2>1 DEF SkipInv, ScannedIsOut
  <2>3. Past = DOMAIN pending /\ Past' = {}
    BY <2>1 DEF Past
  <2>4. PastIsStored'
    BY <2>1, <2>3 DEF PastIsStored
  <2>5. \A f \in Files, s \in Texts : Vouched(f, s)' => Vouched(f, s)
    BY <2>1 DEF Vouched, Active
  <2>6. PastIsStored => \A f \in Files, s \in Texts : \A k \in DOMAIN ChunksOf[s] :
          Kept(f, s, k) => Kept(f, s, k)'
    BY <2>1, <2>3 DEF Kept, InMemory, PastIsStored
  <2> QED BY <2>1, <2>2, <2>4, <2>5, <2>6, VouchedStays DEF SkipInv, Faultless
<1>2. CASE Crash
  BY <1>2, TextsAssumption DEF Crash, SkipInv, Faultless, ScannedIsOut, IInv, TypeOK
<1> QED BY <1>1, <1>2

LEMMA SkipNext == IInv /\ SkipInv /\ [Next]_vars => SkipInv'
<1> SUFFICES ASSUME IInv, SkipInv, [Next]_vars PROVE SkipInv'
  OBVIOUS
<1>1. CASE UNCHANGED vars
  BY <1>1 DEF vars, SkipInv, Faultless, ScannedIsOut, VouchedIsKept, Vouched, Kept,
              PastIsStored, Past, InMemory, Active
<1>2. CASE Next
  BY <1>2, SkipScan, SkipRead, SkipChunk, SkipEnd, SkipStore, SkipRecord, SkipDrop DEF Next
<1> QED BY <1>1, <1>2

\* A resumed run skips a note only when every chunk of the text it has now is in
\* the service (vault_training.py:258), short of a death of the trainer, an item
\* the service failed to store and a note that could not be read.
THEOREM SkippedNotesAreIndexed == Spec => SkipsIndexed
<1> DEFINE Skips(f) ==
      SkipFile(f) => \/ \A i \in DOMAIN ChunksOf[text[f]] : InMemory(ChunksOf[text[f]][i])
                     \/ crashes > 0 \/ failures > 0
<1>1. ASSUME IInv, SkipInv, NEW f \in Files, SkipFile(f), Faultless,
             NEW k \in DOMAIN ChunksOf[text[f]]
      PROVE  InMemory(ChunksOf[text[f]][k])
  <2>1. text[f] \in Texts /\ text[f] # NoText /\ f \in todo /\ pc = "files"
    BY <1>1, TextsAssumption DEF IInv, TypeOK, SkipFile
  <2>2. ActiveOf(f) # {}
    BY <1>1, <2>1 DEF SkipFile, FileSha
  <2>3. ActiveOf(f) \subseteq Nat
    BY <1>1 DEF ActiveOf, IInv, TypeOK
  <2>4. \E i \in ActiveOf(f) : \A j \in ActiveOf(f) : i <= j
    <3>1. PICK m \in ActiveOf(f) : \A j \in ActiveOf(f) : <<j, m>> \notin OpToRel(<, Nat)
      BY <2>2, <2>3, NatLessThanWellFounded, WFMin
    <3>2. \A j \in ActiveOf(f) : ~(j < m)
      BY <2>3, <3>1 DEF OpToRel
    <3> QED BY <2>3, <3>2
  <2>5. PICK i \in ActiveOf(f) : manifest[i].sha = text[f]
    BY <1>1, <2>2, <2>4 DEF SkipFile, FileSha
  <2>6. Vouched(f, text[f])
    BY <2>5 DEF Vouched, ActiveOf
  <2>7. Kept(f, text[f], k)
    BY <1>1, <2>1, <2>6 DEF SkipInv, VouchedIsKept
  <2> QED BY <1>1, <2>1, <2>7, TextsAssumption DEF Kept, SkipInv, ScannedIsOut
<1>2. IInv /\ SkipInv => \A f \in Files : Skips(f)
  <2>1. IInv => crashes \in Nat /\ failures \in Nat
    BY DEF IInv, TypeOK
  <2> QED BY <1>1, <2>1 DEF Faultless
<1>3. IInv /\ SkipInv /\ [Next]_vars => [\A f \in Files : Skips(f)]_vars
  BY <1>2
<1> QED BY <1>3, SkipInit, SkipNext, Invariance, PTL DEF Spec, SkipsIndexed

-----------------------------------------------------------------------------
\* The tombstones.

\* Every line is about the fact its key names.
Line == {r \in Tomb!Record : r.sid = SidOf[r.ctx]}
PCs == {"idle", "stale", "cleared", "reading", "filter", "appending", "recorded"}

LogTypes ==
  /\ log \in Seq(Line)
  /\ tombPc \in [Threads -> PCs]
  /\ lines \in [Threads -> Seq(Line)]
  /\ due \in [Threads -> SUBSET StoredFacts] /\ shown \in [Threads -> SUBSET StoredFacts]
  /\ excused \in SUBSET Threads
  /\ mtime \in Nat /\ masked \in BOOLEAN /\ own \in SUBSET Nat

InLog(file, r) == \E i \in DOMAIN file : file[i] = r

\* What a thread has read, and the store holds, is in the ledger under its key.
ReadFromLog ==
  /\ \A t \in Threads : \A j \in DOMAIN lines[t] : InLog(log, lines[t][j])
  /\ records \in [Tomb!Keys -> Line \union {None}]
  /\ \A k \in Tomb!Keys : records[k] # None => records[k].ctx = k /\ InLog(log, records[k])

\* A line waits where a thread has read it and not parsed it.
Waits(u, k) ==
  tombPc[u] \in {"reading", "appending"} /\ \E j \in DOMAIN lines[u] : lines[u][j].ctx = k
Underway(k) == \E u \in Threads : tombPc[u] = "cleared" \/ Waits(u, k)

\* What is taken as read is in the store or underway to it, unless lines are masked.
ReadIsKept ==
  ~masked =>
    \A i \in DOMAIN log :
      i <= mtime \/ i \in own => records[log[i].ctx] # None \/ Underway(log[i].ctx)

\* A thread that appends has its one line at hand; nobody has read beyond the end.
OwnLine ==
  /\ \A t \in Threads : tombPc[t] = "appending" => Len(lines[t]) = 1
  /\ mtime <= Len(log) /\ \A i \in own : i <= Len(log)

\* Whoever changes the store rebuilds the sets, or leaves that to another.
Busy == {"stale", "cleared", "reading", "appending"}
SetsFollow == (\A u \in Threads : tombPc[u] \notin Busy) => sets = Tomb!Active(records)

\* A key that was never revived.
Unrevived(file, k) == \A i \in DOMAIN file : file[i].ctx = k => file[i].active

\* What the first n lines hide by keys that were never revived.
HiddenBy(k) == {f \in StoredFacts : k = f \/ SidOf[k] = SidOf[f]}
Stands(file, n) ==
  {f \in StoredFacts : \E i \in DOMAIN file :
     i <= n /\ Unrevived(file, file[i].ctx) /\ f \in HiddenBy(file[i].ctx)}

\* A thread that is alone since it looked at the ledger.
AloneSince ==
  \A t \in Threads :
    tombPc[t] # "idle" /\ t \notin excused =>
      /\ \A u \in Threads \ {t} : tombPc[u] = "idle"
      /\ tombPc[t] \in {"stale", "cleared"} => due[t] \subseteq Stands(log, Len(log))
      /\ tombPc[t] = "reading" => due[t] \subseteq Stands(log, mtime)
      /\ tombPc[t] = "filter" => masked \/ due[t] \subseteq Tomb!Hides(sets)
      /\ tombPc[t] \in {"stale", "cleared", "reading", "appending", "recorded"} => shown[t] = {}

TombInv ==
  /\ LogTypes /\ ReadFromLog /\ OwnLine /\ ReadIsKept /\ SetsFollow /\ AloneSince
  /\ Tomb!LeakIsExcused

-----------------------------------------------------------------------------
\* A longer ledger keeps its lines where they are.
LEMMA Grows ==
  ASSUME LogTypes, NEW r \in Line, log' = Append(log, r)
  PROVE  /\ log' \in Seq(Line) /\ Len(log) \in Nat /\ Len(log') = Len(log) + 1
         /\ DOMAIN log = 1..Len(log) /\ DOMAIN log' = 1..(Len(log) + 1)
         /\ \A i \in DOMAIN log : log'[i] = log[i]
         /\ log'[Len(log) + 1] = r
         /\ \A x : InLog(log, x) => InLog(log', x)
         /\ InLog(log', r)
<1>1. log \in Seq(Line)
  BY DEF LogTypes
<1>2. /\ log' \in Seq(Line) /\ Len(log) \in Nat /\ Len(log') = Len(log) + 1
      /\ DOMAIN log = 1..Len(log) /\ DOMAIN log' = 1..(Len(log) + 1)
  BY <1>1
<1>3. (\A i \in DOMAIN log : log'[i] = log[i]) /\ log'[Len(log) + 1] = r
  BY <1>1, <1>2
<1>4. \A x : InLog(log, x) => InLog(log', x)
  <2> SUFFICES ASSUME NEW x, NEW i \in DOMAIN log, log[i] = x PROVE \E j \in DOMAIN log' : log'[j] = x
    BY DEF InLog
  <2> QED BY <1>2, <1>3
<1>5. InLog(log', r)
  <2>1. Len(log) + 1 \in DOMAIN log'
    BY <1>2
  <2> QED BY <2>1, <1>3 DEF InLog
<1> QED BY <1>2, <1>3, <1>4, <1>5

\* A line that retires revives nothing, and what stands goes on standing.
LEMMA RetireStands ==
  ASSUME NEW file \in Seq(Line), NEW r \in Line, r.active, NEW n
  PROVE  /\ Stands(file, n) \subseteq Stands(Append(file, r), n)
         /\ Stands(file, Len(file)) \subseteq Stands(Append(file, r), Len(file) + 1)
<1> DEFINE more == Append(file, r)
<1>1. /\ Len(file) \in Nat /\ DOMAIN file = 1..Len(file) /\ DOMAIN more = 1..(Len(file) + 1)
      /\ \A i \in DOMAIN file : more[i] = file[i]
      /\ more[Len(file) + 1] = r
  OBVIOUS
<1> HIDE DEF more
<1>2. \A k : Unrevived(file, k) => Unrevived(more, k)
  BY <1>1 DEF Unrevived
<1>3. ASSUME NEW m, NEW f \in Stands(file, m)
      PROVE  f \in Stands(more, m) /\ f \in Stands(more, Len(file) + 1)
  <2>1. PICK i \in DOMAIN file :
           i <= m /\ Unrevived(file, file[i].ctx) /\ f \in HiddenBy(file[i].ctx)
    BY <1>3 DEF Stands
  <2>2. i \in DOMAIN more /\ more[i] = file[i] /\ i <= Len(file) + 1
    BY <1>1
  <2>3. f \in StoredFacts
    BY <1>3 DEF Stands
  <2> QED BY <1>2, <2>1, <2>2, <2>3 DEF Stands
<1> QED BY <1>3 DEF more

LEMMA LatestIsLine ==
  ASSUME LogTypes, NEW k \in Tomb!Keys, Tomb!Latest(log)[k] # None
  PROVE  InLog(log, Tomb!Latest(log)[k]) /\ Tomb!Latest(log)[k].ctx = k
<1> DEFINE At == {i \in DOMAIN log : Tomb!Key(log[i]) = k}
           n == Len(log)
           Back == {j \in Nat : j <= n /\ n - j \in At}
<1>1. n \in Nat /\ DOMAIN log = 1..n
  BY DEF LogTypes
<1>2. PICK i \in DOMAIN log : Tomb!Key(log[i]) = k
  BY DEF Tomb!Latest
<1>3. n - i \in Back
  BY <1>1, <1>2
<1>4. PICK j \in Back : \A l \in Back : ~(<<l, j>> \in OpToRel(<, Nat))
  <2>1. IsWellFoundedOn(OpToRel(<, Nat), Nat)
    BY NatLessThanWellFounded
  <2> QED BY <1>3, <2>1, WFMin
<1>5. n - j \in At /\ \A l \in At : l <= n - j
  <2>1. \A l \in At : n - l \in Back
    BY <1>1
  <2>2. \A l \in Back : ~(l < j)
    BY <1>4 DEF OpToRel
  <2>3. ASSUME NEW l \in At PROVE l <= n - j
    <3>1. l \in 1..n /\ n - l \in Nat /\ ~(n - l < j) /\ j \in Nat
      BY <1>1, <2>1, <2>2
    <3> QED BY <1>1, <3>1
  <2> QED BY <1>4, <2>3
<1> DEFINE top == CHOOSE l \in DOMAIN log : /\ Tomb!Key(log[l]) = k
                                            /\ \A m \in DOMAIN log : Tomb!Key(log[m]) = k => m <= l
<1>6. \E l \in DOMAIN log : /\ Tomb!Key(log[l]) = k
                            /\ \A m \in DOMAIN log : Tomb!Key(log[m]) = k => m <= l
  BY <1>5
<1>7. top \in DOMAIN log /\ Tomb!Key(log[top]) = k
  BY <1>6
<1>8. Tomb!Latest(log)[k] = log[top]
  BY <1>2 DEF Tomb!Latest
<1> HIDE DEF top
<1> QED BY <1>7, <1>8 DEF InLog, Tomb!Key

LEMMA StandingStands ==
  ASSUME LogTypes PROVE Tomb!Standing(log) \subseteq Stands(log, Len(log))
<1> SUFFICES ASSUME NEW f \in Tomb!Standing(log) PROVE f \in Stands(log, Len(log))
  OBVIOUS
<1>1. PICK r \in Tomb!Active(Tomb!Latest(log)) :
         /\ \A i \in DOMAIN log : Tomb!Key(log[i]) = Tomb!Key(r) => log[i].active
         /\ r.ctx = f \/ r.sid = SidOf[f]
  BY DEF Tomb!Standing, Tomb!Hides
<1>2. PICK k \in Tomb!Keys : Tomb!Latest(log)[k] # None /\ r = Tomb!Latest(log)[k]
  BY <1>1 DEF Tomb!Active
<1>3. r.ctx = k /\ InLog(log, r)
  BY <1>2, LatestIsLine
<1>4. PICK i \in DOMAIN log : log[i] = r
  BY <1>3 DEF InLog
<1>5. r.sid = SidOf[k] /\ i <= Len(log)
  BY <1>3, <1>4 DEF LogTypes, Line
<1>6. f \in StoredFacts
  BY DEF Tomb!Standing, Tomb!Hides
<1> QED BY <1>1, <1>3, <1>4, <1>5, <1>6 DEF Stands, HiddenBy, Unrevived, Tomb!Key

\* With nothing masked and nothing underway, the store hides all that stands.
LEMMA StoreCovers ==
  ASSUME LogTypes, ReadFromLog, ReadIsKept, ~masked, \A k : ~Underway(k), NEW n \in Nat, n <= mtime
  PROVE  Stands(log, n) \subseteq Tomb!Hides(Tomb!Active(records))
<1> SUFFICES ASSUME NEW f \in Stands(log, n) PROVE f \in Tomb!Hides(Tomb!Active(records))
  OBVIOUS
<1>1. PICK i \in DOMAIN log : i <= n /\ Unrevived(log, log[i].ctx) /\ f \in HiddenBy(log[i].ctx)
  BY DEF Stands
<1> DEFINE k == log[i].ctx
<1>2. log[i] \in Line /\ k \in Tomb!Keys /\ i \in Nat
  BY DEF LogTypes, Line, Tomb!Record, Tomb!Keys
<1>3. records[k] # None
  <2>1. mtime \in Nat /\ i <= n /\ n <= mtime
    BY <1>1 DEF LogTypes
  <2>2. i <= mtime
    BY <1>2, <2>1
  <2> QED BY <2>2 DEF ReadIsKept
<1>4. records[k].ctx = k /\ InLog(log, records[k]) /\ records[k] \in Line
  BY <1>2, <1>3 DEF ReadFromLog
<1>5. records[k].active /\ records[k].sid = SidOf[k]
  BY <1>1, <1>4 DEF InLog, Unrevived, Line
<1>6. records[k] \in Tomb!Active(records)
  BY <1>2, <1>3, <1>5 DEF Tomb!Active
<1>7. f \in StoredFacts /\ (k = f \/ SidOf[k] = SidOf[f])
  BY <1>1 DEF Stands, HiddenBy
<1> HIDE DEF k
<1> QED BY <1>4, <1>5, <1>6, <1>7 DEF Tomb!Hides

\* A call that is not excused is alone, so nobody else is inside beside it.
LEMMA OthersExcused ==
  ASSUME AloneSince, NEW t \in Threads, tombPc[t] # "idle", NEW x, tombPc' = [tombPc EXCEPT ![t] = x],
         excused \subseteq excused', LogTypes
  PROVE  /\ \A u \in Threads \ {t} : tombPc'[u] # "idle" => u \in excused'
         /\ t \notin excused' => \A u \in Threads \ {t} : tombPc'[u] = "idle" /\ tombPc[u] = "idle"
<1>1. \A u \in Threads \ {t} : tombPc'[u] = tombPc[u]
  BY DEF LogTypes
<1>2. ASSUME NEW u \in Threads \ {t}, tombPc[u] # "idle", u \notin excused PROVE FALSE
  BY <1>2 DEF AloneSince
<1> QED BY <1>1, <1>2 DEF AloneSince

LEMMA Entering ==
  ASSUME AloneSince, LogTypes, NEW t \in Threads, tombPc[t] = "idle", NEW x, x # "idle",
         tombPc' = [tombPc EXCEPT ![t] = x], Tomb!Entered(t)
  PROVE  /\ excused' \in SUBSET Threads
         /\ excused \ {t} \subseteq excused'
         /\ \A u \in Threads \ {t} : tombPc'[u] # "idle" => u \in excused'
         /\ t \notin excused' => \A u \in Threads \ {t} : tombPc'[u] = "idle" /\ tombPc[u] = "idle"
<1>1. \A u \in Threads \ {t} : tombPc'[u] = tombPc[u]
  BY DEF LogTypes
<1> QED BY <1>1 DEF LogTypes, Tomb!Entered

-----------------------------------------------------------------------------
LEMMA StatStep == ASSUME TombInv, NEW t \in Threads, Tomb!Stat(t) PROVE TombInv'
<1>1. LogTypes /\ ReadFromLog /\ OwnLine /\ ReadIsKept /\ SetsFollow /\ AloneSince /\ Tomb!LeakIsExcused
  BY DEF TombInv
<1> DEFINE x == IF mtime # Len(log) THEN "stale" ELSE "filter"
<1>2. /\ tombPc[t] = "idle" /\ tombPc' = [tombPc EXCEPT ![t] = x] /\ x \in {"stale", "filter"}
      /\ due' = [due EXCEPT ![t] = Tomb!Standing(log)] /\ shown' = [shown EXCEPT ![t] = {}]
      /\ Tomb!Entered(t)
      /\ log' = log /\ records' = records /\ sets' = sets /\ mtime' = mtime
      /\ lines' = lines /\ own' = own /\ masked' = masked
  BY DEF Tomb!Stat, Tomb!reader
<1>3. x = "filter" => mtime = Len(log)
  OBVIOUS
<1> HIDE DEF x
<1>4. /\ excused' \in SUBSET Threads /\ excused \ {t} \subseteq excused'
      /\ \A u \in Threads \ {t} : tombPc'[u] # "idle" => u \in excused'
      /\ t \notin excused' => \A u \in Threads \ {t} : tombPc'[u] = "idle" /\ tombPc[u] = "idle"
  BY <1>1, <1>2, Entering
<1>5. tombPc'[t] = x /\ shown'[t] = {} /\ due'[t] = Tomb!Standing(log)
      /\ \A u \in Threads \ {t} : tombPc'[u] = tombPc[u] /\ shown'[u] = shown[u] /\ due'[u] = due[u]
  BY <1>1, <1>2 DEF LogTypes
<1>6. LogTypes'
  <2>1. Tomb!Standing(log) \in SUBSET StoredFacts
    BY DEF Tomb!Standing, Tomb!Hides
  <2> QED BY <1>1, <1>2, <1>4, <2>1 DEF LogTypes, PCs
<1>7. ReadFromLog'
  BY <1>1, <1>2 DEF ReadFromLog, InLog
<1>8. ReadIsKept'
  <2>1. \A k : Underway(k) => Underway(k)'
    BY <1>2, <1>5 DEF Underway, Waits
  <2> QED BY <1>1, <1>2, <2>1 DEF ReadIsKept
<1>9. SetsFollow'
  <2>1. (\A u \in Threads : tombPc'[u] \notin Busy) => \A u \in Threads : tombPc[u] \notin Busy
    BY <1>2, <1>5 DEF Busy
  <2> QED BY <1>1, <1>2, <2>1 DEF SetsFollow
<1>10. AloneSince'
  <2>1. Tomb!Standing(log) \subseteq Stands(log, Len(log))
    BY <1>1, StandingStands
  <2>2. ASSUME t \notin excused', x = "filter" PROVE masked' \/ due'[t] \subseteq Tomb!Hides(sets')
    <3>1. \A u \in Threads : tombPc[u] = "idle"
      BY <1>2, <1>4, <2>2
    <3>2. sets = Tomb!Active(records) /\ \A k : ~Underway(k)
      BY <1>1, <3>1 DEF SetsFollow, Busy, Underway, Waits
    <3>3. ~masked => Stands(log, Len(log)) \subseteq Tomb!Hides(Tomb!Active(records))
      <4>1. mtime = Len(log) /\ mtime \in Nat
        BY <1>1, <1>3, <2>2 DEF LogTypes
      <4> QED BY <1>1, <3>2, <4>1, StoreCovers
    <3> QED BY <1>2, <1>5, <2>1, <3>2, <3>3
  <2> QED BY <1>2, <1>4, <1>5, <2>1, <2>2 DEF AloneSince
<1>11. Tomb!LeakIsExcused'
  BY <1>1, <1>2, <1>4, <1>5 DEF Tomb!LeakIsExcused
<1>20. OwnLine'
  BY <1>1, <1>2 DEF OwnLine, LogTypes
<1> QED BY <1>6, <1>7, <1>8, <1>9, <1>10, <1>11, <1>20 DEF TombInv

LEMMA ClearStep == ASSUME TombInv, NEW t \in Threads, Tomb!ClearRecords(t) PROVE TombInv'
<1>1. LogTypes /\ ReadFromLog /\ OwnLine /\ ReadIsKept /\ SetsFollow /\ AloneSince /\ Tomb!LeakIsExcused
  BY DEF TombInv
<1>2. /\ tombPc[t] = "stale" /\ tombPc' = [tombPc EXCEPT ![t] = "cleared"] /\ records' = Tomb!NoRecords
      /\ due' = due /\ shown' = shown /\ excused' = excused
      /\ log' = log /\ sets' = sets /\ mtime' = mtime
      /\ lines' = lines /\ own' = own /\ masked' = masked
  BY DEF Tomb!ClearRecords
<1>3. /\ \A u \in Threads \ {t} : tombPc'[u] # "idle" => u \in excused'
      /\ t \notin excused' => \A u \in Threads \ {t} : tombPc'[u] = "idle"
  BY <1>1, <1>2, OthersExcused
<1>4. tombPc'[t] = "cleared" /\ \A u \in Threads \ {t} : tombPc'[u] = tombPc[u]
  BY <1>1, <1>2 DEF LogTypes
<1>5. LogTypes'
  BY <1>1, <1>2 DEF LogTypes, PCs
<1>6. ReadFromLog'
  BY <1>1, <1>2 DEF ReadFromLog, InLog, Tomb!NoRecords
<1>7. ReadIsKept'
  BY <1>4 DEF ReadIsKept, Underway
<1>8. SetsFollow'
  BY <1>4 DEF SetsFollow, Busy
<1>9. AloneSince'
  BY <1>1, <1>2, <1>3, <1>4 DEF AloneSince
<1>10. Tomb!LeakIsExcused'
  BY <1>1, <1>2 DEF Tomb!LeakIsExcused
<1>20. OwnLine'
  BY <1>1, <1>2 DEF OwnLine, LogTypes
<1> QED BY <1>5, <1>6, <1>7, <1>8, <1>9, <1>10, <1>20 DEF TombInv

LEMMA LoadStep == ASSUME TombInv, NEW t \in Threads, Tomb!Load(t) PROVE TombInv'
<1>1. LogTypes /\ ReadFromLog /\ OwnLine /\ ReadIsKept /\ SetsFollow /\ AloneSince /\ Tomb!LeakIsExcused
  BY DEF TombInv
<1>2. /\ tombPc[t] = "cleared" /\ tombPc' = [tombPc EXCEPT ![t] = "reading"]
      /\ mtime' = Len(log) /\ lines' = [lines EXCEPT ![t] = log] /\ masked' = FALSE
      /\ due' = due /\ shown' = shown /\ excused' = excused
      /\ log' = log /\ sets' = sets /\ records' = records /\ own' = own
  BY DEF Tomb!Load
<1>3. /\ \A u \in Threads \ {t} : tombPc'[u] # "idle" => u \in excused'
      /\ t \notin excused' => \A u \in Threads \ {t} : tombPc'[u] = "idle"
  BY <1>1, <1>2, OthersExcused
<1>4. tombPc'[t] = "reading" /\ lines'[t] = log
      /\ \A u \in Threads \ {t} : tombPc'[u] = tombPc[u] /\ lines'[u] = lines[u]
  BY <1>1, <1>2 DEF LogTypes
<1>5. LogTypes'
  <2>1. Len(log) \in Nat
    BY <1>1 DEF LogTypes
  <2> QED BY <1>1, <1>2, <2>1 DEF LogTypes, PCs
<1>6. ReadFromLog'
  BY <1>1, <1>2, <1>4 DEF ReadFromLog, InLog
<1>7. ReadIsKept'
  <2>1. \A i \in DOMAIN log : Waits(t, log[i].ctx)'
    BY <1>2, <1>4 DEF Waits
  <2> QED BY <1>2, <2>1 DEF ReadIsKept, Underway
<1>8. SetsFollow'
  BY <1>4 DEF SetsFollow, Busy
<1>9. AloneSince'
  BY <1>1, <1>2, <1>3, <1>4 DEF AloneSince
<1>10. Tomb!LeakIsExcused'
  BY <1>1, <1>2 DEF Tomb!LeakIsExcused
<1>20. OwnLine'
  BY <1>1, <1>2 DEF OwnLine, LogTypes
<1> QED BY <1>5, <1>6, <1>7, <1>8, <1>9, <1>10, <1>20 DEF TombInv

LEMMA ParseStep == ASSUME TombInv, NEW t \in Threads, Tomb!ParseLine(t) PROVE TombInv'
<1>1. LogTypes /\ ReadFromLog /\ OwnLine /\ ReadIsKept /\ SetsFollow /\ AloneSince /\ Tomb!LeakIsExcused
  BY DEF TombInv
<1> DEFINE r == Head(lines[t])
<1>2. /\ tombPc[t] = "reading" /\ lines[t] # <<>> /\ tombPc' = tombPc
      /\ records' = [records EXCEPT ![r.ctx] = r] /\ lines' = [lines EXCEPT ![t] = Tail(lines[t])]
      /\ due' = due /\ shown' = shown /\ excused' = excused
      /\ log' = log /\ sets' = sets /\ mtime' = mtime /\ own' = own /\ masked' = masked
  BY DEF Tomb!ParseLine, Tomb!Key
<1>3. lines[t] \in Seq(Line) /\ Tail(lines[t]) \in Seq(Line) /\ r = lines[t][1] /\ 1 \in DOMAIN lines[t]
      /\ DOMAIN Tail(lines[t]) = 1..(Len(lines[t]) - 1) /\ Len(lines[t]) \in Nat
      /\ DOMAIN lines[t] = 1..Len(lines[t])
      /\ \A j \in DOMAIN Tail(lines[t]) : Tail(lines[t])[j] = lines[t][j + 1]
  BY <1>1, <1>2 DEF LogTypes
<1>4. r \in Line /\ r.ctx \in Tomb!Keys /\ InLog(log, r)
  BY <1>1, <1>3 DEF Line, Tomb!Record, Tomb!Keys, ReadFromLog
<1>5. lines'[t] = Tail(lines[t]) /\ \A u \in Threads \ {t} : lines'[u] = lines[u]
  BY <1>1, <1>2 DEF LogTypes
<1>6. records' \in [Tomb!Keys -> Line \union {None}] /\ records'[r.ctx] = r
      /\ \A k \in Tomb!Keys \ {r.ctx} : records'[k] = records[k]
  BY <1>1, <1>2, <1>4 DEF ReadFromLog
<1>7. r # None
  BY <1>4, NoneAssumption DEF Line
<1> HIDE DEF r
<1>8. LogTypes'
  BY <1>1, <1>2, <1>3 DEF LogTypes, PCs
<1>9. ReadFromLog'
  <2>1. \A u \in Threads : \A j \in DOMAIN lines'[u] : InLog(log, lines'[u][j])
    <3>1. \A j \in DOMAIN Tail(lines[t]) : InLog(log, Tail(lines[t])[j])
      BY <1>1, <1>3 DEF ReadFromLog
    <3> QED BY <1>1, <1>5, <3>1 DEF ReadFromLog
  <2>2. \A k \in Tomb!Keys : records'[k] # None => records'[k].ctx = k /\ InLog(log, records'[k])
    BY <1>1, <1>4, <1>6 DEF ReadFromLog
  <2> QED BY <1>2, <1>6, <2>1, <2>2 DEF ReadFromLog, InLog
<1>10. ReadIsKept'
  <2>1. ASSUME NEW k \in Tomb!Keys, Underway(k) PROVE records'[k] # None \/ Underway(k)'
    <3>1. PICK u \in Threads : tombPc[u] = "cleared" \/ Waits(u, k)
      BY <2>1 DEF Underway
    <3>2. CASE tombPc[u] = "cleared"
      BY <1>2, <3>2 DEF Underway
    <3>3. CASE Waits(u, k) /\ u # t
      BY <1>2, <1>5, <3>3 DEF Underway, Waits
    <3>4. CASE Waits(u, k) /\ u = t /\ k # r.ctx
      <4>1. PICK j \in DOMAIN lines[t] : lines[t][j].ctx = k
        BY <3>4 DEF Waits
      <4>2. j # 1
        BY <1>3, <3>4, <4>1
      <4>3. j - 1 \in DOMAIN Tail(lines[t]) /\ Tail(lines[t])[j - 1] = lines[t][j]
        BY <1>3, <4>2
      <4> QED BY <1>2, <1>5, <4>1, <4>3 DEF Underway, Waits
    <3>5. CASE k = r.ctx
      BY <1>6, <1>7, <3>5
    <3> QED BY <3>1, <3>2, <3>3, <3>4, <3>5
  <2>2. \A k \in Tomb!Keys : records[k] # None => records'[k] # None
    BY <1>6, <1>7
  <2>3. \A i \in DOMAIN log : log[i].ctx \in Tomb!Keys
    BY <1>1 DEF LogTypes, Line, Tomb!Record, Tomb!Keys
  <2> QED BY <1>1, <1>2, <2>1, <2>2, <2>3 DEF ReadIsKept
<1>11. SetsFollow'
  BY <1>2 DEF SetsFollow, Busy
<1>12. AloneSince'
  BY <1>1, <1>2 DEF AloneSince
<1>13. Tomb!LeakIsExcused'
  BY <1>1, <1>2 DEF Tomb!LeakIsExcused
<1>20. OwnLine'
  BY <1>1, <1>2 DEF OwnLine, LogTypes
<1> QED BY <1>8, <1>9, <1>10, <1>11, <1>12, <1>13, <1>20 DEF TombInv

LEMMA RebuildStep == ASSUME TombInv, NEW t \in Threads, Tomb!RebuildSets(t) PROVE TombInv'
<1>1. LogTypes /\ ReadFromLog /\ OwnLine /\ ReadIsKept /\ SetsFollow /\ AloneSince /\ Tomb!LeakIsExcused
  BY DEF TombInv
<1>2. /\ tombPc[t] = "reading" /\ lines[t] = <<>> /\ tombPc' = [tombPc EXCEPT ![t] = "filter"]
      /\ sets' = Tomb!Active(records) /\ records' = records /\ lines' = lines
      /\ due' = due /\ shown' = shown /\ excused' = excused
      /\ log' = log /\ mtime' = mtime /\ own' = own /\ masked' = masked
  BY DEF Tomb!RebuildSets
<1>3. /\ \A u \in Threads \ {t} : tombPc'[u] # "idle" => u \in excused'
      /\ t \notin excused' => \A u \in Threads \ {t} : tombPc'[u] = "idle" /\ tombPc[u] = "idle"
  BY <1>1, <1>2, OthersExcused
<1>4. tombPc'[t] = "filter" /\ \A u \in Threads \ {t} : tombPc'[u] = tombPc[u]
  BY <1>1, <1>2 DEF LogTypes
<1>5. LogTypes'
  BY <1>1, <1>2 DEF LogTypes, PCs
<1>6. ReadFromLog'
  BY <1>1, <1>2 DEF ReadFromLog, InLog
<1>7. ReadIsKept'
  <2>1. \A k : ~Waits(t, k) /\ tombPc[t] # "cleared"
    BY <1>2 DEF Waits
  <2>2. \A k : Underway(k) => Underway(k)'
    BY <1>2, <1>4, <2>1 DEF Underway, Waits
  <2> QED BY <1>1, <1>2, <2>2 DEF ReadIsKept
<1>8. SetsFollow'
  BY <1>2 DEF SetsFollow
<1>9. AloneSince'
  <2>1. ASSUME t \notin excused' PROVE masked' \/ due'[t] \subseteq Tomb!Hides(sets')
    <3>1. due[t] \subseteq Stands(log, mtime) /\ mtime \in Nat
      BY <1>1, <1>2, <2>1 DEF AloneSince, LogTypes
    <3>2. \A k : ~Underway(k)
      BY <1>2, <1>3, <2>1 DEF Underway, Waits
    <3>3. ~masked => Stands(log, mtime) \subseteq Tomb!Hides(Tomb!Active(records))
      BY <1>1, <3>1, <3>2, StoreCovers
    <3> QED BY <1>2, <3>1, <3>3
  <2> QED BY <1>1, <1>2, <1>3, <1>4, <2>1 DEF AloneSince
<1>10. Tomb!LeakIsExcused'
  BY <1>1, <1>2 DEF Tomb!LeakIsExcused
<1>20. OwnLine'
  BY <1>1, <1>2 DEF OwnLine, LogTypes
<1> QED BY <1>5, <1>6, <1>7, <1>8, <1>9, <1>10, <1>20 DEF TombInv

LEMMA RaisesStep == ASSUME TombInv, NEW t \in Threads, Tomb!RebuildRaises(t) PROVE TombInv'
<1>1. LogTypes /\ ReadFromLog /\ OwnLine /\ ReadIsKept /\ SetsFollow /\ AloneSince /\ Tomb!LeakIsExcused
  BY DEF TombInv
<1>2. /\ tombPc[t] = "reading" /\ lines[t] = <<>> /\ tombPc' = [tombPc EXCEPT ![t] = "idle"]
      /\ sets' = sets /\ records' = records /\ lines' = lines
      /\ due' = due /\ shown' = shown /\ excused' = excused
      /\ log' = log /\ mtime' = mtime /\ own' = own /\ masked' = masked
      /\ \E u \in Threads \ {t} : tombPc[u] \in {"stale", "reading", "appending"}
  BY DEF Tomb!RebuildRaises, Tomb!reader
<1>3. /\ \A u \in Threads \ {t} : tombPc'[u] # "idle" => u \in excused'
      /\ t \notin excused' => \A u \in Threads \ {t} : tombPc'[u] = "idle"
  BY <1>1, <1>2, OthersExcused
<1>4. tombPc'[t] = "idle" /\ \A u \in Threads \ {t} : tombPc'[u] = tombPc[u]
  BY <1>1, <1>2 DEF LogTypes
<1>5. LogTypes'
  BY <1>1, <1>2 DEF LogTypes, PCs
<1>6. ReadFromLog'
  BY <1>1, <1>2 DEF ReadFromLog, InLog
<1>7. ReadIsKept'
  <2>1. \A k : ~Waits(t, k) /\ tombPc[t] # "cleared"
    BY <1>2 DEF Waits
  <2>2. \A k : Underway(k) => Underway(k)'
    BY <1>2, <1>4, <2>1 DEF Underway, Waits
  <2> QED BY <1>1, <1>2, <2>2 DEF ReadIsKept
<1>8. SetsFollow'
  BY <1>2, <1>4 DEF SetsFollow, Busy
<1>9. AloneSince'
  BY <1>1, <1>2, <1>3, <1>4 DEF AloneSince
<1>10. Tomb!LeakIsExcused'
  BY <1>1, <1>2 DEF Tomb!LeakIsExcused
<1>20. OwnLine'
  BY <1>1, <1>2 DEF OwnLine, LogTypes
<1> QED BY <1>5, <1>6, <1>7, <1>8, <1>9, <1>10, <1>20 DEF TombInv

LEMMA FilterStep == ASSUME TombInv, NEW t \in Threads, Tomb!Filter(t) PROVE TombInv'
<1>1. LogTypes /\ ReadFromLog /\ OwnLine /\ ReadIsKept /\ SetsFollow /\ AloneSince /\ Tomb!LeakIsExcused
  BY DEF TombInv
<1>2. /\ tombPc[t] = "filter" /\ tombPc' = [tombPc EXCEPT ![t] = "idle"]
      /\ shown' = [shown EXCEPT ![t] = StoredFacts \ Tomb!Hides(sets)]
      /\ excused' = IF masked THEN excused \union {t} ELSE excused
      /\ sets' = sets /\ records' = records /\ lines' = lines /\ due' = due
      /\ log' = log /\ mtime' = mtime /\ own' = own /\ masked' = masked
  BY DEF Tomb!Filter, Tomb!reader
<1>3. excused \subseteq excused' /\ excused' \in SUBSET Threads
  BY <1>1, <1>2 DEF LogTypes
<1>4. \A u \in Threads \ {t} : tombPc'[u] # "idle" => u \in excused'
  BY <1>1, <1>2, <1>3, OthersExcused
<1>5. tombPc'[t] = "idle" /\ shown'[t] = StoredFacts \ Tomb!Hides(sets)
      /\ \A u \in Threads \ {t} : tombPc'[u] = tombPc[u] /\ shown'[u] = shown[u]
  BY <1>1, <1>2 DEF LogTypes
<1>6. LogTypes'
  BY <1>1, <1>2, <1>3 DEF LogTypes, PCs
<1>7. ReadFromLog'
  BY <1>1, <1>2 DEF ReadFromLog, InLog
<1>8. ReadIsKept'
  <2>1. \A k : Underway(k) => Underway(k)'
    BY <1>2, <1>5 DEF Underway, Waits
  <2> QED BY <1>1, <1>2, <2>1 DEF ReadIsKept
<1>9. SetsFollow'
  <2>1. (\A u \in Threads : tombPc'[u] \notin Busy) => \A u \in Threads : tombPc[u] \notin Busy
    BY <1>2, <1>5 DEF Busy
  <2> QED BY <1>1, <1>2, <2>1 DEF SetsFollow
<1>10. AloneSince'
  BY <1>4, <1>5 DEF AloneSince
<1>11. Tomb!LeakIsExcused'
  <2>1. ASSUME t \notin excused' PROVE shown'[t] \intersect due'[t] = {}
    <3>1. t \notin excused /\ ~masked
      BY <1>2, <2>1
    <3>2. due[t] \subseteq Tomb!Hides(sets)
      BY <1>1, <1>2, <3>1 DEF AloneSince
    <3> QED BY <1>2, <1>5, <3>2
  <2> QED BY <1>1, <1>2, <1>3, <1>5, <2>1 DEF Tomb!LeakIsExcused
<1>20. OwnLine'
  BY <1>1, <1>2 DEF OwnLine, LogTypes
<1> QED BY <1>6, <1>7, <1>8, <1>9, <1>10, <1>11, <1>20 DEF TombInv

LEMMA PutStep == ASSUME TombInv, NEW t \in Threads, NEW r \in Line, tombPc[t] = "idle", Tomb!Put(t, r)
                 PROVE  TombInv'
<1>1. LogTypes /\ ReadFromLog /\ OwnLine /\ ReadIsKept /\ SetsFollow /\ AloneSince /\ Tomb!LeakIsExcused
  BY DEF TombInv
<1>2. /\ tombPc' = [tombPc EXCEPT ![t] = "appending"] /\ log' = Append(log, r)
      /\ lines' = [lines EXCEPT ![t] = <<r>>] /\ shown' = [shown EXCEPT ![t] = {}]
      /\ due' = [due EXCEPT ![t] = {}] /\ own' = own \union {Len(log')}
      /\ records' = records /\ sets' = sets /\ mtime' = mtime /\ masked' = masked
      /\ Tomb!Entered(t)
  BY DEF Tomb!Put, Tomb!reader
<1>3. /\ log' \in Seq(Line) /\ Len(log) \in Nat /\ Len(log') = Len(log) + 1
      /\ DOMAIN log = 1..Len(log) /\ DOMAIN log' = 1..(Len(log) + 1)
      /\ \A i \in DOMAIN log : log'[i] = log[i]
      /\ log'[Len(log) + 1] = r
      /\ \A x : InLog(log, x) => InLog(log', x)
      /\ InLog(log', r)
  BY <1>1, <1>2, Grows
<1>4. /\ excused' \in SUBSET Threads /\ excused \ {t} \subseteq excused'
      /\ \A u \in Threads \ {t} : tombPc'[u] # "idle" => u \in excused'
      /\ t \notin excused' => \A u \in Threads \ {t} : tombPc'[u] = "idle"
  BY <1>1, <1>2, Entering
<1>5. /\ tombPc'[t] = "appending" /\ shown'[t] = {} /\ lines'[t] = <<r>>
      /\ \A u \in Threads \ {t} : tombPc'[u] = tombPc[u] /\ shown'[u] = shown[u] /\ due'[u] = due[u]
                               /\ lines'[u] = lines[u]
  BY <1>1, <1>2 DEF LogTypes
<1>6. LogTypes'
  <2>1. <<r>> \in Seq(Line)
    OBVIOUS
  <2>2. own' \in SUBSET Nat
    <3>1. Len(log') \in Nat /\ own \in SUBSET Nat
      BY <1>1, <1>3 DEF LogTypes
    <3> QED BY <1>2, <3>1
  <2> QED BY <1>1, <1>2, <1>3, <1>4, <2>1, <2>2 DEF LogTypes, PCs
<1>7. ReadFromLog'
  <2>1. \A u \in Threads : \A j \in DOMAIN lines'[u] : InLog(log', lines'[u][j])
    BY <1>1, <1>3, <1>5 DEF ReadFromLog
  <2>2. \A k \in Tomb!Keys : records'[k] # None => records'[k].ctx = k /\ InLog(log', records'[k])
    BY <1>1, <1>2, <1>3 DEF ReadFromLog
  <2> QED BY <1>1, <1>2, <2>1, <2>2 DEF ReadFromLog
<1>8. ReadIsKept'
  <2>1. \A k : Underway(k) => Underway(k)'
    BY <1>2, <1>5 DEF Underway, Waits
  <2>2. Underway(r.ctx)'
    <3>1. 1 \in DOMAIN lines'[t] /\ lines'[t][1] = r
      BY <1>5
    <3> QED BY <1>5, <3>1 DEF Underway, Waits
  <2>3. ASSUME ~masked, NEW i \in DOMAIN log', i <= mtime \/ i \in own',
               NEW k, k = log'[i].ctx
        PROVE  records[k] # None \/ Underway(k)'
    <3>1. CASE i = Len(log) + 1
      <4>1. k = r.ctx
        BY <1>3, <2>3, <3>1
      <4> QED BY <2>2, <4>1
    <3>2. CASE i # Len(log) + 1
      <4>1. i \in DOMAIN log /\ log'[i] = log[i] /\ (i <= mtime \/ i \in own)
        BY <1>2, <1>3, <2>3, <3>2
      <4> QED BY <1>1, <2>1, <2>3, <4>1 DEF ReadIsKept
    <3> QED BY <3>1, <3>2
  <2> QED BY <1>2, <2>3 DEF ReadIsKept
<1>9. SetsFollow'
  BY <1>5 DEF SetsFollow, Busy
<1>10. AloneSince'
  BY <1>2, <1>4, <1>5 DEF AloneSince
<1>11. Tomb!LeakIsExcused'
  BY <1>1, <1>2, <1>4, <1>5 DEF Tomb!LeakIsExcused
<1>12. OwnLine'
  <2>1. mtime' <= Len(log') /\ \A i \in own' : i <= Len(log')
    BY <1>1, <1>2, <1>3 DEF OwnLine, LogTypes
  <2>2. Len(lines'[t]) = 1
    BY <1>5
  <2> QED BY <1>1, <1>5, <2>1, <2>2 DEF OwnLine
<1> QED BY <1>6, <1>7, <1>8, <1>9, <1>10, <1>11, <1>12 DEF TombInv

LEMMA CallStep ==
  ASSUME TombInv, NEW t \in Threads, NEW f \in StoredFacts,
         Tomb!Revive(t, f) \/ \E op \in BOOLEAN : Tomb!Tombstone(t, f, op)
  PROVE  TombInv'
<1>1. CASE Tomb!Revive(t, f)
  <2> DEFINE r == [records[f] EXCEPT !.active = FALSE]
  <2>1. tombPc[t] = "idle" /\ records[f] # None /\ Tomb!Put(t, r)
    BY <1>1 DEF Tomb!Revive
  <2>2. records[f] \in Line
    BY <2>1 DEF TombInv, ReadFromLog, Tomb!Keys
  <2>3. r \in Line
    BY <2>2 DEF Line, Tomb!Record
  <2> QED BY <2>1, <2>3, PutStep
<1>2. CASE \E op \in BOOLEAN : Tomb!Tombstone(t, f, op)
  <2>1. tombPc[t] = "idle" /\ Tomb!Put(t, Tomb!Retired(f))
    BY <1>2 DEF Tomb!Tombstone
  <2>2. Tomb!Retired(f) \in Line
    BY DEF Tomb!Retired, Line, Tomb!Record
  <2> QED BY <2>1, <2>2, PutStep
<1> QED BY <1>1, <1>2

LEMMA RecordOwnStep == ASSUME TombInv, NEW t \in Threads, Tomb!RecordOwn(t) PROVE TombInv'
<1>1. LogTypes /\ ReadFromLog /\ OwnLine /\ ReadIsKept /\ SetsFollow /\ AloneSince /\ Tomb!LeakIsExcused
  BY DEF TombInv
<1> DEFINE r == Head(lines[t])
<1>2. /\ tombPc[t] = "appending" /\ tombPc' = [tombPc EXCEPT ![t] = "recorded"]
      /\ records' = [records EXCEPT ![r.ctx] = r] /\ sets' = Tomb!Active(records')
      /\ lines' = [lines EXCEPT ![t] = <<>>]
      /\ due' = due /\ shown' = shown /\ excused' = excused
      /\ log' = log /\ mtime' = mtime /\ own' = own /\ masked' = masked
  BY DEF Tomb!RecordOwn, Tomb!Key
<1>3. lines[t] \in Seq(Line) /\ Len(lines[t]) = 1 /\ DOMAIN lines[t] = {1} /\ r = lines[t][1]
  BY <1>1, <1>2 DEF LogTypes, OwnLine
<1>4. r \in Line /\ r.ctx \in Tomb!Keys /\ InLog(log, r)
  BY <1>1, <1>3 DEF Line, Tomb!Record, Tomb!Keys, ReadFromLog
<1>5. /\ tombPc'[t] = "recorded" /\ lines'[t] = <<>>
      /\ \A u \in Threads \ {t} : tombPc'[u] = tombPc[u] /\ lines'[u] = lines[u]
  BY <1>1, <1>2 DEF LogTypes
<1>6. records' \in [Tomb!Keys -> Line \union {None}] /\ records'[r.ctx] = r
      /\ \A k \in Tomb!Keys \ {r.ctx} : records'[k] = records[k]
  BY <1>1, <1>2, <1>4 DEF ReadFromLog
<1>7. r # None
  BY <1>4, NoneAssumption DEF Line
<1>8. \A u \in Threads \ {t} : tombPc'[u] # "idle" => u \in excused'
  BY <1>1, <1>2, OthersExcused
<1>9. t \notin excused' => \A u \in Threads \ {t} : tombPc'[u] = "idle"
  BY <1>1, <1>2, OthersExcused
<1> HIDE DEF r
<1>10. LogTypes'
  <2>1. <<>> \in Seq(Line)
    OBVIOUS
  <2> QED BY <1>1, <1>2, <2>1 DEF LogTypes, PCs
<1>11. ReadFromLog'
  <2>1. \A u \in Threads : \A j \in DOMAIN lines'[u] : InLog(log, lines'[u][j])
    BY <1>1, <1>5 DEF ReadFromLog
  <2>2. \A k \in Tomb!Keys : records'[k] # None => records'[k].ctx = k /\ InLog(log, records'[k])
    BY <1>1, <1>4, <1>6 DEF ReadFromLog
  <2> QED BY <1>2, <1>6, <2>1, <2>2 DEF ReadFromLog, InLog
<1>12. ReadIsKept'
  <2>1. ASSUME NEW k \in Tomb!Keys, Underway(k) PROVE records'[k] # None \/ Underway(k)'
    <3>1. PICK u \in Threads : tombPc[u] = "cleared" \/ Waits(u, k)
      BY <2>1 DEF Underway
    <3>2. CASE u # t
      BY <1>5, <3>1, <3>2 DEF Underway, Waits
    <3>3. CASE u = t
      BY <1>2, <1>3, <1>6, <1>7, <3>1, <3>3 DEF Waits
    <3> QED BY <3>2, <3>3
  <2>2. \A k \in Tomb!Keys : records[k] # None => records'[k] # None
    BY <1>6, <1>7
  <2>3. \A i \in DOMAIN log : log[i].ctx \in Tomb!Keys
    BY <1>1 DEF LogTypes, Line, Tomb!Record, Tomb!Keys
  <2> QED BY <1>1, <1>2, <2>1, <2>2, <2>3 DEF ReadIsKept
<1>13. SetsFollow'
  BY <1>2 DEF SetsFollow
<1>14. AloneSince'
  BY <1>1, <1>2, <1>5, <1>8, <1>9 DEF AloneSince
<1>15. Tomb!LeakIsExcused'
  BY <1>1, <1>2 DEF Tomb!LeakIsExcused
<1>16. OwnLine'
  BY <1>1, <1>2, <1>5 DEF OwnLine
<1> QED BY <1>10, <1>11, <1>12, <1>13, <1>14, <1>15, <1>16 DEF TombInv

LEMMA TakeStep == ASSUME TombInv, NEW t \in Threads, Tomb!TakeMtime(t) PROVE TombInv'
<1>1. LogTypes /\ ReadFromLog /\ OwnLine /\ ReadIsKept /\ SetsFollow /\ AloneSince /\ Tomb!LeakIsExcused
  BY DEF TombInv
<1>2. /\ tombPc[t] = "recorded" /\ tombPc' = [tombPc EXCEPT ![t] = "idle"] /\ mtime' = Len(log)
      /\ masked' = (masked \/ \E i \in DOMAIN log \ own : i > mtime)
      /\ due' = due /\ shown' = shown /\ excused' = excused
      /\ log' = log /\ records' = records /\ sets' = sets /\ lines' = lines /\ own' = own
  BY DEF Tomb!TakeMtime
<1>3. /\ \A u \in Threads \ {t} : tombPc'[u] # "idle" => u \in excused'
      /\ t \notin excused' => \A u \in Threads \ {t} : tombPc'[u] = "idle"
  BY <1>1, <1>2, OthersExcused
<1>4. tombPc'[t] = "idle" /\ \A u \in Threads \ {t} : tombPc'[u] = tombPc[u]
  BY <1>1, <1>2 DEF LogTypes
<1>5. LogTypes'
  <2>1. Len(log) \in Nat
    BY <1>1 DEF LogTypes
  <2>2. masked' \in BOOLEAN
    BY <1>2
  <2> QED BY <1>1, <1>2, <2>1, <2>2 DEF LogTypes, PCs
<1>6. ReadFromLog'
  BY <1>1, <1>2 DEF ReadFromLog, InLog
<1>7. ReadIsKept'
  <2>1. \A k : Underway(k) => Underway(k)'
    BY <1>2, <1>4 DEF Underway, Waits
  <2>2. ~masked' => ~masked /\ \A i \in DOMAIN log : i <= mtime \/ i \in own
    <3>1. mtime \in Nat /\ \A i \in DOMAIN log : i \in Nat
      BY <1>1 DEF LogTypes
    <3>2. ~masked' => ~masked /\ ~\E i \in DOMAIN log \ own : i > mtime
      BY <1>2
    <3>3. (~\E i \in DOMAIN log \ own : i > mtime) =>
            \A i \in DOMAIN log : i <= mtime \/ i \in own
      BY <3>1
    <3> QED BY <3>2, <3>3
  <2> QED BY <1>1, <1>2, <2>1, <2>2 DEF ReadIsKept
<1>8. SetsFollow'
  <2>1. (\A u \in Threads : tombPc'[u] \notin Busy) => \A u \in Threads : tombPc[u] \notin Busy
    BY <1>2, <1>4 DEF Busy
  <2> QED BY <1>1, <1>2, <2>1 DEF SetsFollow
<1>9. AloneSince'
  BY <1>1, <1>2, <1>3, <1>4 DEF AloneSince
<1>10. Tomb!LeakIsExcused'
  BY <1>1, <1>2 DEF Tomb!LeakIsExcused
<1>11. OwnLine'
  BY <1>1, <1>2, <1>4 DEF OwnLine, LogTypes
<1> QED BY <1>5, <1>6, <1>7, <1>8, <1>9, <1>10, <1>11 DEF TombInv

\* The compaction only appends lines that retire.
LEMMA CompactionStep ==
  ASSUME TombInv, UNCHANGED <<Tomb!reader, Tomb!threads>>,
         log' = log \/ \E f \in StoredFacts : log' = Append(log, Tomb!Retired(f))
  PROVE  TombInv'
<1>1. LogTypes /\ ReadFromLog /\ OwnLine /\ ReadIsKept /\ SetsFollow /\ AloneSince /\ Tomb!LeakIsExcused
  BY DEF TombInv
<1>2. /\ tombPc' = tombPc /\ lines' = lines /\ due' = due /\ shown' = shown /\ excused' = excused
      /\ own' = own /\ masked' = masked /\ records' = records /\ sets' = sets /\ mtime' = mtime
  BY DEF Tomb!reader, Tomb!threads
<1>3. CASE log' = log
  BY <1>1, <1>2, <1>3 DEF TombInv, LogTypes, ReadFromLog, OwnLine, ReadIsKept, SetsFollow,
     AloneSince,
     Tomb!LeakIsExcused, InLog, Underway, Waits
<1>4. CASE \E f \in StoredFacts : log' = Append(log, Tomb!Retired(f))
  <2>1. PICK r \in Line : r.active /\ log' = Append(log, r)
    <3>1. \A f \in StoredFacts : Tomb!Retired(f) \in Line /\ Tomb!Retired(f).active
      BY DEF Tomb!Retired, Line, Tomb!Record
    <3> QED BY <1>4, <3>1
  <2>2. /\ log' \in Seq(Line) /\ Len(log) \in Nat /\ Len(log') = Len(log) + 1
        /\ DOMAIN log = 1..Len(log) /\ DOMAIN log' = 1..(Len(log) + 1)
        /\ \A i \in DOMAIN log : log'[i] = log[i]
        /\ log'[Len(log) + 1] = r
        /\ \A x : InLog(log, x) => InLog(log', x)
    BY <1>1, <2>1, Grows
  <2>3. /\ Stands(log, mtime) \subseteq Stands(log', mtime)
        /\ Stands(log, Len(log)) \subseteq Stands(log', Len(log'))
    BY <1>1, <2>1, <2>2, RetireStands DEF LogTypes
  <2>4. LogTypes'
    BY <1>1, <1>2, <2>2 DEF LogTypes
  <2>5. ReadFromLog'
    <3>1. \A u \in Threads : \A j \in DOMAIN lines[u] : InLog(log', lines[u][j])
      BY <1>1, <2>2 DEF ReadFromLog
    <3>2. \A k \in Tomb!Keys : records[k] # None => records[k].ctx = k /\ InLog(log', records[k])
      BY <1>1, <2>2 DEF ReadFromLog
    <3> QED BY <1>1, <1>2, <3>1, <3>2 DEF ReadFromLog
  <2>6. ReadIsKept'
    <3>1. \A k : Underway(k)' <=> Underway(k)
      BY <1>2 DEF Underway, Waits
    <3>2. ASSUME NEW i \in DOMAIN log', i <= mtime \/ i \in own
          PROVE  i \in DOMAIN log /\ log'[i] = log[i]
      BY <1>1, <2>2, <3>2 DEF OwnLine, LogTypes
    <3> QED BY <1>1, <1>2, <3>1, <3>2 DEF ReadIsKept
  <2>7. SetsFollow'
    BY <1>1, <1>2 DEF SetsFollow
  <2>8. AloneSince'
    BY <1>1, <1>2, <2>3 DEF AloneSince
  <2>9. Tomb!LeakIsExcused'
    BY <1>1, <1>2 DEF Tomb!LeakIsExcused
  <2>10. OwnLine'
    BY <1>1, <1>2, <2>2 DEF OwnLine, LogTypes
  <2> QED BY <2>4, <2>5, <2>6, <2>7, <2>8, <2>9, <2>10 DEF TombInv
<1> QED BY <1>3, <1>4

LEMMA TombInitStep == Tomb!Init => TombInv
<1> SUFFICES ASSUME Tomb!Init PROVE TombInv
  OBVIOUS
<1>1. LogTypes
  <2>1. <<>> \in Seq(Line) /\ 0 \in Nat /\ {} \in SUBSET Nat
    OBVIOUS
  <2> QED BY <2>1 DEF Tomb!Init, LogTypes, PCs
<1>2. ReadFromLog /\ OwnLine /\ ReadIsKept
  BY DEF Tomb!Init, ReadFromLog, OwnLine, ReadIsKept, Tomb!NoRecords
<1>3. SetsFollow
  BY DEF Tomb!Init, SetsFollow, Tomb!Active, Tomb!NoRecords
<1>4. AloneSince /\ Tomb!LeakIsExcused
  BY DEF Tomb!Init, AloneSince, Tomb!LeakIsExcused
<1> QED BY <1>1, <1>2, <1>3, <1>4 DEF TombInv

LEMMA TombNextStep == TombInv /\ [Tomb!Next]_(Tomb!vars) => TombInv'
<1> SUFFICES ASSUME TombInv, [Tomb!Next]_(Tomb!vars) PROVE TombInv'
  OBVIOUS
<1>1. ASSUME NEW t \in Threads,
             \/ Tomb!Stat(t) \/ Tomb!ClearRecords(t) \/ Tomb!Load(t) \/ Tomb!ParseLine(t)
             \/ Tomb!RebuildSets(t) \/ Tomb!RebuildRaises(t) \/ Tomb!Filter(t)
             \/ Tomb!RecordOwn(t) \/ Tomb!TakeMtime(t)
             \/ \E f \in StoredFacts : Tomb!Revive(t, f) \/ \E op \in BOOLEAN : Tomb!Tombstone(t, f, op)
      PROVE  TombInv'
  BY <1>1, StatStep, ClearStep, LoadStep, ParseStep, RebuildStep, RaisesStep, FilterStep,
     RecordOwnStep, TakeStep, CallStep
<1>2. CASE Tomb!StartCompaction
  BY <1>2, CompactionStep DEF Tomb!StartCompaction
<1>3. ASSUME NEW f \in StoredFacts, Tomb!Retire(f) PROVE TombInv'
  BY <1>3, CompactionStep DEF Tomb!Retire
<1>4. CASE Tomb!StopCompaction
  BY <1>4, CompactionStep DEF Tomb!StopCompaction
<1>5. CASE UNCHANGED Tomb!vars
  BY <1>5, CompactionStep DEF Tomb!vars, Tomb!reader, Tomb!threads
<1> QED BY <1>1, <1>2, <1>3, <1>4, <1>5 DEF Tomb!Next

\* A search answers nothing that stood retired when it looked (tombstones.py:62-69,
\* consistent_client.py:89-90), but for the two excuses: another call inside the
\* store, or an append that took lines nobody read as read (tombstones.py:109-112).
THEOREM LeaksAreExcused == Tomb!Spec => []LeakIsExcused
<1>1. TombInv => Tomb!LeakIsExcused
  BY DEF TombInv
<1> QED BY <1>1, TombInitStep, TombNextStep, PTL DEF Tomb!Spec, LeakIsExcused

-----------------------------------------------------------------------------
\* The memory of the cortex.

\* What is said, believed and was held before is of the right kind.
Told(s, b, p) ==
  /\ s \in [Cortex!Keys -> Seq(Cortex!Values)]
  /\ b \in [Cortex!Keys -> Cortex!Values \cup {None}] /\ p \in [Cortex!Keys -> Cortex!Values \cup {None}]

\* A challenger counts only against a consolidated value, and counts as often
\* as it was insisted on since.
Contest(m, k, s, b) ==
  IF b = None \/ s = <<>> \/ Cortex!Last(s) = b THEN m.challengerCount[k] = 0
  ELSE m.challenger[k] = Cortex!Last(s) /\ m.challengerCount[k] = Cortex!Insisted(s)

MirrorsAt(m, k, s, b, p) ==
  /\ k \in m.known <=> Cortex!ByDay(b, s) # None
  /\ k \in m.known => m.current[k] = Cortex!ByDay(b, s)
  /\ k \in m.archiveKnown <=> p # None
  /\ k \in m.archiveKnown => m.archive[k] = p
  /\ k \in m.committed <=> b # None
  /\ Contest(m, k, s, b)

\* A memory is what the log, the beliefs and the former values make of it.
Mirrors(m, s, b, p) ==
  /\ m \in Cortex!Memory /\ Told(s, b, p)
  /\ \A k \in Cortex!Keys : MirrorsAt(m, k, s[k], b[k], p[k])

CortexInv ==
  /\ Cortex!TypeOK
  /\ IF Cortex!Awake THEN Mirrors(cortex, said, belief, before)
     ELSE cortex = Cortex!Blank /\ Mirrors(saved, said, belief, before)
  /\ Mirrors(disk, onDisk.said, onDisk.belief, onDisk.before)
-----------------------------------------------------------------------------
\* The module of the cortex counts as every other does.
LEMMA CountIsCardinality == ASSUME NEW S PROVE Cortex!Cardinality(S) = Cardinality(S)
BY DEF Cortex!Cardinality, Cardinality

\* Who says the same again has insisted once more; another value starts anew.
LEMMA InsistedAppend ==
  ASSUME NEW S, NEW words \in Seq(S), NEW v \in S
  PROVE  /\ Cortex!Last(Append(words, v)) = v
         /\ Cortex!Insisted(Append(words, v)) =
              IF words # <<>> /\ Cortex!Last(words) = v THEN Cortex!Insisted(words) + 1 ELSE 1
         /\ Cortex!Insisted(words) \in Nat
<1> DEFINE n == Len(words)
           A == {i \in DOMAIN words : \A j \in i..n : words[j] = Cortex!Last(words)}
           new == Append(words, v)
           B == {i \in DOMAIN new : \A j \in i..Len(new) : new[j] = v}
<1>1. n \in Nat /\ DOMAIN words = 1..n /\ Len(new) = n + 1 /\ DOMAIN new = 1..n+1
  OBVIOUS
<1>2. new[n + 1] = v /\ \A j \in 1..n : new[j] = words[j]
  OBVIOUS
<1>3. IsFiniteSet(A) /\ n + 1 \notin A
  <2>1. A \in SUBSET (1..n)
    BY <1>1
  <2>2. IsFiniteSet(1..n)
    BY <1>1, FS_Interval
  <2> QED BY <1>1, <2>1, <2>2, FS_Subset
<1>4. Cortex!Last(new) = v
  BY <1>1, <1>2 DEF Cortex!Last
<1>5. Cortex!Insisted(new) = Cardinality(B) /\ Cortex!Insisted(words) = Cardinality(A)
  BY <1>4, CountIsCardinality DEF Cortex!Insisted
<1>6. n + 1 \in B
  BY <1>1, <1>2
<1>7. CASE words # <<>> /\ Cortex!Last(words) = v
  <2>1. B = A \cup {n + 1}
    <3>1. ASSUME NEW i \in B PROVE i \in A \cup {n + 1}
      BY <1>1, <1>2, <1>7
    <3>2. ASSUME NEW i \in A PROVE i \in B
      BY <1>1, <1>2, <1>7
    <3> QED BY <3>1, <3>2, <1>6
  <2>2. Cardinality(A \cup {n + 1}) = Cardinality(A) + 1 /\ Cardinality(A) \in Nat
    BY <1>3, FS_AddElement, FS_CardinalityType
  <2> QED BY <2>1, <2>2, <1>4, <1>5, <1>7
<1>8. CASE ~(words # <<>> /\ Cortex!Last(words) = v)
  <2>1. B = {n + 1}
    <3>1. ASSUME NEW i \in B, i # n + 1 PROVE FALSE
      <4>1. i \in 1..n /\ n \in i..Len(new)
        BY <1>1, <3>1
      <4>2. words[n] = v
        BY <1>1, <1>2, <4>1, <3>1
      <4> QED BY <1>1, <1>8, <4>1, <4>2 DEF Cortex!Last
    <3> QED BY <3>1, <1>6
  <2> QED BY <2>1, <1>3, <1>4, <1>5, <1>8, FS_Singleton, FS_CardinalityType
<1> QED BY <1>7, <1>8

\* A statement on a key keeps that key's mirror, and leaves the others alone.
LEMMA StatedStep ==
  ASSUME NEW m \in Cortex!Memory, NEW k \in Cortex!Keys, NEW v \in Cortex!Values, NEW s \in Seq(Cortex!Values),
         NEW b \in Cortex!Values \cup {None}, NEW p \in Cortex!Values \cup {None},
         MirrorsAt(m, k, s, b, p)
  PROVE  /\ Cortex!Stated(m, k, v) \in Cortex!Memory
         /\ MirrorsAt(Cortex!Stated(m, k, v), k, Append(s, v), b,
                      Cortex!Replaced(Cortex!ByDay(b, s), Cortex!ByDay(b, Append(s, v)), p))
         /\ \A j \in Cortex!Keys \ {k} : \A s2, b2, p2 :
              MirrorsAt(m, j, s2, b2, p2) => MirrorsAt(Cortex!Stated(m, k, v), j, s2, b2, p2)
<1> DEFINE t == Append(s, v)
           m2 == Cortex!Stated(m, k, v)
<1>1. t # <<>> /\ Cortex!Last(t) = v /\ Cortex!Insisted(s) \in Nat
      /\ Cortex!Insisted(t) = IF s # <<>> /\ Cortex!Last(s) = v THEN Cortex!Insisted(s) + 1 ELSE 1
  BY InsistedAppend
<1>2. s # <<>> => Cortex!Last(s) \in Cortex!Values
  BY DEF Cortex!Last
<1>3. None \notin Cortex!Values
  BY NoneAssumption
<1>4. Cortex!ByDay(b, t) = IF b # None THEN b ELSE v
  BY <1>1 DEF Cortex!ByDay
<1>6. CASE k \in m.committed /\ m.current[k] # v
  <2>1. m2 = Cortex!Challenged(m, k, v)
    BY <1>6 DEF Cortex!Stated
  <2>2. b # None /\ b # v /\ Cortex!ByDay(b, s) = b /\ Cortex!ByDay(b, t) = b
    BY <1>6, <1>4 DEF MirrorsAt, Cortex!ByDay
  <2>3. m2.known = m.known /\ m2.current = m.current /\ m2.archive = m.archive
        /\ m2.archiveKnown = m.archiveKnown /\ m2.committed = m.committed
    BY <2>1 DEF Cortex!Challenged, Cortex!Memory
  <2>0. /\ m2.challenger = [m.challenger EXCEPT ![k] = v]
        /\ m2.challengerCount =
             [m.challengerCount EXCEPT ![k] = IF m.challenger[k] = v THEN @ + 1 ELSE 1]
    BY <2>1 DEF Cortex!Challenged, Cortex!Memory
  <2>4. /\ m2.challenger[k] = v
        /\ m2.challengerCount[k] = IF m.challenger[k] = v THEN m.challengerCount[k] + 1 ELSE 1
    BY <2>0 DEF Cortex!Memory
  <2>9. \A j \in Cortex!Keys \ {k} : /\ m2.challenger[j] = m.challenger[j]
                              /\ m2.challengerCount[j] = m.challengerCount[j]
    BY <2>0 DEF Cortex!Memory
  <2>10. m2 \in Cortex!Memory
    <3>1. m.challengerCount[k] \in Nat
      BY DEF Cortex!Memory
    <3> DEFINE one == IF m.challenger[k] = v THEN m.challengerCount[k] + 1 ELSE 1
    <3>2. one \in Nat
      BY <3>1
    <3>3. [m.challengerCount EXCEPT ![k] = one] \in [Cortex!Keys -> Nat]
          /\ [m.challenger EXCEPT ![k] = v] \in [Cortex!Keys -> Cortex!Values]
      BY <3>2 DEF Cortex!Memory
    <3> QED BY <2>1, <3>3 DEF Cortex!Challenged, Cortex!Memory
  <2>5. Contest(m, k, s, b) => Contest(m2, k, t, b)
    <3> HIDE DEF m2, t
    <3> QED BY <2>2, <2>4, <1>1 DEF Contest
  <2>6. Cortex!Replaced(Cortex!ByDay(b, s), Cortex!ByDay(b, t), p) = p
    BY <2>2 DEF Cortex!Replaced
  <2>7. MirrorsAt(m2, k, t, b, p)
    BY <2>2, <2>3, <2>5 DEF MirrorsAt
  <2> HIDE DEF m2, t
  <2>8. ASSUME NEW j \in Cortex!Keys \ {k}, NEW s2, NEW b2, NEW p2, MirrorsAt(m, j, s2, b2, p2)
        PROVE MirrorsAt(m2, j, s2, b2, p2)
    <3>1. m2.challenger[j] = m.challenger[j] /\ m2.challengerCount[j] = m.challengerCount[j]
      BY <2>9
    <3> QED BY <2>3, <2>8, <3>1 DEF MirrorsAt, Contest
  <2> QED BY <2>6, <2>7, <2>8, <2>10 DEF m2, t
<1>7. CASE ~(k \in m.committed /\ m.current[k] # v)
  <2>1. m2 = Cortex!Written(m, k, v)
    BY <1>7 DEF Cortex!Stated
  <2>2. Cortex!ByDay(b, t) = v
    BY <1>7, <1>4, <1>3 DEF MirrorsAt, Cortex!ByDay
  <2>3. /\ m2.known = m.known \cup {k} /\ m2.committed = m.committed
        /\ m2.current = [m.current EXCEPT ![k] = v]
        /\ m2.challenger = m.challenger
        /\ m2.challengerCount = [m.challengerCount EXCEPT ![k] = 0]
        /\ m2.archive = [m.archive EXCEPT ![k] =
                           IF k \in m.known /\ m.current[k] # v THEN m.current[k] ELSE @]
        /\ m2.archiveKnown = IF k \in m.known /\ m.current[k] # v
                             THEN m.archiveKnown \cup {k} ELSE m.archiveKnown
    BY <2>1 DEF Cortex!Written, Cortex!Memory
  <2>9. m2 \in Cortex!Memory
    <3> DEFINE old == IF k \in m.known /\ m.current[k] # v THEN m.current[k] ELSE m.archive[k]
               count == IF k \in m.known /\ m.current[k] = v THEN m.commitCount[k] + 1 ELSE 1
    <3>1. old \in Cortex!Values /\ count \in Nat
      BY DEF Cortex!Memory
    <3>2. /\ [m.archive EXCEPT ![k] = old] \in [Cortex!Keys -> Cortex!Values]
          /\ [m.commitCount EXCEPT ![k] = count] \in [Cortex!Keys -> Nat]
          /\ [m.current EXCEPT ![k] = v] \in [Cortex!Keys -> Cortex!Values]
          /\ [m.challengerCount EXCEPT ![k] = 0] \in [Cortex!Keys -> Nat]
          /\ m.known \cup {k} \in SUBSET Cortex!Keys /\ m.archiveKnown \cup {k} \in SUBSET Cortex!Keys
      BY <3>1 DEF Cortex!Memory
    <3>3. m2 = [m EXCEPT !.archive = [m.archive EXCEPT ![k] = old],
                        !.archiveKnown = IF k \in m.known /\ m.current[k] # v
                                         THEN m.archiveKnown \cup {k} ELSE m.archiveKnown,
                        !.commitCount = [m.commitCount EXCEPT ![k] = count],
                        !.current = [m.current EXCEPT ![k] = v],
                        !.known = m.known \cup {k},
                        !.challengerCount = [m.challengerCount EXCEPT ![k] = 0]]
      BY <2>1 DEF Cortex!Written, Cortex!Memory
    <3> HIDE DEF m2, old, count
    <3> QED BY <3>2, <3>3 DEF Cortex!Memory
  <2>4. Contest(m2, k, t, b)
    <3>1. m2.challengerCount[k] = 0
      BY <2>3 DEF Cortex!Memory
    <3>2. b = None \/ Cortex!Last(t) = b
      BY <1>1, <1>4, <2>2
    <3> QED BY <3>1, <3>2 DEF Contest
  <2>5. m2.current[k] = v /\ k \in m2.known
    BY <2>3 DEF Cortex!Memory
  <2>6. Cortex!Replaced(Cortex!ByDay(b, s), v, p) =
          IF k \in m.known /\ m.current[k] # v THEN m.current[k] ELSE p
    BY DEF Cortex!Replaced, MirrorsAt
  <2>7. MirrorsAt(m2, k, t, b, Cortex!Replaced(Cortex!ByDay(b, s), v, p))
    <3>1. k \in m.known /\ m.current[k] # v => m.current[k] \in Cortex!Values
      BY DEF Cortex!Memory
    <3>2. m2.archive[k] = IF k \in m.known /\ m.current[k] # v THEN m.current[k] ELSE m.archive[k]
      BY <2>3 DEF Cortex!Memory
    <3> HIDE DEF m2, t
    <3>3. k \in m2.archiveKnown <=> Cortex!Replaced(Cortex!ByDay(b, s), v, p) # None
      BY <2>3, <2>6, <3>1, <1>3 DEF MirrorsAt
    <3>4. k \in m2.archiveKnown => m2.archive[k] = Cortex!Replaced(Cortex!ByDay(b, s), v, p)
      BY <2>3, <2>6, <3>2 DEF MirrorsAt
    <3> QED BY <2>2, <2>3, <2>4, <2>5, <3>3, <3>4, <1>3 DEF MirrorsAt
  <2> HIDE DEF m2, t
  <2>8. ASSUME NEW j \in Cortex!Keys \ {k}, NEW s2, NEW b2, NEW p2, MirrorsAt(m, j, s2, b2, p2)
        PROVE MirrorsAt(m2, j, s2, b2, p2)
    <3>1. m2.current[j] = m.current[j] /\ m2.archive[j] = m.archive[j]
          /\ m2.challenger[j] = m.challenger[j] /\ m2.challengerCount[j] = m.challengerCount[j]
      BY <2>3 DEF Cortex!Memory
    <3> QED BY <2>3, <2>8, <3>1 DEF MirrorsAt, Contest
  <2> QED BY <2>2, <2>7, <2>8, <2>9 DEF m2, t
<1> QED BY <1>6, <1>7

\* What an event does to the log, and the log to the former values.
SaidAfter(m, e, s) ==
  IF Cortex!States(m, e) THEN [s EXCEPT ![e.key] = Append(@, e.value)] ELSE s
Priors(s, b, s2, p) ==
  [k \in Cortex!Keys |-> Cortex!Replaced(Cortex!ByDay(b[k], s[k]), Cortex!ByDay(b[k], s2[k]), p[k])]

\* An event keeps the mirror.
LEMMA HeardStep ==
  ASSUME NEW m \in Cortex!Memory, NEW e \in Cortex!Event, NEW s, NEW b, NEW p, Mirrors(m, s, b, p)
  PROVE  Mirrors(Cortex!Heard(m, e), SaidAfter(m, e, s), b, Priors(s, b, SaidAfter(m, e, s), p))
<1> DEFINE s2 == SaidAfter(m, e, s)
           p2 == Priors(s, b, s2, p)
<1>0. s2 = (IF Cortex!States(m, e) THEN [s EXCEPT ![e.key] = Append(@, e.value)] ELSE s)
      /\ p2 = [k \in Cortex!Keys |-> Cortex!Replaced(Cortex!ByDay(b[k], s[k]), Cortex!ByDay(b[k], s2[k]), p[k])]
  BY DEF SaidAfter, Priors
<1> SUFFICES Mirrors(Cortex!Heard(m, e), s2, b, p2)
  OBVIOUS
<1> HIDE DEF s2, p2
<1> DEFINE turned == [m EXCEPT !.trusted =
                         IF e.kind = "source_flip" /\ e.hinted THEN @ \cup {e.source} ELSE @]
<1>1. e.key \in Cortex!Keys /\ e.source \in Sources /\ (e.kind # "relate" => e.value \in Cortex!Values)
      /\ (e.kind = "relate" => e.rel \in Cortex!Keys)
  BY DEF Cortex!Event
<1>2. turned \in Cortex!Memory
  BY <1>1 DEF Cortex!Memory
<1>3. \A k \in Cortex!Keys : MirrorsAt(turned, k, s[k], b[k], p[k])
  <2> TAKE k \in Cortex!Keys
  <2>1. MirrorsAt(m, k, s[k], b[k], p[k])
    BY DEF Mirrors
  <2>2. /\ turned.known = m.known /\ turned.current = m.current
        /\ turned.archive = m.archive /\ turned.archiveKnown = m.archiveKnown
        /\ turned.committed = m.committed /\ turned.challenger = m.challenger
        /\ turned.challengerCount = m.challengerCount
    BY DEF Cortex!Memory
  <2> HIDE DEF turned
  <2> QED BY <2>1, <2>2 DEF MirrorsAt, Contest
<1>4. Told(s, b, p)
  BY DEF Mirrors
<1>5. CASE Cortex!States(m, e)
  <2> DEFINE k == e.key
             m2 == Cortex!Stated(turned, k, e.value)
  <2>1. Cortex!Heard(m, e) = m2
    BY <1>5 DEF Cortex!Heard, Cortex!States
  <2>2. k \in Cortex!Keys /\ e.value \in Cortex!Values
    BY <1>1, <1>5 DEF Cortex!States
  <2>3. s[k] \in Seq(Cortex!Values) /\ b[k] \in Cortex!Values \cup {None} /\ p[k] \in Cortex!Values \cup {None}
    BY <1>4, <2>2 DEF Told
  <2>4. s2 = [s EXCEPT ![k] = Append(s[k], e.value)] /\ s2[k] = Append(s[k], e.value)
        /\ s2 \in [Cortex!Keys -> Seq(Cortex!Values)] /\ \A j \in Cortex!Keys \ {k} : s2[j] = s[j]
    BY <1>0, <1>4, <1>5, <2>2, <2>3 DEF Told
  <2> HIDE DEF turned, k
  <2>5. /\ m2 \in Cortex!Memory
        /\ MirrorsAt(m2, k, s2[k], b[k], p2[k])
        /\ \A j \in Cortex!Keys \ {k} : MirrorsAt(m2, j, s[j], b[j], p[j])
    <3>1. p2[k] = Cortex!Replaced(Cortex!ByDay(b[k], s[k]), Cortex!ByDay(b[k], Append(s[k], e.value)), p[k])
      BY <1>0, <2>2, <2>4
    <3> QED BY <1>2, <1>3, <2>2, <2>3, <2>4, <3>1, StatedStep
  <2>6. \A j \in Cortex!Keys \ {k} : p2[j] = p[j]
    BY <1>0, <2>4 DEF Cortex!Replaced
  <2>7. Told(s2, b, p2)
    <3>1. \A j \in Cortex!Keys : p2[j] \in Cortex!Values \cup {None}
      <4> TAKE j \in Cortex!Keys
      <4>1. s[j] \in Seq(Cortex!Values) /\ b[j] \in Cortex!Values \cup {None}
            /\ p[j] \in Cortex!Values \cup {None}
        BY <1>4 DEF Told
      <4>2. Cortex!ByDay(b[j], s[j]) \in Cortex!Values \cup {None}
        BY <1>4, <4>1, <1>3 DEF MirrorsAt, Cortex!ByDay, Cortex!Last
      <4> QED BY <1>0, <2>6, <4>1, <4>2, <2>4 DEF Cortex!Replaced
    <3> QED BY <1>0, <1>4, <2>4, <3>1 DEF Told
  <2> QED BY <2>1, <2>4, <2>5, <2>6, <2>7 DEF Mirrors
<1>6. CASE ~Cortex!States(m, e)
  <2>1. s2 = s /\ p2 = p
    <3>1. s2 = s
      BY <1>0, <1>6
    <3>2. \A k \in Cortex!Keys : p2[k] = p[k]
      BY <1>0, <3>1 DEF Cortex!Replaced
    <3> QED BY <1>0, <3>1, <3>2, <1>4 DEF Told
  <2>2. CASE e.kind = "relate" /\ Cortex!Reliable(m, e)
    <3> DEFINE m2 == [turned EXCEPT !.relation[e.key] = e.rel, !.hasRelation = @ \cup {e.key}]
    <3>1. Cortex!Heard(m, e) = m2
      BY <1>6, <2>2 DEF Cortex!Heard
    <3>2. m2 \in Cortex!Memory
      BY <1>1, <1>2, <2>2 DEF Cortex!Memory
    <3>3. /\ m2.known = turned.known /\ m2.current = turned.current
          /\ m2.archive = turned.archive /\ m2.archiveKnown = turned.archiveKnown
          /\ m2.committed = turned.committed /\ m2.challenger = turned.challenger
          /\ m2.challengerCount = turned.challengerCount
      BY <1>2 DEF Cortex!Memory
    <3> HIDE DEF m2, turned
    <3>4. \A k \in Cortex!Keys : MirrorsAt(m2, k, s[k], b[k], p[k])
      BY <1>3, <3>3 DEF MirrorsAt, Contest
    <3> QED BY <1>4, <2>1, <3>1, <3>2, <3>4 DEF Mirrors
  <2>3. CASE ~(e.kind = "relate" /\ Cortex!Reliable(m, e))
    <3>1. Cortex!Heard(m, e) = turned
      BY <1>6, <2>3 DEF Cortex!Heard
    <3> QED BY <1>2, <1>3, <1>4, <2>1, <3>1 DEF Mirrors
  <2> QED BY <2>2, <2>3
<1> QED BY <1>5, <1>6

\* A night settles every key: what is known is consolidated, no challenge is left.
LEMMA SleptStep ==
  ASSUME NEW m \in Cortex!Memory, NEW s, NEW b, NEW p, NEW b2, NEW p2,
         Mirrors(m, s, b, p),
         b2 = [k \in Cortex!Keys |-> Cortex!ByNight(b[k], s[k])],
         p2 = [k \in Cortex!Keys |-> Cortex!Replaced(Cortex!ByDay(b[k], s[k]), b2[k], p[k])]
  PROVE  Mirrors(Cortex!Slept(m), Cortex!Silence, b2, p2)
<1> DEFINE m2 == Cortex!Slept(m)
           beaten == {k \in m.known : Cortex!Wins(m, k)}
           now == [k \in Cortex!Keys |-> IF k \in beaten THEN m.challenger[k] ELSE m.current[k]]
<1>1. Told(s, b, p) /\ \A k \in Cortex!Keys : MirrorsAt(m, k, s[k], b[k], p[k])
  BY DEF Mirrors
<1>2. m.known \in SUBSET Cortex!Keys /\ beaten \in SUBSET m.known
  BY DEF Cortex!Memory
<1>3. /\ m2.known = m.known /\ m2.current = now
      /\ m2.archive = [k \in Cortex!Keys |-> IF k \in beaten THEN m.current[k] ELSE m.archive[k]]
      /\ m2.archiveKnown = m.archiveKnown \cup beaten
      /\ m2.committed = m.committed \cup m.known
      /\ m2.challengerCount = [k \in Cortex!Keys |-> IF k \in m.known THEN 0 ELSE m.challengerCount[k]]
      /\ m2.challenger = [k \in Cortex!Keys |-> IF k \in m.known THEN now[k] ELSE m.challenger[k]]
  BY DEF Cortex!Slept, Cortex!Memory
<1>4. m2 \in Cortex!Memory
  BY <1>2 DEF Cortex!Slept, Cortex!Memory
<1>5. ASSUME NEW k \in Cortex!Keys
      PROVE  /\ MirrorsAt(m2, k, <<>>, b2[k], p2[k])
             /\ b2[k] \in Cortex!Values \cup {None} /\ p2[k] \in Cortex!Values \cup {None}
  <2>1. /\ MirrorsAt(m, k, s[k], b[k], p[k])
        /\ s[k] \in Seq(Cortex!Values) /\ b[k] \in Cortex!Values \cup {None} /\ p[k] \in Cortex!Values \cup {None}
    BY <1>1 DEF Told
  <2>2. s[k] # <<>> => Cortex!Last(s[k]) \in Cortex!Values
    BY <2>1 DEF Cortex!Last
  <2>3. None \notin Cortex!Values
    BY NoneAssumption
  <2>4. k \in beaten <=> /\ b[k] # None /\ s[k] # <<>> /\ Cortex!Last(s[k]) # b[k]
                         /\ Cortex!Insisted(s[k]) >= M
    <3>1. M >= 1 /\ M \in Nat
      BY CortexNumbers
    <3>2. b[k] # None => k \in m.known /\ m.current[k] = b[k]
      BY <2>1 DEF MirrorsAt, Cortex!ByDay
    <3>3. k \in beaten <=> k \in m.known /\ m.challengerCount[k] >= M
                           /\ m.challenger[k] # m.current[k]
      BY DEF Cortex!Wins
    <3> HIDE DEF beaten
    <3> QED BY <2>1, <3>1, <3>2, <3>3 DEF MirrorsAt, Contest
  <2>5. k \in beaten => m.challenger[k] = Cortex!Last(s[k]) /\ m.current[k] = b[k]
                        /\ Cortex!ByDay(b[k], s[k]) = b[k] /\ b2[k] = Cortex!Last(s[k])
    BY <2>1, <2>4 DEF MirrorsAt, Contest, Cortex!ByDay, Cortex!ByNight
  <2>6. k \notin beaten => b2[k] = Cortex!ByDay(b[k], s[k])
    BY <2>4 DEF Cortex!ByNight
  <2>7. Cortex!ByDay(b2[k], <<>>) = b2[k]
    BY DEF Cortex!ByDay
  <2>8. m2.current[k] = (IF k \in beaten THEN m.challenger[k] ELSE m.current[k])
        /\ m2.archive[k] = (IF k \in beaten THEN m.current[k] ELSE m.archive[k])
        /\ m2.challengerCount[k] = (IF k \in m.known THEN 0 ELSE m.challengerCount[k])
    BY <1>3
  <2> HIDE DEF m2, beaten, now
  <2>9. (k \in m2.known <=> b2[k] # None) /\ (k \in m2.known => m2.current[k] = b2[k])
    BY <1>2, <1>3, <2>1, <2>2, <2>3, <2>4, <2>5, <2>6, <2>8 DEF MirrorsAt
  <2>10. p2[k] = IF k \in beaten THEN m.current[k] ELSE p[k]
    BY <2>4, <2>5, <2>6 DEF Cortex!Replaced
  <2>11. k \in beaten => m.current[k] \in Cortex!Values
    BY DEF Cortex!Memory
  <2>12. (k \in m2.archiveKnown <=> p2[k] # None)
         /\ (k \in m2.archiveKnown => m2.archive[k] = p2[k])
    BY <1>3, <2>1, <2>3, <2>8, <2>10, <2>11 DEF MirrorsAt
  <2>13. k \in m2.committed <=> b2[k] # None
    BY <1>3, <2>1, <2>9, <2>5, <2>4, <2>6 DEF MirrorsAt, Cortex!ByDay
  <2>14. Contest(m2, k, <<>>, b2[k])
    <3>1. k \notin m.known => m.challengerCount[k] = 0
      BY <2>1 DEF MirrorsAt, Contest, Cortex!ByDay
    <3> QED BY <2>8, <3>1 DEF Contest
  <2>15. Cortex!ByDay(b[k], s[k]) \in Cortex!Values \cup {None}
    BY <2>1, <2>2 DEF Cortex!ByDay
  <2> QED BY <2>2, <2>1, <2>4, <2>5, <2>6, <2>7, <2>9, <2>10, <2>11, <2>12, <2>13, <2>14, <2>15
          DEF MirrorsAt
<1>6. Told(Cortex!Silence, b2, p2)
  BY <1>5 DEF Told, Cortex!Silence
<1> HIDE DEF m2
<1> QED BY <1>4, <1>5, <1>6 DEF Mirrors, Cortex!Silence, m2

LEMMA BlankMirrors == Mirrors(Cortex!Blank, Cortex!Silence, Cortex!Nobody, Cortex!Nobody)
<1>1. Cortex!Blank \in Cortex!Memory
  BY CortexNumbers DEF Cortex!Blank, Cortex!Memory, Cortex!Keys, Cortex!Values
<1>2. Told(Cortex!Silence, Cortex!Nobody, Cortex!Nobody)
  BY DEF Told, Cortex!Silence, Cortex!Nobody
<1>3. ASSUME NEW k \in Cortex!Keys PROVE MirrorsAt(Cortex!Blank, k, Cortex!Silence[k], Cortex!Nobody[k], Cortex!Nobody[k])
  BY <1>3 DEF MirrorsAt, Cortex!Blank, Cortex!Silence, Cortex!Nobody, Cortex!ByDay, Contest
<1> QED BY <1>1, <1>2, <1>3 DEF Mirrors

LEMMA CortexInitStep == Cortex!Init => CortexInv
  BY BlankMirrors, NoneAssumption, CortexNumbers
     DEF Cortex!Init, CortexInv, Cortex!TypeOK, Cortex!Awake, Cortex!Fresh, Mirrors

LEMMA CortexNextStep == CortexInv /\ [Cortex!Next]_(Cortex!vars) => CortexInv'
<1> SUFFICES ASSUME CortexInv, [Cortex!Next]_(Cortex!vars) PROVE CortexInv'
  OBVIOUS
<1>1. Cortex!TypeOK /\ Mirrors(disk, onDisk.said, onDisk.belief, onDisk.before)
      /\ (Cortex!Awake => Mirrors(cortex, said, belief, before))
      /\ (~Cortex!Awake => cortex = Cortex!Blank /\ Mirrors(saved, said, belief, before))
  BY DEF CortexInv
<1>2. events \in Nat /\ nights \in Nat /\ MaxEvents \in Nat /\ MaxNights \in Nat
  BY <1>1, CortexNumbers DEF Cortex!TypeOK
<1>3. None \notin Cortex!Memory
  BY NoneAssumption
<1>4. ASSUME NEW e \in Cortex!Event, Cortex!Hear(e) PROVE CortexInv'
  <2>1. Cortex!Awake /\ cortex' = Cortex!Heard(cortex, e) /\ saved' = saved /\ disk' = disk /\ onDisk' = onDisk
        /\ belief' = belief /\ nights' = nights /\ events' \in 0..MaxEvents
    BY <1>2, <1>4, <1>1 DEF Cortex!Hear, Cortex!TypeOK
  <2>2. before' = [k \in Cortex!Keys |-> Cortex!Replaced(Cortex!ByDay(belief[k], said[k]),
                                           Cortex!ByDay(belief[k], said'[k]), before[k])]
    BY <1>4 DEF Cortex!Hear, Cortex!Holds
  <2>3. said' = IF Cortex!States(cortex, e) THEN [said EXCEPT ![e.key] = Append(@, e.value)] ELSE said
    BY <1>4 DEF Cortex!Hear
  <2>4. Mirrors(cortex', said', belief', before')
    <3>1. cortex \in Cortex!Memory /\ Mirrors(cortex, said, belief, before)
      BY <1>1, <2>1 DEF Mirrors
    <3>2. Mirrors(Cortex!Heard(cortex, e), said', belief, before')
      <4>1. said' = SaidAfter(cortex, e, said)
        BY <2>3 DEF SaidAfter
      <4>2. before' = Priors(said, belief, said', before)
        BY <2>1, <2>2 DEF Priors
      <4> QED BY <3>1, <4>1, <4>2, HeardStep
    <3> QED BY <2>1, <3>2
  <2> QED BY <1>1, <1>3, <2>1, <2>4 DEF CortexInv, Cortex!TypeOK, Cortex!Awake, Mirrors, Told,
     MirrorsAt, Contest
<1>5. CASE Cortex!Sleep
  <2>1. Cortex!Awake /\ cortex' = Cortex!Slept(cortex) /\ saved' = saved /\ disk' = disk /\ onDisk' = onDisk
        /\ said' = Cortex!Silence /\ events' = events /\ nights' \in 0..MaxNights
    BY <1>2, <1>5, <1>1 DEF Cortex!Sleep, Cortex!TypeOK
  <2>2. belief' = [k \in Cortex!Keys |-> Cortex!ByNight(belief[k], said[k])]
        /\ before' = [k \in Cortex!Keys |-> Cortex!Replaced(Cortex!ByDay(belief[k], said[k]), belief'[k], before[k])]
    BY <1>5 DEF Cortex!Sleep, Cortex!Holds
  <2>3. Mirrors(cortex', said', belief', before')
    BY <1>1, <2>1, <2>2, SleptStep DEF Cortex!TypeOK
  <2> QED BY <1>1, <1>3, <2>1, <2>3 DEF CortexInv, Cortex!TypeOK, Cortex!Awake, Mirrors
<1>6. CASE Cortex!Clear
  BY <1>1, <1>2, <1>3, <1>6, BlankMirrors DEF Cortex!Clear, CortexInv, Cortex!TypeOK,
     Cortex!Awake, Mirrors
<1>7. CASE Cortex!Checkpoint
  BY <1>1, <1>2, <1>3, <1>7 DEF Cortex!Checkpoint, CortexInv, Cortex!TypeOK, Cortex!Awake,
     Mirrors, Cortex!history
<1>8. CASE Cortex!Restart
  BY <1>1, <1>2, <1>3, <1>8 DEF Cortex!Restart, CortexInv, Cortex!TypeOK, Cortex!Awake, Mirrors
<1>9. CASE Cortex!Disable
  BY <1>1, <1>2, <1>3, <1>9, BlankMirrors DEF Cortex!Disable, CortexInv, Cortex!TypeOK,
     Cortex!Awake, Mirrors, Cortex!history
<1>10. CASE Cortex!Enable
  BY <1>1, <1>2, <1>3, <1>10, BlankMirrors DEF Cortex!Enable, CortexInv, Cortex!TypeOK,
     Cortex!Awake, Mirrors, Cortex!history
<1>11. CASE UNCHANGED Cortex!vars
  BY <1>1, <1>11 DEF Cortex!vars, CortexInv, Cortex!TypeOK, Cortex!Awake, Mirrors
<1> QED BY <1>4, <1>5, <1>6, <1>7, <1>8, <1>9, <1>10, <1>11 DEF Cortex!Next

\* The memory, awake or put aside, and the checkpoint each mirror a log of what
\* was reliably said.
THEOREM CortexInvariance == Cortex!Spec => []CortexInv
<1> QED BY CortexInitStep, CortexNextStep, PTL DEF Cortex!Spec

\* What is remembered, and what each night replaces, is what the log of reliable
\* statements makes of it (v99_source.py:2003-2057, 2119-2183), for any number of
\* keys, values and repetitions a revision takes.
THEOREM FollowsTheLog == Cortex!Spec => []MemoryFollowsTheLog
<1>1. CortexInv => Cortex!MemoryFollowsTheLog
  BY DEF CortexInv, Mirrors, MirrorsAt, Cortex!MemoryFollowsTheLog, Cortex!Holds
<1> QED BY <1>1, CortexInvariance, PTL DEF MemoryFollowsTheLog

\* Every query (v99_source.py:1531-1574) is answered with a value reliably stated
\* of the key it reads, or with UNKNOWN.
THEOREM Answers == Cortex!Spec => []AnswersAreGrounded
<1>1. CortexInv => Cortex!AnswersAreGrounded
  <2> SUFFICES ASSUME CortexInv, NEW k \in Cortex!Keys
               PROVE /\ Cortex!Answer(cortex, k, k) = Cortex!Grounded(k)
                     /\ Cortex!Answer(cortex, k, Cortex!NextKey(k)) =
                          Cortex!Grounded(IF k \in cortex.hasRelation THEN cortex.relation[k] ELSE k)
                     /\ Cortex!ArchiveAnswer(cortex, k) =
                          IF Cortex!Awake /\ before[k] # None THEN before[k] ELSE Cortex!Grounded(k)
    BY DEF Cortex!AnswersAreGrounded
  <2>1. cortex \in Cortex!Memory /\ (k \in cortex.hasRelation => cortex.relation[k] \in Cortex!Keys)
    BY DEF CortexInv, Cortex!TypeOK, Cortex!Memory
  <2>2. Cortex!NextKey(k) \in Cortex!Keys
    BY CortexNumbers DEF Cortex!NextKey, Cortex!Keys
  <2>3. Cortex!NextKey(k) = k => Cortex!Keys = {k}
    <3>1. k \in 0..NKeys-1 /\ NKeys \in Nat \ {0}
      BY CortexNumbers DEF Cortex!Keys
    <3>2. k + 1 < NKeys => (k + 1) % NKeys = k + 1
      BY <3>1
    <3>3. k + 1 = NKeys => (k + 1) % NKeys = 0
      BY <3>1
    <3>4. Cortex!NextKey(k) = k => NKeys = 1 /\ k = 0
      BY <3>1, <3>2, <3>3 DEF Cortex!NextKey
    <3> QED BY <3>1, <3>4 DEF Cortex!Keys
  <2> DEFINE r == IF k \in cortex.hasRelation THEN cortex.relation[k] ELSE k
  <2>4. Cortex!ReadKey(cortex, k, k) = k /\ Cortex!ReadKey(cortex, k, Cortex!NextKey(k)) = r
    BY <2>1, <2>3 DEF Cortex!ReadKey
  <2>5. r \in Cortex!Keys
    BY <2>1
  <2>6. \A j \in Cortex!Keys : (IF j \in cortex.known THEN cortex.current[j] ELSE Unknown) = Cortex!Grounded(j)
    BY DEF CortexInv, Mirrors, MirrorsAt, Cortex!Holds, Cortex!Grounded, Cortex!Blank
  <2>7. Cortex!Answer(cortex, k, k) = Cortex!Grounded(k) /\ Cortex!Answer(cortex, k, Cortex!NextKey(k)) = Cortex!Grounded(r)
    BY <2>4, <2>5, <2>6 DEF Cortex!Answer
  <2>8. Cortex!ArchiveAnswer(cortex, k) =
          IF Cortex!Awake /\ before[k] # None THEN before[k] ELSE Cortex!Grounded(k)
    BY DEF CortexInv, Mirrors, MirrorsAt, Cortex!Holds, Cortex!Grounded, Cortex!Blank,
       Cortex!ArchiveAnswer
  <2> QED BY <2>7, <2>8
<1> QED BY <1>1, CortexInvariance, PTL DEF AnswersAreGrounded

-----------------------------------------------------------------------------
\* The episodes the cortex is trained on.

\* The two books of an episode after n steps: they agree, up to what is archived
\* of a value that never changed, ...
Same(w, c) ==
  /\ c.known = w.known /\ w.archived = w.known /\ c.archived \subseteq c.known
  /\ c.current = w.current /\ c.contested = w.contested
  /\ c.related = w.related /\ c.relation = w.relation
Older(w, c) ==
  \A k \in c.known : w.archive[k] = IF k \in c.archived THEN c.archive[k] ELSE c.current[k]

\* ... and hold what the steps so far have put there.
Known(w, n, s) ==
  w.known = (IF n > 0 THEN {s.main} ELSE {}) \cup (IF n > 1 THEN {s.aux} ELSE {})
Linked(w, n, s) ==
  /\ w.related = IF n > Episode!RelationStep(s) THEN {s.main} ELSE {}
  /\ \A k \in Episode!Keys : w.relation[k] = IF k \in w.related THEN s.aux ELSE k
Unrevised(c, n, s) ==
  /\ n <= s.flip + 1 => s.main \notin c.archived
  /\ n <= Episode!ShiftStep(s) => s.aux \notin c.archived

Books(w, c, n, s) ==
  Same(w, c) /\ Older(w, c) /\ Known(w, n, s) /\ Linked(w, n, s) /\ Unrevised(c, n, s)

\* What an event of an episode can be, by its kind.
RowFits(e, n, s) ==
  /\ e.ev \in {"query", "archive_query"} =>
       e.key = s.main /\ e.role = "good" /\ e.rel = 0 /\ n > 1
  /\ e.ev \in {"conflict", "rule_flip"} => e.role = "bad"
  /\ e.ev = "relate" => e.key = s.main /\ e.rel = s.aux /\ e.role = "good" /\ n = Episode!RelationStep(s)

EpisodeInv ==
  /\ Episode!TypeOK
  /\ Books(world, core, step, script)
  /\ step > 0 => RowFits(row, step - 1, script)

\* The order of an episode: what an event may be at its step.
Fits(e, n, s) ==
  \/ n = 0 /\ e = Episode!Event("observe", s.main, s.a, "good")
  \/ n = 1 /\ e = Episode!Event("observe", s.aux, s.b, "good")
  \/ /\ n > 1 /\ n = Episode!RelationStep(s)
     /\ e = [Episode!Event("relate", s.main, s.a, "good") EXCEPT !.rel = s.aux]
  \/ n > 1 /\ n # Episode!RelationStep(s) /\ n # s.flip + 1 /\ n # Episode!ShiftStep(s)
       /\ \/ e = Episode!Event("rule_flip", s.main, s.b, "bad")
          \/ \E v \in Episode!Values : e = Episode!Event("conflict", s.main, v, "bad")
          \/ e = Episode!Event("archive_query", s.main, world.archive[s.main], "good")
          \/ e = Episode!Event("query", s.main, world.current[s.main], "good")
          \/ e = Episode!Event("observe", s.aux, world.current[s.aux], "good")
          \/ \E k \in Episode!Keys, role \in Episode!Roles : e = Episode!Event("idle", k, 0, role)
  \/ n > 1 /\ n # Episode!RelationStep(s) /\ n = s.flip + 1 /\ e = Episode!Event("correct", s.main, s.c, "good")
  \/ n > 1 /\ n # Episode!RelationStep(s) /\ n # s.flip + 1 /\ n = Episode!ShiftStep(s)
       /\ e = Episode!Event("source_flip", s.aux, s.c, IF s.ood THEN "good" ELSE "bad")

LEMMA ScriptType ==
  ASSUME NEW s \in Episode!Scripts
  PROVE  /\ s.main \in Episode!Keys /\ s.aux \in Episode!Keys /\ s.main # s.aux
         /\ s.a \in Episode!Values /\ s.b \in Episode!Values /\ s.c \in Episode!Values /\ s.ood \in BOOLEAN
         /\ s.flip \in Nat /\ s.flip >= 4 /\ s.lag \in 1..3 /\ s.wait \in 3..5
         /\ 0 \in Episode!Keys /\ 0 \in Episode!Values
         /\ Episode!RelationStep(s) > 1 /\ Episode!RelationStep(s) < s.flip /\ Episode!RelationStep(s) \in Nat
         /\ Episode!ShiftStep(s) > s.flip /\ Episode!ShiftStep(s) \in Nat
<1>1. T \div 3 \in Nat /\ T \div 3 >= 4
  BY EpisodeNumbers
<1>2. /\ s.main \in Episode!Keys /\ s.aux \in Episode!Keys /\ s.main # s.aux
      /\ s.a \in Episode!Values /\ s.b \in Episode!Values /\ s.c \in Episode!Values /\ s.ood \in BOOLEAN
      /\ s.flip \in T \div 3 .. T \div 3 + 3 /\ s.lag \in 1..3 /\ s.wait \in 3..5
  BY DEF Episode!Scripts
<1>3. s.flip \in Nat /\ s.flip >= 4
  BY <1>1, <1>2
<1>4. 0 \in Episode!Keys /\ 0 \in Episode!Values
  BY <1>2, EpisodeNumbers DEF Episode!Keys, Episode!Values
<1> QED BY <1>2, <1>3, <1>4 DEF Episode!RelationStep, Episode!ShiftStep

LEMMA ScriptedFits ==
  ASSUME NEW s \in Episode!Scripts, NEW n \in 0..T, world \in Episode!Book, NEW e \in Episode!Scripted(s, n)
  PROVE  Fits(e, n, s)
<1>1. /\ s.main \in Episode!Keys /\ s.aux \in Episode!Keys /\ s.flip \in Nat /\ s.flip >= 4 /\ n \in Nat
      /\ Episode!RelationStep(s) > 1 /\ Episode!RelationStep(s) < s.flip /\ Episode!RelationStep(s) \in Nat
      /\ Episode!ShiftStep(s) > s.flip /\ Episode!ShiftStep(s) \in Nat
  BY ScriptType, EpisodeNumbers
<1>2. CASE n = 0
  BY <1>2 DEF Episode!Scripted, Fits
<1>3. CASE n = 1
  BY <1>3 DEF Episode!Scripted, Fits
<1>4. CASE n > 1
  <2>1. CASE n = Episode!RelationStep(s)
    BY <1>4, <2>1, <1>1 DEF Episode!Scripted, Fits
  <2>2. CASE n # Episode!RelationStep(s) /\ n = s.flip
    BY <1>4, <2>2, <1>1 DEF Episode!Scripted, Fits
  <2>3. CASE n # Episode!RelationStep(s) /\ n = s.flip + 1
    BY <1>4, <2>3, <1>1 DEF Episode!Scripted, Fits
  <2>4. CASE n # Episode!RelationStep(s) /\ n # s.flip + 1 /\ n = Episode!ShiftStep(s)
    BY <1>4, <2>4, <1>1 DEF Episode!Scripted, Fits
  <2>5. CASE n # s.flip /\ n # Episode!RelationStep(s) /\ n # s.flip + 1 /\ n # Episode!ShiftStep(s)
    <3>1. (world.current[s.main] + 1) % WorldValues \in Episode!Values
      BY <1>1, EpisodeNumbers DEF Episode!Book, Episode!Values
    <3> QED BY <1>4, <2>5, <3>1 DEF Episode!Scripted, Fits
  <2> QED BY <2>1, <2>2, <2>3, <2>4, <2>5
<1> QED BY <1>1, <1>2, <1>3, <1>4

\* What an event does to the books, field by field.
WorldWrites(e, s) == e.ev \in {"observe", "correct"} \/ (e.ev = "source_flip" /\ s.ood)
WorldKeeps(b, e) ==
  IF e.ev = "correct" THEN b.current[e.key]
  ELSE IF e.ev = "observe" /\ e.key \notin b.archived THEN e.value ELSE b.archive[e.key]
CoreWrites(e) == e.ev \in {"observe", "correct", "source_flip"} /\ Episode!Reliable(e)

LEMMA WorldFields ==
  ASSUME NEW b \in Episode!Book, NEW e \in Episode!Row, NEW s \in Episode!Scripts
  PROVE  LET new == Episode!WorldAfter(b, e, s) IN
            /\ new \in Episode!Book
            /\ new.known = IF WorldWrites(e, s) THEN b.known \cup {e.key} ELSE b.known
            /\ new.current = IF WorldWrites(e, s) THEN [b.current EXCEPT ![e.key] = e.value]
                             ELSE b.current
            /\ new.archived = IF (e.ev = "observe" /\ e.key \notin b.archived) \/ e.ev = "correct"
                              THEN b.archived \cup {e.key} ELSE b.archived
            /\ new.archive = [b.archive EXCEPT ![e.key] = WorldKeeps(b, e)]
            /\ new.relation = IF e.ev = "relate" THEN [b.relation EXCEPT ![e.key] = e.rel]
                              ELSE b.relation
            /\ new.related = IF e.ev = "relate" THEN b.related \cup {e.key} ELSE b.related
            /\ new.contested = Episode!Contested(b, e)
<1> DEFINE keeps == e.ev = "observe" /\ e.key \notin b.archived
           old == WorldKeeps(b, e)
           held == IF WorldWrites(e, s) THEN [b.current EXCEPT ![e.key] = e.value] ELSE b.current
           rel == IF e.ev = "relate" THEN [b.relation EXCEPT ![e.key] = e.rel] ELSE b.relation
<1>1. e.key \in Episode!Keys /\ e.value \in Episode!Values /\ e.rel \in Episode!Keys
  BY DEF Episode!Row
<1>2. /\ [b.archive EXCEPT ![e.key] = old] \in [Episode!Keys -> Episode!Values]
      /\ held \in [Episode!Keys -> Episode!Values] /\ rel \in [Episode!Keys -> Episode!Keys]
      /\ Episode!Contested(b, e) \in SUBSET Episode!Keys
      /\ b.known \cup {e.key} \in SUBSET Episode!Keys /\ b.archived \cup {e.key} \in SUBSET Episode!Keys
      /\ b.related \cup {e.key} \in SUBSET Episode!Keys
  BY <1>1 DEF Episode!Book, Episode!Contested, WorldKeeps
<1>3. (WorldWrites(e, s) => held = [b.current EXCEPT ![e.key] = e.value])
      /\ (~WorldWrites(e, s) => held = [b.current EXCEPT ![e.key] = b.current[e.key]])
      /\ (e.ev = "relate" => rel = [b.relation EXCEPT ![e.key] = e.rel])
      /\ (e.ev # "relate" => rel = [b.relation EXCEPT ![e.key] = b.relation[e.key]])
  BY <1>1 DEF Episode!Book
<1>4. Episode!WorldAfter(b, e, s) =
        [b EXCEPT !.archive = [b.archive EXCEPT ![e.key] = old],
                  !.archived = IF keeps \/ e.ev = "correct" THEN b.archived \cup {e.key}
                               ELSE b.archived,
                  !.current = held,
                  !.known = IF WorldWrites(e, s) THEN b.known \cup {e.key} ELSE b.known,
                  !.relation = rel,
                  !.related = IF e.ev = "relate" THEN b.related \cup {e.key} ELSE b.related,
                  !.contested = Episode!Contested(b, e)]
  BY <1>1, <1>3 DEF Episode!WorldAfter, WorldWrites, WorldKeeps, Episode!Book
<1> HIDE DEF held, rel, old
<1>5. Episode!WorldAfter(b, e, s) \in Episode!Book
  BY <1>1, <1>2, <1>4 DEF Episode!Book
<1> QED BY <1>4, <1>5 DEF held, rel, old, Episode!Book

LEMMA CoreFields ==
  ASSUME NEW b \in Episode!Book, NEW e \in Episode!Row
  PROVE  LET new == Episode!CoreAfter(b, e)
             changes == CoreWrites(e) /\ e.key \in b.known /\ b.current[e.key] # e.value
             relates == e.ev = "relate" /\ Episode!Reliable(e)
         IN /\ new \in Episode!Book
            /\ new.known = IF CoreWrites(e) THEN b.known \cup {e.key} ELSE b.known
            /\ new.current = IF CoreWrites(e) THEN [b.current EXCEPT ![e.key] = e.value]
                             ELSE b.current
            /\ new.archived = IF changes THEN b.archived \cup {e.key} ELSE b.archived
            /\ new.archive = IF changes THEN [b.archive EXCEPT ![e.key] = b.current[e.key]]
                             ELSE b.archive
            /\ new.relation = IF relates THEN [b.relation EXCEPT ![e.key] = e.rel]
                              ELSE b.relation
            /\ new.related = IF relates THEN b.related \cup {e.key} ELSE b.related
            /\ new.contested = Episode!Contested(b, e)
<1> DEFINE changes == CoreWrites(e) /\ e.key \in b.known /\ b.current[e.key] # e.value
           relates == e.ev = "relate" /\ Episode!Reliable(e)
           arc == IF changes THEN [b.archive EXCEPT ![e.key] = b.current[e.key]] ELSE b.archive
           held == IF CoreWrites(e) THEN [b.current EXCEPT ![e.key] = e.value] ELSE b.current
           rel == IF relates THEN [b.relation EXCEPT ![e.key] = e.rel] ELSE b.relation
<1>1. e.key \in Episode!Keys /\ e.value \in Episode!Values /\ e.rel \in Episode!Keys
  BY DEF Episode!Row
<1>2. /\ arc \in [Episode!Keys -> Episode!Values] /\ held \in [Episode!Keys -> Episode!Values] /\ rel \in [Episode!Keys -> Episode!Keys]
      /\ Episode!Contested(b, e) \in SUBSET Episode!Keys
      /\ b.known \cup {e.key} \in SUBSET Episode!Keys /\ b.archived \cup {e.key} \in SUBSET Episode!Keys
      /\ b.related \cup {e.key} \in SUBSET Episode!Keys
  BY <1>1 DEF Episode!Book, Episode!Contested
<1>3. (CoreWrites(e) => held = [b.current EXCEPT ![e.key] = e.value])
      /\ (~CoreWrites(e) => held = [b.current EXCEPT ![e.key] = b.current[e.key]])
      /\ (relates => rel = [b.relation EXCEPT ![e.key] = e.rel])
      /\ (~relates => rel = [b.relation EXCEPT ![e.key] = b.relation[e.key]])
      /\ (changes => arc = [b.archive EXCEPT ![e.key] = b.current[e.key]])
      /\ (~changes => arc = [b.archive EXCEPT ![e.key] = b.archive[e.key]])
  BY <1>1 DEF Episode!Book
<1>4. Episode!CoreAfter(b, e) =
        [b EXCEPT !.archive = arc,
                  !.archived = IF changes THEN b.archived \cup {e.key} ELSE b.archived,
                  !.current = held,
                  !.known = IF CoreWrites(e) THEN b.known \cup {e.key} ELSE b.known,
                  !.relation = rel,
                  !.related = IF relates THEN b.related \cup {e.key} ELSE b.related,
                  !.contested = Episode!Contested(b, e)]
  BY <1>1, <1>3 DEF Episode!CoreAfter, CoreWrites, Episode!Book
<1> HIDE DEF held, rel, arc
<1>5. Episode!CoreAfter(b, e) \in Episode!Book
  BY <1>1, <1>2, <1>4 DEF Episode!Book
<1> QED BY <1>4, <1>5 DEF held, rel, arc, Episode!Book

\* A step keeps the two books alike.
LEMMA BooksStep ==
  ASSUME NEW s \in Episode!Scripts, NEW n \in 0..T, world \in Episode!Book, core \in Episode!Book,
         Books(world, core, n, s), NEW e, Fits(e, n, s)
  PROVE  /\ e \in Episode!Row
         /\ RowFits(e, n, s)
         /\ Episode!WorldAfter(world, e, s) \in Episode!Book /\ Episode!CoreAfter(core, e) \in Episode!Book
         /\ Books(Episode!WorldAfter(world, e, s), Episode!CoreAfter(core, e), n + 1, s)
<1> DEFINE w == Episode!WorldAfter(world, e, s)
           c == Episode!CoreAfter(core, e)
<1>1. /\ s.main \in Episode!Keys /\ s.aux \in Episode!Keys /\ s.main # s.aux
      /\ s.a \in Episode!Values /\ s.b \in Episode!Values /\ s.c \in Episode!Values /\ s.ood \in BOOLEAN
      /\ s.flip \in Nat /\ s.flip >= 4 /\ n \in Nat /\ 0 \in Episode!Keys /\ 0 \in Episode!Values
      /\ Episode!RelationStep(s) > 1 /\ Episode!RelationStep(s) < s.flip /\ Episode!RelationStep(s) \in Nat
      /\ Episode!ShiftStep(s) > s.flip /\ Episode!ShiftStep(s) \in Nat
  BY ScriptType, EpisodeNumbers
<1>2. world.current \in [Episode!Keys -> Episode!Values] /\ world.archive \in [Episode!Keys -> Episode!Values]
      /\ core.current \in [Episode!Keys -> Episode!Values] /\ core.archive \in [Episode!Keys -> Episode!Values]
      /\ world.relation \in [Episode!Keys -> Episode!Keys]
  BY DEF Episode!Book
<1>3. e \in Episode!Row /\ RowFits(e, n, s)
  BY <1>1, <1>2 DEF Fits, Episode!Event, Episode!Row, Episode!Events, Episode!Roles, RowFits
<1>4. w \in Episode!Book /\ c \in Episode!Book
  BY <1>3, WorldFields, CoreFields
<1>5. /\ w.known = IF WorldWrites(e, s) THEN world.known \cup {e.key} ELSE world.known
      /\ w.current = IF WorldWrites(e, s) THEN [world.current EXCEPT ![e.key] = e.value]
                     ELSE world.current
      /\ w.archived = IF (e.ev = "observe" /\ e.key \notin world.archived) \/ e.ev = "correct"
                      THEN world.archived \cup {e.key} ELSE world.archived
      /\ w.archive = [world.archive EXCEPT ![e.key] = WorldKeeps(world, e)]
      /\ w.relation = IF e.ev = "relate" THEN [world.relation EXCEPT ![e.key] = e.rel]
                      ELSE world.relation
      /\ w.related = IF e.ev = "relate" THEN world.related \cup {e.key} ELSE world.related
      /\ w.contested = Episode!Contested(world, e)
  BY <1>3, WorldFields
<1>6. /\ c.known = IF CoreWrites(e) THEN core.known \cup {e.key} ELSE core.known
      /\ c.current = IF CoreWrites(e) THEN [core.current EXCEPT ![e.key] = e.value]
                     ELSE core.current
      /\ c.archived = IF CoreWrites(e) /\ e.key \in core.known /\ core.current[e.key] # e.value
                      THEN core.archived \cup {e.key} ELSE core.archived
      /\ c.archive = IF CoreWrites(e) /\ e.key \in core.known /\ core.current[e.key] # e.value
                     THEN [core.archive EXCEPT ![e.key] = core.current[e.key]] ELSE core.archive
      /\ c.relation = IF e.ev = "relate" /\ Episode!Reliable(e)
                      THEN [core.relation EXCEPT ![e.key] = e.rel] ELSE core.relation
      /\ c.related = IF e.ev = "relate" /\ Episode!Reliable(e) THEN core.related \cup {e.key}
                     ELSE core.related
      /\ c.contested = Episode!Contested(core, e)
  BY <1>3, CoreFields
<1>7. w.contested = c.contested
  BY <1>5, <1>6 DEF Episode!Contested, Books, Same
<1> SUFFICES Books(w, c, n + 1, s)
  BY <1>3, <1>4
<1> HIDE DEF w, c
<1>8. CASE n = 0 /\ e = Episode!Event("observe", s.main, s.a, "good")
  <2>0. n = 0
    BY <1>8
  <2>1. e.ev = "observe" /\ e.key = s.main /\ e.value = s.a /\ WorldWrites(e, s) /\ CoreWrites(e)
    BY <1>8 DEF Episode!Event, WorldWrites, CoreWrites, Episode!Reliable
  <2>2. Same(w, c)
    BY <1>1, <1>2, <1>5, <1>6, <2>0, <2>1, <1>7 DEF Books, Same, Known
  <2>3. Older(w, c)
    BY <1>1, <1>2, <1>5, <1>6, <2>0, <2>1 DEF Books, Same, Older, Known, Unrevised, WorldKeeps
  <2>4. Known(w, n + 1, s)
    BY <1>1, <1>2, <1>5, <1>6, <2>0, <2>1 DEF Books, Known
  <2>5. Linked(w, n + 1, s)
    BY <1>1, <1>2, <1>5, <1>6, <2>0, <2>1 DEF Books, Linked
  <2>6. Unrevised(c, n + 1, s)
    BY <1>1, <1>2, <1>5, <1>6, <2>0, <2>1 DEF Books, Same, Known, Unrevised
  <2> QED BY <2>2, <2>3, <2>4, <2>5, <2>6 DEF Books
<1>9. CASE n = 1 /\ e = Episode!Event("observe", s.aux, s.b, "good")
  <2>0. n = 1
    BY <1>9
  <2>1. e.ev = "observe" /\ e.key = s.aux /\ e.value = s.b /\ WorldWrites(e, s) /\ CoreWrites(e)
    BY <1>9 DEF Episode!Event, WorldWrites, CoreWrites, Episode!Reliable
  <2>2. Same(w, c)
    BY <1>1, <1>2, <1>5, <1>6, <2>0, <2>1, <1>7 DEF Books, Same, Known
  <2>3. Older(w, c)
    BY <1>1, <1>2, <1>5, <1>6, <2>0, <2>1 DEF Books, Same, Older, Known, Unrevised, WorldKeeps
  <2>4. Known(w, n + 1, s)
    BY <1>1, <1>2, <1>5, <1>6, <2>0, <2>1 DEF Books, Known
  <2>5. Linked(w, n + 1, s)
    BY <1>1, <1>2, <1>5, <1>6, <2>0, <2>1 DEF Books, Linked
  <2>6. Unrevised(c, n + 1, s)
    BY <1>1, <1>2, <1>5, <1>6, <2>0, <2>1 DEF Books, Same, Known, Unrevised
  <2> QED BY <2>2, <2>3, <2>4, <2>5, <2>6 DEF Books
<1>10. CASE /\ n > 1 /\ n = Episode!RelationStep(s)
            /\ e = [Episode!Event("relate", s.main, s.a, "good") EXCEPT !.rel = s.aux]
  <2>0. n > 1 /\ n = Episode!RelationStep(s)
    BY <1>10
  <2>1. e.ev = "relate" /\ e.key = s.main /\ e.rel = s.aux /\ ~WorldWrites(e, s)
        /\ ~CoreWrites(e) /\ Episode!Reliable(e)
    BY <1>10 DEF Episode!Event, WorldWrites, CoreWrites, Episode!Reliable
  <2>2. Same(w, c)
    BY <1>1, <1>2, <1>5, <1>6, <2>0, <2>1, <1>7 DEF Books, Same, Known
  <2>3. Older(w, c)
    BY <1>1, <1>2, <1>5, <1>6, <2>0, <2>1 DEF Books, Same, Older, Known, Unrevised, WorldKeeps
  <2>4. Known(w, n + 1, s)
    BY <1>1, <1>2, <1>5, <1>6, <2>0, <2>1 DEF Books, Known
  <2>5. Linked(w, n + 1, s)
    BY <1>1, <1>2, <1>5, <1>6, <2>0, <2>1 DEF Books, Linked
  <2>6. Unrevised(c, n + 1, s)
    BY <1>1, <1>2, <1>5, <1>6, <2>0, <2>1 DEF Books, Same, Known, Unrevised
  <2> QED BY <2>2, <2>3, <2>4, <2>5, <2>6 DEF Books
<1>11. CASE /\ n > 1 /\ n # Episode!RelationStep(s) /\ n # s.flip + 1 /\ n # Episode!ShiftStep(s)
            /\ e = Episode!Event("observe", s.aux, world.current[s.aux], "good")
  <2>0. n > 1 /\ n # Episode!RelationStep(s) /\ n # s.flip + 1 /\ n # Episode!ShiftStep(s)
    BY <1>11
  <2>1. e.ev = "observe" /\ e.key = s.aux /\ e.value = world.current[s.aux]
        /\ WorldWrites(e, s) /\ CoreWrites(e)
    BY <1>11 DEF Episode!Event, WorldWrites, CoreWrites, Episode!Reliable
  <2>2. Same(w, c)
    BY <1>1, <1>2, <1>5, <1>6, <2>0, <2>1, <1>7 DEF Books, Same, Known
  <2>3. Older(w, c)
    BY <1>1, <1>2, <1>5, <1>6, <2>0, <2>1 DEF Books, Same, Older, Known, Unrevised, WorldKeeps
  <2>4. Known(w, n + 1, s)
    BY <1>1, <1>2, <1>5, <1>6, <2>0, <2>1 DEF Books, Known
  <2>5. Linked(w, n + 1, s)
    BY <1>1, <1>2, <1>5, <1>6, <2>0, <2>1 DEF Books, Linked
  <2>6. Unrevised(c, n + 1, s)
    BY <1>1, <1>2, <1>5, <1>6, <2>0, <2>1 DEF Books, Same, Known, Unrevised
  <2> QED BY <2>2, <2>3, <2>4, <2>5, <2>6 DEF Books
<1>12. CASE /\ n > 1 /\ n # Episode!RelationStep(s) /\ n # s.flip + 1 /\ n # Episode!ShiftStep(s)
            /\ e.ev \in {"rule_flip", "conflict", "archive_query", "query", "idle"}
  <2>0. n > 1 /\ n # Episode!RelationStep(s) /\ n # s.flip + 1 /\ n # Episode!ShiftStep(s)
    BY <1>12
  <2>1. ~WorldWrites(e, s) /\ ~CoreWrites(e) /\ e.ev # "observe" /\ e.ev # "relate"
        /\ e.ev # "correct"
    BY <1>12 DEF WorldWrites, CoreWrites
  <2>2. Same(w, c)
    BY <1>1, <1>2, <1>5, <1>6, <2>0, <2>1, <1>7 DEF Books, Same, Known
  <2>3. Older(w, c)
    BY <1>1, <1>2, <1>5, <1>6, <2>0, <2>1 DEF Books, Same, Older, Known, Unrevised, WorldKeeps
  <2>4. Known(w, n + 1, s)
    BY <1>1, <1>2, <1>5, <1>6, <2>0, <2>1 DEF Books, Known
  <2>5. Linked(w, n + 1, s)
    BY <1>1, <1>2, <1>5, <1>6, <2>0, <2>1 DEF Books, Linked
  <2>6. Unrevised(c, n + 1, s)
    BY <1>1, <1>2, <1>5, <1>6, <2>0, <2>1 DEF Books, Same, Known, Unrevised
  <2> QED BY <2>2, <2>3, <2>4, <2>5, <2>6 DEF Books
<1>13. CASE n > 1 /\ n # Episode!RelationStep(s) /\ n = s.flip + 1 /\ e = Episode!Event("correct", s.main, s.c, "good")
  <2>0. n > 1 /\ n # Episode!RelationStep(s) /\ n = s.flip + 1
    BY <1>13
  <2>1. e.ev = "correct" /\ e.key = s.main /\ e.value = s.c /\ WorldWrites(e, s) /\ CoreWrites(e)
    BY <1>13 DEF Episode!Event, WorldWrites, CoreWrites, Episode!Reliable
  <2>2. Same(w, c)
    BY <1>1, <1>2, <1>5, <1>6, <2>0, <2>1, <1>7 DEF Books, Same, Known
  <2>3. Older(w, c)
    BY <1>1, <1>2, <1>5, <1>6, <2>0, <2>1 DEF Books, Same, Older, Known, Unrevised, WorldKeeps
  <2>4. Known(w, n + 1, s)
    BY <1>1, <1>2, <1>5, <1>6, <2>0, <2>1 DEF Books, Known
  <2>5. Linked(w, n + 1, s)
    BY <1>1, <1>2, <1>5, <1>6, <2>0, <2>1 DEF Books, Linked
  <2>6. Unrevised(c, n + 1, s)
    BY <1>1, <1>2, <1>5, <1>6, <2>0, <2>1 DEF Books, Same, Known, Unrevised
  <2> QED BY <2>2, <2>3, <2>4, <2>5, <2>6 DEF Books
<1>14. CASE /\ n > 1 /\ n # Episode!RelationStep(s) /\ n # s.flip + 1 /\ n = Episode!ShiftStep(s)
            /\ e = Episode!Event("source_flip", s.aux, s.c, IF s.ood THEN "good" ELSE "bad")
  <2>0. n > 1 /\ n # Episode!RelationStep(s) /\ n # s.flip + 1 /\ n = Episode!ShiftStep(s)
    BY <1>14
  <2>1. e.ev = "source_flip" /\ e.key = s.aux /\ e.value = s.c
        /\ (WorldWrites(e, s) <=> s.ood) /\ (CoreWrites(e) <=> s.ood)
    BY <1>14, <1>1 DEF Episode!Event, WorldWrites, CoreWrites, Episode!Reliable
  <2>2. Same(w, c)
    <3>1. CASE s.ood
      <4>1. w.known = world.known /\ c.known = core.known /\ c.archived \subseteq c.known
        BY <1>1, <1>5, <1>6, <2>0, <2>1, <3>1 DEF Books, Same, Known
      <4> QED BY <4>1, <1>5, <1>6, <1>7, <2>1, <3>1 DEF Books, Same
    <3>2. CASE ~s.ood
      BY <1>5, <1>6, <1>7, <2>1, <3>2 DEF Books, Same
    <3> QED BY <3>1, <3>2
  <2>3. Older(w, c)
    BY <1>1, <1>2, <1>5, <1>6, <2>0, <2>1 DEF Books, Same, Older, Known, Unrevised, WorldKeeps
  <2>4. Known(w, n + 1, s)
    BY <1>1, <1>2, <1>5, <1>6, <2>0, <2>1 DEF Books, Known
  <2>5. Linked(w, n + 1, s)
    BY <1>1, <1>2, <1>5, <1>6, <2>0, <2>1 DEF Books, Linked
  <2>6. Unrevised(c, n + 1, s)
    BY <1>1, <1>2, <1>5, <1>6, <2>0, <2>1 DEF Books, Same, Known, Unrevised
  <2> QED BY <2>2, <2>3, <2>4, <2>5, <2>6 DEF Books
<1>15. e.ev \in {"rule_flip", "conflict", "archive_query", "query", "idle"}
       \/ ~(\/ e = Episode!Event("rule_flip", s.main, s.b, "bad")
            \/ \E v \in Episode!Values : e = Episode!Event("conflict", s.main, v, "bad")
            \/ e = Episode!Event("archive_query", s.main, world.archive[s.main], "good")
            \/ e = Episode!Event("query", s.main, world.current[s.main], "good")
            \/ \E k \in Episode!Keys, role \in Episode!Roles : e = Episode!Event("idle", k, 0, role))
  BY DEF Episode!Event
<1> QED BY <1>8, <1>9, <1>10, <1>11, <1>12, <1>13, <1>14, <1>15 DEF Fits

\* What the books and the last row are makes the labels agree.
LEMMA FitLabels ==
  ASSUME Episode!TypeOK, step > 0, Books(world, core, step, script), RowFits(row, step - 1, script)
  PROVE  Episode!LabelsAgree
<1>1. script \in Episode!Scripts /\ step \in 0..T /\ world \in Episode!Book /\ core \in Episode!Book /\ row \in Episode!Row
  BY DEF Episode!TypeOK
<1>2. /\ script.main \in Episode!Keys /\ script.aux \in Episode!Keys /\ script.main # script.aux
      /\ step \in Nat /\ Episode!RelationStep(script) > 1 /\ Episode!RelationStep(script) \in Nat
  BY <1>1, ScriptType, EpisodeNumbers
<1>3. row.ev \in Episode!Events /\ row.key \in Episode!Keys /\ row.role \in Episode!Roles
  BY <1>1 DEF Episode!Row
<1>4. /\ core.known = world.known /\ core.related = world.related
      /\ core.current = world.current /\ core.contested = world.contested
      /\ core.relation = world.relation /\ core.archived \subseteq core.known
  BY DEF Books, Same
<1>5. \A k \in core.known : world.archive[k] = Episode!CoreOlder(k)
  BY DEF Books, Older, Episode!CoreOlder
<1>6. step > 2 => script.main \in core.known /\ script.aux \in core.known
  BY <1>2, <1>4 DEF Books, Known
<1>7. /\ world.related = IF step > Episode!RelationStep(script) THEN {script.main} ELSE {}
      /\ \A k \in Episode!Keys : world.relation[k] = IF k \in world.related THEN script.aux ELSE k
  BY DEF Books, Linked
<1>8. row.ev \in {"query", "archive_query"} =>
        row.key = script.main /\ row.role = "good" /\ row.rel = 0 /\ step > 2
  BY <1>2 DEF RowFits
<1>9. row.ev = "relate" => /\ row.key = script.main /\ row.rel = script.aux /\ row.role = "good"
                           /\ script.main \in world.related
  BY <1>2, <1>7 DEF RowFits
<1>10. row.ev \in {"conflict", "rule_flip"} => row.role = "bad"
  BY DEF RowFits
<1>11. row.ev = "query" =>
         /\ Episode!CoreKey \in core.known
         /\ row.key # 0 => Episode!CoreKey = world.relation[row.key]
  BY <1>2, <1>4, <1>6, <1>7, <1>8 DEF Episode!CoreKey
<1>12. ~Episode!Abstains
  BY <1>6, <1>8, <1>11 DEF Episode!Abstains
<1>13. Episode!WorldAction = Episode!CoreAction
  BY <1>3, <1>4, <1>8, <1>9, <1>10, <1>12 DEF Episode!WorldAction, Episode!CoreAction,
     Episode!InConflict, Episode!Reliable, Episode!Events
<1>14. Episode!HiddenRelation \/ Episode!WorldDecision = Episode!CoreDecision
  <2>1. CASE row.ev = "query"
    BY <2>1, <1>4, <1>11, <1>12 DEF Episode!HiddenRelation, Episode!WorldDecision,
       Episode!CoreDecision
  <2>2. CASE row.ev = "archive_query"
    BY <2>2, <1>5, <1>6, <1>8, <1>12 DEF Episode!WorldDecision, Episode!CoreDecision
  <2>3. CASE row.ev \notin {"query", "archive_query"}
    BY <2>3, <1>3, <1>4, <1>12 DEF Episode!WorldDecision, Episode!CoreDecision
  <2> QED BY <2>1, <2>2, <2>3
<1> QED BY <1>4, <1>5, <1>13, <1>14 DEF Episode!LabelsAgree

LEMMA EpisodeInitStep == Episode!Init => EpisodeInv
<1> SUFFICES ASSUME Episode!Init PROVE EpisodeInv
  OBVIOUS
<1>1. script \in Episode!Scripts /\ step = 0 /\ world = Episode!NoBook /\ core = Episode!NoBook /\ row = Episode!NoRow
      /\ flipped = FALSE
  BY DEF Episode!Init
<1>2. 0 \in Episode!Keys /\ 0 \in Episode!Values /\ Episode!RelationStep(script) > 1 /\ Episode!RelationStep(script) \in Nat
  BY <1>1, ScriptType
<1>3. Episode!NoBook \in Episode!Book /\ Episode!NoRow \in Episode!Row
  BY <1>2 DEF Episode!NoBook, Episode!Book, Episode!NoRow, Episode!Row, Episode!Events,
     Episode!Roles
<1>4. Books(Episode!NoBook, Episode!NoBook, 0, script)
  BY <1>2 DEF Books, Same, Older, Known, Linked, Unrevised, Episode!NoBook
<1>5. Episode!TypeOK
  <2>1. step \in 0..T
    BY <1>1, EpisodeNumbers
  <2>2. flipped \in BOOLEAN
    BY <1>1
  <2>3. world \in Episode!Book /\ core \in Episode!Book /\ row \in Episode!Row
    BY <1>1, <1>3
  <2> QED BY <1>1, <2>1, <2>2, <2>3 DEF Episode!TypeOK
<1>6. Books(world, core, step, script) /\ ~(step > 0)
  BY <1>1, <1>4
<1> QED BY <1>5, <1>6 DEF EpisodeInv

LEMMA EpisodeNextStep == EpisodeInv /\ [Episode!Next]_(Episode!vars) => EpisodeInv'
<1> SUFFICES ASSUME EpisodeInv, [Episode!Next]_(Episode!vars) PROVE EpisodeInv'
  OBVIOUS
<1>1. CASE Episode!Step
  <2>1. PICK e \in Episode!Scripted(script, step) :
          /\ row' = e /\ world' = Episode!WorldAfter(world, e, script) /\ core' = Episode!CoreAfter(core, e)
          /\ flipped' = (flipped \/ (e.ev = "source_flip" /\ script.ood))
    BY <1>1 DEF Episode!Step
  <2>2. step \in 0..T /\ step < T /\ step' = step + 1 /\ script' = script /\ script \in Episode!Scripts
        /\ world \in Episode!Book /\ core \in Episode!Book
    BY <1>1 DEF Episode!Step, EpisodeInv, Episode!TypeOK
  <2>3. /\ e \in Episode!Row /\ RowFits(e, step, script)
        /\ world' \in Episode!Book /\ core' \in Episode!Book /\ Books(world', core', step + 1, script)
    <3>1. Fits(e, step, script)
      BY <2>1, <2>2, ScriptedFits
    <3> QED BY <2>1, <2>2, <3>1, BooksStep DEF EpisodeInv
  <2>4. step + 1 \in 0..T /\ (step + 1) - 1 = step
    BY <2>2, EpisodeNumbers
  <2>5. flipped' \in BOOLEAN
    BY <2>1
  <2> QED BY <2>1, <2>2, <2>3, <2>4, <2>5 DEF EpisodeInv, Episode!TypeOK
<1>2. CASE UNCHANGED Episode!vars
  BY <1>2 DEF Episode!vars, EpisodeInv, Episode!TypeOK
<1> QED BY <1>1, <1>2 DEF Episode!Next

\* The labels of the world (v99_source.py:695-755) are what the forward pass
\* answers (1487-1517), in every episode of at least 12 steps.
THEOREM LabelsAreTrue == Episode!Spec => []LabelsAgree
<1>1. EpisodeInv => Episode!LabelsAgree
  <2>1. ASSUME EpisodeInv, step > 0 PROVE Episode!LabelsAgree
    BY <2>1, FitLabels DEF EpisodeInv
  <2>2. ASSUME ~(step > 0) PROVE Episode!LabelsAgree
    BY <2>2 DEF Episode!LabelsAgree
  <2> QED BY <2>1, <2>2
<1> QED BY <1>1, EpisodeInitStep, EpisodeNextStep, PTL DEF Episode!Spec, LabelsAgree
-----------------------------------------------------------------------------
\* The courses of the audits: a lesson at a time, the memory holds what was
\* taught and nothing else, resists what is said against it, and gives way in
\* its sleep.

\* Everything a lesson says is heard, and only its key is touched.
Elsewhere(m, n, k) ==
  \A j \in Course!Keys \ {k} :
    /\ j \in n.known <=> j \in m.known
    /\ n.current[j] = m.current[j]
    /\ j \in n.hasRelation <=> j \in m.hasRelation
    /\ n.relation[j] = m.relation[j]
    /\ n.challenger[j] = m.challenger[j]
    /\ n.challengerCount[j] = m.challengerCount[j]

Holds(m, k, v) == k \in m.known /\ m.current[k] = v
Links(m, d, k) == k \in m.hasRelation /\ m.relation[k] = Course!RelationsOf(d)[k]

-----------------------------------------------------------------------------
\* Remainders.

LEMMA Remainder ==
  ASSUME NEW x \in Nat, NEW n \in Nat \ {0}
  PROVE  x % n \in 0..(n - 1) /\ (x < n => x % n = x) /\ (x = n => x % n = 0)
  OBVIOUS

LEMMA KeysFollow ==
  ASSUME NEW k \in Course!Keys
  PROVE  /\ Course!NextKey(k) \in Course!Keys /\ Course!NextKey(k) # k
         /\ k < CourseKeys - 1 => Course!NextKey(k) = k + 1
<1>1. k \in Nat /\ k < CourseKeys /\ CourseKeys \in Nat \ {0} /\ CourseKeys >= 2 /\ k + 1 \in Nat
  BY CortexNumbers, CourseNumbers DEF Course!Keys
<1>2. (k + 1) % CourseKeys \in 0..(CourseKeys - 1)
  BY <1>1, Remainder
<1>3. k + 1 < CourseKeys => (k + 1) % CourseKeys = k + 1
  BY <1>1, Remainder
<1>4. k + 1 = CourseKeys => (k + 1) % CourseKeys = 0
  BY <1>1, Remainder
<1> QED
  BY <1>1, <1>2, <1>3, <1>4 DEF Course!NextKey, Course!Keys

\* The values of a domain, of what was said before it and of the contrary course.
LEMMA TaughtValues ==
  ASSUME NEW d \in Nat
  PROVE  /\ Course!ValuesOf(d) \in [Course!Keys -> Course!Values]
         /\ Course!Previous(d) \in [Course!Keys -> Course!Values]
         /\ Course!Contrary(d) \in [Course!Keys -> Course!Values]
         /\ \A k \in Course!Keys :
              /\ Course!Previous(d)[k] # Course!ValuesOf(d)[k]
              /\ Course!Contrary(d)[k] # Course!ValuesOf(d)[k]
              /\ Course!Previous(d)[k] # Course!Contrary(d)[k]
              /\ k < CourseKeys - 1 => Course!ValuesOf(d)[Course!NextKey(k)] # Course!ValuesOf(d)[k]
         /\ Course!RelationsOf(d) \in [Course!Keys -> Course!Keys]
<1>1. /\ Course!Keys \subseteq Nat /\ CourseValues = 6 /\ Course!Values = 0..5
      /\ CourseKeys \in Nat \ {0}
  BY CortexNumbers, CourseNumbers DEF Course!Keys, Course!Values
<1>2. \A k \in Course!Keys :
        Course!ValuesOf(d)[k] = (k * 3 + d + 1) % 6 /\ Course!ValuesOf(d)[k] \in 0..5
  BY <1>1 DEF Course!ValuesOf
<1>3. Course!ValuesOf(d) \in [Course!Keys -> Course!Values]
  BY <1>1, <1>2 DEF Course!ValuesOf
<1>4. \A v \in 0..5 :
        /\ (v + 1) % 6 \in 0..5 /\ (v + 2) % 6 \in 0..5
        /\ (v + 1) % 6 # v /\ (v + 2) % 6 # v /\ (v + 1) % 6 # (v + 2) % 6
  OBVIOUS
<1>5. \A k \in Course!Keys : Course!Previous(d)[k] = (Course!ValuesOf(d)[k] + 2) % 6
  BY <1>1 DEF Course!Previous
<1>6. \A k \in Course!Keys : Course!Contrary(d)[k] = (Course!ValuesOf(d)[k] + 1) % 6
  BY <1>1 DEF Course!Contrary
<1>7. Course!Previous(d) \in [Course!Keys -> Course!Values]
  BY <1>1, <1>2, <1>4, <1>5 DEF Course!Previous
<1>8. Course!Contrary(d) \in [Course!Keys -> Course!Values]
  BY <1>1, <1>2, <1>4, <1>6 DEF Course!Contrary
<1>9. ASSUME NEW k \in Course!Keys, k < CourseKeys - 1
      PROVE  Course!ValuesOf(d)[Course!NextKey(k)] # Course!ValuesOf(d)[k]
  <2>1. Course!NextKey(k) = k + 1 /\ k + 1 \in Course!Keys /\ k \in Nat
    BY <1>1, <1>9, KeysFollow
  <2>2. ((k + 1) * 3 + d + 1) % 6 # (k * 3 + d + 1) % 6
    BY <2>1
  <2> QED
    BY <1>2, <2>1, <2>2
<1>10. Course!RelationsOf(d) \in [Course!Keys -> Course!Keys]
  <2>1. \A k \in Course!Keys : (k + 2 + d) % CourseKeys \in Course!Keys
    <3> SUFFICES ASSUME NEW k \in Course!Keys PROVE (k + 2 + d) % CourseKeys \in Course!Keys
      OBVIOUS
    <3>1. k + 2 + d \in Nat
      BY <1>1
    <3> QED BY <1>1, <3>1, Remainder DEF Course!Keys
  <2> QED
    BY <2>1, KeysFollow DEF Course!RelationsOf
<1> QED
  BY <1>2, <1>3, <1>4, <1>5, <1>6, <1>7, <1>8, <1>9, <1>10

-----------------------------------------------------------------------------
\* The ledger.

\* A reliable statement is heard; a hinted flip makes its source trusted.
LEMMA Hears ==
  ASSUME NEW m, NEW e, Course!States(m, e)
  PROVE  Course!Heard(m, e) =
           Course!Stated([m EXCEPT !.trusted =
                     IF e.kind = "source_flip" /\ e.hinted THEN @ \cup {e.source} ELSE @],
                  e.key, e.value)
  BY DEF Course!Heard, Course!States

\* The sources a statement leaves trusted.
TrustAfter(m, kind, s) == IF kind = "source_flip" THEN m.trusted \cup {s} ELSE m.trusted

LEMMA StatementIsHeard ==
  ASSUME NEW m \in Course!Memory, NEW k \in Course!Keys, NEW v \in Course!Values,
         NEW s \in CourseSources, NEW kind \in {"observe", "correct", "source_flip"}
  PROVE  /\ TrustAfter(m, kind, s) \in SUBSET CourseSources
         /\ Course!Heard(m, Course!Statement(kind, k, v, s)) =
              Course!Stated([m EXCEPT !.trusted = TrustAfter(m, kind, s)], k, v)
<1> DEFINE e == Course!Statement(kind, k, v, s)
<1>1. /\ e.kind = kind /\ e.key = k /\ e.value = v /\ e.source = s /\ e.hinted = TRUE
  BY DEF Course!Statement
<1> HIDE DEF e
<1>2. Course!States(m, e)
  BY <1>1 DEF Course!States, Course!Reliable
<1>3. TrustAfter(m, kind, s) \in SUBSET CourseSources
  BY DEF Course!Memory, TrustAfter
<1>4. [m EXCEPT !.trusted =
         IF e.kind = "source_flip" /\ e.hinted THEN @ \cup {e.source} ELSE @]
      = [m EXCEPT !.trusted = TrustAfter(m, kind, s)]
  BY <1>1 DEF TrustAfter
<1>5. Course!Heard(m, e) = Course!Stated([m EXCEPT !.trusted = TrustAfter(m, kind, s)], k, v)
  BY <1>1, <1>2, <1>4, Hears
<1> QED
  BY <1>3, <1>5 DEF e

LEMMA TrustAside ==
  ASSUME NEW m \in Course!Memory, NEW trust \in SUBSET CourseSources
  PROVE  LET n == [m EXCEPT !.trusted = trust]
         IN /\ n \in Course!Memory
            /\ n.known = m.known /\ n.current = m.current
            /\ n.hasRelation = m.hasRelation
            /\ n.relation = m.relation /\ n.challenger = m.challenger
            /\ n.challengerCount = m.challengerCount /\ n.committed = m.committed
  BY DEF Course!Memory

\* A value that is not held against is written.
LEMMA WrittenIsHeld ==
  ASSUME NEW m \in Course!Memory, NEW k \in Course!Keys, NEW v \in Course!Values,
         k \notin m.committed \/ m.current[k] = v
  PROVE  LET n == Course!Stated(m, k, v)
         IN /\ n \in Course!Memory /\ Elsewhere(m, n, k) /\ n.committed = m.committed
            /\ n.hasRelation = m.hasRelation /\ n.relation = m.relation
            /\ Holds(n, k, v) /\ n.challengerCount[k] = 0
<1> DEFINE same == k \in m.known /\ m.current[k] = v
           other == k \in m.known /\ m.current[k] # v
           archive == [m.archive EXCEPT ![k] = IF other THEN m.current[k] ELSE @]
           archiveKnown == IF other THEN m.archiveKnown \cup {k} ELSE m.archiveKnown
           commitCount == [m.commitCount EXCEPT ![k] = IF same THEN @ + 1 ELSE 1]
           current == [m.current EXCEPT ![k] = v]
           known == m.known \cup {k}
           count == [m.challengerCount EXCEPT ![k] = 0]
           n == [m EXCEPT !.archive = archive, !.archiveKnown = archiveKnown,
                          !.commitCount = commitCount, !.current = current,
                          !.known = known, !.challengerCount = count]
<1>1. Course!Stated(m, k, v) = n
  BY DEF Course!Stated, Course!Written
<1>2. /\ archive \in [Course!Keys -> Course!Values]
      /\ archiveKnown \in SUBSET Course!Keys
      /\ commitCount \in [Course!Keys -> Nat]
      /\ current \in [Course!Keys -> Course!Values]
      /\ known \in SUBSET Course!Keys /\ count \in [Course!Keys -> Nat]
  BY DEF Course!Memory
<1>3. /\ current[k] = v /\ count[k] = 0 /\ k \in known
      /\ \A j \in Course!Keys \ {k} :
           /\ current[j] = m.current[j] /\ count[j] = m.challengerCount[j]
           /\ j \in known <=> j \in m.known
  BY DEF Course!Memory
<1> HIDE DEF archive, archiveKnown, commitCount, current, known, count
<1>4. n \in Course!Memory
  BY <1>2 DEF Course!Memory
<1>5. /\ n.known = known /\ n.current = current /\ n.challengerCount = count
      /\ n.committed = m.committed /\ n.hasRelation = m.hasRelation
      /\ n.relation = m.relation
      /\ n.challenger = m.challenger
  BY DEF Course!Memory
<1> HIDE DEF n
<1>6. Elsewhere(m, n, k)
  BY <1>3, <1>5 DEF Elsewhere
<1>7. Holds(n, k, v)
  BY <1>3, <1>5 DEF Holds
<1> QED
  BY <1>1, <1>3, <1>4, <1>5, <1>6, <1>7

\* A committed value stays, and what is said against it is counted.
LEMMA ChallengedIsCounted ==
  ASSUME NEW m \in Course!Memory, NEW k \in Course!Keys, NEW v \in Course!Values,
         k \in m.committed, m.current[k] # v
  PROVE  LET n == Course!Stated(m, k, v)
         IN /\ n \in Course!Memory /\ Elsewhere(m, n, k) /\ n.committed = m.committed
            /\ n.hasRelation = m.hasRelation /\ n.relation = m.relation
            /\ n.known = m.known /\ n.current = m.current /\ n.challenger[k] = v
            /\ n.challengerCount[k] = IF m.challenger[k] = v THEN m.challengerCount[k] + 1 ELSE 1
<1> DEFINE count == [m.challengerCount EXCEPT ![k] = IF m.challenger[k] = v THEN @ + 1 ELSE 1]
           challenger == [m.challenger EXCEPT ![k] = v]
           n == [m EXCEPT !.challengerCount = count, !.challenger = challenger]
<1>1. Course!Stated(m, k, v) = n
  BY DEF Course!Stated, Course!Challenged
<1>2. /\ count \in [Course!Keys -> Nat] /\ challenger \in [Course!Keys -> Course!Values]
      /\ challenger[k] = v
      /\ count[k] = IF m.challenger[k] = v THEN m.challengerCount[k] + 1 ELSE 1
      /\ \A j \in Course!Keys \ {k} :
           count[j] = m.challengerCount[j] /\ challenger[j] = m.challenger[j]
  BY DEF Course!Memory
<1> HIDE DEF count, challenger
<1>3. n \in Course!Memory
  BY <1>2 DEF Course!Memory
<1>4. /\ n.known = m.known /\ n.current = m.current /\ n.challengerCount = count
      /\ n.committed = m.committed /\ n.hasRelation = m.hasRelation
      /\ n.relation = m.relation
      /\ n.challenger = challenger
  BY DEF Course!Memory
<1> HIDE DEF n
<1>5. Elsewhere(m, n, k)
  BY <1>2, <1>4 DEF Elsewhere
<1> QED
  BY <1>1, <1>2, <1>3, <1>4, <1>5

\* A hinted relation is always taken over.
LEMMA RelationIsHeard ==
  ASSUME NEW m \in Course!Memory, NEW k \in Course!Keys, NEW r \in Course!Keys,
         NEW s \in CourseSources
  PROVE  LET n == Course!Heard(m, [kind |-> "relate", key |-> k, rel |-> r,
                            source |-> s, hinted |-> TRUE])
         IN /\ n \in Course!Memory /\ Elsewhere(m, n, k) /\ n.committed = m.committed
            /\ n.known = m.known /\ n.current = m.current /\ n.challenger = m.challenger
            /\ n.challengerCount = m.challengerCount
            /\ k \in n.hasRelation /\ n.relation[k] = r
<1> DEFINE e == [kind |-> "relate", key |-> k, rel |-> r, source |-> s, hinted |-> TRUE]
           relation == [m.relation EXCEPT ![k] = r]
           has == m.hasRelation \cup {k}
           n == [m EXCEPT !.relation = relation, !.hasRelation = has]
<1>1. Course!Heard(m, e) = n
  <2>1. e.kind = "relate" /\ e.key = k /\ e.rel = r /\ e.hinted = TRUE
    OBVIOUS
  <2> HIDE DEF e
  <2>2. ~Course!States(m, e) /\ Course!Reliable(m, e)
    BY <2>1 DEF Course!States, Course!Reliable
  <2>3. [m EXCEPT !.trusted =
          IF e.kind = "source_flip" /\ e.hinted THEN @ \cup {e.source} ELSE @] = m
    BY <2>1 DEF Course!Memory
  <2>4. Course!Heard(m, e) = [m EXCEPT !.relation[e.key] = e.rel, !.hasRelation = @ \cup {e.key}]
    BY <2>1, <2>2, <2>3 DEF Course!Heard
  <2> QED
    BY <2>1, <2>4
<1>2. /\ relation \in [Course!Keys -> Course!Keys] /\ has \in SUBSET Course!Keys
      /\ k \in has /\ relation[k] = r
      /\ \A j \in Course!Keys \ {k} :
           relation[j] = m.relation[j] /\ (j \in has <=> j \in m.hasRelation)
  BY DEF Course!Memory
<1> HIDE DEF relation, has
<1>3. n \in Course!Memory
  BY <1>2 DEF Course!Memory
<1>4. /\ n.known = m.known /\ n.current = m.current
      /\ n.challengerCount = m.challengerCount
      /\ n.committed = m.committed /\ n.hasRelation = has /\ n.relation = relation
      /\ n.challenger = m.challenger
  BY DEF Course!Memory
<1> HIDE DEF n, e
<1>5. Elsewhere(m, n, k)
  BY <1>2, <1>4 DEF Elsewhere
<1>6. /\ n \in Course!Memory /\ Elsewhere(m, n, k) /\ n.committed = m.committed
      /\ n.known = m.known /\ n.current = m.current /\ n.challenger = m.challenger
      /\ n.challengerCount = m.challengerCount
      /\ k \in n.hasRelation /\ n.relation[k] = r
  BY <1>2, <1>3, <1>4, <1>5
<1> QED
  BY <1>1, <1>6 DEF e

\* A statement of a lesson, and what it leaves of the memory.
LEMMA ToldOutright ==
  ASSUME NEW m \in Course!Memory, NEW k \in Course!Keys, NEW v \in Course!Values,
         NEW s \in CourseSources, NEW kind \in {"observe", "correct", "source_flip"},
         k \notin m.committed \/ m.current[k] = v
  PROVE  LET n == Course!Heard(m, Course!Statement(kind, k, v, s))
         IN /\ n \in Course!Memory /\ Elsewhere(m, n, k) /\ n.committed = m.committed
            /\ n.hasRelation = m.hasRelation /\ n.relation = m.relation
            /\ Holds(n, k, v) /\ n.challengerCount[k] = 0
<1> DEFINE trust == TrustAfter(m, kind, s)
<1>1. /\ trust \in SUBSET CourseSources
      /\ Course!Heard(m, Course!Statement(kind, k, v, s)) =
           Course!Stated([m EXCEPT !.trusted = trust], k, v)
  BY StatementIsHeard, ZenonT(60)
<1> HIDE DEF trust
<1> DEFINE t == [m EXCEPT !.trusted = trust]
           n == Course!Stated(t, k, v)
<1>2. /\ t \in Course!Memory /\ t.known = m.known /\ t.current = m.current
      /\ t.hasRelation = m.hasRelation /\ t.relation = m.relation
      /\ t.challenger = m.challenger /\ t.challengerCount = m.challengerCount
      /\ t.committed = m.committed
  BY <1>1, TrustAside
<1> HIDE DEF t
<1>3. /\ n \in Course!Memory /\ Elsewhere(t, n, k) /\ n.committed = t.committed
      /\ n.hasRelation = t.hasRelation /\ n.relation = t.relation
      /\ Holds(n, k, v) /\ n.challengerCount[k] = 0
  BY <1>2, WrittenIsHeld
<1> HIDE DEF n
<1>4. Elsewhere(m, n, k)
  BY <1>2, <1>3 DEF Elsewhere
<1> QED
  BY <1>1, <1>2, <1>3, <1>4 DEF n, t

LEMMA ToldInVain ==
  ASSUME NEW m \in Course!Memory, NEW k \in Course!Keys, NEW v \in Course!Values,
         NEW s \in CourseSources, NEW kind \in {"observe", "correct", "source_flip"},
         k \in m.committed, m.current[k] # v
  PROVE  LET n == Course!Heard(m, Course!Statement(kind, k, v, s))
         IN /\ n \in Course!Memory /\ Elsewhere(m, n, k) /\ n.committed = m.committed
            /\ n.hasRelation = m.hasRelation /\ n.relation = m.relation
            /\ n.known = m.known /\ n.current = m.current /\ n.challenger[k] = v
            /\ n.challengerCount[k] = IF m.challenger[k] = v THEN m.challengerCount[k] + 1 ELSE 1
<1> DEFINE trust == TrustAfter(m, kind, s)
<1>1. /\ trust \in SUBSET CourseSources
      /\ Course!Heard(m, Course!Statement(kind, k, v, s)) =
           Course!Stated([m EXCEPT !.trusted = trust], k, v)
  BY StatementIsHeard, ZenonT(60)
<1> HIDE DEF trust
<1> DEFINE t == [m EXCEPT !.trusted = trust]
           n == Course!Stated(t, k, v)
<1>2. /\ t \in Course!Memory /\ t.known = m.known /\ t.current = m.current
      /\ t.hasRelation = m.hasRelation /\ t.relation = m.relation
      /\ t.challenger = m.challenger /\ t.challengerCount = m.challengerCount
      /\ t.committed = m.committed
  BY <1>1, TrustAside
<1> HIDE DEF t
<1>3. /\ n \in Course!Memory /\ Elsewhere(t, n, k) /\ n.committed = t.committed
      /\ n.hasRelation = t.hasRelation /\ n.relation = t.relation
      /\ n.known = t.known /\ n.current = t.current /\ n.challenger[k] = v
      /\ n.challengerCount[k] = IF t.challenger[k] = v THEN t.challengerCount[k] + 1 ELSE 1
  BY <1>2, ChallengedIsCounted
<1> HIDE DEF n
<1>4. Elsewhere(m, n, k)
  BY <1>2, <1>3 DEF Elsewhere
<1> QED
  BY <1>1, <1>2, <1>3, <1>4 DEF n, t

LEMMA ElsewhereChains ==
  ASSUME NEW m, NEW n, NEW o, NEW k, Elsewhere(m, n, k), Elsewhere(n, o, k)
  PROVE  Elsewhere(m, o, k)
  BY DEF Elsewhere

\* A lesson on a key that is not committed teaches its value and its relation.
LEMMA LessonTeaches ==
  ASSUME NEW m \in Course!Memory, NEW d \in Nat, NEW values \in [Course!Keys -> Course!Values],
         NEW k \in Course!Keys, NEW s \in CourseSources, k \notin m.committed
  PROVE  LET n == Course!Lesson(m, d, values, k, s)
         IN /\ n \in Course!Memory /\ Elsewhere(m, n, k) /\ n.committed = m.committed
            /\ Holds(n, k, values[k]) /\ Links(n, d, k) /\ n.challengerCount[k] = 0
<1> DEFINE m1 == Course!Heard(m, Course!Statement("observe", k, Course!Previous(d)[k], s))
           m2 == Course!Heard(m1, [kind |-> "relate", key |-> k, rel |-> Course!RelationsOf(d)[k],
                            source |-> s, hinted |-> TRUE])
           m3 == Course!Heard(m2, Course!Statement("correct", k, values[k], s))
           n == Course!Heard(m3, Course!Statement("source_flip", k, values[k], s))
<1>1. /\ Course!Previous(d)[k] \in Course!Values /\ values[k] \in Course!Values
      /\ Course!RelationsOf(d)[k] \in Course!Keys
  BY TaughtValues
<1>2. m1 \in Course!Memory /\ Elsewhere(m, m1, k) /\ m1.committed = m.committed
  BY <1>1, ToldOutright
<1> HIDE DEF m1
<1>3. /\ m2 \in Course!Memory /\ Elsewhere(m1, m2, k) /\ m2.committed = m1.committed
      /\ k \in m2.hasRelation /\ m2.relation[k] = Course!RelationsOf(d)[k]
  BY <1>1, <1>2, RelationIsHeard
<1> HIDE DEF m2
<1>4. /\ m3 \in Course!Memory /\ Elsewhere(m2, m3, k) /\ m3.committed = m2.committed
      /\ m3.hasRelation = m2.hasRelation /\ m3.relation = m2.relation
  BY <1>1, <1>2, <1>3, ToldOutright
<1> HIDE DEF m3
<1>5. /\ n \in Course!Memory /\ Elsewhere(m3, n, k) /\ n.committed = m3.committed
      /\ n.hasRelation = m3.hasRelation /\ n.relation = m3.relation
      /\ Holds(n, k, values[k]) /\ n.challengerCount[k] = 0
  BY <1>1, <1>2, <1>3, <1>4, ToldOutright
<1>6. Course!Lesson(m, d, values, k, s) = n
  BY DEF Course!Lesson, m1, m2, m3
<1> HIDE DEF n
<1>7. Elsewhere(m, n, k)
  BY <1>2, <1>3, <1>4, <1>5, ElsewhereChains
<1> QED
  BY <1>2, <1>3, <1>4, <1>5, <1>6, <1>7 DEF Links

\* A half course's row does the same, but for the relation.
LEMMA ShortLessonTeaches ==
  ASSUME NEW m \in Course!Memory, NEW d \in Nat, NEW k \in Course!Keys, NEW s \in CourseSources,
         k \notin m.committed
  PROVE  LET n == Course!ShortLesson(m, d, k, s)
         IN /\ n \in Course!Memory /\ Elsewhere(m, n, k) /\ n.committed = m.committed
            /\ Holds(n, k, Course!ValuesOf(d)[k]) /\ n.challengerCount[k] = 0
<1> DEFINE m1 == Course!Heard(m, Course!Statement("observe", k, Course!ValuesOf(d)[k], s))
           n == Course!Heard(m1, Course!Statement("correct", k, Course!ValuesOf(d)[k], s))
<1>1. Course!ValuesOf(d)[k] \in Course!Values
  BY TaughtValues
<1>2. m1 \in Course!Memory /\ Elsewhere(m, m1, k) /\ m1.committed = m.committed
  BY <1>1, ToldOutright
<1> HIDE DEF m1
<1>3. /\ n \in Course!Memory /\ Elsewhere(m1, n, k) /\ n.committed = m1.committed
      /\ Holds(n, k, Course!ValuesOf(d)[k]) /\ n.challengerCount[k] = 0
  BY <1>1, <1>2, ToldOutright
<1>4. Course!ShortLesson(m, d, k, s) = n
  BY DEF Course!ShortLesson, m1
<1> HIDE DEF n
<1> QED
  BY <1>2, <1>3, <1>4, ElsewhereChains

\* A contrary lesson on a committed key leaves the value, and two against it.
LEMMA LessonContradicts ==
  ASSUME NEW m \in Course!Memory, NEW d \in Nat, NEW k \in Course!Keys, NEW s \in CourseSources,
         k \in m.committed, Holds(m, k, Course!ValuesOf(d)[k])
  PROVE  LET n == Course!Lesson(m, d, Course!Contrary(d), k, s)
         IN /\ n \in Course!Memory /\ Elsewhere(m, n, k) /\ n.committed = m.committed
            /\ Holds(n, k, Course!ValuesOf(d)[k]) /\ Links(n, d, k)
            /\ n.challenger[k] = Course!Contrary(d)[k] /\ n.challengerCount[k] = 2
<1> DEFINE c == Course!Contrary(d)[k]
           p == Course!Previous(d)[k]
           v == Course!ValuesOf(d)[k]
           m1 == Course!Heard(m, Course!Statement("observe", k, p, s))
           m2 == Course!Heard(m1, [kind |-> "relate", key |-> k, rel |-> Course!RelationsOf(d)[k],
                            source |-> s, hinted |-> TRUE])
           m3 == Course!Heard(m2, Course!Statement("correct", k, c, s))
           n == Course!Heard(m3, Course!Statement("source_flip", k, c, s))
<1>1. /\ p \in Course!Values /\ c \in Course!Values /\ v \in Course!Values
      /\ Course!RelationsOf(d)[k] \in Course!Keys
      /\ p # v /\ c # v /\ p # c
  BY TaughtValues
<1>2. m.current[k] = v /\ k \in m.known /\ k \in m.committed
  BY DEF Holds
<1>3. Course!Lesson(m, d, Course!Contrary(d), k, s) = n
  BY DEF Course!Lesson
<1> HIDE DEF p, c, v, m1
<1>4. /\ m1 \in Course!Memory /\ Elsewhere(m, m1, k) /\ m1.committed = m.committed
      /\ m1.known = m.known /\ m1.current = m.current /\ m1.challenger[k] = p
  BY <1>1, <1>2, ToldInVain DEF m1
<1> HIDE DEF m2
<1>5. /\ m2 \in Course!Memory /\ Elsewhere(m1, m2, k) /\ m2.committed = m1.committed
      /\ m2.known = m1.known /\ m2.current = m1.current /\ m2.challenger = m1.challenger
      /\ k \in m2.hasRelation /\ m2.relation[k] = Course!RelationsOf(d)[k]
  BY <1>1, <1>4, RelationIsHeard DEF m2
<1> HIDE DEF m3
<1>6. /\ m3 \in Course!Memory /\ Elsewhere(m2, m3, k) /\ m3.committed = m2.committed
      /\ m3.hasRelation = m2.hasRelation /\ m3.relation = m2.relation
      /\ m3.known = m2.known /\ m3.current = m2.current /\ m3.challenger[k] = c
      /\ m3.challengerCount[k] = 1
  <2>1. /\ m2.challenger[k] # c /\ k \in m2.committed /\ m2.current[k] # c
    BY <1>1, <1>2, <1>4, <1>5
  <2> QED
    BY <1>1, <1>5, <2>1, ToldInVain DEF m3
<1> HIDE DEF n
<1>7. /\ n \in Course!Memory /\ Elsewhere(m3, n, k) /\ n.committed = m3.committed
      /\ n.hasRelation = m3.hasRelation /\ n.relation = m3.relation
      /\ n.known = m3.known /\ n.current = m3.current /\ n.challenger[k] = c
      /\ n.challengerCount[k] = 2
  <2>1. k \in m3.committed /\ m3.current[k] # c
    BY <1>1, <1>2, <1>4, <1>5, <1>6
  <2>2. n.challengerCount[k] = 1 + 1
    BY <1>1, <1>6, <2>1, ToldInVain DEF n
  <2> QED
    BY <1>1, <1>6, <2>1, <2>2, ToldInVain DEF n
<1>8. Elsewhere(m, n, k)
  BY <1>4, <1>5, <1>6, <1>7, ElsewhereChains
<1>9. Holds(n, k, v) /\ Links(n, d, k)
  BY <1>2, <1>4, <1>5, <1>6, <1>7 DEF Holds, Links
<1> QED
  BY <1>3, <1>4, <1>5, <1>6, <1>7, <1>8, <1>9 DEF c, v

-----------------------------------------------------------------------------
\* The courses.

\* The first n lessons of a course: their keys are known, no other is.
TaughtUpTo(m, d, keys, n) ==
  \A k \in Course!Keys :
    IF k \in keys /\ k < n
    THEN /\ Holds(m, k, Course!ValuesOf(d)[k]) /\ m.challengerCount[k] = 0
         /\ keys = Course!Keys => Links(m, d, k)
    ELSE k \notin m.known

\* The first n lessons of a contrary course: the values stay, each with two
\* statements counted against it.
Resists(m, d, n) ==
  /\ m.known = Course!Keys /\ m.committed = Course!Keys
  /\ \A k \in Course!Keys :
       /\ Holds(m, k, Course!ValuesOf(d)[k]) /\ Links(m, d, k)
       /\ k < n => m.challenger[k] = Course!Contrary(d)[k] /\ m.challengerCount[k] = 2

CourseTypes(m, d, keys, at, n) ==
  /\ m \in Course!Memory /\ d \in Nat /\ d \in Domains /\ keys \subseteq Course!Keys
  /\ at \in Course!Stages /\ n \in 0 .. Course!Lessons

CourseOf(m, d, keys, at, n) ==
  /\ at = "learning" => m.committed = {} /\ TaughtUpTo(m, d, keys, n)
  /\ at = "learnt" => m.committed = {} /\ TaughtUpTo(m, d, keys, Course!Lessons)
  /\ at = "consolidated" => m.committed = m.known /\ TaughtUpTo(m, d, keys, Course!Lessons)
  /\ at = "contradicting" => keys = Course!Keys /\ Resists(m, d, n)
  /\ at = "contradicted" => keys = Course!Keys /\ Resists(m, d, Course!Lessons)
  /\ at \in {"consolidated", "learnt"} => n = 0
  /\ at = "relearnt" => \A k \in Course!Keys : Holds(m, k, Course!Contrary(d)[k])
  /\ at = "cleared" => m = Course!Blank

CourseInv(m, d, keys, at, n) ==
  CourseTypes(m, d, keys, at, n) /\ CourseOf(m, d, keys, at, n)

\* Every key has a lesson.
LEMMA LessonsReachAll ==
  /\ Course!Lessons \in Nat /\ Course!Keys \subseteq Nat /\ CourseKeys \in Nat \ {0}
  /\ Course!Lessons >= CourseKeys
  /\ \A k \in Course!Keys : k < Course!Lessons
<1>1. CourseKeys \in Nat \ {0} /\ Cycles \in Nat \ {0} /\ Course!Keys = 0..(CourseKeys - 1)
  BY CortexNumbers, CourseNumbers DEF Course!Keys
<1>2. Cycles * CourseKeys \in Nat /\ Cycles * CourseKeys >= CourseKeys
  BY <1>1
<1> QED
  BY <1>1, <1>2 DEF Course!Lessons

\* A lesson's key is its number, until all have had one.
LEMMA KeyOfLesson ==
  ASSUME NEW n \in Nat
  PROVE  /\ Course!KeyOf(n) \in Course!Keys
         /\ \A k \in Course!Keys : k # Course!KeyOf(n) => (k < n + 1 <=> k < n)
         /\ Course!KeyOf(n) < n + 1
<1>1. /\ CourseKeys \in Nat \ {0} /\ n % CourseKeys \in 0..(CourseKeys - 1)
      /\ Course!Keys = 0..(CourseKeys - 1)
  BY CortexNumbers, CourseNumbers, Remainder DEF Course!Keys
<1>2. CASE n < CourseKeys
  <2>1. n % CourseKeys = n
    BY <1>1, <1>2, Remainder
  <2> QED
    BY <1>1, <2>1 DEF Course!KeyOf
<1>3. CASE n >= CourseKeys
  BY <1>1, <1>3 DEF Course!KeyOf
<1> QED
  BY <1>1, <1>2, <1>3

LEMMA BlankIsMemory == Course!Blank \in Course!Memory
<1>1. \A k \in Course!Keys : 0 \in Course!Values
  BY CortexNumbers, CourseNumbers DEF Course!Values
<1> QED
  BY <1>1 DEF Course!Blank, Course!Memory

\* A lesson carries the course one key on.
LEMMA LessonGoesOn ==
  ASSUME NEW m \in Course!Memory, NEW d \in Nat, NEW keys \in SUBSET Course!Keys, NEW n \in Nat,
         NEW o \in Course!Memory, TaughtUpTo(m, d, keys, n),
         \/ Course!KeyOf(n) \notin keys /\ o = m
         \/ /\ Course!KeyOf(n) \in keys /\ Elsewhere(m, o, Course!KeyOf(n))
            /\ Holds(o, Course!KeyOf(n), Course!ValuesOf(d)[Course!KeyOf(n)])
            /\ o.challengerCount[Course!KeyOf(n)] = 0
            /\ keys = Course!Keys => Links(o, d, Course!KeyOf(n))
  PROVE  TaughtUpTo(o, d, keys, n + 1)
<1>1. /\ Course!KeyOf(n) \in Course!Keys /\ Course!KeyOf(n) < n + 1
      /\ \A k \in Course!Keys : k # Course!KeyOf(n) => (k < n + 1 <=> k < n)
  BY KeyOfLesson
<1>2. CASE Course!KeyOf(n) \notin keys /\ o = m
  BY <1>1, <1>2 DEF TaughtUpTo
<1>3. CASE /\ Course!KeyOf(n) \in keys /\ Elsewhere(m, o, Course!KeyOf(n))
           /\ Holds(o, Course!KeyOf(n), Course!ValuesOf(d)[Course!KeyOf(n)])
           /\ o.challengerCount[Course!KeyOf(n)] = 0
           /\ keys = Course!Keys => Links(o, d, Course!KeyOf(n))
  <2>1. ASSUME NEW k \in Course!Keys, k # Course!KeyOf(n)
        PROVE  IF k \in keys /\ k < n + 1
               THEN /\ Holds(o, k, Course!ValuesOf(d)[k]) /\ o.challengerCount[k] = 0
                    /\ keys = Course!Keys => Links(o, d, k)
               ELSE k \notin o.known
    BY <1>1, <1>3, <2>1 DEF TaughtUpTo, Elsewhere, Holds, Links
  <2> QED
    BY <1>1, <1>3, <2>1 DEF TaughtUpTo
<1> QED
  BY <1>2, <1>3

LEMMA ContraryGoesOn ==
  ASSUME NEW m \in Course!Memory, NEW d \in Nat, NEW n \in Nat, NEW s \in CourseSources,
         Resists(m, d, n)
  PROVE  LET o == Course!Lesson(m, d, Course!Contrary(d), Course!KeyOf(n), s)
         IN o \in Course!Memory /\ Resists(o, d, n + 1)
<1> DEFINE k0 == Course!KeyOf(n)
           o == Course!Lesson(m, d, Course!Contrary(d), k0, s)
<1>1. /\ k0 \in Course!Keys
      /\ \A k \in Course!Keys : k # k0 => (k < n + 1 <=> k < n)
  BY KeyOfLesson
<1> HIDE DEF k0
<1>2. k0 \in m.committed /\ Holds(m, k0, Course!ValuesOf(d)[k0])
  BY <1>1 DEF Resists
<1>3. /\ o \in Course!Memory /\ Elsewhere(m, o, k0) /\ o.committed = m.committed
      /\ Holds(o, k0, Course!ValuesOf(d)[k0]) /\ Links(o, d, k0)
      /\ o.challenger[k0] = Course!Contrary(d)[k0] /\ o.challengerCount[k0] = 2
  BY <1>1, <1>2, LessonContradicts
<1> HIDE DEF o
<1>4. ASSUME NEW k \in Course!Keys, k # k0
      PROVE  /\ k \in o.known /\ Holds(o, k, Course!ValuesOf(d)[k]) /\ Links(o, d, k)
             /\ k < n + 1 => o.challenger[k] = Course!Contrary(d)[k] /\ o.challengerCount[k] = 2
  BY <1>1, <1>3, <1>4 DEF Resists, Elsewhere, Holds, Links
<1>5. o.known = Course!Keys
  BY <1>3, <1>4 DEF Course!Memory, Holds
<1>6. Resists(o, d, n + 1)
  BY <1>3, <1>4, <1>5 DEF Resists
<1> QED
  BY <1>3, <1>6 DEF o, k0

\* A sleep keeps what is not outvoted, and commits all that is known.
LEMMA SleepKeeps ==
  ASSUME NEW m \in Course!Memory
  PROVE  LET n == Course!Slept(m)
         IN /\ n \in Course!Memory /\ n.known = m.known
            /\ n.committed = m.committed \cup m.known
            /\ n.hasRelation = m.hasRelation /\ n.relation = m.relation
            /\ \A k \in Course!Keys :
                 /\ k \in m.known => n.challengerCount[k] = 0
                 /\ n.current[k] = IF k \in m.known /\ Course!Wins(m, k) THEN m.challenger[k]
                                   ELSE m.current[k]
<1> DEFINE beaten == {k \in m.known : Course!Wins(m, k)}
           current == [k \in Course!Keys |-> IF k \in beaten THEN m.challenger[k] ELSE m.current[k]]
           archive == [k \in Course!Keys |-> IF k \in beaten THEN m.current[k] ELSE m.archive[k]]
           archiveKnown == m.archiveKnown \cup beaten
           commitCount == [k \in Course!Keys |-> IF k \in beaten THEN m.challengerCount[k]
                                          ELSE m.commitCount[k]]
           committed == m.committed \cup m.known
           count == [k \in Course!Keys |-> IF k \in m.known THEN 0 ELSE m.challengerCount[k]]
           challenger == [k \in Course!Keys |-> IF k \in m.known THEN current[k]
                                         ELSE m.challenger[k]]
           n == [m EXCEPT !.archive = archive, !.archiveKnown = archiveKnown,
                          !.current = current, !.commitCount = commitCount,
                          !.committed = committed, !.challengerCount = count,
                          !.challenger = challenger]
<1>1. Course!Slept(m) = n
  BY DEF Course!Slept
<1>2. /\ archive \in [Course!Keys -> Course!Values]
      /\ archiveKnown \in SUBSET Course!Keys
      /\ commitCount \in [Course!Keys -> Nat]
      /\ current \in [Course!Keys -> Course!Values]
      /\ committed \in SUBSET Course!Keys /\ count \in [Course!Keys -> Nat]
  BY DEF Course!Memory
<1>3. challenger \in [Course!Keys -> Course!Values]
  BY <1>2 DEF Course!Memory
<1>4. \A k \in Course!Keys :
        /\ k \in m.known => count[k] = 0
        /\ current[k] = IF k \in m.known /\ Course!Wins(m, k) THEN m.challenger[k] ELSE m.current[k]
  OBVIOUS
<1> HIDE DEF archive, archiveKnown, commitCount, committed, current, count, challenger
<1>5. n \in Course!Memory
  BY <1>2, <1>3 DEF Course!Memory
<1>6. /\ n.known = m.known /\ n.committed = committed /\ n.hasRelation = m.hasRelation
      /\ n.relation = m.relation /\ n.current = current /\ n.challengerCount = count
  BY DEF Course!Memory
<1> HIDE DEF n
<1> QED
  BY <1>1, <1>4, <1>5, <1>6 DEF committed

-----------------------------------------------------------------------------
\* The invariant.

LEMMA CourseInit ==
  ASSUME Course!Init
  PROVE  CourseInv(learner, domain, taught, stage, cell)
<1>1. /\ learner = Course!Blank /\ domain \in Domains
      /\ taught \subseteq Course!Keys /\ stage = "learning" /\ cell = 0
  BY DEF Course!Init
<1>2. domain \in Nat /\ 0 \in 0 .. Course!Lessons
  BY <1>1, CortexNumbers, CourseNumbers, LessonsReachAll
<1>3. learner \in Course!Memory /\ learner.committed = {} /\ learner.known = {}
  BY <1>1, BlankIsMemory DEF Course!Blank
<1>4. TaughtUpTo(learner, domain, taught, 0)
  BY <1>3, LessonsReachAll DEF TaughtUpTo
<1> QED
  BY <1>1, <1>2, <1>3, <1>4 DEF CourseInv, CourseTypes, CourseOf, Course!Stages

LEMMA CourseStep ==
  ASSUME CourseInv(learner, domain, taught, stage, cell), [Course!Next]_(Course!vars)
  PROVE  CourseInv(learner', domain', taught', stage', cell')
<1> DEFINE Aside == domain' = domain /\ taught' = taught
<1>0. /\ CourseTypes(learner, domain, taught, stage, cell)
      /\ CourseOf(learner, domain, taught, stage, cell)
      /\ learner \in Course!Memory /\ domain \in Nat /\ domain \in Domains
      /\ taught \subseteq Course!Keys
      /\ cell \in Nat /\ cell \in 0 .. Course!Lessons /\ Course!Lessons \in Nat
  BY LessonsReachAll DEF CourseInv, CourseTypes
<1>1. CASE Course!Teach
  <2>1. /\ stage = "learning" /\ cell < Course!Lessons /\ cell' = cell + 1
        /\ stage' = stage /\ Aside
        /\ learner.committed = {} /\ TaughtUpTo(learner, domain, taught, cell)
    BY <1>0, <1>1 DEF Course!Teach, CourseOf
  <2>2. PICK s \in CourseSources :
          learner' = IF taught = Course!Keys
                 THEN Course!Lesson(learner, domain, Course!ValuesOf(domain), Course!KeyOf(cell), s)
                 ELSE IF Course!KeyOf(cell) \in taught
                 THEN Course!ShortLesson(learner, domain, Course!KeyOf(cell), s) ELSE learner
    BY <1>1 DEF Course!Teach
  <2>3. /\ Course!KeyOf(cell) \in Course!Keys
        /\ Course!ValuesOf(domain) \in [Course!Keys -> Course!Values]
    BY <1>0, KeyOfLesson, TaughtValues
  <2>4. CASE taught = Course!Keys
    <3>1. /\ learner' \in Course!Memory
          /\ Elsewhere(learner, learner', Course!KeyOf(cell)) /\ learner'.committed = {}
          /\ Holds(learner', Course!KeyOf(cell), Course!ValuesOf(domain)[Course!KeyOf(cell)])
          /\ Links(learner', domain, Course!KeyOf(cell))
          /\ learner'.challengerCount[Course!KeyOf(cell)] = 0
      BY <1>0, <2>1, <2>2, <2>3, <2>4, LessonTeaches
    <3>2. TaughtUpTo(learner', domain, taught, cell + 1)
      BY <1>0, <2>1, <2>3, <2>4, <3>1, LessonGoesOn
    <3> QED
      BY <1>0, <2>1, <3>1, <3>2 DEF CourseInv, CourseTypes, CourseOf
  <2>5. CASE taught # Course!Keys /\ Course!KeyOf(cell) \in taught
    <3>1. /\ learner' \in Course!Memory
          /\ Elsewhere(learner, learner', Course!KeyOf(cell)) /\ learner'.committed = {}
          /\ Holds(learner', Course!KeyOf(cell), Course!ValuesOf(domain)[Course!KeyOf(cell)])
          /\ learner'.challengerCount[Course!KeyOf(cell)] = 0
      BY <1>0, <2>1, <2>2, <2>3, <2>5, ShortLessonTeaches
    <3>2. TaughtUpTo(learner', domain, taught, cell + 1)
      BY <1>0, <2>1, <2>3, <2>5, <3>1, LessonGoesOn
    <3> QED
      BY <1>0, <2>1, <3>1, <3>2 DEF CourseInv, CourseTypes, CourseOf
  <2>6. CASE taught # Course!Keys /\ Course!KeyOf(cell) \notin taught
    <3>1. learner' = learner
      BY <2>2, <2>6
    <3>2. TaughtUpTo(learner', domain, taught, cell + 1)
      BY <1>0, <2>1, <2>6, <3>1, LessonGoesOn
    <3> QED
      BY <1>0, <2>1, <3>1, <3>2 DEF CourseInv, CourseTypes, CourseOf
  <2> QED
    BY <2>4, <2>5, <2>6
<1>2. CASE Course!FinishCourse
  <2>1. /\ stage = "learning" /\ cell = Course!Lessons /\ stage' = "learnt"
        /\ cell' = 0 /\ Aside
        /\ learner' = learner
    BY <1>2 DEF Course!FinishCourse, Course!Ends
  <2> QED
    BY <1>0, <2>1 DEF CourseInv, CourseTypes, CourseOf, Course!Stages
<1>3. CASE Course!SleepOnIt
  <2>1. /\ stage = "learnt" /\ stage' = "consolidated"
        /\ learner' = Course!Slept(learner) /\ cell' = cell /\ Aside
        /\ cell = 0 /\ learner.committed = {}
        /\ TaughtUpTo(learner, domain, taught, Course!Lessons)
    BY <1>0, <1>3 DEF Course!SleepOnIt, CourseOf
  <2>2. /\ learner' \in Course!Memory /\ learner'.known = learner.known
        /\ learner'.committed = learner'.known
        /\ learner'.hasRelation = learner.hasRelation
        /\ learner'.relation = learner.relation
        /\ \A k \in Course!Keys :
             /\ k \in learner.known => learner'.challengerCount[k] = 0
             /\ learner'.current[k] =
                  IF k \in learner.known /\ Course!Wins(learner, k) THEN learner.challenger[k]
                  ELSE learner.current[k]
    BY <1>0, <2>1, SleepKeeps
  <2>3. \A k \in learner.known : ~Course!Wins(learner, k)
    <3>1. \A k \in learner.known : learner.challengerCount[k] = 0
      BY <1>0, <2>1 DEF TaughtUpTo, Course!Memory
    <3> QED
      BY <3>1, CortexNumbers, CourseNumbers DEF Course!Wins
  <2>4. TaughtUpTo(learner', domain, taught, Course!Lessons)
    BY <2>1, <2>2, <2>3 DEF TaughtUpTo, Holds, Links
  <2> QED
    BY <1>0, <2>1, <2>2, <2>4 DEF CourseInv, CourseTypes, CourseOf, Course!Stages
<1>4. CASE Course!Contradict
  <2>1. /\ stage = "consolidated" /\ taught = Course!Keys /\ stage' = "contradicting"
        /\ learner' = learner /\ cell' = cell /\ Aside /\ cell = 0
        /\ learner.committed = learner.known
        /\ TaughtUpTo(learner, domain, Course!Keys, Course!Lessons)
    BY <1>0, <1>4 DEF Course!Contradict, CourseOf
  <2>2. \A k \in Course!Keys :
          Holds(learner, k, Course!ValuesOf(domain)[k]) /\ Links(learner, domain, k)
    BY <2>1, LessonsReachAll DEF TaughtUpTo
  <2>3. learner.known = Course!Keys
    BY <1>0, <2>2 DEF Holds, Course!Memory
  <2>4. Resists(learner, domain, 0)
    <3>1. \A k \in Course!Keys : ~(k < 0)
      BY LessonsReachAll
    <3> QED
      BY <2>1, <2>2, <2>3, <3>1 DEF Resists
  <2> QED
    BY <1>0, <2>1, <2>4 DEF CourseInv, CourseTypes, CourseOf, Course!Stages
<1>5. CASE Course!TeachContrary
  <2>1. /\ stage = "contradicting" /\ cell < Course!Lessons /\ cell' = cell + 1
        /\ stage' = stage /\ Aside
        /\ taught = Course!Keys /\ Resists(learner, domain, cell)
    BY <1>0, <1>5 DEF Course!TeachContrary, CourseOf
  <2>2. PICK s \in CourseSources :
          learner' = Course!Lesson(learner, domain, Course!Contrary(domain), Course!KeyOf(cell), s)
    BY <1>5 DEF Course!TeachContrary
  <2>3. learner' \in Course!Memory /\ Resists(learner', domain, cell + 1)
    BY <1>0, <2>1, <2>2, ContraryGoesOn
  <2> QED
    BY <1>0, <2>1, <2>3 DEF CourseInv, CourseTypes, CourseOf
<1>6. CASE Course!FinishContrary
  <2>1. /\ stage = "contradicting" /\ cell = Course!Lessons
        /\ stage' = "contradicted" /\ cell' = 0 /\ Aside
        /\ learner' = learner
    BY <1>6 DEF Course!FinishContrary, Course!Ends
  <2> QED
    BY <1>0, <2>1 DEF CourseInv, CourseTypes, CourseOf, Course!Stages
<1>7. CASE Course!SleepAgain
  <2>1. /\ stage = "contradicted" /\ stage' = "relearnt"
        /\ learner' = Course!Slept(learner) /\ cell' = cell /\ Aside
        /\ Resists(learner, domain, Course!Lessons)
    BY <1>0, <1>7 DEF Course!SleepAgain, CourseOf
  <2>2. /\ learner' \in Course!Memory /\ learner'.known = learner.known
        /\ \A k \in Course!Keys :
             learner'.current[k] =
               IF k \in learner.known /\ Course!Wins(learner, k) THEN learner.challenger[k]
               ELSE learner.current[k]
    BY <1>0, <2>1, SleepKeeps
  <2>3. \A k \in Course!Keys :
          /\ k \in learner.known /\ learner.current[k] = Course!ValuesOf(domain)[k]
          /\ learner.challenger[k] = Course!Contrary(domain)[k]
          /\ learner.challengerCount[k] = 2
    BY <2>1, LessonsReachAll DEF Resists, Holds
  <2>4. \A k \in Course!Keys : Course!Wins(learner, k)
    <3>1. \A k \in Course!Keys : Course!Contrary(domain)[k] # Course!ValuesOf(domain)[k]
      BY <1>0, TaughtValues
    <3> QED
      BY <2>3, <3>1, CortexNumbers, CourseNumbers DEF Course!Wins
  <2>5. \A k \in Course!Keys : Holds(learner', k, Course!Contrary(domain)[k])
    BY <2>2, <2>3, <2>4 DEF Holds
  <2> QED
    BY <1>0, <2>1, <2>2, <2>5 DEF CourseInv, CourseTypes, CourseOf, Course!Stages
<1>8. CASE Course!Forget
  <2>1. stage' = "cleared" /\ learner' = Course!Blank /\ cell' = cell /\ Aside
    BY <1>8 DEF Course!Forget
  <2> QED
    BY <1>0, <2>1, BlankIsMemory DEF CourseInv, CourseTypes, CourseOf, Course!Stages
<1>9. CASE UNCHANGED Course!vars
  BY <1>9 DEF Course!vars
<1> QED
  BY <1>1, <1>2, <1>3, <1>4, <1>5, <1>6, <1>7, <1>8, <1>9 DEF Course!Next

-----------------------------------------------------------------------------
\* The audits.

LEMMA AllKeys ==
  /\ IsFiniteSet(Course!Keys) /\ Cardinality(Course!Keys) = CourseKeys
  /\ CourseKeys \in Nat /\ CourseKeys >= 2
<1>1. CourseKeys \in Nat /\ CourseKeys >= 2 /\ Course!Keys = 0..(CourseKeys - 1)
  BY CortexNumbers, CourseNumbers DEF Course!Keys
<1>2. 0 \in Int /\ CourseKeys - 1 \in Int
  BY <1>1
<1>3. /\ IsFiniteSet(0..(CourseKeys - 1))
      /\ Cardinality(0..(CourseKeys - 1)) =
           IF 0 > CourseKeys - 1 THEN 0 ELSE (CourseKeys - 1) - 0 + 1
  BY <1>2, FS_Interval
<1> QED
  BY <1>1, <1>3

LEMMA CourseCounts == ASSUME NEW S PROVE Course!Cardinality(S) = Cardinality(S)
BY DEF Course!Cardinality, Cardinality

\* A whole course: every key is answered as taught, also through its relation.
LEMMA WholeAnswers ==
  ASSUME NEW m \in Course!Memory, NEW values \in [Course!Keys -> Course!Values],
         \A k \in Course!Keys : Holds(m, k, values[k])
  PROVE  /\ \A k \in Course!Keys : Course!Answer(m, k, k) = values[k]
         /\ Course!Correct(m, values) = CourseKeys
<1>1. \A k \in Course!Keys : Course!Answer(m, k, k) = values[k]
  BY DEF Course!Answer, Course!ReadKey, Holds
<1>2. {k \in Course!Keys : Course!Answer(m, k, k) = values[k]} = Course!Keys
  BY <1>1
<1> QED
  BY <1>1, <1>2, AllKeys, CourseCounts DEF Course!Correct

LEMMA WholeRelates ==
  ASSUME NEW m \in Course!Memory, NEW d \in Nat,
         \A k \in Course!Keys : Holds(m, k, Course!ValuesOf(d)[k]) /\ Links(m, d, k)
  PROVE  Course!Related(m, Course!ValuesOf(d), Course!RelationsOf(d)) = CourseKeys
<1>1. ASSUME NEW k \in Course!Keys
      PROVE  Course!Answer(m, k, Course!NextKey(k)) = Course!ValuesOf(d)[Course!RelationsOf(d)[k]]
  <2>1. Course!RelationsOf(d)[k] \in Course!Keys /\ Course!NextKey(k) # k
    BY TaughtValues, KeysFollow
  <2> QED
    BY <2>1 DEF Course!Answer, Course!ReadKey, Holds, Links
<1>2. {k \in Course!Keys : Course!Answer(m, k, Course!NextKey(k)) = Course!ValuesOf(d)[Course!RelationsOf(d)[k]]}
        = Course!Keys
  BY <1>1
<1> QED
  BY <1>2, AllKeys, CourseCounts DEF Course!Related

\* A scrambled key is right at most once, where the keys wrap.
LEMMA ScrambledFails ==
  ASSUME NEW m \in Course!Memory, NEW d \in Nat,
         \A k \in Course!Keys : Holds(m, k, Course!ValuesOf(d)[k])
  PROVE  Course!Scrambled(m, Course!ValuesOf(d)) \in 0..1
<1> DEFINE right ==
             {k \in Course!Keys : Course!Answer(m, Course!NextKey(k), Course!NextKey(k)) = Course!ValuesOf(d)[k]}
<1>1. \A k \in right : k = CourseKeys - 1
  <2> SUFFICES ASSUME NEW k \in Course!Keys, k # CourseKeys - 1
               PROVE  Course!Answer(m, Course!NextKey(k), Course!NextKey(k)) # Course!ValuesOf(d)[k]
    OBVIOUS
  <2>1. k < CourseKeys - 1
    BY CortexNumbers, CourseNumbers DEF Course!Keys
  <2>2. /\ Course!NextKey(k) \in Course!Keys
        /\ Course!ValuesOf(d)[Course!NextKey(k)] # Course!ValuesOf(d)[k]
    BY <2>1, KeysFollow, TaughtValues
  <2> QED
    BY <2>2 DEF Course!Answer, Course!ReadKey, Holds
<1>2. right \subseteq {CourseKeys - 1}
  BY <1>1
<1>3. IsFiniteSet({CourseKeys - 1}) /\ Cardinality({CourseKeys - 1}) = 1
  BY FS_Singleton
<1>4. IsFiniteSet(right) /\ Cardinality(right) <= 1 /\ Cardinality(right) \in Nat
  BY <1>2, <1>3, FS_Subset, FS_CardinalityType
<1> QED
  BY <1>4, CourseCounts DEF Course!Scrambled

\* A cleared memory knows nothing.
LEMMA BlankAnswers ==
  ASSUME NEW values \in [Course!Keys -> Course!Values]
  PROVE  Course!Correct(Course!Blank, values) = 0
<1>1. \A k \in Course!Keys : Course!Answer(Course!Blank, k, k) = None
  BY DEF Course!Answer, Course!ReadKey, Course!Blank
<1>2. {k \in Course!Keys : Course!Answer(Course!Blank, k, k) = values[k]} = {}
  BY <1>1, NoneAssumption
<1> QED
  BY <1>2, FS_EmptySet, CourseCounts DEF Course!Correct

LEMMA CourseAudits ==
  ASSUME CourseInv(learner, domain, taught, stage, cell)
  PROVE  Course!AuditsPass
<1> DEFINE values == Course!ValuesOf(domain)
<1>0. /\ CourseOf(learner, domain, taught, stage, cell) /\ learner \in Course!Memory
      /\ domain \in Nat
      /\ taught \subseteq Course!Keys
  BY DEF CourseInv, CourseTypes
<1>1. /\ values \in [Course!Keys -> Course!Values]
      /\ Course!Contrary(domain) \in [Course!Keys -> Course!Values]
  BY <1>0, TaughtValues
<1> HIDE DEF values
<1>2. ASSUME stage \in {"learnt", "consolidated", "contradicted"}, taught = Course!Keys
      PROVE  \A k \in Course!Keys : Holds(learner, k, values[k]) /\ Links(learner, domain, k)
  <2>1. CASE stage \in {"learnt", "consolidated"}
    <3>1. TaughtUpTo(learner, domain, Course!Keys, Course!Lessons)
      BY <1>0, <1>2, <2>1 DEF CourseOf
    <3> QED
      BY <3>1, LessonsReachAll DEF TaughtUpTo, values
  <2>2. CASE stage = "contradicted"
    BY <1>0, <2>2 DEF CourseOf, Resists, values
  <2> QED
    BY <1>2, <2>1, <2>2
<1>3. ASSUME stage \in {"learnt", "consolidated", "contradicted"}, taught = Course!Keys
      PROVE  /\ Course!AtLeast(Course!Correct(learner, values), 85)
             /\ Course!AtLeast(Course!Related(learner, values, Course!RelationsOf(domain)), 85)
  <2>1. Course!Correct(learner, values) = CourseKeys
    BY <1>0, <1>1, <1>2, <1>3, WholeAnswers
  <2>2. Course!Related(learner, values, Course!RelationsOf(domain)) = CourseKeys
    BY <1>0, <1>2, <1>3, WholeRelates DEF values
  <2> QED
    BY <2>1, <2>2, AllKeys DEF Course!AtLeast
<1>4. ASSUME stage = "consolidated", taught = Course!Keys
      PROVE  Course!AtLeast(Course!Correct(learner, values) - Course!Scrambled(learner, values), 30)
  <2>1. Course!Correct(learner, values) = CourseKeys
    BY <1>0, <1>1, <1>2, <1>4, WholeAnswers
  <2>2. Course!Scrambled(learner, values) \in 0..1
    BY <1>0, <1>2, <1>4, ScrambledFails DEF values
  <2> QED
    BY <2>1, <2>2, AllKeys DEF Course!AtLeast
<1>5. ASSUME stage \in {"learnt", "consolidated"}, NEW k \in Course!Keys
      PROVE  Course!Answer(learner, k, k) = IF k \in taught THEN values[k] ELSE None
  <2>1. TaughtUpTo(learner, domain, taught, Course!Lessons)
    BY <1>0, <1>5 DEF CourseOf
  <2> QED
    BY <2>1, LessonsReachAll DEF TaughtUpTo, values, Course!Answer, Course!ReadKey, Holds
<1>6. ASSUME stage = "relearnt"
      PROVE  Course!AtLeast(Course!Correct(learner, Course!Contrary(domain)), 85)
  <2>1. Course!Correct(learner, Course!Contrary(domain)) = CourseKeys
    BY <1>0, <1>1, <1>6, WholeAnswers DEF CourseOf
  <2> QED
    BY <2>1, AllKeys DEF Course!AtLeast
<1>7. stage = "cleared" => Course!Correct(learner, values) = 0
  BY <1>0, <1>1, BlankAnswers DEF CourseOf
<1> QED
  BY <1>3, <1>4, <1>5, <1>6, <1>7 DEF Course!AuditsPass, values

\* The audits of the continual and developmental loops (v10_developmental_loop.py,
\* v10_milestone.py) pass for every domain, any number of keys and cycles, and
\* whoever the sources are.
THEOREM AuditsHold == Course!Spec => []AuditsPass
<1>1. Course!Init => CourseInv(learner, domain, taught, stage, cell)
  BY CourseInit
<1>2. /\ CourseInv(learner, domain, taught, stage, cell) /\ [Course!Next]_(Course!vars)
      => CourseInv(learner, domain, taught, stage, cell)'
  BY CourseStep
<1>3. CourseInv(learner, domain, taught, stage, cell) => Course!AuditsPass
  BY CourseAudits
<1> QED
  BY <1>1, <1>2, <1>3, PTL DEF Course!Spec, AuditsPass
=============================================================================
