----------------------------- MODULE Tombstones -----------------------------
(***************************************************************************)
(* The tombstone ledger (gateway/tombstones.py), the reader that filters   *)
(* its hits by it (gateway/consistent_client.py) and the compaction that   *)
(* retires duplicate vault facts (scripts/compact_vault_memory.py).        *)
(*                                                                         *)
(* The ledger is a file of JSON lines that several processes append to.    *)
(* Every process keeps a store of it: the latest record per key, the sets  *)
(* of what is hidden, and the mtime of the file it has read.  The threads  *)
(* of one process share that store without a lock, so its reload is split  *)
(* here where another thread can run: at the stat, at the clear, at the    *)
(* read, at every line and at the rebuild of the sets.  The mtime is the   *)
(* number of lines: every append is taken to change it.                    *)
(***************************************************************************)
EXTENDS Naturals, Sequences, FiniteSets

CONSTANTS Facts,        \* ctx ids of the stored vault facts, a set of numbers
          ContentOf,    \* [Facts -> content], equal content is a duplicate
          SidOf,        \* [Facts -> source id of the chunk it was indexed from]
          TrustOf,      \* [Facts -> {"plain", "verified", "canonical"}]
          Threads,      \* threads of the process that reads
          AllowVerified,\* the operator's flag of the compaction
          None,         \* no value
          MaxLog,       \* bound: lines appended to the ledger
          MaxPasses     \* bound: runs of the compaction

VARIABLES
    log,        \* the ledger file: a sequence of records
    records,    \* the reader's _records: key -> latest record it has read
    sets,       \* the reader's _ctx, _sid: the active records of the last rebuild
    mtime,      \* the reader's _mtime
    pc,         \* per thread: where it is in a search or in an append
    text,       \* per thread: the lines it has read and not yet parsed
    due,        \* history, per thread: facts the ledger hid when it looked
    shown,      \* per thread: what its last search answered
    excused,    \* history: threads whose call overlapped another's on the store, or
                \* that answered while lines were masked
    own,        \* history: the lines this process appended
    masked,     \* history: a stat took lines as read that nobody had read
    plan,       \* the compaction: the facts it still has to retire
    store,      \* the compaction's own _records, loaded when it started
    kept,       \* history: the copies the compaction decided to keep
    passes      \* compactions started

reader  == <<records, sets, mtime>>
threads == <<pc, text, due, shown, excused, own, masked>>
retirer == <<plan, store, kept, passes>>
vars == <<log, records, sets, mtime, pc, text, due, shown, excused,
          own, masked, plan, store, kept, passes>>

-----------------------------------------------------------------------------
Keys == Facts
Record == [ctx : Facts, sid : {SidOf[f] : f \in Facts}, active : BOOLEAN]

\* A call names the fact by its ctx id, which is then the key, and carries the
\* source id tag of the hit along.
Key(rec) == rec.ctx
Retired(f) == [ctx |-> f, sid |-> SidOf[f], active |-> TRUE]

\* What a set of active records hides: the ctx ids, and every hit that carries
\* one of the source ids.
Hides(recs) == {f \in Facts : \E r \in recs : r.ctx = f \/ r.sid = SidOf[f]}

Active(recs) == {recs[k] : k \in {j \in Keys : recs[j] # None /\ recs[j].active}}

NoRecords == [k \in Keys |-> None]

Latest(lines) ==
    [k \in Keys |->
        IF \E i \in DOMAIN lines : Key(lines[i]) = k
        THEN lines[CHOOSE i \in DOMAIN lines :
                     /\ Key(lines[i]) = k
                     /\ \A j \in DOMAIN lines : Key(lines[j]) = k => j <= i]
        ELSE None]

\* History only: what the lines hide by keys that were never revived.
Standing(lines) ==
    Hides({r \in Active(Latest(lines)) :
             \A i \in DOMAIN log : Key(log[i]) = Key(r) => log[i].active})

-----------------------------------------------------------------------------
Init ==
    /\ log = <<>>
    /\ records = NoRecords
    /\ sets = {}
    /\ mtime = 0
    /\ pc = [t \in Threads |-> "idle"]
    /\ text = [t \in Threads |-> <<>>]
    /\ due = [t \in Threads |-> {}]
    /\ shown = [t \in Threads |-> {}]
    /\ excused = {}
    /\ own = {}
    /\ masked = FALSE
    /\ plan = {}
    /\ store = NoRecords
    /\ kept = {}
    /\ passes = 0

\* A thread enters the store while another is inside, or is inside when
\* another enters: both calls overlapped.
Entered(t) ==
    LET inside == {u \in Threads \ {t} : pc[u] # "idle"}
    IN  excused' = IF inside = {} THEN excused \ {t} ELSE excused \union inside \union {t}

-----------------------------------------------------------------------------
(* A search: maybe_reload, then filter.                                    *)

Stat(t) ==
    /\ pc[t] = "idle"
    /\ pc' = [pc EXCEPT ![t] = IF mtime # Len(log) THEN "stale" ELSE "filter"]
    /\ due' = [due EXCEPT ![t] = Standing(log)]
    /\ shown' = [shown EXCEPT ![t] = {}]
    /\ Entered(t)
    /\ UNCHANGED <<log, reader, text, own, masked, retirer>>

ClearRecords(t) ==
    /\ pc[t] = "stale"
    /\ records' = NoRecords
    /\ pc' = [pc EXCEPT ![t] = "cleared"]
    /\ UNCHANGED <<log, sets, mtime, text, due, shown, excused, own, masked, retirer>>

\* _load takes the mtime before it reads the text.
Load(t) ==
    /\ pc[t] = "cleared"
    /\ mtime' = Len(log)
    /\ text' = [text EXCEPT ![t] = log]
    /\ masked' = FALSE
    /\ pc' = [pc EXCEPT ![t] = "reading"]
    /\ UNCHANGED <<log, records, sets, due, shown, excused, own, retirer>>

ParseLine(t) ==
    /\ pc[t] = "reading"
    /\ text[t] # <<>>
    /\ records' = [records EXCEPT ![Key(Head(text[t]))] = Head(text[t])]
    /\ text' = [text EXCEPT ![t] = Tail(@)]
    /\ UNCHANGED <<log, sets, mtime, pc, due, shown, excused, own, masked, retirer>>

\* Mutant: the mtime is taken after the text, at the rebuild.
MutRebuildSets(t) ==
    /\ pc[t] = "reading"
    /\ text[t] = <<>>
    /\ sets' = Active(records)
    /\ mtime' = Len(log)
    /\ pc' = [pc EXCEPT ![t] = "filter"]
    /\ UNCHANGED <<log, records, text, due, shown, excused, own, masked, retirer>>

RebuildSets(t) ==
    /\ pc[t] = "reading"
    /\ text[t] = <<>>
    /\ sets' = Active(records)
    /\ pc' = [pc EXCEPT ![t] = "filter"]
    /\ UNCHANGED <<log, records, mtime, text, due, shown, excused, own, masked, retirer>>

\* The rebuild iterates over the dictionary; if another thread changes its size
\* meanwhile it raises, and the search with it, the sets as they were.
RebuildRaises(t) ==
    /\ pc[t] = "reading"
    /\ text[t] = <<>>
    /\ \E u \in Threads \ {t} : pc[u] \in {"stale", "reading", "appending"}
    /\ pc' = [pc EXCEPT ![t] = "idle"]
    /\ UNCHANGED <<log, reader, text, due, shown, excused, own, masked, retirer>>

Filter(t) ==
    /\ pc[t] = "filter"
    /\ shown' = [shown EXCEPT ![t] = Facts \ Hides(sets)]
    /\ excused' = IF masked THEN excused \union {t} ELSE excused
    /\ pc' = [pc EXCEPT ![t] = "idle"]
    /\ UNCHANGED <<log, reader, text, due, own, masked, retirer>>

-----------------------------------------------------------------------------
(* tombstone and revive called in the reader's own process.                *)

Refuses(f, operator) == TrustOf[f] # "plain" /\ ~operator

Put(t, rec) ==
    /\ Len(log) < MaxLog
    /\ log' = Append(log, rec)
    /\ text' = [text EXCEPT ![t] = <<rec>>]
    /\ pc' = [pc EXCEPT ![t] = "appending"]
    /\ shown' = [shown EXCEPT ![t] = {}]
    /\ due' = [due EXCEPT ![t] = {}]
    /\ own' = own \union {Len(log')}
    /\ Entered(t)
    /\ UNCHANGED <<reader, masked, retirer>>

Tombstone(t, f, operator) ==
    /\ pc[t] = "idle"
    /\ ~Refuses(f, operator)
    /\ ~(records[f] # None /\ records[f].active)
    /\ Put(t, Retired(f))

Revive(t, f) ==
    /\ pc[t] = "idle"
    /\ records[f] # None
    /\ Put(t, [records[f] EXCEPT !.active = FALSE])

\* _append has written the line; now the own record and the sets.
RecordOwn(t) ==
    /\ pc[t] = "appending"
    /\ records' = [records EXCEPT ![Key(Head(text[t]))] = Head(text[t])]
    /\ sets' = Active(records')
    /\ text' = [text EXCEPT ![t] = <<>>]
    /\ pc' = [pc EXCEPT ![t] = "recorded"]
    /\ UNCHANGED <<log, mtime, due, shown, excused, own, masked, retirer>>

\* Its last step takes the file's mtime as read, whoever wrote last.
TakeMtime(t) ==
    /\ pc[t] = "recorded"
    /\ mtime' = Len(log)
    /\ masked' = (masked \/ \E i \in DOMAIN log \ own : i > mtime)
    /\ pc' = [pc EXCEPT ![t] = "idle"]
    /\ UNCHANGED <<log, records, sets, text, due, shown, excused, own, retirer>>

-----------------------------------------------------------------------------
(* The compaction, a process of its own.                                   *)

\* Copies of one content that the freshly loaded store does not hide: all but
\* the newest are retired, and trusted ones skipped.
Copies(f, hidden) == {g \in Facts \ hidden : ContentOf[g] = ContentOf[f]}
Newest(f, hidden) == \A g \in Copies(f, hidden) : g <= f
Skipped(f) ==
    \/ TrustOf[f] = "canonical"
    \/ TrustOf[f] = "verified" /\ ~AllowVerified

StartCompaction ==
    /\ passes < MaxPasses
    /\ plan = {}
    /\ store' = Latest(log)
    /\ LET hidden == Hides(Active(store'))
       IN  /\ plan' = {f \in Facts \ hidden : ~Newest(f, hidden) /\ ~Skipped(f)}
           /\ kept' = {f \in Facts \ hidden : Newest(f, hidden)}
    /\ passes' = passes + 1
    /\ UNCHANGED <<log, reader, threads>>

Retire(f) ==
    /\ f \in plan
    /\ plan' = plan \ {f}
    /\ IF store[f] # None /\ store[f].active
       THEN UNCHANGED <<log, store>>
       ELSE /\ Len(log) < MaxLog
            /\ log' = Append(log, Retired(f))
            /\ store' = [store EXCEPT ![f] = Retired(f)]
    /\ UNCHANGED <<reader, threads, kept, passes>>

\* The process ends before its list does.
StopCompaction ==
    /\ plan # {}
    /\ plan' = {}
    /\ kept' = {}
    /\ UNCHANGED <<log, reader, threads, store, passes>>

Next ==
    \/ \E t \in Threads :
        \/ Stat(t) \/ ClearRecords(t) \/ Load(t) \/ ParseLine(t)
        \/ RebuildSets(t) \/ RebuildRaises(t) \/ Filter(t)
        \/ RecordOwn(t) \/ TakeMtime(t)
        \/ \E f \in Facts : Revive(t, f) \/ \E op \in BOOLEAN : Tombstone(t, f, op)
    \/ StartCompaction
    \/ \E f \in Facts : Retire(f)
    \/ StopCompaction

Spec == Init /\ [][Next]_vars

-----------------------------------------------------------------------------
\* A search answers nothing that the ledger had retired when the search looked
\* at it, unless another call was inside the store at the same time or an append
\* of this process had taken lines it never read as read (tombstones.py:110).
\* So a reload torn by another is whole again for whoever searches next, but for
\* a key that was revived, which may be left with an older line.
LeakIsExcused ==
    \A t \in Threads :
        shown[t] \intersect due[t] # {} => t \in excused

\* The compaction retires the older copies and keeps the newest: what it kept
\* is still there when its list is done.
NewestIsKept ==
    passes > 0 /\ plan = {} => kept \intersect Hides(Active(store)) = {}
=============================================================================
