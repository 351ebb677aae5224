------------------------- MODULE ContinuousLearning --------------------------
(***************************************************************************)
(* One user's learning ledgers (gateway/continuous_learning.py) and the    *)
(* buffer of recent writes (gateway/recent_write_buffer.py), under the     *)
(* request threads that feed them (gateway/memory_service_backend.py):     *)
(* feedback, web candidates, teaching, consolidation and forget.           *)
(*                                                                         *)
(* Every change of memory_candidates.jsonl loads the file, changes the     *)
(* rows and writes the whole file anew, which truncates it first.  There   *)
(* is no lock: a step below is what one thread does before another may.    *)
(***************************************************************************)
EXTENDS Naturals, FiniteSets

CONSTANTS
  Threads,      \* request threads of the gateway
  Values,       \* what is learnt, up to the key of a value
  NoValue,
  Threshold,    \* EVIDENCE_THRESHOLD
  MaxWeight,    \* delta of the rating "important"; any other reinforcement is 1
  MaxOps,       \* bound: operations started
  MaxCrashes    \* bound: deaths of the gateway

Numbers == Threshold \in Nat /\ MaxWeight \in Nat /\ MaxOps \in Nat /\ MaxCrashes \in Nat

Statuses == {"none", "candidate", "committed"}
Row == [evidence : Nat, status : Statuses]
NoRow == [evidence |-> 0, status |-> "none"]
Empty == [v \in Values |-> NoRow]
Tiers == {"candidate", "user", "committed", "disputed"}

VARIABLES
  candidates,   \* memory_candidates.jsonl
  facts,        \* facts.jsonl: how often each value was appended
  archive,      \* archive.jsonl: the disputed values
  service,      \* facts of this user in the memory service, with their tier
  buffer,       \* RecentWriteBuffer of this user
  pc, value, rows, todo,  \* a thread: its place, its value, its rows, to promote
  ops, crashes,
  earned,       \* history: evidence given for a value since it was last forgotten
  given,        \* history: evidence ever given for a value
  overlapped    \* history: an operation began while another was under way

files == <<candidates, facts, archive>>
threads == <<pc, value, rows, todo>>
history == <<earned, given, overlapped>>
vars == <<files, service, buffer, threads, ops, crashes, history>>

Pcs == {"idle", "save", "cut", "mirror", "promote", "promoted", "saveAll", "cutAll",
        "disputed", "forget1", "forget2"}

Init ==
  /\ candidates = Empty
  /\ facts = [v \in Values |-> 0]
  /\ archive = {}
  /\ service = {}
  /\ buffer = {}
  /\ pc = [t \in Threads |-> "idle"]
  /\ value = [t \in Threads |-> NoValue]
  /\ rows = [t \in Threads |-> Empty]
  /\ todo = [t \in Threads |-> {}]
  /\ ops = 0 /\ crashes = 0
  /\ earned = [v \in Values |-> 0]
  /\ given = [v \in Values |-> 0]
  /\ overlapped = FALSE

-----------------------------------------------------------------------------
\* A request begins an operation.
Begin(t) ==
  /\ pc[t] = "idle" /\ ops < MaxOps
  /\ ops' = ops + 1
  /\ overlapped' = (overlapped \/ \E u \in Threads : pc[u] # "idle")

At(t, place) == pc' = [pc EXCEPT ![t] = place]

\* A thread forgets its locals.
Done(t) ==
  /\ At(t, "idle")
  /\ value' = [value EXCEPT ![t] = NoValue]
  /\ rows' = [rows EXCEPT ![t] = Empty]
  /\ todo' = [todo EXCEPT ![t] = {}]

\* store_fact, where an exception is swallowed: the fact is there or it is not.
TryStore(v, tier) == service' \in {service, service \cup {<<v, tier>>}}

-----------------------------------------------------------------------------
\* upsert_candidate, by reinforce and store_web_candidate: load, then rewrite,
\* then mirror into the memory service.

Upserted(r, weight) ==
  [evidence |-> r.evidence + weight,
   status |-> IF r.status = "none" THEN "candidate" ELSE r.status]

\* Mutant: evidence counts for the value whatever it is evidence of.
MutUpsert(t, v, weight) ==
  /\ Begin(t)
  /\ value' = [value EXCEPT ![t] = v]
  /\ rows' = [rows EXCEPT ![t] = [u \in Values |-> Upserted(candidates[u], weight)]]
  /\ earned' = [earned EXCEPT ![v] = @ + weight]
  /\ given' = [given EXCEPT ![v] = @ + weight]
  /\ At(t, "save")
  /\ UNCHANGED <<files, service, buffer, todo, crashes>>

Upsert(t, v, weight) ==
  /\ Begin(t)
  /\ value' = [value EXCEPT ![t] = v]
  /\ rows' = [rows EXCEPT ![t] = [candidates EXCEPT ![v] = Upserted(@, weight)]]
  /\ earned' = [earned EXCEPT ![v] = @ + weight]
  /\ given' = [given EXCEPT ![v] = @ + weight]
  /\ At(t, "save")
  /\ UNCHANGED <<files, service, buffer, todo, crashes>>

\* _rewrite opens the file, which empties it, ...
Truncate(t) ==
  /\ pc[t] \in {"save", "saveAll"}
  /\ candidates' = Empty
  /\ At(t, IF pc[t] = "save" THEN "cut" ELSE "cutAll")
  /\ UNCHANGED <<facts, archive, service, buffer, value, rows, todo, ops, crashes, history>>

\* Mutant: rows are appended to what the file holds, and the first row counts.
MutWrite(t) ==
  /\ pc[t] \in {"cut", "cutAll"}
  /\ candidates' = [v \in Values |-> IF candidates[v] = NoRow /\ rows[t][v].status # "committed"
                                     THEN rows[t][v] ELSE candidates[v]]
  /\ IF pc[t] = "cut" THEN At(t, "mirror") /\ UNCHANGED <<value, rows, todo>> ELSE Done(t)
  /\ UNCHANGED <<facts, archive, service, buffer, ops, crashes, history>>

\* ... and writes the rows.  consolidate's fce_consolidate keeps no state here.
Write(t) ==
  /\ pc[t] \in {"cut", "cutAll"}
  /\ candidates' = rows[t]
  /\ IF pc[t] = "cut" THEN At(t, "mirror") /\ UNCHANGED <<value, rows, todo>> ELSE Done(t)
  /\ UNCHANGED <<facts, archive, service, buffer, ops, crashes, history>>

Mirror(t) ==
  /\ pc[t] = "mirror"
  /\ TryStore(value[t], "candidate")
  /\ Done(t)
  /\ UNCHANGED <<files, buffer, ops, crashes, history>>

-----------------------------------------------------------------------------
\* dispute, by feedback wrong, false and do_not_remember: the archive gets a
\* line and the memory service a disputed fact; the candidate stays as it is.

Dispute(t, v) ==
  /\ Begin(t)
  /\ archive' = archive \cup {v}
  /\ value' = [value EXCEPT ![t] = v]
  /\ At(t, "disputed")
  /\ UNCHANGED <<candidates, facts, service, buffer, rows, todo, crashes, earned, given>>

MarkDisputed(t) ==
  /\ pc[t] = "disputed"
  /\ TryStore(value[t], "disputed")
  /\ Done(t)
  /\ UNCHANGED <<files, buffer, ops, crashes, history>>

-----------------------------------------------------------------------------
\* consolidate.

\* Mutant: off by one.
MutRipe(r) == r.status = "candidate" /\ r.evidence + 1 >= Threshold

Ripe(r) == r.status = "candidate" /\ r.evidence >= Threshold

Consolidate(t) ==
  /\ Begin(t)
  /\ rows' = [rows EXCEPT ![t] = candidates]
  /\ todo' = [todo EXCEPT ![t] = {v \in Values : Ripe(candidates[v])}]
  /\ At(t, "promote")
  /\ UNCHANGED <<files, service, buffer, value, crashes, earned, given>>

\* A row becomes committed in memory and facts.jsonl gets its line, ...
Promote(t, v) ==
  /\ pc[t] = "promote" /\ v \in todo[t]
  /\ rows' = [rows EXCEPT ![t][v].status = "committed"]
  /\ facts' = [facts EXCEPT ![v] = @ + 1]
  /\ todo' = [todo EXCEPT ![t] = @ \ {v}]
  /\ value' = [value EXCEPT ![t] = v]
  /\ At(t, "promoted")
  /\ UNCHANGED <<candidates, archive, service, buffer, ops, crashes, history>>

\* ... then the memory service its committed fact.
StorePromoted(t) ==
  /\ pc[t] = "promoted"
  /\ TryStore(value[t], "committed")
  /\ At(t, "promote")
  /\ UNCHANGED <<files, buffer, value, rows, todo, ops, crashes, history>>

\* The rows are saved only when all are promoted.
SaveAll(t) ==
  /\ pc[t] = "promote" /\ todo[t] = {}
  /\ At(t, "saveAll")
  /\ UNCHANGED <<files, service, buffer, value, rows, todo, ops, crashes, history>>

-----------------------------------------------------------------------------
\* forget: the files are unlinked one after the other.

Forget(t) ==
  /\ Begin(t)
  /\ candidates' = Empty
  /\ earned' = [v \in Values |-> 0]
  /\ At(t, "forget1")
  /\ UNCHANGED <<facts, archive, service, buffer, value, rows, todo, crashes, given>>

\* Mutant: facts.jsonl is left out of the list.
MutForgetFacts(t) ==
  /\ pc[t] = "forget1"
  /\ At(t, "forget2")
  /\ UNCHANGED <<files, service, buffer, value, rows, todo, ops, crashes, history>>

ForgetFacts(t) ==
  /\ pc[t] = "forget1"
  /\ facts' = [v \in Values |-> 0]
  /\ At(t, "forget2")
  /\ UNCHANGED <<candidates, archive, service, buffer, value, rows, todo, ops, crashes, history>>

ForgetArchive(t) ==
  /\ pc[t] = "forget2"
  /\ archive' = {}
  /\ Done(t)
  /\ UNCHANGED <<candidates, facts, service, buffer, ops, crashes, history>>

-----------------------------------------------------------------------------
\* Teaching, and the buffer of recent writes.

\* _learn_from_message: the store is not in a try, so that a failed one ends the
\* request; only what is stored is buffered.
Teach(t, v) ==
  /\ Begin(t)
  /\ \/ service' = service \cup {<<v, "user">>} /\ buffer' = buffer \cup {v}
     \/ UNCHANGED <<service, buffer>>
  /\ UNCHANGED <<files, threads, crashes, earned, given>>

\* Dropped: the ttl is over (_prune), or a search found it indexed
\* (confirm_indexed).
Unbuffer(v) ==
  /\ v \in buffer
  /\ buffer' = buffer \ {v}
  /\ UNCHANGED <<files, service, threads, ops, crashes, history>>

\* The gateway dies: files and service stay, threads and buffer are gone.
Crash ==
  /\ crashes < MaxCrashes
  /\ crashes' = crashes + 1
  /\ buffer' = {}
  /\ pc' = [t \in Threads |-> "idle"]
  /\ value' = [t \in Threads |-> NoValue]
  /\ rows' = [t \in Threads |-> Empty]
  /\ todo' = [t \in Threads |-> {}]
  /\ UNCHANGED <<files, service, ops, history>>

-----------------------------------------------------------------------------
Step(t) ==
  \/ \E v \in Values : \/ \E w \in 1..MaxWeight : Upsert(t, v, w)
                       \/ Dispute(t, v) \/ Promote(t, v) \/ Teach(t, v)
  \/ Truncate(t) \/ Write(t) \/ Mirror(t)
  \/ MarkDisputed(t)
  \/ Consolidate(t) \/ StorePromoted(t) \/ SaveAll(t)
  \/ Forget(t) \/ ForgetFacts(t) \/ ForgetArchive(t)

Next == (\E t \in Threads : Step(t)) \/ (\E v \in Values : Unbuffer(v)) \/ Crash

Spec == Init /\ [][Next]_vars

-----------------------------------------------------------------------------
TypeOK ==
  /\ candidates \in [Values -> Row]
  /\ facts \in [Values -> Nat]
  /\ archive \subseteq Values
  /\ service \subseteq Values \X Tiers
  /\ buffer \subseteq Values
  /\ pc \in [Threads -> Pcs]
  /\ value \in [Threads -> Values \cup {NoValue}]
  /\ rows \in [Threads -> [Values -> Row]]
  /\ todo \in [Threads -> SUBSET Values]
  /\ ops \in 0..MaxOps /\ crashes \in 0..MaxCrashes
  /\ earned \in [Values -> Nat] /\ given \in [Values -> Nat]
  /\ overlapped \in BOOLEAN

\* A value is promoted, in the ledger or in the memory service, only after
\* Threshold evidence was given for that very value: lost updates, truncated
\* files, consolidations on old rows and a forget in between never add any.
PromotionEarned ==
  \A v \in Values :
    (facts[v] > 0 \/ <<v, "committed">> \in service) => given[v] >= Threshold

Quiet == \A t \in Threads : pc[t] = "idle"

\* Short of overlapping requests and a crash, the ledger is exact: between
\* requests it holds all the evidence given since the last forget and none from
\* before it, and one line of facts.jsonl for each committed row.
LedgerExact ==
  overlapped \/ crashes > 0 \/ ~Quiet \/
  \A v \in Values :
    /\ candidates[v].evidence = earned[v]
    /\ facts[v] = IF candidates[v].status = "committed" THEN 1 ELSE 0
=============================================================================
