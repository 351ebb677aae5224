--------------------------- MODULE RelationField ---------------------------
(***************************************************************************)
(* The relation field (src/gateway/relation_field.py): typed relations     *)
(* between entities, kept in an append-only ledger where the last record   *)
(* of a relation wins.  Every HTTP request and every LifeLoop hook builds  *)
(* a RelationField of its own (lifeloop_field), which loads the ledger     *)
(* into memory once, changes its own copy and appends the whole record.    *)
(* Requests overlap: FastAPI runs them in a thread pool and no lock guards *)
(* the ledger.  An append that fails is silent, and so is a load that      *)
(* cannot open the file.  A line that cannot be parsed (an append cut off  *)
(* by a full disk or a dying process, two that ran into each other, a line *)
(* separator within a text) ends every later load at that line.            *)
(*                                                                         *)
(* A ledger is the function from relations to their last records, as far   *)
(* as it can be read: what is appended behind a broken line no longer      *)
(* counts.  A record keeps what decides its status: its sources (whose     *)
(* classes are ClassOf), whether it was ever contradicted                  *)
(* (contradiction_count > 0), whether it comes from the canonical schema,  *)
(* and the status.  Weights, decay and the order of answers are the        *)
(* subject of RelationPaths.                                               *)
(***************************************************************************)
EXTENDS Naturals, FiniteSets

CONSTANTS Requests,     \* requests and LifeLoop hooks, a copy of the field each
          Positive,     \* relations that can be contradicted
          Negative,     \* "contradicts" edges
          Seeded,       \* the relations of the canonical seed
          Between,      \* Between[n]: the relations with the same two ends as n
          Sources,      \* source ids
          ClassOf,      \* the source class each source id comes with
          Cites,        \* the pairs <<s, r>> such that the text of s states r
          Vouches,      \* ... such that s is a committed candidate and r its promotion,
                        \*   or s a relation fact of an event and r its triple
          Denies,       \* ... such that s is a dispute record or an event that marks r
          Echoes,       \* the sources that are candidates made of an answer
          TypeOf,       \* the relation type of each relation
          AboutCore,    \* the relations with BYON, D_Cortex, ... at an end
          MaxOpens,     \* bound: the requests served
          MaxWrites,    \* bound: the records appended
          MaxSlips      \* bound: the loads and appends that fail

Relations == Positive \cup Negative
ASSUME BetweenAssumption == Between \in [Negative -> SUBSET Relations]

Statuses == {"none", "candidate", "reinforced", "committed", "disputed", "archived"}
Record == [sources : SUBSET Sources, contradicted : BOOLEAN, canonical : BOOLEAN,
           status : Statuses]
Blank == [sources |-> {}, contradicted |-> FALSE, canonical |-> FALSE, status |-> "none"]
Known(r) == r.status # "none"

VARIABLES file,      \* relation_edges.jsonl: the last record of each relation
          history,   \* relation_contradictions.jsonl: its status per challenger
          copy,      \* the relations each request loaded and changed (_rel)
          notes,     \* the contradiction ledger each request loaded (_contra)
          pc,        \* where each request is
          todo,      \* the relations its loop has not reached
          gaps,      \* the open relgap: tasks
          answered,  \* the candidates that ran gap tasks have produced
          old,       \* the relations first seen at least stale_days ago
          torn,      \* the ledgers a line of which cannot be parsed
          behind,    \* history: the relations others appended since a copy was taken
          missed,    \* history: the relations a copy lacks because the file did not open
          opens, writes, slips

tallies == <<opens, writes, slips>>
vars == <<file, history, copy, notes, pc, todo, gaps, answered, old, torn, behind, missed,
          tallies>>

---------------------------------------------------------------------------
(* Policy: relation_policy.py and the quality and status rules. *)

Classes(r) == {ClassOf[s] : s \in r.sources}
Verified == {"SYSTEM_CANONICAL", "VERIFIED_PROJECT_FACT", "DOMAIN_VERIFIED"}
UserClasses == {"USER_PREFERENCE", "USER_MEMORY_GROUNDED", "EXTRACTED_USER_CLAIM"}
Objective == {"has_component", "depends_on", "role_of", "caused_by", "derived_from",
              "broader_than", "narrower_than", "refines", "belongs_to_project"}
VaultOnly(r) == Classes(r) # {} /\ Classes(r) \subseteq UserClasses

(* commit_allowed: the classes a relation of this type needs to be committed. *)
CommitAllowed(e, r) ==
  LET cs == Classes(r)
      canonical == cs \cap {"SYSTEM_CANONICAL", "VERIFIED_PROJECT_FACT"} # {}
      verified == cs \cap Verified # {}
      type == TypeOf[e]
  IN /\ "DISPUTED_OR_UNSAFE" \notin cs
     /\ CASE type \in {"has_component", "role_of"} /\ e \in AboutCore -> canonical
          [] type = "user_prefers" -> "USER_PREFERENCE" \in cs \/ verified
          [] type = "mentioned_in" -> cs \cap UserClasses # {} \/ verified
          [] type \in {"supports", "contradicts"} ->
               Cardinality(r.sources) >= 2 \/ canonical
          [] OTHER -> verified

(* relation_quality, in hundredths. *)
Quality(r) ==
  LET n == Cardinality(r.sources)
      up == 50 + 15 * (IF n < 3 THEN n ELSE 3)
            + (IF Cardinality(Classes(r)) >= 2 THEN 10 ELSE 0)
            + (IF Classes(r) \cap Verified # {} THEN 20 ELSE 0)
      net == IF ~r.contradicted THEN up ELSE IF up > 30 THEN up - 30 ELSE 0
  IN IF net < 100 THEN net ELSE 100

Canonical(r) == r.canonical \/ "SYSTEM_CANONICAL" \in Classes(r)

(* _status_for: what a record's status is after one more observation. *)
StatusFor(r, explicit) ==
  IF r.contradicted THEN "disputed"
  ELSE IF explicit # "none" THEN explicit
  ELSE IF Canonical(r) THEN "committed"
  ELSE IF Cardinality(r.sources) >= 2 THEN "reinforced" ELSE "candidate"

\* Mutant: every statement starts the record afresh.
MutAdded(r, s, explicit, contradiction, seed) ==
  LET next == [r EXCEPT !.sources = {s}, !.contradicted = contradiction, !.canonical = seed]
  IN [next EXCEPT !.status = StatusFor(next, explicit)]
(* add_relation: the record after source s stated it.  Its status is worked *)
(* out afresh, whatever it was before.                                      *)
Added(r, s, explicit, contradiction, seed) ==
  LET next == [r EXCEPT !.sources = @ \cup {s},
                        !.contradicted = @ \/ contradiction,
                        !.canonical = @ \/ seed]
  IN [next EXCEPT !.status = StatusFor(next, explicit)]

\* Mutant: the policy is not asked.
MutEvaluate(e, r) ==
  LET n == Cardinality(r.sources)
  IN CASE r.contradicted -> "disputed"
       [] ~r.contradicted /\ (Canonical(r) \/ n >= 2) /\ Quality(r) >= 70 -> "committed"
       [] OTHER -> IF e \in old /\ n < 2 /\ Quality(r) < 70 THEN "archived"
                   ELSE IF n >= 2 THEN "reinforced" ELSE "candidate"

(* evaluate_relation *)
Evaluate(e, r) ==
  LET n == Cardinality(r.sources)
  IN CASE r.contradicted -> "disputed"
       [] ~r.contradicted /\ (Canonical(r) \/ n >= 2) /\ Quality(r) >= 70
            /\ CommitAllowed(e, r) -> "committed"
       [] OTHER -> IF e \in old /\ n < 2 /\ Quality(r) < 70 THEN "archived"
                   ELSE IF n >= 2 THEN "reinforced" ELSE "candidate"

(* RelationGapScanner.scan: the relations it files a task for. *)
IsGap(e, r) ==
  \/ r.status = "disputed"
  \/ Known(r) /\ TypeOf[e] \in Objective \ {"broader_than", "narrower_than", "refines",
                                            "belongs_to_project"} /\ VaultOnly(r)
  \/ Known(r) /\ "PROVISIONAL_WEB" \in Classes(r) /\ Cardinality(r.sources) < 2
  \/ r.status = "candidate" /\ Cardinality(r.sources) < 2
---------------------------------------------------------------------------
Init ==
  /\ file = [e \in Relations |-> Blank]
  /\ history = [n \in Negative |-> "none"]
  /\ copy = [p \in Requests |-> [e \in Relations |-> Blank]]
  /\ notes = [p \in Requests |-> [n \in Negative |-> "none"]]
  /\ pc = [p \in Requests |-> "closed"]
  /\ todo = [p \in Requests |-> {}]
  /\ gaps = {}
  /\ answered = {}
  /\ old = {}
  /\ torn = {}
  /\ behind = [p \in Requests |-> {}]
  /\ missed = [p \in Requests |-> {}]
  /\ opens = 0
  /\ writes = 0
  /\ slips = 0

\* A load, an append or a rewrite fails.
Slip(happens) ==
  /\ happens => slips < MaxSlips
  /\ slips' = IF happens THEN slips + 1 ELSE slips

(* _append after the in-memory change: the record becomes the last one of its *)
(* relation, and every other open copy is behind on it.  If it fails, or the  *)
(* ledger is broken already, only the copy has changed.                       *)
Lost(ledger) ==
  \/ ledger \in torn /\ UNCHANGED torn /\ Slip(FALSE)
  \/ torn' \in {torn, torn \cup {ledger}} /\ Slip(TRUE)

Put(p, e, r) ==
  /\ writes < MaxWrites
  /\ writes' = writes + 1
  /\ copy' = [copy EXCEPT ![p][e] = r]
  /\ \/ /\ "edges" \notin torn
        /\ file' = [file EXCEPT ![e] = r]
        /\ behind' = [q \in Requests |-> IF q # p /\ pc[q] # "closed" THEN behind[q] \cup {e}
                                         ELSE behind[q]]
        /\ UNCHANGED torn /\ Slip(FALSE)
     \/ Lost("edges") /\ UNCHANGED <<file, behind>>

Note(p, n, status) ==
  /\ notes' = [notes EXCEPT ![p][n] = status]
  /\ \/ /\ "contradictions" \notin torn
        /\ history' = [history EXCEPT ![n] = status]
        /\ UNCHANGED torn /\ Slip(FALSE)
     \/ Lost("contradictions") /\ UNCHANGED history

Goto(p, place) == pc' = [pc EXCEPT ![p] = place]

Nothing == [e \in Relations |-> Blank]
NoNotes == [n \in Negative |-> "none"]

(* lifeloop_field: RelationField.__init__ and _load.  A file that does not   *)
(* open is an empty one.                                                     *)
Open(p, job) ==
  /\ pc[p] = "closed"
  /\ opens < MaxOpens
  /\ opens' = opens + 1
  /\ Goto(p, job)
  /\ \E read \in {file, Nothing}, seen \in {history, NoNotes} :
       /\ Slip(read # file \/ seen # history)
       /\ copy' = [copy EXCEPT ![p] = read]
       /\ missed' = [missed EXCEPT ![p] = {e \in Relations : read[e] # file[e]}]
       /\ notes' = [notes EXCEPT ![p] = seen]
  /\ behind' = [behind EXCEPT ![p] = {}]
  /\ todo' = [todo EXCEPT ![p] = IF job = "consolidating" THEN Relations ELSE {}]
  /\ UNCHANGED <<file, history, gaps, answered, old, torn, writes>>

Close(p) ==
  /\ pc[p] # "closed"
  /\ todo[p] = {}
  /\ pc[p] \notin {"replacing", "folding", "swapping"}
  /\ Goto(p, "closed")
  /\ copy' = [copy EXCEPT ![p] = Nothing]
  /\ notes' = [notes EXCEPT ![p] = NoNotes]
  /\ behind' = [behind EXCEPT ![p] = {}]
  /\ missed' = [missed EXCEPT ![p] = {}]
  /\ UNCHANGED <<file, history, todo, gaps, answered, old, torn, tallies>>

(* _seed_canonical and _from_memory_relations: committed on the spot. *)
Seed(p, e, s) ==
  /\ pc[p] = "feeding"
  /\ e \in Seeded
  /\ <<s, e>> \in Cites
  /\ ClassOf[s] = "VERIFIED_PROJECT_FACT"
  /\ Put(p, e, Added(copy[p][e], s, "committed", FALSE, TRUE))
  /\ UNCHANGED <<history, notes, pc, todo, gaps, answered, old, missed, opens>>

(* ingest_candidate_relation of a positive statement, and the records of a    *)
(* vault chunk or a task result; a candidate's text can be mined once a task   *)
(* has made the candidate.                                                     *)
Observe(p, e, s) ==
  /\ pc[p] = "feeding"
  /\ e \in Positive
  /\ <<s, e>> \in Cites
  /\ s \in Echoes => s \in answered
  /\ Put(p, e, Added(copy[p][e], s, "none", FALSE, FALSE))
  /\ UNCHANGED <<history, notes, pc, todo, gaps, answered, old, missed, opens>>

(* ingest_candidate of a committed candidate, and the event of a relation      *)
(* fact: committed on the spot, whatever the class of the one source is.       *)
Promote(p, e, s) ==
  /\ pc[p] = "feeding"
  /\ <<s, e>> \in Vouches
  /\ s \in Echoes => s \in answered
  /\ Put(p, e, Added(copy[p][e], s, "committed", FALSE, FALSE))
  /\ UNCHANGED <<history, notes, pc, todo, gaps, answered, old, missed, opens>>

(* ingest_dispute, a challenger's edge, and the event of a relation that marks *)
(* itself contradicted: this record only, and no entry in the other ledger.    *)
Report(p, e, s) ==
  /\ pc[p] = "feeding"
  /\ <<s, e>> \in Denies
  /\ s \in Echoes => s \in answered
  /\ Put(p, e, Added(copy[p][e], s, "disputed", TRUE, FALSE))
  /\ UNCHANGED <<history, notes, pc, todo, gaps, answered, old, missed, opens>>

(* ingest_candidate_relation of a contradiction: first the edge itself ... *)
Contradict(p, n, s) ==
  /\ pc[p] = "feeding"
  /\ n \in Negative
  /\ <<s, n>> \in Cites
  /\ s \in Echoes => s \in answered
  /\ Put(p, n, Added(copy[p][n], s, "disputed", TRUE, FALSE))
  /\ todo' = [todo EXCEPT ![p] = {e \in Between[n] : Known(copy[p][e])} \cup {n}]
  /\ Goto(p, "disputing")
  /\ UNCHANGED <<history, notes, gaps, answered, old, missed, opens>>

(* ... then _dispute_between marks the relations it stands against ... *)
Dispute(p, e) ==
  /\ pc[p] = "disputing"
  /\ e \in todo[p] \cap Positive
  /\ Put(p, e, [copy[p][e] EXCEPT !.contradicted = TRUE, !.status = "disputed"])
  /\ todo' = [todo EXCEPT ![p] = @ \ {e}]
  /\ UNCHANGED <<history, notes, pc, gaps, answered, old, missed, opens>>

(* ... and _record_contradiction notes it; a resolved one stays resolved. *)
RecordContradiction(p, n) ==
  /\ pc[p] = "disputing"
  /\ todo[p] = {n}
  /\ Note(p, n, IF notes[p][n] = "resolved" THEN "resolved" ELSE "active")
  /\ todo' = [todo EXCEPT ![p] = {}]
  /\ Goto(p, "feeding")
  /\ UNCHANGED <<file, copy, gaps, answered, old, behind, missed, opens, writes>>

(* resolve_contradiction: the ledger entry only, the edges stay disputed. *)
Resolve(p, n) ==
  /\ pc[p] = "resolving"
  /\ notes[p][n] # "none"
  /\ Note(p, n, "resolved")
  /\ UNCHANGED <<file, copy, pc, todo, gaps, answered, old, behind, missed, opens, writes>>

(* One turn of consolidate's loop. *)
Consolidate(p, e) ==
  /\ pc[p] = "consolidating"
  /\ e \in todo[p]
  /\ todo' = [todo EXCEPT ![p] = @ \ {e}]
  /\ LET r == copy[p][e]
         act == Evaluate(e, r)
     IN IF r.status \in {"candidate", "reinforced"} /\ act # r.status
        THEN Put(p, e, [r EXCEPT !.status = act])
        ELSE UNCHANGED <<file, copy, torn, behind, writes, slips>>
  /\ UNCHANGED <<history, notes, pc, gaps, answered, old, missed, opens>>

(* compact, per ledger: re-read and fold in what was appended, then replace.  *)
(* The maintenance pass calls it when the ledger is mostly superseded lines.  *)
(* A ledger that cannot be read to its end, or rewritten, stays as it is.     *)
FoldEdges(p) ==
  /\ pc[p] = "maintaining"
  /\ \E read \in {file, Nothing} :
       /\ copy' = [copy EXCEPT ![p] =
                     [e \in Relations |-> IF read[e] # Blank THEN read[e] ELSE copy[p][e]]]
       /\ IF read = file
          THEN behind' = [behind EXCEPT ![p] = {}] /\ missed' = [missed EXCEPT ![p] = {}]
          ELSE UNCHANGED <<behind, missed>>
       /\ \/ read = file /\ "edges" \notin torn /\ Goto(p, "replacing") /\ Slip(FALSE)
          \/ "edges" \in torn /\ Goto(p, "folding") /\ Slip(FALSE)
          \/ Goto(p, "folding") /\ Slip(TRUE)
  /\ UNCHANGED <<file, history, notes, todo, gaps, answered, old, torn, opens, writes>>

ReplaceEdges(p) ==
  /\ pc[p] = "replacing"
  /\ Goto(p, "folding")
  /\ file' = copy[p]
  /\ torn' = torn \ {"edges"}
  /\ behind' = [q \in Requests |->
                  IF q = p \/ pc[q] = "closed" THEN behind[q]
                  ELSE behind[q] \cup {e \in Relations : file[e] # copy[p][e]}]
  /\ UNCHANGED <<history, copy, notes, todo, gaps, answered, old, missed, tallies>>

FoldHistory(p) ==
  /\ pc[p] = "folding"
  /\ \E seen \in {history, NoNotes} :
       /\ notes' = [notes EXCEPT ![p] =
                     [n \in Negative |-> IF seen[n] # "none" THEN seen[n] ELSE notes[p][n]]]
       /\ \/ seen = history /\ "contradictions" \notin torn /\ Goto(p, "swapping") /\ Slip(FALSE)
          \/ "contradictions" \in torn /\ Goto(p, "maintained") /\ Slip(FALSE)
          \/ Goto(p, "maintained") /\ Slip(TRUE)
  /\ UNCHANGED <<file, history, copy, todo, gaps, answered, old, torn, behind, missed,
                 opens, writes>>

ReplaceHistory(p) ==
  /\ pc[p] = "swapping"
  /\ Goto(p, "maintained")
  /\ history' = notes[p]
  /\ torn' = torn \ {"contradictions"}
  /\ UNCHANGED <<file, copy, notes, todo, gaps, answered, old, behind, missed, tallies>>

(* scan: one task per gap; ResearchTasks drops a topic that is already open. *)
ScanGaps(p) ==
  /\ pc[p] = "scanning"
  /\ gaps' = gaps \cup {e \in Relations : IsGap(e, copy[p][e])}
  /\ Goto(p, "scanned")
  /\ UNCHANGED <<file, history, copy, notes, todo, answered, old, torn, behind, missed, tallies>>

(* The task runner answers a gap from the same memory and ingests the answer  *)
(* as a candidate, whose claim may state the relation again (app.py:92-128).  *)
RunGapTask(e, s) ==
  /\ e \in gaps
  /\ s \in Echoes \ answered
  /\ <<s, e>> \in Cites
  /\ gaps' = gaps \ {e}
  /\ answered' = answered \cup {s}
  /\ UNCHANGED <<file, history, copy, notes, pc, todo, old, torn, behind, missed, tallies>>

(* stale_days go by; consolidate looks at the age of a weak candidate only. *)
GrowOld(e) ==
  /\ file[e].status = "candidate"
  /\ e \notin old
  /\ old' = old \cup {e}
  /\ UNCHANGED <<file, history, copy, notes, pc, todo, gaps, answered, torn, behind, missed, tallies>>

Places == {"closed", "feeding", "disputing", "consolidating", "resolving", "maintaining",
           "replacing", "folding", "swapping", "maintained", "scanning", "scanned"}
Jobs == {"feeding", "consolidating", "resolving", "maintaining", "scanning"}

Request(p) ==
  \/ \E j \in Jobs : Open(p, j)
  \/ Close(p)
  \/ \E e \in Relations, s \in Sources :
       \/ Seed(p, e, s) \/ Observe(p, e, s) \/ Contradict(p, e, s)
       \/ Promote(p, e, s) \/ Report(p, e, s)
  \/ \E e \in Relations : Dispute(p, e) \/ RecordContradiction(p, e) \/ Consolidate(p, e)
  \/ \E n \in Negative : Resolve(p, n)
  \/ FoldEdges(p) \/ ReplaceEdges(p) \/ FoldHistory(p) \/ ReplaceHistory(p)
  \/ ScanGaps(p)

Next ==
  \/ \E p \in Requests : Request(p)
  \/ \E e \in Relations, s \in Sources : RunGapTask(e, s)
  \/ \E e \in Relations : GrowOld(e)

Spec == Init /\ [][Next]_vars
---------------------------------------------------------------------------
TypeOK ==
  /\ file \in [Relations -> Record]
  /\ history \in [Negative -> {"none", "active", "resolved"}]
  /\ copy \in [Requests -> [Relations -> Record]]
  /\ notes \in [Requests -> [Negative -> {"none", "active", "resolved"}]]
  /\ pc \in [Requests -> Places]
  /\ todo \in [Requests -> SUBSET Relations]
  /\ gaps \subseteq Relations
  /\ answered \subseteq Echoes
  /\ old \subseteq Relations
  /\ torn \subseteq {"edges", "contradictions"}
  /\ behind \in [Requests -> SUBSET Relations]
  /\ missed \in [Requests -> SUBSET Relations]
  /\ opens \in Nat
  /\ writes \in Nat
  /\ slips \in Nat

(* What a committed relation outside the canonical seed must show: nobody    *)
(* ever contradicted it, and it has a SYSTEM_CANONICAL source, or the builder *)
(* was told to commit it by one of its own sources, or it has two sources     *)
(* none of which is unsafe and, unless its type is one that users may settle, *)
(* a source of a verified class.                                              *)
Earned(e, r) ==
  /\ ~r.contradicted
  /\ \/ "SYSTEM_CANONICAL" \in Classes(r)
     \/ \E s \in r.sources : <<s, e>> \in Vouches
     \/ /\ \E s, t \in r.sources : s # t
        /\ "DISPUTED_OR_UNSAFE" \notin Classes(r)
        /\ \/ TypeOf[e] \in {"user_prefers", "mentioned_in", "supports", "contradicts"}
           \/ Classes(r) \cap Verified # {}

(* CommitEarned: whatever requests interleave, load in part, fail to append,  *)
(* overwrite and compact, a relation the ledger or an open copy holds as      *)
(* committed has earned it by the sources of that very record (consolidate,   *)
(* relation_policy), or a committed candidate or a relation fact among them   *)
(* had the builder commit it: that route asks no policy.                      *)
CommitEarned ==
  \A e \in Relations \ Seeded :
    /\ file[e].status = "committed" => Earned(e, file[e])
    /\ \A p \in Requests : copy[p][e].status = "committed" => Earned(e, copy[p][e])

(* Less than before: a source or a contradiction of the relation is gone. *)
Loses(r, next) ==
  \/ ~(r.sources \subseteq next.sources)
  \/ r.contradicted /\ ~next.contradicted

(* LossIsExplained: a relation in the ledger loses a source or a contradiction *)
(* only to a request whose copy is older than another request's append to that *)
(* relation, or to which the file did not open when it loaded (_load, _append,  *)
(* compact).  A failed append, a broken line, a consolidation and a compaction  *)
(* that stops early lose nothing that a load could read.                        *)
LossIsExplained ==
  [][\A e \in Relations :
       Loses(file[e], file'[e]) => \E p \in Requests : e \in behind[p] \cup missed[p]]_vars

(* CommitIsIndependent: "everything else needs >=2 independent sources"       *)
(* (relation_field.py:839): a relation is not committed on a source and an    *)
(* answer that a gap task about this relation worked out from memory.         *)
CommitIsIndependent ==
  \A e \in Relations \ Seeded :
    file[e].status = "committed" =>
      \/ "SYSTEM_CANONICAL" \in Classes(file[e])
      \/ \E s, t \in file[e].sources \ Echoes : s # t
=============================================================================
