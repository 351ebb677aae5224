-------------------------- MODULE CandidateLifecycle --------------------------
(***************************************************************************)
(* From a task's result to a committed fact                                *)
(* (gateway/candidate_lifecycle.py).  Every drained task, every life tick  *)
(* and every operator request opens a session of its own: it loads the     *)
(* ledger file into a private copy, works on that copy, and appends whole  *)
(* records to the file, where the last record of an id wins.  Nothing      *)
(* orders two sessions, and a commit stores the fact in the                *)
(* memory-service before it saves the record.                              *)
(*                                                                         *)
(* One topic is modelled: ingestion only relates candidates of a topic,    *)
(* and consolidation decides each record alone.                            *)
(***************************************************************************)
EXTENDS Integers, FiniteSets

CONSTANTS
  Ids,              \* the uuids candidates may get: bounds how many are created
  None,             \* no id, no record
  Claims,           \* what task results may claim
  Relation,         \* how evidence_semantics relates two claims
  Keys,             \* source keys: <class, task, sources used> of a task's result
  ClassOf,          \* the source class in each key
  Workers,          \* threads that open sessions
  CommitEvidence,   \* BYON_CANDIDATE_COMMIT_EVIDENCE
  Ageing,           \* whether behaviours are long enough for candidates to go stale
  MaxOps,           \* bound: operator requests
  MaxCrashes,       \* bound: crashes of the gateway
  MaxFailures       \* bound: loads and appends that fail silently

CANONICAL_CLASSES == {"SYSTEM_CANONICAL", "VERIFIED_PROJECT_FACT"}
USER_CLASSES == {"USER_MEMORY_GROUNDED", "EXTRACTED_USER_CLAIM", "USER_PREFERENCE"}
VERIFIED_CLASSES == {"DOMAIN_VERIFIED", "VERIFIED_PROJECT_FACT"}
WEB == "PROVISIONAL_WEB"
MIN_WEB_SOURCES == 2

\* "opposed": opposite polarity with little overlap, a conflict only when one
\* side is canonical.  "supports" stands for SAME and SUPPORTS, "related" for
\* NARROWS and BROADENS: each pair is treated alike.
Relations == {"contradicts", "opposed", "supports", "related", "unrelated"}

ASSUME RelationAssumption ==
  /\ Relation \in [Claims \X Claims -> Relations]
  /\ \A a, b \in Claims : Relation[<<a, b>>] = Relation[<<b, a>>]
  /\ \A a \in Claims : Relation[<<a, a>>] = "supports"
\* DISPUTED_OR_UNSAFE results never become candidates.
Classes == CANONICAL_CLASSES \cup USER_CLASSES \cup {"DOMAIN_VERIFIED", WEB, "UNKNOWN"}

ASSUME KeysAssumption == IsFiniteSet(Keys) /\ ClassOf \in [Keys -> Classes]
ASSUME NumbersAssumption ==
  /\ CommitEvidence \in Nat \ {0}
  /\ Ageing \in BOOLEAN
  /\ MaxOps \in Nat /\ MaxCrashes \in Nat /\ MaxFailures \in Nat

ACTIVE_STATES == {"candidate", "reinforced"}
Statuses == ACTIVE_STATES \cup {"committed", "disputed", "archived"}

\* contradiction_count matters only as > 0 (the dispute threshold is 1),
\* evidence_count is the number of source keys, lastEval is
\* _last_eval_evidence (0: never evaluated).
Candidate == [claim : Claims, class : Classes, keys : SUBSET Keys, contra : BOOLEAN,
              important : BOOLEAN, status : Statuses, lastEval : Nat,
              challengerOf : Ids \cup {None}]

ASSUME NoneAssumption == None \notin Ids /\ None \notin Candidate

VARIABLES
  ledger,      \* what a reader of candidates_lifecycle.jsonl gets
  torn,        \* a torn line hides every later line from readers
  facts,       \* what lifecycle sessions stored in the memory-service
  old,         \* candidates older than stale_days
  pc,          \* where each session is
  view,        \* CandidateLifecycle._by_id of each session
  todo,        \* records a consolidation has still to decide
  cur,         \* the record whose fact is being stored
  fresh,       \* a new record still to be appended
  dirty,       \* records to append after it
  origin,      \* history: the class each candidate was created with
  seen,        \* history: the source keys ingested for each candidate
  contested,   \* history: candidates whose contradiction reached the ledger
  approved,    \* history: candidates whose commit the operator approved
  behind,      \* history: records of which the session's copy is not the latest: others
               \* saved them since it loaded, or its load failed
  unseen,      \* history: <<i, k>>: i was saved by a session that was behind on k
  dropped,     \* history: candidates of which a contradiction was not written
  ops,         \* operator requests made
  crashes,     \* crashes of the gateway so far
  failures     \* loads and appends that failed so far

file == <<ledger, torn, contested, unseen, dropped, failures>>
disk == <<file, behind>>
history == <<origin, seen, approved>>
budget == <<ops, crashes>>
session == <<pc, view, todo, cur, fresh, dirty>>
vars == <<ledger, torn, facts, old, pc, view, todo, cur, fresh, dirty, origin, seen,
          contested, approved, behind, unseen, dropped, ops, crashes, failures>>

Known(led) == {i \in Ids : led[i] # None}
Active(led) == {i \in Known(led) : led[i].status \in ACTIVE_STATES}
EmptyLedger == [i \in Ids |-> None]

Init ==
  /\ ledger = EmptyLedger
  /\ torn = FALSE
  /\ facts = {}
  /\ old = {}
  /\ pc = [w \in Workers |-> "idle"]
  /\ view = [w \in Workers |-> EmptyLedger]
  /\ todo = [w \in Workers |-> {}]
  /\ cur = [w \in Workers |-> None]
  /\ fresh = [w \in Workers |-> None]
  /\ dirty = [w \in Workers |-> {}]
  /\ origin = [i \in Ids |-> "none"]
  /\ seen = [i \in Ids |-> {}]
  /\ contested = {}
  /\ approved = {}
  /\ behind = [w \in Workers |-> {}]
  /\ unseen = {}
  /\ dropped = {}
  /\ ops = 0
  /\ crashes = 0
  /\ failures = 0

-----------------------------------------------------------------------------
\* The consolidation decision.

Evidence(r) == Cardinality(r.keys)
WebSources(r) == Cardinality({k \in r.keys : ClassOf[k] = WEB})
KeyClasses(r) == {ClassOf[k] : k \in r.keys}

\* The trust a candidate of this class commits as ("none": it cannot).
CommitTrust(class) ==
  CASE class \in USER_CLASSES -> "USER_PREFERENCE"
    [] class \in {"DOMAIN_VERIFIED", WEB} -> "DOMAIN_VERIFIED"
    [] OTHER -> "none"

\* Mutant: evidence of any class counts towards the two web sources.
MutVerifiedWeb(r) == r.class = WEB /\ Evidence(r) >= MIN_WEB_SOURCES

VerifiedWeb(r) == r.class = WEB /\ WebSources(r) >= MIN_WEB_SOURCES

\* evidence_quality_score in twentieths.  Its clamp to 0..1 cannot change how
\* it compares with 0.70, and semantic_confidence never falls below 0.5 on the
\* relations ingestion records.
Quality(r, stale) ==
  LET Points(p, b) == IF b THEN p ELSE 0 IN
    10 + 3 * (IF Evidence(r) > 3 THEN 3 ELSE Evidence(r))
       + Points(2, Cardinality(KeyClasses(r)) >= 2)
       + Points(4, (KeyClasses(r) \cup {r.class}) \cap VERIFIED_CLASSES # {})
       + Points(2, r.important)
       - Points(6, r.contra)
       - Points(4, r.class = WEB /\ WebSources(r) < MIN_WEB_SOURCES)
       - Points(2, stale)

COMMIT_QUALITY == 14

\* Mutant: the bar must be exceeded.
MutGoodEnough(r, stale) == Quality(r, stale) > COMMIT_QUALITY

GoodEnough(r, stale) == Quality(r, stale) >= COMMIT_QUALITY

Committable(r) ==
  CommitTrust(r.class) # "none" /\ (r.class # WEB \/ VerifiedWeb(r))

\* confidence is 0.5 until a second source or the operator raises it.
Weak(r) == Evidence(r) = 1 /\ ~r.important

\* evaluate_candidate: the first case that applies.
Evaluate(r, stale) ==
  IF r.contra THEN "dispute"
  ELSE IF r.class \in CANONICAL_CLASSES THEN "keep"
  ELSE IF Evidence(r) >= CommitEvidence /\ Committable(r)
       THEN IF GoodEnough(r, stale) THEN "commit" ELSE "keep"
  ELSE IF r.class = WEB /\ Evidence(r) >= CommitEvidence /\ ~VerifiedWeb(r) THEN "keep"
  ELSE IF stale /\ Evidence(r) < CommitEvidence /\ Weak(r) THEN "archive"
  ELSE IF Evidence(r) > r.lastEval THEN "reinforce"
  ELSE "keep"

-----------------------------------------------------------------------------
\* Sessions.

\* No append of this session is outstanding.
Saved(w) == fresh[w] = None /\ dirty[w] = {}

\* _load: a file that does not open is an empty ledger.
Load(w) ==
  /\ pc[w] = "idle"
  /\ pc' = [pc EXCEPT ![w] = "loaded"]
  /\ \/ /\ view' = [view EXCEPT ![w] = ledger]
        /\ UNCHANGED <<behind, failures>>
     \/ /\ failures < MaxFailures
        /\ failures' = failures + 1
        /\ view' = [view EXCEPT ![w] = EmptyLedger]
        /\ behind' = [behind EXCEPT ![w] = Known(ledger)]
  /\ UNCHANGED <<ledger, torn, contested, unseen, dropped, facts, old, todo, cur, fresh,
                 dirty, history, budget>>

\* Also what a refused request or a read-only one does.
Finish(w) ==
  /\ pc[w] \in {"loaded", "work"}
  /\ todo[w] = {} /\ Saved(w)
  /\ pc' = [pc EXCEPT ![w] = "idle"]
  /\ view' = [view EXCEPT ![w] = EmptyLedger]
  /\ behind' = [behind EXCEPT ![w] = {}]
  /\ UNCHANGED <<file, facts, old, todo, cur, fresh, dirty, history, budget>>

\* Which of its records the session holds as contradicted.
Contradicted(w, S) == {i \in S : view[w][i].contra}

\* _save: append the session's whole record of i.
Write(w, i) ==
  /\ ~torn
  /\ ledger' = [ledger EXCEPT ![i] = view[w][i]]
  /\ contested' = contested \cup Contradicted(w, {i})
  /\ behind' = [v \in Workers |-> IF v = w \/ pc[v] = "idle" THEN behind[v]
                                  ELSE behind[v] \cup {i}]
  /\ unseen' = unseen \cup ({i} \X behind[w])
  /\ UNCHANGED <<torn, dropped, failures>>

\* After a torn line nothing appended is ever read again, and an OSError is
\* swallowed.
Lose(w, i) ==
  /\ \/ torn /\ UNCHANGED failures
     \/ failures < MaxFailures /\ failures' = failures + 1
  /\ dropped' = dropped \cup Contradicted(w, {i})
  /\ UNCHANGED <<ledger, torn, contested, behind, unseen>>

Append(w, i) == Write(w, i) \/ Lose(w, i)

SaveFresh(w) ==
  /\ fresh[w] # None
  /\ Append(w, fresh[w])
  /\ fresh' = [fresh EXCEPT ![w] = None]
  /\ UNCHANGED <<facts, old, pc, view, todo, cur, dirty, history, budget>>

SaveDirty(w, i) ==
  /\ fresh[w] = None
  /\ i \in dirty[w]
  /\ Append(w, i)
  /\ dirty' = [dirty EXCEPT ![w] = @ \ {i}]
  /\ UNCHANGED <<facts, old, pc, view, todo, cur, fresh, history, budget>>

\* Change the session's copy of i and have it appended.
Change(w, i, r) ==
  /\ view' = [view EXCEPT ![w][i] = r]
  /\ dirty' = [dirty EXCEPT ![w] = @ \cup {i}]

-----------------------------------------------------------------------------
\* ingest_task_result.

\* The class-dependent part of classify_evidence_relation.
Conflicts(a, classA, b, classB) ==
  \/ Relation[<<a, b>>] = "contradicts"
  \/ Relation[<<a, b>>] = "opposed" /\ "SYSTEM_CANONICAL" \in {classA, classB}

\* Mutant: only a claim of another class can conflict.
MutConflicting(led, claim, class) ==
  {i \in Active(led) : led[i].class # class
                       /\ Conflicts(claim, class, led[i].claim, led[i].class)}

Conflicting(led, claim, class) ==
  {i \in Active(led) : Conflicts(claim, class, led[i].claim, led[i].class)}

RelatedBy(led, claim, rel) == {i \in Active(led) : Relation[<<claim, led[i].claim>>] = rel}

\* A new record under an unused id, appended before everything else.
NewCandidate(w, n, claim, key, status, contra, incumbent) ==
  /\ origin[n] = "none"
  /\ fresh' = [fresh EXCEPT ![w] = n]
  /\ origin' = [origin EXCEPT ![n] = ClassOf[key]]
  /\ seen' = [seen EXCEPT ![n] = {key}]
  /\ view' = [view EXCEPT ![w] =
       [i \in Ids |->
          CASE i = n -> [claim |-> claim, class |-> ClassOf[key], keys |-> {key},
                         contra |-> contra, important |-> FALSE, status |-> status,
                         lastEval |-> 0, challengerOf |-> incumbent]
            [] i # n /\ i = incumbent -> [view[w][i] EXCEPT !.contra = TRUE]
            [] OTHER -> view[w][i]]]

\* Mutant: the challenger is kept, the incumbent not saved.
MutChallenge(w, claim, key) ==
  LET conflicting == Conflicting(view[w], claim, ClassOf[key])
      incumbents == IF conflicting # {} THEN conflicting ELSE Active(view[w])
  IN \E n \in Ids :
       \E inc \in IF incumbents = {} THEN {None} ELSE incumbents :
         /\ NewCandidate(w, n, claim, key, "disputed", TRUE, inc)
         /\ UNCHANGED dirty

\* The new claim is a disputed challenger from the start, its incumbent (any
\* active candidate, if the task only said DISPUTED) is contradicted.
Challenge(w, claim, key) ==
  LET conflicting == Conflicting(view[w], claim, ClassOf[key])
      incumbents == IF conflicting # {} THEN conflicting ELSE Active(view[w])
  IN \E n \in Ids :
       \E inc \in IF incumbents = {} THEN {None} ELSE incumbents :
         /\ NewCandidate(w, n, claim, key, "disputed", TRUE, inc)
         /\ dirty' = [dirty EXCEPT ![w] = incumbents \cap {inc}]

\* _merge_evidence: a source key counts once; the record is saved either way.
Merge(w, claim, key) ==
  \E i \in RelatedBy(view[w], claim, "supports") :
    /\ Change(w, i, [view[w][i] EXCEPT !.keys = @ \cup {key}])
    /\ seen' = [seen EXCEPT ![i] = @ \cup {key}]
    /\ UNCHANGED <<fresh, origin>>

\* Narrower and broader claims are linked, not merged: their (unchanged)
\* records are saved again.
Found(w, claim, key) ==
  \E n \in Ids :
    /\ NewCandidate(w, n, claim, key, "candidate", FALSE, None)
    /\ dirty' = [dirty EXCEPT ![w] = RelatedBy(view[w], claim, "related")]

Ingest(w, claim, key, disputed) ==
  /\ pc[w] = "loaded"
  /\ IF disputed \/ Conflicting(view[w], claim, ClassOf[key]) # {}
     THEN Challenge(w, claim, key)
     ELSE IF RelatedBy(view[w], claim, "supports") # {}
     THEN Merge(w, claim, key)
     ELSE Found(w, claim, key)
  /\ pc' = [pc EXCEPT ![w] = "work"]
  /\ UNCHANGED <<disk, facts, old, todo, cur, approved, budget>>

-----------------------------------------------------------------------------
\* consolidate and _commit.

ConsolidateBegin(w) ==
  /\ pc[w] = "loaded"
  /\ pc' = [pc EXCEPT ![w] = "work"]
  /\ todo' = [todo EXCEPT ![w] = Active(view[w])]
  /\ UNCHANGED <<disk, facts, old, view, cur, fresh, dirty, history, budget>>

\* One record of the loop.  KEEP saves nothing.
ConsolidateOne(w, i) ==
  LET r == [view[w][i] EXCEPT !.lastEval = Evidence(view[w][i])]
      decision == Evaluate(view[w][i], i \in old)
      Becomes(s) == Change(w, i, [r EXCEPT !.status = s]) /\ UNCHANGED <<pc, cur>>
  IN /\ pc[w] = "work" /\ i \in todo[w] /\ Saved(w)
     /\ todo' = [todo EXCEPT ![w] = @ \ {i}]
     /\ \/ /\ decision = "commit"
           /\ view' = [view EXCEPT ![w][i] = r]
           /\ pc' = [pc EXCEPT ![w] = "store"]
           /\ cur' = [cur EXCEPT ![w] = i]
           /\ UNCHANGED dirty
        \/ decision = "dispute" /\ Becomes("disputed")
        \/ decision = "archive" /\ Becomes("archived")
        \/ decision = "reinforce" /\ Becomes("reinforced")
        \/ decision = "keep" /\ UNCHANGED <<view, pc, cur, dirty>>
     /\ UNCHANGED <<disk, facts, old, fresh, history, budget>>

\* The record is committed whether or not the memory-service took the fact.
Commit(w) ==
  LET i == cur[w]
      fact == [id |-> i, trust |-> CommitTrust(view[w][i].class)]
  IN /\ pc[w] = "store"
     /\ facts' = facts \cup {fact} \/ facts' = facts
     /\ Change(w, i, [view[w][i] EXCEPT !.status = "committed"])
     /\ pc' = [pc EXCEPT ![w] = "work"]
     /\ cur' = [cur EXCEPT ![w] = None]
     /\ UNCHANGED <<disk, old, todo, fresh, history, budget>>

-----------------------------------------------------------------------------
\* POST /v1/lifeloop/candidate/{id}/{op}.

Operate(w, i) ==
  /\ ops < MaxOps
  /\ ops' = ops + 1
  /\ pc[w] = "loaded"
  /\ i \in Known(view[w])
  /\ UNCHANGED <<disk, old, todo, fresh, origin, seen, crashes>>

\* The record first, then the disputed fact.
MarkFalse(w, i) ==
  /\ Operate(w, i)
  /\ Change(w, i, [view[w][i] EXCEPT !.status = "disputed", !.contra = TRUE])
  /\ pc' = [pc EXCEPT ![w] = "deny"]
  /\ cur' = [cur EXCEPT ![w] = i]
  /\ UNCHANGED <<facts, approved>>

Deny(w) ==
  /\ pc[w] = "deny" /\ Saved(w)
  /\ \/ facts' = facts \cup {[id |-> cur[w], trust |-> "DISPUTED_OR_UNSAFE"]}
     \/ facts' = facts
  /\ pc' = [pc EXCEPT ![w] = "work"]
  /\ cur' = [cur EXCEPT ![w] = None]
  /\ UNCHANGED <<disk, old, view, todo, fresh, dirty, history, budget>>

MarkImportant(w, i) ==
  /\ Operate(w, i)
  /\ Change(w, i, [view[w][i] EXCEPT !.important = TRUE])
  /\ pc' = [pc EXCEPT ![w] = "work"]
  /\ UNCHANGED <<facts, cur, approved>>

\* Only the note to the user changes, but the whole record is written.
RequestEvidence(w, i) ==
  /\ Operate(w, i)
  /\ Change(w, i, view[w][i])
  /\ pc' = [pc EXCEPT ![w] = "work"]
  /\ UNCHANGED <<facts, cur, approved>>

Archive(w, i) ==
  /\ Operate(w, i)
  /\ Change(w, i, [view[w][i] EXCEPT !.status = "archived"])
  /\ pc' = [pc EXCEPT ![w] = "work"]
  /\ UNCHANGED <<facts, cur, approved>>

\* Mutant: only the present status is looked at, not the contradictions.
MutRefused(r) == r.class \in CANONICAL_CLASSES \/ r.status = "disputed"
                 \/ r.class \notin USER_CLASSES

\* When the operator's approval is refused.
Refused(r) == r.class \in CANONICAL_CLASSES \/ r.status = "disputed" \/ r.contra
              \/ r.class \notin USER_CLASSES

ApproveCommit(w, i) ==
  /\ Operate(w, i)
  /\ ~Refused(view[w][i])
  /\ approved' = approved \cup {i}
  /\ pc' = [pc EXCEPT ![w] = "store"]
  /\ cur' = [cur EXCEPT ![w] = i]
  /\ UNCHANGED <<facts, view, dirty>>

-----------------------------------------------------------------------------
\* stale_days pass.
Age(i) ==
  /\ Ageing
  /\ origin[i] # "none"
  /\ old' = old \cup {i}
  /\ UNCHANGED <<disk, facts, session, history, budget>>

\* The gateway dies; the append it was making may be half written.
Crash ==
  /\ crashes < MaxCrashes
  /\ crashes' = crashes + 1
  /\ torn' \in {torn, torn \/ \E w \in Workers : ~Saved(w)}
  /\ pc' = [w \in Workers |-> "idle"]
  /\ view' = [w \in Workers |-> EmptyLedger]
  /\ todo' = [w \in Workers |-> {}]
  /\ cur' = [w \in Workers |-> None]
  /\ fresh' = [w \in Workers |-> None]
  /\ dirty' = [w \in Workers |-> {}]
  /\ behind' = [w \in Workers |-> {}]
  /\ dropped' = dropped \cup
       UNION {Contradicted(w, dirty[w] \cup ({fresh[w]} \ {None})) : w \in Workers}
  /\ UNCHANGED <<ledger, contested, unseen, failures, facts, old, history, ops>>

\* The steps of a session once it has begun.
Progress(w) ==
  \/ Finish(w)
  \/ SaveFresh(w)
  \/ \E i \in Ids : SaveDirty(w, i) \/ ConsolidateOne(w, i)
  \/ Commit(w)
  \/ Deny(w)

Manual(w) ==
  \E i \in Ids : \/ MarkFalse(w, i) \/ MarkImportant(w, i) \/ RequestEvidence(w, i)
                 \/ Archive(w, i) \/ ApproveCommit(w, i)

Next ==
  \/ \E w \in Workers :
       \/ Load(w)
       \/ \E claim \in Claims, key \in Keys, disputed \in BOOLEAN :
            Ingest(w, claim, key, disputed)
       \/ ConsolidateBegin(w)
       \/ Manual(w)
       \/ Progress(w)
  \/ \E i \in Ids : Age(i)
  \/ Crash

Spec == Init /\ [][Next]_vars

\* A session that was opened runs to its end, and the life tick comes back to
\* consolidation: it drains a bounded number of tasks first, then consolidates
\* on every tick.
Fairness ==
  \A w \in Workers : /\ WF_vars(Load(w))
                     /\ WF_vars(Progress(w))
                     /\ SF_vars(ConsolidateBegin(w))

FairSpec == Spec /\ Fairness

-----------------------------------------------------------------------------
Fact == [id : Ids, trust : {"USER_PREFERENCE", "DOMAIN_VERIFIED", "DISPUTED_OR_UNSAFE"}]

TypeOK ==
  /\ ledger \in [Ids -> Candidate \cup {None}]
  /\ torn \in BOOLEAN
  /\ facts \subseteq Fact
  /\ old \subseteq Ids
  /\ pc \in [Workers -> {"idle", "loaded", "work", "store", "deny"}]
  /\ view \in [Workers -> [Ids -> Candidate \cup {None}]]
  /\ todo \in [Workers -> SUBSET Ids]
  /\ cur \in [Workers -> Ids \cup {None}]
  /\ fresh \in [Workers -> Ids \cup {None}]
  /\ dirty \in [Workers -> SUBSET Ids]
  /\ origin \in [Ids -> Classes \cup {"none"}]
  /\ seen \in [Ids -> SUBSET Keys]
  /\ contested \subseteq Ids
  /\ approved \subseteq Ids
  /\ behind \in [Workers -> SUBSET Ids]
  /\ unseen \subseteq Ids \X Ids
  /\ dropped \subseteq Ids
  /\ ops \in 0..MaxOps
  /\ crashes \in 0..MaxCrashes
  /\ failures \in 0..MaxFailures

\* What a committed fact of candidate i rests on.
Grounded(i) ==
  /\ CommitTrust(origin[i]) # "none"
  /\ Cardinality(seen[i]) >= CommitEvidence \/ (origin[i] \in USER_CLASSES /\ i \in approved)
  /\ origin[i] = WEB => Cardinality({k \in seen[i] : ClassOf[k] = WEB}) >= MIN_WEB_SOURCES

\* "a vault/user candidate commits only as USER memory", "a web-only candidate
\* cannot commit without verification", "SYSTEM_CANONICAL is never ...
\* re-committed" (candidate_lifecycle.py:13-15): whatever sessions overlap,
\* writes are lost or crashes repeat a commit, a fact stored as committed rests
\* on evidence that was really ingested for its candidate.
CommitPolicy ==
  \A f \in facts :
    f.trust # "DISPUTED_OR_UNSAFE" =>
      Grounded(f.id) /\ (f.trust = "USER_PREFERENCE" <=> origin[f.id] \in USER_CLASSES)

\* "commit needs evidence >= threshold AND no active contradiction"
\* (candidate_lifecycle.py:10): a candidate whose contradiction reached the
\* ledger is not committed there, unless a session whose copy was older than
\* the ledger's record of that same candidate saved over it.
ContradictionBlocksCommit ==
  \A i \in Known(ledger) :
    ledger[i].status = "committed" => i \notin contested \/ <<i, i>> \in unseen

\* Two active candidates of a topic do not contradict each other: the second
\* would have come in as a disputed challenger (candidate_lifecycle.py:233-251),
\* unless its session had not seen the latest record of the first.
ActiveAgree ==
  \A i, j \in Active(ledger) :
    Conflicts(ledger[i].claim, ledger[i].class, ledger[j].claim, ledger[j].class) =>
      <<i, j>> \in unseen \/ <<j, i>> \in unseen

\* A challenger on file names an incumbent that is on file as contradicted
\* (candidate_lifecycle.py:239-251), unless its session is still saving that,
\* or the contradiction was never written, or a session that had not seen it
\* saved over it: the only ways a dispute becomes one-sided.
DisputeHasTwoSides ==
  \A i \in Known(ledger) :
    LET inc == ledger[i].challengerOf IN
      inc # None =>
        \/ ledger[inc] # None /\ ledger[inc].contra
        \/ \E w \in Workers : inc \in dirty[w]
        \/ inc \in dropped
        \/ <<inc, inc>> \in unseen

\* A candidate with enough committable evidence does not stay a candidate: the
\* tick commits or disputes it, or somebody archives it.
Ready(i) ==
  /\ ledger[i] # None
  /\ ledger[i].status \in ACTIVE_STATES
  /\ Cardinality(ledger[i].keys) >= CommitEvidence
  /\ ledger[i].class \in USER_CLASSES

ReadyIsDecided == \A i \in Ids : Ready(i) ~> ~Ready(i)

\* "a contradiction ... creates a DISPUTED challenger, never an overwrite of a
\* committed/canonical fact" (candidate_lifecycle.py:11-12): no two committed
\* candidates of a topic contradict each other.
CommittedAgree ==
  \A i, j \in Known(ledger) :
    ledger[i].status = "committed" /\ ledger[j].status = "committed" =>
      ~Conflicts(ledger[i].claim, ledger[i].class, ledger[j].claim, ledger[j].class)
=============================================================================
