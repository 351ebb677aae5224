-------------------------- MODULE EpistemicSearch ----------------------------
(***************************************************************************)
(* One question's way to an answer (gateway/memory_service_backend.py      *)
(* research, gateway/epistemic_search.py run, perspective_synthesis.py and *)
(* acquisition/): what is asked, in which order, what may end the search   *)
(* early, and which verdict the gathered evidence gets.                    *)
(*                                                                         *)
(* What a text says is an input: its kind of question, the hits a search   *)
(* returns in the order of their score, the claim a result makes.          *)
(***************************************************************************)
EXTENDS Integers, Sequences, FiniteSets

CONSTANTS
  Claims,         \* what a source may say, up to acquisition's claim key
  NoClaim,
  Hits,           \* the kinds of memory hits, a subset of Hit
  MaxHits,        \* bound: hits of a search
  MaxResults,     \* bound: results of the web, and opinions
  MinWebSources,  \* BYON_WEB_MIN_SOURCES
  AutoCommit,     \* BYON_AUTO_COMMIT_VERIFIED_WEB
  RequireAudit,   \* require_final_audit
  Open            \* no answer, nothing delivered, yet

ASSUME NumbersAssumption == MaxHits \in Nat /\ MaxResults \in Nat /\ MinWebSources \in Nat
ASSUME SwitchesAssumption == RequireAudit \in BOOLEAN /\ AutoCommit \in BOOLEAN
ASSUME NoClaimAssumption == NoClaim \notin Claims

\* The intents of query_router and the classes of source_policy, as far as run
\* tells them apart.
Kinds == {"secret", "selfState", "operational", "system", "vault", "personal", "objective"}

\* Who asks: the chat route, of one of three backends, the research route, which
\* may go on with an earlier search, or a research task.
Question == [route : {"chat", "research", "task"}, backend : {"memory", "local", "http"},
             kind : Kinds, action : {"start", "continue", "conclude"},
             independent : BOOLEAN, allowWeb : BOOLEAN]
Questions == {q \in Question :
  /\ q.route # "chat" => q.backend = "memory"
  /\ q.route # "research" => q.action = "start"
  /\ q.route # "task" => ~q.independent}

Origins == {"canonical", "repo", "relation", "vault", "other"}
Trusts == {"SYSTEM_CANONICAL", "VERIFIED_PROJECT_FACT", "DOMAIN_VERIFIED", "USER_PREFERENCE",
           "USER_MEMORY_GROUNDED", "EXTRACTED_USER_CLAIM", "DISPUTED_OR_UNSAFE", "none"}
Hit == [origin : Origins, trust : Trusts]
ASSUME HitsAssumption == Hits \subseteq Hit

VARIABLES
  stage,
  question,       \* who asks what
  hits,           \* memory_hits
  committed,      \* committed: is any of the memory's own hits committed?
  hypothesis,     \* Claude's, a claim
  ran,            \* acquisition_record["ran"]
  ground,         \* packets that can ground, <<trust, claim>>
  opinions,       \* external LLM packets, by claim
  web,            \* web results, by claim
  price,          \* acquisition_record["budget_request"]
  answer,         \* its status, basis and hit, and whether it passed the audit
  delivered,      \* the status the caller is given
  consulted       \* acquisition_record["tiers_run"], before the web

gathered == <<hits, committed, hypothesis, ran, ground, opinions, web, price>>
vars == <<stage, question, gathered, answer, delivered, consulted>>

Bases == {"none", "runtime", "own", "buffer", "memory", "correction", "web", "prior", "backend"}
NoAnswer == [status |-> Open, basis |-> "none", hit |-> <<>>, audited |-> FALSE]

Init ==
  /\ stage = "ask"
  /\ question \in Questions
  /\ hits = <<>> /\ committed = FALSE
  /\ hypothesis = NoClaim
  /\ ran = FALSE
  /\ ground = {}
  /\ opinions = [c \in Claims |-> 0]
  /\ web = [c \in Claims \cup {NoClaim} |-> 0]
  /\ price = FALSE
  /\ answer = NoAnswer
  /\ delivered = Open
  /\ consulted = {}

-----------------------------------------------------------------------------
\* source_policy and query_router.

CommittedTiers == {"SYSTEM_CANONICAL", "VERIFIED_PROJECT_FACT", "DOMAIN_VERIFIED", "USER_PREFERENCE"}

\* Mutant: what the user is said to have said is committed too.
MutCommittedTrust == (CommittedTiers \ {"SYSTEM_CANONICAL"}) \cup {"EXTRACTED_USER_CLAIM"}

\* perspective_synthesis' own notion of committed.
CommittedTrust == CommittedTiers \ {"SYSTEM_CANONICAL"}

SourceClass(h) ==
  IF h.origin = "canonical" \/ h.trust = "SYSTEM_CANONICAL" THEN "SYSTEM_CANONICAL"
  ELSE IF h.origin \in {"relation", "repo"} \/ h.trust = "VERIFIED_PROJECT_FACT"
    THEN "VERIFIED_PROJECT_FACT"
  ELSE IF h.trust \in {"DOMAIN_VERIFIED", "DISPUTED_OR_UNSAFE"} THEN h.trust
  ELSE IF h.origin = "vault" \/ h.trust = "EXTRACTED_USER_CLAIM" THEN "EXTRACTED_USER_CLAIM"
  ELSE IF h.trust = "USER_PREFERENCE" THEN "USER_MEMORY_GROUNDED" ELSE "UNKNOWN"

\* The classes that may ground an answer at once, by kind of question.
AllowedPrimary == [
  secret |-> {},
  selfState |-> {"SYSTEM_CANONICAL", "VERIFIED_PROJECT_FACT"},
  operational |-> {"SYSTEM_CANONICAL", "VERIFIED_PROJECT_FACT"},
  system |-> {"SYSTEM_CANONICAL", "VERIFIED_PROJECT_FACT", "DOMAIN_VERIFIED"},
  vault |-> {"USER_MEMORY_GROUNDED", "EXTRACTED_USER_CLAIM"},
  personal |-> {"USER_MEMORY_GROUNDED", "EXTRACTED_USER_CLAIM"},
  objective |-> {"DOMAIN_VERIFIED", "PROVISIONAL_WEB"}]

\* Mutant: only vault notes are kept out.
MutBleeds(h, kind) == kind # "vault" /\ h.origin = "vault"

\* A note stays out of all but vault questions, a fact of the system out of
\* personal and objective ones.
Bleeds(h, kind) ==
  \/ kind # "vault" /\ h.origin = "vault"
  \/ /\ kind \in {"personal", "objective"}
     /\ SourceClass(h) \in {"SYSTEM_CANONICAL", "VERIFIED_PROJECT_FACT"}

InSeq(s) == {s[i] : i \in DOMAIN s}
Has(s, tiers) == \E h \in InSeq(s) : h.trust \in tiers
First(s, tiers) ==
  s[CHOOSE i \in DOMAIN s : s[i].trust \in tiers /\ \A j \in 1..(i - 1) : s[j].trust \notin tiers]

\* What a search of the memory may return, in the order of rerank, and what of
\* it may remain when the hits that bleed are dropped.
Returns == UNION {{s \in [1..n -> Hits] : \A i, j \in 1..n : i # j => s[i] # s[j]} : n \in 0..MaxHits}
Remains(kind) == {s \in Returns : \A h \in InSeq(s) : ~Bleeds(h, kind)}

-----------------------------------------------------------------------------
Conclude(status, basis, hit, audited) ==
  /\ answer' = [status |-> status, basis |-> basis, hit |-> hit, audited |-> audited]
  /\ stage' = "judged"
  /\ UNCHANGED <<question, delivered>>

\* The backend over the memory service answers for its own audit.
Judge(status, basis, hit) == Conclude(status, basis, hit, TRUE)

Go(from, to) ==
  /\ stage = from /\ stage' = to
  /\ UNCHANGED <<question, answer, delivered>>

Kind == question.kind

\* The other backends: the local one answers from its own facts, and refuses one
\* without a source; the remote one may answer anything, or be out of reach.
Local ==
  /\ stage = "ask" /\ question.backend = "local"
  /\ \E s \in {"KNOWN", "UNKNOWN", "REFUSED"} : Conclude(s, "backend", <<>>, s # "REFUSED")
  /\ UNCHANGED <<gathered, consulted>>

Http ==
  /\ stage = "ask" /\ question.backend = "http"
  /\ \E s \in {"KNOWN", "PROVISIONAL", "UNKNOWN", "ERROR"}, audited \in BOOLEAN :
       Conclude(s, "backend", <<>>, audited)
  /\ UNCHANGED <<gathered, consulted>>

Ask == stage = "ask" /\ question.backend = "memory"

\* research: the memory service is down, the message sets a style, or it taught
\* facts.  Only a first message is read for either; no fact is taken from one
\* with a secret.
Down ==
  /\ Ask
  /\ Judge("ERROR", "none", <<>>)
  /\ UNCHANGED <<gathered, consulted>>

StylePreference ==
  /\ Ask /\ question.action = "start"
  /\ Judge("ACTION_DONE", "own", <<>>)
  /\ UNCHANGED <<gathered, consulted>>

Learned ==
  /\ Ask /\ question.action = "start" /\ Kind # "secret"
  /\ Judge("KNOWN", "own", <<>>)
  /\ UNCHANGED <<gathered, consulted>>

Search == Ask /\ Go("ask", "search") /\ UNCHANGED <<gathered, consulted>>

\* run: secrets, self-state and operational questions are not searched.
Secret ==
  /\ stage = "search" /\ Kind = "secret"
  /\ Judge("UNKNOWN", "none", <<>>)
  /\ UNCHANGED <<gathered, consulted>>

SelfState ==
  /\ stage = "search" /\ Kind = "selfState"
  /\ Judge("KNOWN", "runtime", <<>>)
  /\ UNCHANGED <<gathered, consulted>>

Operational ==
  /\ stage = "search" /\ Kind = "operational"
  /\ \E s \in {"KNOWN", "SELF_STATE_GROUNDED", "ACTION_DONE", "ACTION_REQUIRED", "UNKNOWN"} :
       Judge(s, "runtime", <<>>)
  /\ UNCHANGED <<gathered, consulted>>

Retrieve ==
  /\ Kind \in {"system", "vault", "personal", "objective"}
  /\ hits' \in Remains(Kind)
  /\ committed' = Has(hits', CommittedTiers)
  /\ Go("search", IF Kind = "system" THEN "system" ELSE "fast")
  /\ UNCHANGED <<hypothesis, ran, ground, opinions, web, price, consulted>>

\* A question about the system: the pool also holds the canonical facts that
\* the probes find and the relations policy lets through, and all the raw hits.
\* A note that denies a canonical constraint makes the answer DISPUTED; else a
\* committed fact of the pool answers at once.
Pool(h) ==
  /\ hits' = <<h>> \o hits
  /\ UNCHANGED <<committed, hypothesis, ran, ground, opinions, web, price, consulted>>
PoolHits == InSeq(hits) \cup {h \in Hits : h.origin \in {"canonical", "repo", "relation", "vault"}}

UnsafeNote ==
  /\ stage = "system"
  /\ \E h \in Hits : h.origin = "vault" /\ Pool(h)
  /\ Judge("DISPUTED", "correction", <<>>)

\* Mutant: the search for an independent source ends at the cached one.
MutSystemFast ==
  /\ stage = "system"
  /\ \E h \in PoolHits :
       h.trust \in CommittedTiers /\ Pool(h) /\ Judge("KNOWN", "memory", <<h>>)

SystemFast ==
  /\ stage = "system" /\ ~question.independent
  /\ \E h \in PoolHits :
       h.trust \in CommittedTiers /\ Pool(h) /\ Judge("KNOWN", "memory", <<h>>)

\* The pool has no committed fact, or an independent source is asked for.
SystemSlow ==
  /\ question.independent \/ ~committed
  /\ Go("system", "fast")
  /\ UNCHANGED <<gathered, consulted>>

\* The buffer of recent writes, for a personal question the memory cannot answer.
Buffered ==
  /\ stage = "fast" /\ Kind = "personal" /\ ~committed
  /\ Judge("KNOWN", "buffer", <<>>)
  /\ UNCHANGED <<gathered, consulted>>

-----------------------------------------------------------------------------
\* synthesize: the verdict on hits, hypothesis and results, in this order.

Supported(results) == {c \in Claims : results[c] > 0}

Verdict(s, results, hypo, enabled, auto) ==
  LET said == Supported(results)
      rests(status, basis, hit) == [status |-> status, basis |-> basis, hit |-> hit]
  IN IF Has(s, CommittedTrust) THEN rests("KNOWN", "memory", <<First(s, CommittedTrust)>>)
     ELSE IF \E c, d \in said : c # d THEN rests("DISPUTED", "web", <<>>)
     ELSE IF said # {} THEN
       rests(IF auto /\ \E c \in said : results[c] >= MinWebSources
             THEN "KNOWN" ELSE "PROVISIONAL", "web", <<>>)
     ELSE IF s # <<>> THEN rests("PROVISIONAL", "memory", <<s[1]>>)
     ELSE IF hypo # NoClaim THEN rests("PROVISIONAL_UNVERIFIED", "prior", <<>>)
     ELSE rests(IF enabled THEN "UNKNOWN" ELSE "ASK_USER_FOR_SOURCE", "none", <<>>)

NoResults == [c \in Claims \cup {NoClaim} |-> 0]

\* A committed hit of an allowed class answers without Claude and the web.
FastOk ==
  /\ committed /\ Kind # "vault" /\ ~question.independent
  /\ SourceClass(First(hits, CommittedTiers)) \in AllowedPrimary[Kind]

FastPath ==
  /\ stage = "fast" /\ FastOk
  /\ LET v == Verdict(hits, NoResults, NoClaim, question.allowWeb, FALSE)
     IN Judge(v.status, v.basis, v.hit)
  /\ UNCHANGED <<gathered, consulted>>

\* The deadline, unless the caller asks to conclude.  A search goes on when the
\* time is not over, or when it is and the caller concludes.
NeedsMoreTime ==
  /\ stage = "fast" /\ ~FastOk /\ question.action # "conclude"
  /\ Judge("NEEDS_MORE_TIME", "none", <<>>)
  /\ UNCHANGED <<gathered, consulted>>

\* Claude's hypothesis; it may be switched off, or fail.
Claude ==
  /\ ~FastOk
  /\ hypothesis' \in Claims \cup {NoClaim}
  /\ Go("fast", "before")
  /\ UNCHANGED <<hits, committed, ran, ground, opinions, web, price, consulted>>

-----------------------------------------------------------------------------
\* Acquisition, before the web: project files and other models, unless the
\* committed hits suffice.

Results(claims) ==
  {b \in [claims -> 0..MaxResults] : \A c, d \in claims : c # d => b[c] + b[d] <= MaxResults}

Personal == Kind \in {"personal", "vault"}
Tiers == IF Personal THEN {}
         ELSE {"llm"} \cup (IF question.independent \/ Kind = "system" THEN {"project"} ELSE {})

\* What each of them may come back with; the caller of the models is brought by
\* the acquisition context of a task.
ProjectPassages ==
  {{}} \cup {{<<"VERIFIED_PROJECT_FACT", c>>} : c \in IF "project" \in Tiers THEN Claims ELSE {}}
Opinions ==
  IF "llm" \in Tiers /\ question.route = "task" THEN Results(Claims) ELSE {[c \in Claims |-> 0]}

Enough ==
  /\ committed /\ ~question.independent
  /\ Go("before", "web")
  /\ UNCHANGED <<gathered, consulted>>

AcquireBefore ==
  /\ ran' = TRUE
  /\ consulted' = consulted \cup Tiers
  /\ ground' \in ProjectPassages
  /\ opinions' \in Opinions
  /\ Go("before", "web")
  /\ UNCHANGED <<hits, committed, hypothesis, web, price>>

\* The web: results of the question and of Claude's queries, one per domain.
Web ==
  /\ web' \in Results(Claims \cup {NoClaim})
  /\ question.allowWeb
  /\ Go("web", "after")
  /\ UNCHANGED <<hits, committed, hypothesis, ran, ground, opinions, price, consulted>>

\* Switched off, or no provider.
NoWeb == Go("web", "after") /\ UNCHANGED <<gathered, consulted>>

Advised == \E c \in Claims : opinions[c] > 0
Searched == \E c \in Claims \cup {NoClaim} : web[c] > 0

Nothing == ground = {} /\ ~Advised /\ ~Searched

CorpusPassages == {{}} \cup {{<<"DOMAIN_VERIFIED", c>>} : c \in Claims}

\* A budget is asked for when a task's context says that a paid source is
\* required, or is available and nothing free came back.  A request made
\* although something did decides nothing and is left out.
PriceAsked(passages) == {FALSE, question.route = "task" /\ Nothing /\ passages = {}}

AcquireAfter ==
  /\ ran
  /\ \E passage \in CorpusPassages :
       ground' = ground \cup passage /\ price' \in PriceAsked(ground')
  /\ Go("after", "fold")
  /\ UNCHANGED <<hits, committed, hypothesis, ran, opinions, web, consulted>>

NotRan == ~ran /\ Go("after", "fold") /\ UNCHANGED <<gathered, consulted>>

-----------------------------------------------------------------------------
\* fold_packets: the best grounding packet joins the hits, or, if it and the
\* opinions disagree, the results.

Keys(top) == {c \in Claims : opinions[c] > 0} \cup {top[2]}

AsHit(packet) ==
  [origin |-> IF packet[1] = "VERIFIED_PROJECT_FACT" THEN "repo" ELSE "other", trust |-> packet[1]]

\* The hits and the results synthesize is given; which packet is the best is
\* left open, confidences are not modelled.
Folded(top) ==
  LET joined == [c \in Claims \cup {NoClaim} |->
                   web[c] + (IF c \in Claims THEN opinions[c] ELSE 0)]
      conflict == \E c, d \in Keys(top) : c # d
  IN [hits |-> IF conflict THEN hits
               ELSE <<AsHit(top)>> \o hits,
      results |-> IF conflict THEN [joined EXCEPT ![top[2]] = @ + 1] ELSE joined]

FoldedAdvice ==
  [hits |-> hits,
   results |-> [c \in Claims \cup {NoClaim} |-> web[c] + (IF c \in Claims THEN opinions[c] ELSE 0)]]

\* A paid source is the only way left.
BudgetRequired ==
  /\ stage = "fold"
  /\ price /\ Nothing
  /\ Judge("BUDGET_REQUIRED", "none", <<>>)
  /\ UNCHANGED <<gathered, consulted>>

Synthesize ==
  /\ stage = "fold"
  /\ ~(price /\ Nothing)
  /\ \E f \in IF ground = {} THEN {FoldedAdvice} ELSE {Folded(top) : top \in ground} :
       LET v == Verdict(f.hits, f.results, hypothesis, question.allowWeb \/ Advised, AutoCommit)
       IN Judge(v.status, v.basis, v.hit)
  /\ UNCHANGED <<gathered, consulted>>

-----------------------------------------------------------------------------
\* What the caller is given.  The chat route normalizes: no KNOWN without the
\* audit, and a status it does not know is an error.

Valid == {"KNOWN", "PROVISIONAL", "PROVISIONAL_UNVERIFIED", "DISPUTED",
  "NEEDS_MORE_TIME", "ASK_USER_FOR_SOURCE", "UNKNOWN", "REFUSED", "ERROR",
  "SELF_STATE_GROUNDED", "ACTION_DONE", "ACTION_REQUIRED"}

Normalized(a) ==
  CASE a.status = "KNOWN" -> IF RequireAudit /\ ~a.audited THEN "REFUSED" ELSE "KNOWN"
    [] a.status \in Valid \ {"KNOWN"} -> a.status
    [] OTHER -> "ERROR"

Deliver ==
  /\ stage = "judged" /\ stage' = "delivered"
  /\ delivered' = IF question.route = "chat" THEN Normalized(answer) ELSE answer.status
  /\ UNCHANGED <<question, gathered, answer, consulted>>

Next ==
  \/ Local \/ Http \/ Down \/ StylePreference \/ Learned \/ Search
  \/ Secret \/ SelfState \/ Operational
  \/ Retrieve \/ UnsafeNote \/ SystemFast \/ SystemSlow
  \/ Buffered \/ FastPath \/ NeedsMoreTime \/ Claude
  \/ Enough \/ AcquireBefore \/ Web \/ NoWeb \/ AcquireAfter \/ NotRan
  \/ BudgetRequired \/ Synthesize
  \/ Deliver

Spec == Init /\ [][Next]_vars

-----------------------------------------------------------------------------
Stages == {"ask", "search", "system", "fast", "before", "web", "after", "fold", "judged",
           "delivered"}

TypeOK ==
  /\ stage \in Stages
  /\ question \in Questions
  /\ hits \in Seq(Hit) /\ committed \in BOOLEAN
  /\ hypothesis \in Claims \cup {NoClaim}
  /\ ran \in BOOLEAN
  /\ ground \subseteq {"VERIFIED_PROJECT_FACT", "DOMAIN_VERIFIED"} \X Claims
  /\ opinions \in [Claims -> Nat] /\ web \in [Claims \cup {NoClaim} -> Nat]
  /\ price \in BOOLEAN
  /\ answer.basis \in Bases /\ answer.hit \in Seq(Hit) /\ answer.audited \in BOOLEAN
  /\ consulted \subseteq {"project", "llm"}

-----------------------------------------------------------------------------
\* The evidence of the contract, from what was gathered.
Said == {c \in Claims : web[c] > 0 \/ opinions[c] > 0} \cup {p[2] : p \in ground}

Gathered ==
  {e \in {"runtime", "committed", "own", "backend", "converged", "single", "conflict", "hint",
          "prior", "price"} :
     \/ e = "runtime" /\ Kind \in {"selfState", "operational"}
     \/ e = "own" /\ (Kind = "personal" \/ question.action = "start")
     \/ e = "backend" /\ question.backend # "memory"
     \/ e = "committed" /\ (ground # {} \/ \E h \in InSeq(hits) : h.trust \in CommittedTiers)
     \/ /\ e = "converged" /\ AutoCommit
        /\ \E c \in Claims : web[c] + opinions[c] >= MinWebSources
     \/ e = "single" /\ Said # {}
     \/ /\ e = "conflict"
        /\ \/ \E c, d \in Said : c # d
           \/ Kind = "system" /\ \E h \in InSeq(hits) : h.origin = "vault"
     \/ e = "hint" /\ hits # <<>>
     \/ e = "prior" /\ hypothesis # NoClaim
     \/ e = "price" /\ price}

\* Each verdict is one the gathered evidence justifies, and what is delivered is
\* that verdict or an empty refusal: no order of stages, no early exit, no
\* acquired packet and no combination of switches makes more of the evidence.
Contract == INSTANCE EpistemicContract WITH
  evidence <- Gathered, verdict <- answer.status

ASSUME OpenAssumption == Open \notin Contract!Statuses

Promise == Contract!Spec

\* A note answers vault questions only, and a fact about the system none about
\* the user or the world, unless an independent source was asked for and read.
NoBleed ==
  answer.basis = "memory" =>
    LET h == answer.hit[1]
    IN /\ h.origin = "vault" => Kind \in {"vault", "system"}
       /\ SourceClass(h) \in {"SYSTEM_CANONICAL", "VERIFIED_PROJECT_FACT"} =>
            Kind \in {"system", "vault"} \/ "project" \in consulted

\* When an independent source is asked for, no committed memory ends the search
\* before the project's files and the other models were asked.
IndependentIsSought ==
  question.independent /\ answer.status = "KNOWN" /\ answer.basis = "memory" /\ ~Personal =>
    {"project", "llm"} \subseteq consulted

\* "An un-audited answer can never leave" (normalizer.py:7): of any backend, no
\* KNOWN is delivered to a chat without its audit.
AuditedOrRefused ==
  question.route = "chat" /\ RequireAudit /\ delivered = "KNOWN" => answer.audited

\* "Otherwise fall through to honest UNKNOWN/PROVISIONAL" (epistemic_search.py:400):
\* a committed hit of a class that may not ground this kind of question makes no
\* answer KNOWN.
FallsThrough ==
  answer.status = "KNOWN" /\ answer.basis = "memory" /\ Kind \in {"personal", "objective"} /\ ground = {} =>
    SourceClass(answer.hit[1]) \in AllowedPrimary[Kind]
=============================================================================
