----------------------- MODULE EpistemicSearch_proofs ------------------------
(***************************************************************************)
(* Proofs about the epistemic search, for every set of claims and kinds of *)
(* hits, every bound on what comes back, and every setting of the switches:*)
(* it implements EpistemicContract, and its answers do not bleed.          *)
(***************************************************************************)
EXTENDS EpistemicSearch, WellFoundedInduction, TLAPS

Judged == stage \in {"judged", "delivered"}

\* Until the verdict there is none, and until the delivery nothing is delivered.
OneVerdict ==
  /\ IF Judged THEN answer.status \in Contract!Statuses ELSE answer = NoAnswer
  /\ stage # "delivered" => delivered = Open

\* Until the verdict the hits are those of the memory, less what bleeds, and
\* the search knows whether one of them is committed.
CleanHits ==
  ~Judged => /\ \A h \in InSeq(hits) : ~Bleeds(h, Kind)
             /\ committed = Has(hits, CommittedTiers)

\* Where the search has got to says what it is about, what it has asked and what
\* it cannot have found yet.
Progress ==
  /\ stage = "system" => Kind = "system"
  /\ stage \in Stages \ {"ask", "search", "judged", "delivered"} =>
       Kind \in {"system", "vault", "personal", "objective"}
  /\ stage \in {"web", "after", "fold"} /\ question.independent => Tiers \subseteq consulted
  /\ \A p \in ground : p[1] = "VERIFIED_PROJECT_FACT" => "project" \in consulted

Fresh ==
  /\ stage \in {"ask", "search"} => hits = <<>>
  /\ stage \in {"ask", "search", "system", "fast"} => hypothesis = NoClaim
  /\ stage \in {"ask", "search", "system", "fast", "before"} =>
       ground = {} /\ opinions = [c \in Claims |-> 0]
  /\ stage \in {"ask", "search", "system", "fast", "before", "web"} =>
       web = [c \in Claims \cup {NoClaim} |-> 0]
  /\ stage \in {"ask", "search", "system", "fast", "before", "web", "after"} => ~price

IInv ==
  /\ TypeOK
  /\ OneVerdict /\ CleanHits /\ Progress /\ Fresh
  /\ NoBleed /\ IndependentIsSought

-----------------------------------------------------------------------------
\* Lemmas on sequences of hits and on the evidence.

LEMMA LeastOf ==
  ASSUME NEW T, T \subseteq Nat, T # {}
  PROVE  \E m \in T : \A k \in T : ~(k < m)
<1>1. \E m \in T : \A k \in T : ~ (<<k, m>> \in OpToRel(<,Nat))
  BY NatLessThanWellFounded, WFMin
<1> QED BY <1>1 DEF OpToRel

\* The first hit of some tiers is one of the hits, and of one of these tiers.
LEMMA FirstIsOne ==
  ASSUME NEW s \in Seq(Hit), NEW tiers, Has(s, tiers)
  PROVE  First(s, tiers) \in InSeq(s) /\ First(s, tiers).trust \in tiers
<1> DEFINE T == {i \in DOMAIN s : s[i].trust \in tiers}
<1>1. T # {} /\ T \subseteq Nat /\ DOMAIN s = 1 .. Len(s)
  BY DEF Has, InSeq
<1>2. PICK m \in T : \A k \in T : ~(k < m)
  BY <1>1, LeastOf
<1>3. \A j \in 1..(m - 1) : s[j].trust \notin tiers
  BY <1>1, <1>2
<1> QED BY <1>2, <1>3 DEF First, InSeq

\* A sequence of hits has hits, and hits at each of its places.
LEMMA SeqOfHits ==
  ASSUME NEW s \in Seq(Hit)
  PROVE  /\ InSeq(s) \subseteq Hit
         /\ s # <<>> => s[1] \in InSeq(s)
         /\ \A h \in Hit : /\ <<h>> \o s \in Seq(Hit) /\ <<h>> \o s # <<>>
                           /\ InSeq(<<h>> \o s) = InSeq(s) \cup {h}
<1>1. DOMAIN s = 1 .. Len(s) /\ Len(s) \in Nat
  OBVIOUS
<1>2. InSeq(s) \subseteq Hit /\ (s # <<>> => s[1] \in InSeq(s))
  BY <1>1 DEF InSeq
<1>3. ASSUME NEW h \in Hit
      PROVE  /\ <<h>> \o s \in Seq(Hit) /\ <<h>> \o s # <<>>
             /\ InSeq(<<h>> \o s) = InSeq(s) \cup {h}
  <2> DEFINE r == <<h>> \o s
  <2>1. r \in Seq(Hit) /\ Len(r) = Len(s) + 1 /\ r[1] = h /\ DOMAIN r = 1 .. Len(s) + 1
    OBVIOUS
  <2>2. \A i \in 1 .. Len(s) : r[i + 1] = s[i]
    OBVIOUS
  <2>3. InSeq(r) \subseteq InSeq(s) \cup {h}
    <3>1. SUFFICES ASSUME NEW i \in 1 .. Len(s) + 1 PROVE r[i] \in InSeq(s) \cup {h}
      BY <2>1 DEF InSeq
    <3>2. CASE i = 1 BY <3>2, <2>1
    <3>3. CASE i # 1
      <4>1. i - 1 \in 1 .. Len(s) /\ i = (i - 1) + 1 BY <3>3, <1>1
      <4> QED BY <4>1, <2>2, <1>1 DEF InSeq
    <3> QED BY <3>2, <3>3
  <2>4. InSeq(s) \cup {h} \subseteq InSeq(r)
    <3>1. h \in InSeq(r) BY <2>1, <1>1 DEF InSeq
    <3>2. ASSUME NEW i \in 1 .. Len(s) PROVE s[i] \in InSeq(r)
      <4>1. i + 1 \in DOMAIN r BY <2>1, <1>1
      <4> QED BY <4>1, <2>2 DEF InSeq
    <3> QED BY <3>1, <3>2, <1>1 DEF InSeq
  <2>5. r # <<>> BY <2>1, <1>1
  <2> QED BY <2>1, <2>3, <2>4, <2>5
<1> QED BY <1>2, <1>3

LEMMA RetrievedAreHits == Returns \subseteq Seq(Hit)
BY HitsAssumption, NumbersAssumption DEF Returns

-----------------------------------------------------------------------------
\* The two forms of a step: one that goes on, and one that passes a verdict.

LEMMA EvidenceIsEvidence == Gathered \subseteq Contract!Evidence
BY DEF Gathered, Contract!Evidence

\* More found is no less evidence.
More ==
  /\ InSeq(hits) \subseteq InSeq(hits') /\ (hits # <<>> => hits' # <<>>)
  /\ ground \subseteq ground'
  /\ hypothesis # NoClaim => hypothesis' = hypothesis
  /\ price => price'
  /\ \A c \in Claims : web[c] <= web'[c] /\ opinions[c] <= opinions'[c]

LEMMA SaidStays ==
  ASSUME TypeOK, TypeOK', More
  PROVE  Said \subseteq Said'
<1>1. \A c \in Claims : /\ web[c] \in Nat /\ web'[c] \in Nat
                        /\ opinions[c] \in Nat /\ opinions'[c] \in Nat
  BY DEF TypeOK
<1> QED BY <1>1 DEF Said, More

LEMMA MoreEvidence ==
  ASSUME TypeOK, TypeOK', More, question' = question
  PROVE  Gathered \subseteq Gathered'
<1>1. Said \subseteq Said'
  BY SaidStays
<1>2. \A c \in Claims : /\ web[c] \in Nat /\ web'[c] \in Nat
                        /\ opinions[c] \in Nat /\ opinions'[c] \in Nat
  BY DEF TypeOK
<1>3. ASSUME NEW c \in Claims, web[c] + opinions[c] >= MinWebSources
      PROVE  web'[c] + opinions'[c] >= MinWebSources
  BY <1>2, <1>3, NumbersAssumption DEF More
<1>4. Kind' = Kind
  BY DEF Kind
<1>5. SUFFICES ASSUME NEW e \in Gathered PROVE e \in Gathered'
  OBVIOUS
<1>6. "converged" \in Gathered => "converged" \in Gathered'
  BY <1>3 DEF Gathered
<1>7. "single" \in Gathered => "single" \in Gathered'
  BY <1>1 DEF Gathered
<1>8. "conflict" \in Gathered => "conflict" \in Gathered'
  BY <1>1, <1>4 DEF Gathered, More
<1>9. "committed" \in Gathered => "committed" \in Gathered'
  BY DEF Gathered, More
<1>10. \A k \in {"runtime", "own", "backend", "hint", "prior", "price"} :
         k \in Gathered => k \in Gathered'
  BY <1>4 DEF Gathered, More
<1>11. e \in {"runtime", "committed", "own", "backend", "converged", "single", "conflict", "hint",
               "prior", "price"}
  BY DEF Gathered
<1> QED BY <1>6, <1>7, <1>8, <1>9, <1>10, <1>11

LEMMA Going ==
  ASSUME IInv, ~Judged, ~Judged', UNCHANGED <<question, answer, delivered>>,
         TypeOK', CleanHits', Progress', Fresh', More
  PROVE  IInv' /\ Contract!Next
<1>1. Gathered \subseteq Gathered' /\ Gathered' \subseteq Contract!Evidence
  BY MoreEvidence DEF IInv, Gathered, Contract!Evidence
<1>2. answer = NoAnswer /\ answer.status = Open /\ delivered = Open
  BY DEF IInv, OneVerdict, NoAnswer, Judged
<1>3. Contract!Gather
  BY <1>1, <1>2 DEF Contract!Gather
<1>4. OneVerdict'
  BY <1>2 DEF OneVerdict, Judged
<1>5. answer'.basis = "none"
  BY <1>2 DEF NoAnswer
<1>6. NoBleed' /\ IndependentIsSought'
  BY <1>5 DEF NoBleed, IndependentIsSought
<1> QED BY <1>3, <1>4, <1>6 DEF IInv, Contract!Next

LEMMA Concluding ==
  ASSUME IInv, ~Judged,
         NEW status \in Contract!Statuses, NEW basis \in Bases, NEW hit \in Seq(Hit),
         NEW audited \in BOOLEAN,
         Conclude(status, basis, hit, audited),
         UNCHANGED <<committed, hypothesis, ran, ground, opinions, web, price, consulted>>,
         hits' \in Seq(Hit), InSeq(hits) \subseteq InSeq(hits'), hits # <<>> => hits' # <<>>,
         Contract!Justified(status, Gathered'),
         NoBleed', IndependentIsSought'
  PROVE  IInv' /\ Contract!Next
<1>1. /\ stage' = "judged" /\ question' = question /\ delivered' = delivered
      /\ answer' = [status |-> status, basis |-> basis, hit |-> hit, audited |-> audited]
  BY DEF Conclude
<1>2. TypeOK'
  BY <1>1 DEF IInv, TypeOK, Stages
<1>3. \A c \in Claims : web[c] \in Nat /\ opinions[c] \in Nat
  BY DEF IInv, TypeOK
<1>4. More
  BY <1>3 DEF More
<1>5. Gathered \subseteq Gathered' /\ Gathered' \subseteq Contract!Evidence
  BY <1>1, <1>2, <1>4, MoreEvidence DEF IInv, Gathered, Contract!Evidence
<1>6. answer.status = Open /\ delivered = Open
  BY DEF IInv, OneVerdict, NoAnswer, Judged
<1>7. Contract!Judge
  BY <1>1, <1>5, <1>6 DEF Contract!Judge
<1>8. OneVerdict' /\ CleanHits' /\ Fresh'
  BY <1>1, <1>6 DEF OneVerdict, CleanHits, Fresh, Judged
<1>9. Progress'
  BY <1>1 DEF IInv, Progress, Stages
<1> QED BY <1>2, <1>7, <1>8, <1>9 DEF IInv, Contract!Next

-----------------------------------------------------------------------------
\* Which evidence justifies which verdict.

\* An answer that does not rest on the memory cannot bleed, nor pass over the
\* independent sources.
LEMMA NotFromMemory ==
  ASSUME NEW status, NEW basis, NEW hit, NEW audited,
         Conclude(status, basis, hit, audited), basis # "memory"
  PROVE  NoBleed' /\ IndependentIsSought'
BY DEF Conclude, NoBleed, IndependentIsSought

\* The evidence is about the hits after the step, and about what the step leaves.
LEMMA Witnesses ==
  /\ (\E h \in InSeq(hits) : h.trust \in CommittedTiers) => "committed" \in Gathered
  /\ ground # {} => "committed" \in Gathered
  /\ AutoCommit /\ (\E c \in Claims : web[c] + opinions[c] >= MinWebSources) =>
       "converged" \in Gathered
  /\ Said # {} => "single" \in Gathered
  /\ (\E c, d \in Said : c # d) => "conflict" \in Gathered
  /\ hits # <<>> => "hint" \in Gathered
  /\ hypothesis # NoClaim => "prior" \in Gathered
  /\ price => "price" \in Gathered
  /\ Kind \in {"selfState", "operational"} => "runtime" \in Gathered
  /\ Kind = "personal" \/ question.action = "start" => "own" \in Gathered
  /\ question.backend # "memory" => "backend" \in Gathered
BY DEF Gathered

\* synthesize's verdict, by what it rests on.
LEMMA VerdictRests ==
  ASSUME NEW s \in Seq(Hit), NEW results, NEW hypo, NEW enabled, NEW auto,
         NEW v, v = Verdict(s, results, hypo, enabled, auto)
  PROVE  /\ v.status \in Contract!Statuses /\ v.basis \in Bases /\ v.hit \in Seq(Hit)
         /\ v.basis = "memory" => v.hit[1] \in InSeq(s)
         /\ v.status = "KNOWN" =>
              \/ Has(s, CommittedTrust)
              \/ auto /\ \E c \in Claims : results[c] >= MinWebSources
         /\ v.status = "PROVISIONAL" =>
              s # <<>> \/ \E c \in Claims : results[c] > 0
         /\ v.status = "PROVISIONAL_UNVERIFIED" => hypo # NoClaim
         /\ v.status = "DISPUTED" =>
              \E c, d \in Claims : c # d /\ results[c] > 0 /\ results[d] > 0
         /\ v.status \in {"KNOWN", "PROVISIONAL", "PROVISIONAL_UNVERIFIED", "DISPUTED",
                          "UNKNOWN", "ASK_USER_FOR_SOURCE"}
<1> DEFINE said == Supported(results)
<1> DEFINE rests(status, basis, hit) == [status |-> status, basis |-> basis, hit |-> hit]
<1>1. InSeq(s) \subseteq Hit /\ (s # <<>> => s[1] \in InSeq(s))
  BY SeqOfHits
<1>2. \A h \in Hit : <<h>> \in Seq(Hit) /\ <<h>>[1] = h
  OBVIOUS
<1>3. said = {c \in Claims : results[c] > 0} /\ <<>> \in Seq(Hit)
  BY DEF Supported
<1>4. CASE Has(s, CommittedTrust)
  <2>1. v = rests("KNOWN", "memory", <<First(s, CommittedTrust)>>)
    BY <1>4 DEF Verdict
  <2>2. First(s, CommittedTrust) \in InSeq(s)
    BY <1>4, FirstIsOne
  <2> QED BY <1>1, <1>2, <1>4, <2>1, <2>2 DEF Contract!Statuses, Bases
<1>5. CASE ~Has(s, CommittedTrust) /\ \E c, d \in said : c # d
  <2>1. v = rests("DISPUTED", "web", <<>>)
    BY <1>5 DEF Verdict
  <2> QED BY <1>3, <1>5, <2>1 DEF Contract!Statuses, Bases
<1>6. CASE ~Has(s, CommittedTrust) /\ ~(\E c, d \in said : c # d) /\ said # {}
  <2>1. v = rests(IF auto /\ \E c \in said : results[c] >= MinWebSources
                  THEN "KNOWN" ELSE "PROVISIONAL", "web", <<>>)
    BY <1>6 DEF Verdict
  <2> QED BY <1>3, <1>6, <2>1 DEF Contract!Statuses, Bases
<1>7. CASE ~Has(s, CommittedTrust) /\ ~(\E c, d \in said : c # d) /\ said = {} /\ s # <<>>
  <2>1. v = rests("PROVISIONAL", "memory", <<s[1]>>)
    BY <1>7 DEF Verdict
  <2> QED BY <1>1, <1>2, <1>7, <2>1 DEF Contract!Statuses, Bases
<1>8. CASE ~Has(s, CommittedTrust) /\ ~(\E c, d \in said : c # d) /\ said = {} /\ s = <<>>
  <2>1. v = IF hypo # NoClaim THEN rests("PROVISIONAL_UNVERIFIED", "prior", <<>>)
            ELSE rests(IF enabled THEN "UNKNOWN" ELSE "ASK_USER_FOR_SOURCE", "none", <<>>)
    BY <1>8 DEF Verdict
  <2> QED BY <1>3, <2>1 DEF Contract!Statuses, Bases
<1> QED BY <1>4, <1>5, <1>6, <1>7, <1>8

-----------------------------------------------------------------------------
\* Before the search: the other backends, and what research answers at once.

LEMMA Unpooled ==
  ASSUME TypeOK, UNCHANGED gathered
  PROVE  /\ UNCHANGED <<committed, hypothesis, ran, ground, opinions, web, price>>
         /\ hits' = hits /\ hits' \in Seq(Hit)
BY DEF TypeOK, gathered

LEMMA BackendStep ==
  ASSUME IInv, Local \/ Http
  PROVE  IInv' /\ Contract!Next
<1>1. PICK s \in {"KNOWN", "PROVISIONAL", "UNKNOWN", "REFUSED", "ERROR"}, a \in BOOLEAN :
        Conclude(s, "backend", <<>>, a)
  BY DEF Local, Http
<1>2. stage = "ask" /\ question.backend # "memory" /\ UNCHANGED <<gathered, consulted>>
  BY DEF Local, Http
<1>3. "backend" \in Gathered'
  BY <1>1, <1>2 DEF Gathered, Conclude
<1>4. Contract!Justified(s, Gathered')
  BY <1>3 DEF Contract!Justified, Contract!Justification
<1>5. s \in Contract!Statuses /\ "backend" \in Bases /\ <<>> \in Seq(Hit) /\ ~Judged
  BY <1>2 DEF Contract!Statuses, Bases, Judged
<1>6. NoBleed' /\ IndependentIsSought'
  BY <1>1, NotFromMemory
<1> QED BY <1>1, <1>2, <1>4, <1>5, <1>6, Unpooled, Concluding DEF IInv

\* A verdict that claims nothing, or rests on the runtime or the user's words.
LEMMA PlainStep ==
  ASSUME IInv, Down \/ StylePreference \/ Learned \/ Secret \/ SelfState \/ Operational
                 \/ Buffered \/ NeedsMoreTime \/ BudgetRequired
  PROVE  IInv' /\ Contract!Next
<1>1. PICK s \in Contract!Statuses, b \in {"none", "own", "runtime", "buffer"} :
        /\ Conclude(s, b, <<>>, TRUE)
        /\ \/ s \notin DOMAIN Contract!Justification
           \/ s \in {"ACTION_DONE", "KNOWN"} /\ (question.action = "start" \/ Kind = "personal")
           \/ /\ s \in {"KNOWN", "SELF_STATE_GROUNDED", "ACTION_DONE", "ACTION_REQUIRED"}
              /\ Kind \in {"selfState", "operational"}
           \/ s = "BUDGET_REQUIRED" /\ price
  BY DEF Down, StylePreference, Learned, Secret, SelfState, Operational, Buffered,
         NeedsMoreTime, BudgetRequired, Judge, Contract!Statuses, Contract!Justification
<1>2. ~Judged /\ UNCHANGED <<gathered, consulted>>
  BY DEF Down, StylePreference, Learned, Secret, SelfState, Operational, Buffered,
         NeedsMoreTime, BudgetRequired, Judged, Ask
<1>3. /\ question.action = "start" \/ Kind = "personal" => "own" \in Gathered'
      /\ Kind \in {"selfState", "operational"} => "runtime" \in Gathered'
      /\ price => "price" \in Gathered'
  BY <1>1, <1>2 DEF Gathered, Conclude, Kind, gathered
<1>4. Contract!Justified(s, Gathered')
  BY <1>1, <1>3 DEF Contract!Justified, Contract!Justification
<1>5. b \in Bases /\ <<>> \in Seq(Hit)
  BY <1>1 DEF Bases
<1>6. NoBleed' /\ IndependentIsSought'
  BY <1>1, NotFromMemory
<1> QED BY <1>1, <1>2, <1>4, <1>5, <1>6, Unpooled, Concluding DEF IInv

-----------------------------------------------------------------------------
\* The system's own questions, and the fast path.

LEMMA PoolStep ==
  ASSUME IInv, UnsafeNote \/ SystemFast
  PROVE  IInv' /\ Contract!Next
<1>1. stage = "system" /\ Kind = "system" /\ ~Judged /\ hits \in Seq(Hit)
  BY DEF UnsafeNote, SystemFast, IInv, Progress, TypeOK, Judged
<1>2. PICK h \in Hit : Pool(h) /\ (\/ h.origin = "vault" /\ Judge("DISPUTED", "correction", <<>>)
                                   \/ /\ h.trust \in CommittedTiers /\ ~question.independent
                                      /\ Judge("KNOWN", "memory", <<h>>))
  <2>1. InSeq(hits) \subseteq Hit
    BY <1>1, SeqOfHits
  <2> QED BY <2>1, HitsAssumption DEF UnsafeNote, SystemFast, PoolHits
<1>3. UNCHANGED <<committed, hypothesis, ran, ground, opinions, web, price, consulted, question>>
  BY <1>2 DEF Pool, Judge, Conclude
<1>4. /\ hits' \in Seq(Hit) /\ hits' # <<>> /\ h \in InSeq(hits') /\ InSeq(hits) \subseteq InSeq(hits')
  BY <1>1, <1>2, SeqOfHits DEF Pool
<1>5. Kind' = "system"
  BY <1>1, <1>3 DEF Kind
<1>6. <<>> \in Seq(Hit) /\ <<h>> \in Seq(Hit) /\ <<h>>[1] = h
  OBVIOUS
<1>7. CASE h.origin = "vault" /\ Judge("DISPUTED", "correction", <<>>)
  <2>1. "conflict" \in Gathered'
    BY <1>4, <1>5, <1>7 DEF Gathered
  <2>2. Contract!Justified("DISPUTED", Gathered')
    BY <2>1 DEF Contract!Justified, Contract!Justification
  <2>3. NoBleed' /\ IndependentIsSought'
    BY <1>7, NotFromMemory DEF Judge
  <2>4. "DISPUTED" \in Contract!Statuses /\ "correction" \in Bases
    BY DEF Contract!Statuses, Bases
  <2> QED BY <1>1, <1>3, <1>4, <1>6, <1>7, <2>2, <2>3, <2>4, Concluding DEF Judge
<1>8. CASE /\ h.trust \in CommittedTiers /\ ~question.independent
           /\ Judge("KNOWN", "memory", <<h>>)
  <2>1. "committed" \in Gathered'
    BY <1>4, <1>8 DEF Gathered, CommittedTiers
  <2>2. Contract!Justified("KNOWN", Gathered')
    BY <2>1 DEF Contract!Justified, Contract!Justification
  <2>3. NoBleed' /\ IndependentIsSought'
    BY <1>3, <1>5, <1>6, <1>8 DEF Judge, Conclude, NoBleed, IndependentIsSought
  <2>4. "KNOWN" \in Contract!Statuses /\ "memory" \in Bases
    BY DEF Contract!Statuses, Bases
  <2> QED BY <1>1, <1>3, <1>4, <1>6, <1>8, <2>2, <2>3, <2>4, Concluding DEF Judge
<1> QED BY <1>2, <1>7, <1>8

\* A hit that does not bleed does not bleed as an answer.
LEMMA CleanAnswer ==
  ASSUME NEW h \in Hit, ~Bleeds(h, Kind), Kind \in {"system", "vault", "personal", "objective"}
  PROVE  /\ h.origin = "vault" => Kind \in {"vault", "system"}
         /\ SourceClass(h) \in {"SYSTEM_CANONICAL", "VERIFIED_PROJECT_FACT"} =>
              Kind \in {"system", "vault"}
BY DEF Bleeds

LEMMA FastStep ==
  ASSUME IInv, FastPath
  PROVE  IInv' /\ Contract!Next
<1>0. PICK v : v = Verdict(hits, NoResults, NoClaim, question.allowWeb, FALSE)
  OBVIOUS
<1>1. /\ stage = "fast" /\ FastOk /\ ~Judged /\ hits \in Seq(Hit)
      /\ UNCHANGED <<gathered, consulted>> /\ Conclude(v.status, v.basis, v.hit, TRUE)
  BY <1>0 DEF FastPath, Judge, IInv, TypeOK, Judged
<1>2. \A c \in Claims : NoResults[c] = 0
  BY DEF NoResults
<1>3. /\ v.status \in Contract!Statuses /\ v.basis \in Bases /\ v.hit \in Seq(Hit)
      /\ v.basis = "memory" => v.hit[1] \in InSeq(hits)
      /\ v.status = "KNOWN" => Has(hits, CommittedTrust)
      /\ v.status = "PROVISIONAL" => hits # <<>>
      /\ v.status \in {"KNOWN", "PROVISIONAL", "UNKNOWN", "ASK_USER_FOR_SOURCE"}
  <2>1. \A c \in Claims : ~(NoResults[c] > 0)
    BY <1>2
  <2>2. /\ v.status \in Contract!Statuses /\ v.basis \in Bases /\ v.hit \in Seq(Hit)
        /\ v.basis = "memory" => v.hit[1] \in InSeq(hits)
        /\ v.status = "KNOWN" => Has(hits, CommittedTrust)
    BY <1>0, <1>1, VerdictRests
  <2>3. v.status = "PROVISIONAL" => hits # <<>>
    BY <1>0, <1>1, <2>1, VerdictRests
  <2>4. v.status # "PROVISIONAL_UNVERIFIED"
    BY <1>0, <1>1, VerdictRests
  <2>5. v.status # "DISPUTED"
    BY <1>0, <1>1, <2>1, VerdictRests
  <2>6. v.status \in {"KNOWN", "PROVISIONAL", "PROVISIONAL_UNVERIFIED", "DISPUTED",
                      "UNKNOWN", "ASK_USER_FOR_SOURCE"}
    BY <1>0, <1>1, VerdictRests
  <2> QED BY <2>2, <2>3, <2>4, <2>5, <2>6
<1>4. question' = question /\ Gathered' = Gathered
  BY <1>1 DEF Conclude, Gathered, gathered, Kind, Said
<1>5. Contract!Justified(v.status, Gathered')
  <2>1. v.status = "KNOWN" => "committed" \in Gathered'
    BY <1>3, <1>4, Witnesses DEF Has, CommittedTrust
  <2>2. v.status = "PROVISIONAL" => "hint" \in Gathered'
    BY <1>3, <1>4, Witnesses
  <2> QED BY <1>3, <2>1, <2>2 DEF Contract!Justified, Contract!Justification
<1>6. NoBleed' /\ IndependentIsSought'
  <2>1. /\ answer'.basis = v.basis /\ answer'.hit = v.hit
        /\ Kind' = Kind /\ ~question.independent
    BY <1>1, <1>4 DEF Conclude, Kind, FastOk
  <2>2. Kind \in {"system", "vault", "personal", "objective"}
    BY <1>1 DEF IInv, Progress, Stages
  <2>3. v.basis = "memory" => v.hit[1] \in Hit /\ ~Bleeds(v.hit[1], Kind)
    BY <1>1, <1>3, SeqOfHits DEF IInv, CleanHits
  <2> QED BY <1>4, <2>1, <2>2, <2>3, CleanAnswer DEF NoBleed, IndependentIsSought
<1>7. UNCHANGED <<committed, hypothesis, ran, ground, opinions, web, price>> /\ hits' = hits
  BY <1>1 DEF gathered
<1> QED BY <1>1, <1>3, <1>5, <1>6, <1>7, Concluding

-----------------------------------------------------------------------------
\* The steps that go on.

LEMMA IdleGo ==
  ASSUME IInv, Search \/ SystemSlow \/ Enough \/ NoWeb \/ NotRan
  PROVE  IInv' /\ Contract!Next
<1>1. PICK from, to \in Stages \ {"judged", "delivered"} :
        /\ Go(from, to) /\ UNCHANGED <<gathered, consulted>>
        /\ \/ from = "ask" /\ to = "search"
           \/ from = "system" /\ to = "fast"
           \/ from = "before" /\ to = "web" /\ ~question.independent
           \/ from = "web" /\ to = "after"
           \/ from = "after" /\ to = "fold"
  BY DEF Search, SystemSlow, Enough, NoWeb, NotRan, Stages
<1>2. /\ stage = from /\ stage' = to /\ UNCHANGED <<question, answer, delivered, consulted>>
      /\ UNCHANGED <<hits, committed, hypothesis, ran, ground, opinions, web, price>>
  BY <1>1 DEF Go, gathered
<1>3. ~Judged /\ ~Judged' /\ Kind' = Kind /\ Tiers' = Tiers
  BY <1>1, <1>2 DEF Judged, Stages, Kind, Tiers, Personal
<1>4. TypeOK'
  BY <1>1, <1>2 DEF IInv, TypeOK
<1>5. CleanHits'
  BY <1>2, <1>3 DEF IInv, CleanHits
<1>6. Progress' /\ Fresh'
  BY <1>1, <1>2, <1>3 DEF IInv, Progress, Fresh, Stages
<1>7. More
  BY <1>2 DEF IInv, TypeOK, More
<1> QED BY <1>2, <1>3, <1>4, <1>5, <1>6, <1>7, Going

LEMMA RetrieveStep ==
  ASSUME IInv, Retrieve
  PROVE  IInv' /\ Contract!Next
<1>1. /\ stage = "search" /\ stage' \in {"system", "fast"}
      /\ stage' = "system" => Kind = "system"
      /\ Kind \in {"system", "vault", "personal", "objective"}
      /\ hits' \in Seq(Hit) /\ (\A h \in InSeq(hits') : ~Bleeds(h, Kind))
      /\ committed' = Has(hits', CommittedTiers)
      /\ UNCHANGED <<question, answer, delivered, hypothesis, ran, ground, opinions, web, price,
                     consulted>>
  BY RetrievedAreHits DEF Retrieve, Go, Remains
<1>2. ~Judged /\ ~Judged' /\ Kind' = Kind /\ hits = <<>>
  BY <1>1 DEF Judged, Kind, IInv, Fresh
<1>3. committed' \in BOOLEAN
  BY <1>1 DEF Has
<1>4. TypeOK'
  BY <1>1, <1>3 DEF IInv, TypeOK, Stages
<1>5. CleanHits'
  BY <1>1, <1>2 DEF CleanHits, Has
<1>6. Progress' /\ Fresh'
  BY <1>1, <1>2 DEF IInv, Progress, Fresh
<1>7. More
  BY <1>1, <1>2 DEF IInv, TypeOK, More, InSeq
<1> QED BY <1>1, <1>2, <1>4, <1>5, <1>6, <1>7, Going

LEMMA ClaudeStep ==
  ASSUME IInv, Claude
  PROVE  IInv' /\ Contract!Next
<1>1. /\ stage = "fast" /\ stage' = "before" /\ hypothesis' \in Claims \cup {NoClaim}
      /\ UNCHANGED <<question, answer, delivered, hits, committed, ran, ground, opinions, web, price,
                     consulted>>
  BY DEF Claude, Go
<1>2. ~Judged /\ ~Judged' /\ Kind' = Kind /\ hypothesis = NoClaim
  BY <1>1 DEF Judged, Kind, IInv, Fresh
<1>3. TypeOK'
  BY <1>1 DEF IInv, TypeOK, Stages
<1>4. CleanHits'
  BY <1>1, <1>2 DEF IInv, CleanHits
<1>5. Progress' /\ Fresh'
  BY <1>1, <1>2 DEF IInv, Progress, Fresh, Stages
<1>6. More
  BY <1>1, <1>2 DEF IInv, TypeOK, More
<1> QED BY <1>1, <1>2, <1>3, <1>4, <1>5, <1>6, Going

LEMMA ResultsCount ==
  ASSUME NEW claims
  PROVE  Results(claims) \subseteq [claims -> Nat]
BY NumbersAssumption DEF Results

LEMMA BeforeStep ==
  ASSUME IInv, AcquireBefore
  PROVE  IInv' /\ Contract!Next
<1>1. /\ stage = "before" /\ stage' = "web" /\ ran' = TRUE /\ consulted' = consulted \cup Tiers
      /\ ground' \in ProjectPassages /\ opinions' \in Opinions
      /\ UNCHANGED <<question, answer, delivered, hits, committed, hypothesis, web, price>>
  BY DEF AcquireBefore, Go
<1>2. /\ ~Judged /\ ~Judged' /\ Kind' = Kind /\ Tiers' = Tiers
      /\ ground = {} /\ opinions = [c \in Claims |-> 0]
  BY <1>1 DEF Judged, Kind, IInv, Fresh, Tiers, Personal
<1>3. /\ opinions' \in [Claims -> Nat]
      /\ ground' \subseteq {"VERIFIED_PROJECT_FACT", "DOMAIN_VERIFIED"} \X Claims
      /\ ground' # {} => "project" \in Tiers
      /\ Tiers \subseteq {"project", "llm"}
  BY <1>1, ResultsCount DEF Opinions, ProjectPassages, Tiers
<1>4. TypeOK'
  BY <1>1, <1>3 DEF IInv, TypeOK, Stages
<1>5. CleanHits'
  BY <1>1, <1>2 DEF IInv, CleanHits
<1>6. Progress'
  BY <1>1, <1>2, <1>3 DEF IInv, Progress, Stages
<1>7. Fresh'
  BY <1>1 DEF IInv, Fresh
<1>8. More
  BY <1>1, <1>2, <1>3 DEF IInv, TypeOK, More
<1> QED BY <1>1, <1>2, <1>4, <1>5, <1>6, <1>7, <1>8, Going

LEMMA WebStep ==
  ASSUME IInv, Web
  PROVE  IInv' /\ Contract!Next
<1>1. /\ stage = "web" /\ stage' = "after" /\ web' \in [Claims \cup {NoClaim} -> Nat]
      /\ UNCHANGED <<question, answer, delivered, hits, committed, hypothesis, ran, ground, opinions,
                     price, consulted>>
  BY ResultsCount DEF Web, Go
<1>2. /\ ~Judged /\ ~Judged' /\ Kind' = Kind /\ Tiers' = Tiers
      /\ web = [c \in Claims \cup {NoClaim} |-> 0]
  BY <1>1 DEF Judged, Kind, IInv, Fresh, Tiers, Personal
<1>3. TypeOK'
  BY <1>1 DEF IInv, TypeOK, Stages
<1>4. CleanHits'
  BY <1>1, <1>2 DEF IInv, CleanHits
<1>5. Progress' /\ Fresh'
  BY <1>1, <1>2 DEF IInv, Progress, Fresh, Stages
<1>6. More
  BY <1>1, <1>2 DEF IInv, TypeOK, More
<1> QED BY <1>1, <1>2, <1>3, <1>4, <1>5, <1>6, Going

LEMMA AfterStep ==
  ASSUME IInv, AcquireAfter
  PROVE  IInv' /\ Contract!Next
<1>1. PICK passage \in CorpusPassages :
        /\ stage = "after" /\ stage' = "fold"
        /\ ground' = ground \cup passage /\ price' \in PriceAsked(ground')
        /\ UNCHANGED <<question, answer, delivered, hits, committed, hypothesis, ran, opinions, web,
                       consulted>>
  BY DEF AcquireAfter, Go
<1>2. ~Judged /\ ~Judged' /\ Kind' = Kind /\ Tiers' = Tiers /\ ~price
  BY <1>1 DEF Judged, Kind, IInv, Fresh, Tiers, Personal
<1>3. /\ price' \in BOOLEAN
      /\ passage \subseteq {"DOMAIN_VERIFIED"} \X Claims
  <2>1. price' \in BOOLEAN
    BY <1>1, Zenon DEF PriceAsked
  <2>2. passage \subseteq {"DOMAIN_VERIFIED"} \X Claims
    BY <1>1 DEF CorpusPassages
  <2> QED BY <2>1, <2>2
<1>4. TypeOK'
  BY <1>1, <1>3 DEF IInv, TypeOK, Stages
<1>5. CleanHits'
  BY <1>1, <1>2 DEF IInv, CleanHits
<1>6. \A p \in ground' : p[1] = "VERIFIED_PROJECT_FACT" => p \in ground
  BY <1>1, <1>3
<1>7. Progress' /\ Fresh'
  BY <1>1, <1>2, <1>6 DEF IInv, Progress, Fresh, Stages
<1>8. More
  BY <1>1, <1>2 DEF IInv, TypeOK, More
<1> QED BY <1>1, <1>2, <1>4, <1>5, <1>7, <1>8, Going

-----------------------------------------------------------------------------
\* The synthesis.

\* What synthesize is given, folded or not, is made of what was gathered.
FoldFacts(f) ==
  /\ f.hits \in Seq(Hit)
  /\ \A h \in InSeq(f.hits) : h \in InSeq(hits) \/ \E p \in ground : h = AsHit(p)
  /\ f.hits # <<>> => hits # <<>> \/ ground # {}
  /\ \A c \in Claims : f.results[c] > 0 => c \in Said
  /\ ground = {} => \A c \in Claims : f.results[c] = web[c] + opinions[c]

LEMMA PacketIsHit ==
  ASSUME TypeOK, NEW p \in ground
  PROVE  /\ AsHit(p) \in Hit
         /\ AsHit(p).origin # "vault"
         /\ SourceClass(AsHit(p)) = "VERIFIED_PROJECT_FACT" => p[1] = "VERIFIED_PROJECT_FACT"
         /\ SourceClass(AsHit(p)) # "SYSTEM_CANONICAL"
         /\ p[2] \in Claims
BY DEF TypeOK, AsHit, Hit, Origins, Trusts, SourceClass

LEMMA FoldIsMade ==
  ASSUME TypeOK,
         NEW f \in IF ground = {} THEN {FoldedAdvice} ELSE {Folded(top) : top \in ground}
  PROVE  FoldFacts(f)
<1>1. /\ hits \in Seq(Hit)
      /\ \A c \in Claims : web[c] \in Nat /\ opinions[c] \in Nat
  BY DEF TypeOK
<1>2. \A c \in Claims : web[c] + opinions[c] > 0 => c \in Said
  BY <1>1 DEF Said
<1>3. CASE ground = {}
  <2>1. f.hits = hits /\ \A c \in Claims : f.results[c] = web[c] + opinions[c]
    BY <1>3 DEF FoldedAdvice
  <2> QED BY <1>1, <1>2, <1>3, <2>1 DEF FoldFacts
<1>4. CASE ground # {}
  <2>1. PICK top \in ground : f = Folded(top)
    BY <1>4
  <2> DEFINE conflict == \E c, d \in Keys(top) : c # d
  <2>2. /\ f.hits = IF conflict THEN hits ELSE <<AsHit(top)>> \o hits
        /\ \A c \in Claims : \/ f.results[c] = web[c] + opinions[c]
                             \/ c = top[2]
    BY <2>1 DEF Folded
  <2>3. AsHit(top) \in Hit /\ top[2] \in Said
    BY PacketIsHit DEF Said
  <2>4. \A c \in Claims : f.results[c] > 0 => c \in Said
    BY <1>2, <2>2, <2>3
  <2>5. CASE conflict
    BY <1>1, <1>4, <2>2, <2>4, <2>5 DEF FoldFacts
  <2>6. CASE ~conflict
    <3>1. f.hits \in Seq(Hit) /\ InSeq(f.hits) = InSeq(hits) \cup {AsHit(top)}
      BY <1>1, <2>2, <2>3, <2>6, SeqOfHits
    <3> QED BY <1>4, <2>1, <2>4, <3>1 DEF FoldFacts
  <2> QED BY <2>5, <2>6
<1> QED BY <1>3, <1>4

LEMMA SynthesizeStep ==
  ASSUME IInv, Synthesize
  PROVE  IInv' /\ Contract!Next
<1>1. PICK f \in IF ground = {} THEN {FoldedAdvice} ELSE {Folded(top) : top \in ground} :
        LET v == Verdict(f.hits, f.results, hypothesis, question.allowWeb \/ Advised, AutoCommit)
        IN Judge(v.status, v.basis, v.hit)
  BY DEF Synthesize
<1>2. PICK v : v = Verdict(f.hits, f.results, hypothesis, question.allowWeb \/ Advised, AutoCommit)
  OBVIOUS
<1>3. /\ stage = "fold" /\ ~Judged /\ hits \in Seq(Hit)
      /\ UNCHANGED <<gathered, consulted>> /\ Conclude(v.status, v.basis, v.hit, TRUE)
  BY <1>1, <1>2 DEF Synthesize, Judge, IInv, TypeOK, Judged
<1>4. FoldFacts(f)
  BY FoldIsMade DEF IInv
<1>5. /\ v.status \in Contract!Statuses /\ v.basis \in Bases /\ v.hit \in Seq(Hit)
      /\ v.basis = "memory" => v.hit[1] \in InSeq(f.hits)
      /\ v.status = "KNOWN" =>
           \/ Has(f.hits, CommittedTrust)
           \/ AutoCommit /\ \E c \in Claims : f.results[c] >= MinWebSources
      /\ v.status = "PROVISIONAL" => f.hits # <<>> \/ \E c \in Claims : f.results[c] > 0
      /\ v.status = "PROVISIONAL_UNVERIFIED" => hypothesis # NoClaim
      /\ v.status = "DISPUTED" =>
           \E c, d \in Claims : c # d /\ f.results[c] > 0 /\ f.results[d] > 0
      /\ v.status \in {"KNOWN", "PROVISIONAL", "PROVISIONAL_UNVERIFIED", "DISPUTED",
                       "UNKNOWN", "ASK_USER_FOR_SOURCE"}
  BY <1>2, <1>4, VerdictRests DEF FoldFacts
<1>6. question' = question /\ Kind' = Kind /\ Gathered' = Gathered
  BY <1>3 DEF Conclude, Gathered, gathered, Kind, Said
<1>7. Contract!Justified(v.status, Gathered')
  <2>1. v.status = "KNOWN" => Gathered' \cap {"committed", "converged"} # {}
    <3>1. Has(f.hits, CommittedTrust) =>
            ground # {} \/ \E h \in InSeq(hits) : h.trust \in CommittedTiers
      BY <1>4 DEF FoldFacts, Has, CommittedTrust
    <3>2. AutoCommit /\ (\E c \in Claims : f.results[c] >= MinWebSources) =>
            \/ ground # {}
            \/ AutoCommit /\ \E c \in Claims : web[c] + opinions[c] >= MinWebSources
      BY <1>4 DEF FoldFacts
    <3> QED BY <1>5, <1>6, <3>1, <3>2, Witnesses
  <2>2. v.status = "PROVISIONAL" => Gathered' \cap {"single", "hint"} # {}
    <3>1. v.status = "PROVISIONAL" => hits # <<>> \/ ground # {} \/ Said # {}
      BY <1>4, <1>5 DEF FoldFacts
    <3>2. ground # {} => Said # {}
      BY DEF Said
    <3> QED BY <1>6, <3>1, <3>2, Witnesses
  <2>3. v.status = "PROVISIONAL_UNVERIFIED" => "prior" \in Gathered'
    BY <1>5, <1>6, Witnesses
  <2>4. v.status = "DISPUTED" => "conflict" \in Gathered'
    <3>1. v.status = "DISPUTED" => \E c, d \in Said : c # d
      BY <1>4, <1>5 DEF FoldFacts
    <3> QED BY <1>6, <3>1, Witnesses
  <2> QED BY <1>5, <2>1, <2>2, <2>3, <2>4 DEF Contract!Justified, Contract!Justification
<1>8. NoBleed'
  <2>1. answer'.basis = v.basis /\ answer'.hit = v.hit /\ consulted' = consulted
    BY <1>3 DEF Conclude
  <2>2. SUFFICES ASSUME v.basis = "memory"
                 PROVE  /\ v.hit[1].origin = "vault" => Kind \in {"vault", "system"}
                        /\ SourceClass(v.hit[1]) \in {"SYSTEM_CANONICAL", "VERIFIED_PROJECT_FACT"} =>
                             Kind \in {"system", "vault"} \/ "project" \in consulted
    BY <1>6, <2>1 DEF NoBleed
  <2>3. PICK h : h = v.hit[1]
    OBVIOUS
  <2>4. h \in InSeq(hits) \/ \E p \in ground : h = AsHit(p)
    BY <1>4, <1>5, <2>2, <2>3 DEF FoldFacts
  <2>5. CASE h \in InSeq(hits)
    <3>1. h \in Hit /\ ~Bleeds(h, Kind)
      BY <1>3, <2>5, SeqOfHits DEF IInv, CleanHits
    <3>2. Kind \in {"system", "vault", "personal", "objective"}
      BY <1>3 DEF IInv, Progress, Stages
    <3> QED BY <2>3, <3>1, <3>2, CleanAnswer
  <2>6. CASE \E p \in ground : h = AsHit(p)
    <3>1. PICK p \in ground : h = AsHit(p)
      BY <2>6
    <3>2. TypeOK /\ (p[1] = "VERIFIED_PROJECT_FACT" => "project" \in consulted)
      BY <3>1 DEF IInv, Progress
    <3> QED BY <2>3, <3>1, <3>2, PacketIsHit
  <2> QED BY <2>4, <2>5, <2>6
<1>9. IndependentIsSought'
  <2>1. question.independent => Tiers \subseteq consulted
    BY <1>3 DEF IInv, Progress
  <2>2. question.independent /\ ~Personal => Tiers = {"project", "llm"}
    BY DEF Tiers
  <2>3. consulted' = consulted /\ Personal' = Personal
    BY <1>3, <1>6 DEF Personal, Kind
  <2> QED BY <1>6, <2>1, <2>2, <2>3 DEF IndependentIsSought
<1>10. UNCHANGED <<committed, hypothesis, ran, ground, opinions, web, price>> /\ hits' = hits
  BY <1>3 DEF gathered
<1> QED BY <1>3, <1>5, <1>7, <1>8, <1>9, <1>10, Concluding

-----------------------------------------------------------------------------
\* The delivery.

LEMMA DeliverStep ==
  ASSUME IInv, Deliver
  PROVE  IInv' /\ Contract!Next /\ AuditedOrRefused'
<1>1. /\ stage = "judged" /\ stage' = "delivered"
      /\ delivered' = IF question.route = "chat" THEN Normalized(answer) ELSE answer.status
      /\ UNCHANGED <<question, answer, consulted>>
      /\ UNCHANGED <<hits, committed, hypothesis, ran, ground, opinions, web, price>>
  BY DEF Deliver, gathered
<1>2. Judged /\ Judged' /\ Kind' = Kind /\ Tiers' = Tiers /\ Personal' = Personal
      /\ Gathered' = Gathered
  BY <1>1 DEF Judged, Kind, Tiers, Personal, Gathered, Said
<1>3. answer.status \in Contract!Statuses /\ answer.status # Open /\ delivered = Open
  BY <1>1, <1>2, OpenAssumption DEF IInv, OneVerdict
<1>4. Normalized(answer) \in {answer.status, "REFUSED", "ERROR"}
  BY DEF Normalized, Valid
<1>5. Contract!Deliver
  BY <1>1, <1>2, <1>3, <1>4 DEF Contract!Deliver
<1>6. TypeOK'
  BY <1>1 DEF IInv, TypeOK, Stages
<1>7. OneVerdict' /\ CleanHits' /\ Fresh'
  BY <1>1, <1>2, <1>3 DEF OneVerdict, CleanHits, Fresh
<1>8. Progress'
  BY <1>1, <1>2 DEF IInv, Progress, Stages
<1>9. NoBleed' /\ IndependentIsSought'
  BY <1>1, <1>2 DEF IInv, NoBleed, IndependentIsSought
<1>10. AuditedOrRefused'
  BY <1>1 DEF AuditedOrRefused, Normalized
<1> QED BY <1>5, <1>6, <1>7, <1>8, <1>9, <1>10 DEF IInv, Contract!Next

LEMMA InitHolds == Init => IInv /\ Contract!Init /\ AuditedOrRefused
<1> SUFFICES ASSUME Init PROVE IInv /\ Contract!Init /\ AuditedOrRefused
  OBVIOUS
<1>1. answer = NoAnswer /\ answer.basis = "none" /\ answer.status = Open /\ delivered = Open
  BY DEF Init, NoAnswer
<1>2. TypeOK
  <2>1. /\ <<>> \in Seq(Hit) /\ answer.hit = <<>> /\ answer.audited = FALSE
        /\ [c \in Claims |-> 0] \in [Claims -> Nat]
        /\ [c \in Claims \cup {NoClaim} |-> 0] \in [Claims \cup {NoClaim} -> Nat]
    BY <1>1 DEF NoAnswer
  <2> QED BY <1>1, <2>1 DEF Init, TypeOK, Stages, Bases
<1>3. ~Judged /\ OneVerdict /\ CleanHits /\ Progress /\ Fresh
  <2>1. stage = "ask" /\ ~Judged /\ hits = <<>> /\ ~committed /\ ~price
    BY DEF Init, Judged
  <2>2. InSeq(hits) = {} /\ committed = Has(hits, CommittedTiers)
    <3>1. InSeq(hits) = {}
      BY <2>1 DEF InSeq
    <3>2. Has(hits, CommittedTiers) = FALSE
      BY <3>1 DEF Has
    <3> QED BY <3>1, <3>2 DEF Init
  <2> QED BY <1>1, <2>1, <2>2 DEF Init, OneVerdict, CleanHits, Progress, Fresh
<1>4. NoBleed /\ IndependentIsSought
  BY <1>1 DEF NoBleed, IndependentIsSought
<1>5. Contract!Init
  BY <1>1, EvidenceIsEvidence DEF Contract!Init
<1>6. AuditedOrRefused
  BY <1>1, OpenAssumption DEF AuditedOrRefused, Contract!Statuses
<1> QED BY <1>2, <1>3, <1>4, <1>5, <1>6 DEF IInv

\* Each step keeps the invariant and is one of the contract.
LEMMA StepHolds ==
  ASSUME IInv, Next
  PROVE  IInv' /\ Contract!Next
BY BackendStep, PlainStep, PoolStep, FastStep, IdleGo, RetrieveStep, ClaudeStep, BeforeStep,
   WebStep, AfterStep, SynthesizeStep, DeliverStep DEF Next

LEMMA Stuttering ==
  ASSUME IInv, UNCHANGED vars
  PROVE  IInv' /\ UNCHANGED <<Gathered, answer.status, delivered>>
BY DEF IInv, vars, gathered, TypeOK, OneVerdict, CleanHits, Progress, Fresh, NoBleed,
       IndependentIsSought, Judged, Kind, Tiers, Personal, Gathered, Said

-----------------------------------------------------------------------------
\* The theorems.

\* The inductive invariant holds throughout.
THEOREM Invariance == Spec => []IInv
<1>1. IInv /\ [Next]_vars => IInv'
  BY StepHolds, Stuttering
<1> QED BY InitHolds, <1>1, PTL DEF Spec

\* Every variable keeps its type (epistemic_search.py:98-632).
THEOREM TypeCorrect == Spec => []TypeOK
<1>1. IInv => TypeOK
  BY DEF IInv
<1> QED BY Invariance, <1>1, PTL

\* No answer rests on a note or a system fact its kind of question may not use
\* (epistemic_search.py:270-323), unless project files were asked for and read.
THEOREM Unbled == Spec => []NoBleed
<1>1. IInv => NoBleed
  BY DEF IInv
<1> QED BY Invariance, <1>1, PTL

\* A search for an independent source asks the project's files and the other
\* models before the memory makes it KNOWN (epistemic_search.py:356, 403, 445).
THEOREM IndependenceKept == Spec => []IndependentIsSought
<1>1. IInv => IndependentIsSought
  BY DEF IInv
<1> QED BY Invariance, <1>1, PTL

\* No chat is given a KNOWN answer without its audit when the audit is required
\* (normalizer.py:36-57), whichever backend made it.
THEOREM AuditKept == Spec => []AuditedOrRefused
<1>1. IInv /\ AuditedOrRefused /\ [Next]_vars => AuditedOrRefused'
  <2> SUFFICES ASSUME IInv, AuditedOrRefused, [Next]_vars PROVE AuditedOrRefused'
    OBVIOUS
  <2>1. CASE Deliver
    BY <2>1, DeliverStep
  <2>2. CASE UNCHANGED vars
    BY <2>2 DEF vars, AuditedOrRefused
  <2>3. CASE Next /\ ~Deliver
    <3>1. ~Judged /\ UNCHANGED <<question, delivered>>
      BY <2>3 DEF Next, Local, Http, Down, StylePreference, Learned, Search, Secret, SelfState,
         Operational, Retrieve, UnsafeNote, SystemFast, SystemSlow, Buffered, FastPath,
         NeedsMoreTime, Claude, Enough, AcquireBefore, Web, NoWeb, AcquireAfter, NotRan,
         BudgetRequired, Synthesize, Ask, Go, Judge, Conclude, Judged
    <3>2. delivered = Open
      BY <3>1 DEF IInv, OneVerdict, Judged
    <3> QED BY <3>1, <3>2, OpenAssumption DEF AuditedOrRefused, Contract!Statuses
  <2> QED BY <2>1, <2>2, <2>3
<1>2. Init => AuditedOrRefused
  BY InitHolds
<1> QED BY <1>1, <1>2, Invariance, PTL DEF Spec

\* The search implements the contract: every stage gathers, judges once with a
\* verdict the evidence justifies, or delivers it or an empty refusal
\* (epistemic_search.py, perspective_synthesis.py, acquisition/, normalizer.py).
THEOREM Implements == Spec => Promise
<1>1. IInv /\ [Next]_vars => [Contract!Next]_<<Gathered, answer.status, delivered>>
  BY StepHolds, Stuttering
<1>2. Init => Contract!Init
  BY InitHolds
<1> QED BY <1>1, <1>2, Invariance, PTL DEF Spec, Promise, Contract!Spec
=============================================================================
