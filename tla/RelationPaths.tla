--------------------------- MODULE RelationPaths ---------------------------
(***************************************************************************)
(* Questions about the relation field: the bounded, directed search for a  *)
(* path between two entities (relation_field.py, multi_hop_path), the      *)
(* weight, decay and score that rank what it finds (relation_path_score),  *)
(* and the answers worded from the best path and from lists of relations   *)
(* (relation_reports.py).  A question reads one loaded copy of the field   *)
(* and changes nothing, so the records are fixed for the length of it; how *)
(* they came about is the subject of RelationField.                        *)
(*                                                                         *)
(* Weights are in ten-thousandths, confidences and penalties in            *)
(* hundredths; a product is rounded down at every factor.                  *)
(***************************************************************************)
EXTENDS Integers, FiniteSets, SequencesExt

CONSTANTS Entities,
          Ledger,         \* the relations in the order of their first record
          SubjectOf, ObjectOf, TypeOf,
          Records,        \* what the field may hold of a relation
          Limit,          \* the most paths a search returns
          ShowLimit,      \* the most relations an answer lists
          MaxDepth,       \* bound: the depths asked for (the code clamps them to 4)
          None            \* no target: every path from the start counts

Edges == Range(Ledger)
PathRoutes == {"explain", "explain_v2", "path_score", "render"}
ListRoutes == {"decayed", "stable", "weak", "contradictions", "central", "disputed_areas",
               "candidates", "conflicts", "dependencies", "themes", "changes", "sources",
               "neighborhood", "none", "context"}

VARIABLES record,    \* what the field holds of each relation
          query,     \* the route, the two entities, the depth, inverse hops or not
          stack,     \* the search's stack: where, the hops so far, the entities seen
          paths,     \* the paths found, in order
          phase, reply

vars == <<record, query, stack, paths, phase, reply>>
---------------------------------------------------------------------------
(* One relation: its weight and its decay. *)

Least(a, b) == IF a < b THEN a ELSE b
Clip(w, top) == IF w < 0 THEN 0 ELSE Least(w, top)

Directionality(type) ==
  CASE type = "contradicts" -> "bidirectional"
    [] type \in {"broader_than", "narrower_than"} -> "inverse_renderable"
    [] OTHER -> "forward"

Objective == {"has_component", "depends_on", "role_of", "caused_by", "derived_from",
              "broader_than", "narrower_than", "refines", "belongs_to_project"}
UserClasses == {"USER_PREFERENCE", "USER_MEMORY_GROUNDED", "EXTRACTED_USER_CLAIM"}
VerifiedClasses == {"SYSTEM_CANONICAL", "VERIFIED_PROJECT_FACT", "DOMAIN_VERIFIED"}

Rank(class) ==
  CASE class = "SYSTEM_CANONICAL" -> 6
    [] class = "VERIFIED_PROJECT_FACT" -> 5
    [] class = "DOMAIN_VERIFIED" -> 4
    [] class \in {"USER_PREFERENCE", "USER_MEMORY_GROUNDED"} -> 3
    [] class = "EXTRACTED_USER_CLAIM" -> 2
    [] class = "DISPUTED_OR_UNSAFE" -> 0
    [] OTHER -> 1

StatusWeight(status) ==
  CASE status = "committed" -> 4000
    [] status = "reinforced" -> 2500
    [] status = "candidate" -> 500
    [] status = "disputed" -> -3000
    [] status = "archived" -> -2000

Canonical(r) == r.canonical \/ "SYSTEM_CANONICAL" \in r.classes
VaultOnly(r) == r.classes # {} /\ r.classes \subseteq UserClasses

(* relation_weight_score *)
Weight(e) ==
  LET r == record[e]
      best == IF r.classes = {} THEN 1
              ELSE CHOOSE k \in 0..6 : /\ \E c \in r.classes : Rank(c) = k
                                       /\ \A c \in r.classes : Rank(c) <= k
      points == 3000 + StatusWeight(r.status) + 500 * best + 500 * Least(r.ids, 4)
                + 15 * r.confidence
                + (IF Canonical(r) THEN 1500 ELSE 0)
                + (IF r.ids >= 2 THEN 500 ELSE 0)
                + (IF r.age < 7 THEN 800 ELSE IF r.age < 30 THEN 0 ELSE -1000)
                - (IF TypeOf[e] \in Objective /\ VaultOnly(r) THEN 2000 ELSE 0)
                - (IF r.confidence < 50 THEN 500 ELSE 0)
  IN Clip(points, 10000)

(* relation_decay: age in half-lives of 30 days, in thousandths; the factor   *)
(* 0.5 ^ halvings is 0.8 at 321 and 0.4 at 1321.                              *)
Halvings(r) ==
  LET pace == CASE Canonical(r) -> 0
                [] ~Canonical(r) /\ r.status = "disputed" -> 1500
                [] ~Canonical(r) /\ r.status = "committed" -> 350
                [] OTHER -> 1000
      sure == IF "VERIFIED_PROJECT_FACT" \in r.classes THEN 4
              ELSE IF "DOMAIN_VERIFIED" \in r.classes THEN 7 ELSE 10
      many == IF r.ids >= 2 THEN 7 ELSE 10
  IN (r.age * pace * sure * many) \div 3000
Fade(e) == LET h == Halvings(record[e])
           IN IF h <= 321 THEN "fresh" ELSE IF h <= 1321 THEN "decaying" ELSE "stale"

(* The factor is taken once per kind of fade; the floor is min_weight. *)
Decayed(e) ==
  LET factor == [fresh |-> 100, decaying |-> 60, stale |-> 20][Fade(e)]
      w == (Weight(e) * factor) \div 100
  IN IF w < 1500 THEN 1500 ELSE w
---------------------------------------------------------------------------
(* The search. *)

Hop(e, dir) == [edge |-> e, dir |-> dir]
End(hop) == IF hop.dir = "forward" THEN ObjectOf[hop.edge] ELSE SubjectOf[hop.edge]

\* Mutant: every relation is followed both ways.
MutStepsOf(e, x) ==
  {h \in {Hop(e, "forward")} : SubjectOf[e] = x} \cup
  {h \in {Hop(e, "backward")} : ObjectOf[e] = x}
(* steps: the hops along e that leave x. *)
StepsOf(e, x) ==
  {h \in {Hop(e, "forward")} : SubjectOf[e] = x} \cup
  {h \in {Hop(e, "backward")} :
     ObjectOf[e] = x /\ Directionality(TypeOf[e]) = "bidirectional"} \cup
  {h \in {Hop(e, "inverse")} :
     ObjectOf[e] = x /\ Directionality(TypeOf[e]) = "inverse_renderable" /\ query.inverse}
Steps(x) == UNION {StepsOf(e, x) : e \in Edges}

(* The ledger is read from its start.  The two ends of a relation that leads  *)
(* to a new entity differ, so only one of its hops leaves an entity.          *)
LedgerOrder(hops) ==
  \A i, j \in 1..Len(hops) :
    i < j => \E m, n \in 1..Len(Ledger) :
               m < n /\ Ledger[m] = hops[i].edge /\ Ledger[n] = hops[j].edge

Most == IF query.route = "path_score" THEN 1 ELSE Limit

(* A question of a list searches for nothing. *)
Init ==
  /\ record \in [Edges -> Records]
  /\ query \in [route : PathRoutes \cup ListRoutes, from : Entities,
                to : Entities \cup {None}, depth : 1..MaxDepth, inverse : BOOLEAN]
  /\ query.route \in ListRoutes => query.to = None /\ query.depth = 1 /\ ~query.inverse
  /\ query.route = "render" => query.depth = MaxDepth
  /\ query.route = "path_score" => ~query.inverse
  /\ stack = <<[at |-> query.from, hops |-> <<>>, seen |-> {query.from}]>>
  /\ paths = <<>>
  /\ phase = IF query.route \in PathRoutes THEN "search" ELSE "found"
  /\ reply = [status |-> "none", best |-> <<>>, shown |-> {}]

Extended(entry, h) ==
  [at |-> End(h), hops |-> Append(entry.hops, h), seen |-> entry.seen \cup {End(h)}]

(* One turn of the loop: the last pushed prefix, which may be a path, and its *)
(* extensions.                                                                *)
Visit ==
  /\ phase = "search"
  /\ stack # <<>>
  /\ Len(paths) < Most
  /\ LET top == Last(stack)
         isPath == top.hops # <<>> /\ query.to \in {None, top.at}
         stop == (isPath /\ query.to # None) \/ Len(top.hops) >= query.depth
         onward == IF stop THEN {} ELSE {h \in Steps(top.at) : End(h) \notin top.seen}
     IN /\ paths' = IF isPath THEN Append(paths, top.hops) ELSE paths
        /\ \E new \in SeqOf(onward, Len(Ledger)) :
             /\ Range(new) = onward
             /\ LedgerOrder(new)
             /\ stack' = Front(stack) \o [i \in 1..Len(new) |-> Extended(top, new[i])]
  /\ UNCHANGED <<record, query, phase, reply>>

EndSearch ==
  /\ phase = "search"
  /\ stack = <<>> \/ Len(paths) >= Most
  /\ phase' = "found"
  /\ stack' = <<>>
  /\ UNCHANGED <<record, query, paths, reply>>
---------------------------------------------------------------------------
(* One path: its status and its score. *)

Recs(p) == {record[p[i].edge] : i \in 1..Len(p)}
CanonicalPath(p) == \A r \in Recs(p) : Canonical(r)
Reversed(p) == \E i \in 1..Len(p) : p[i].dir = "inverse"

\* Mutant: a canonical relation counts as committed although it is disputed.
MutPathStatus(p) ==
  IF \A r \in Recs(p) : r.status = "committed" \/ Canonical(r) THEN "committed"
  ELSE IF \E r \in Recs(p) : r.status = "disputed" \/ r.contradicted THEN "disputed"
  ELSE "provisional"
(* _path_obj *)
PathStatus(p) ==
  IF \E r \in Recs(p) : r.status = "disputed" \/ r.contradicted THEN "disputed"
  ELSE IF \A r \in Recs(p) : r.status = "committed" THEN "committed" ELSE "provisional"

(* path_score: the same chain judged again, from the statuses of its hops. *)
ScoreStatus(p) ==
  IF \E r \in Recs(p) : r.status = "disputed" THEN "disputed"
  ELSE IF \A r \in Recs(p) : r.status \in {"committed", "reinforced"} THEN "committed"
  ELSE "provisional"

Times(w, penalty) == (w * (100 - penalty)) \div 100

Penalties(p) ==
  LET all(statuses) == \A r \in Recs(p) : r.status \in statuses
      hops(Test(_)) == Cardinality({i \in 1..Len(p) : Test(p[i])})
      decaying == hops(LAMBDA h : Fade(h.edge) = "decaying")
      stale == hops(LAMBDA h : Fade(h.edge) = "stale")
      unverified == hops(LAMBDA h : record[h.edge].classes \cap VerifiedClasses = {})
      inverse == hops(LAMBDA h : h.dir = "inverse")
  IN <<IF ScoreStatus(p) = "disputed" THEN 60
       ELSE IF \E r \in Recs(p) : r.status = "candidate" THEN 25
       ELSE IF all({"committed", "reinforced"}) THEN 0 ELSE 12,
       Least(60, 8 * decaying + 18 * stale),
       Least(50, 12 * inverse + 6 * unverified),
       Least(40, 6 * (Len(p) - 1))>>

PathWeight(p) ==
  LET average == FoldSeq(LAMBDA h, sum : sum + Decayed(h.edge), 0, p) \div Len(p)
  IN FoldSeq(LAMBDA penalty, w : Times(w, penalty), average, Penalties(p))


(* The sort: canonical first, then undisputed, then heavy, then short. *)
Key(p) == <<IF CanonicalPath(p) THEN 0 ELSE 1, IF PathStatus(p) # "disputed" THEN 0 ELSE 1,
            -PathWeight(p), Len(p)>>
Before(p, q) ==
  \E i \in 1..4 : Key(p)[i] < Key(q)[i] /\ \A j \in 1..(i - 1) : Key(p)[j] = Key(q)[j]
Best == paths[CHOOSE i \in 1..Len(paths) :
                \A j \in 1..Len(paths) : ~Before(paths[j], paths[i])
                                         /\ (j < i => Before(paths[i], paths[j]))]
---------------------------------------------------------------------------
(* The answers about a path. *)

(* render_path_explanation *)
Explain(p) ==
  CASE \E r \in Recs(p) : r.status = "disputed" -> "DISPUTED"
    [] \A r \in Recs(p) : r.status # "disputed" ->
         IF \/ \E r \in Recs(p) : r.ids = 0 \/ r.status = "candidate"
            \/ Reversed(p)
         THEN "PROVISIONAL"
         ELSE IF CanonicalPath(p) \/ \A r \in Recs(p) : r.status = "committed"
         THEN "KNOWN" ELSE "PROVISIONAL"

(* render_path_explanation_v2: by the status of the path alone. *)
ExplainV2(p) ==
  [disputed |-> "DISPUTED", committed |-> "KNOWN", provisional |-> "PROVISIONAL"][PathStatus(p)]

(* render_answer, the question of a path. *)
RenderPath(p) == IF PathStatus(p) = "disputed" THEN "DISPUTED" ELSE "KNOWN"

(* The path-score route: the score of the one path it asked for. *)
Score(p) == [disputed |-> "DISPUTED", committed |-> "KNOWN",
             provisional |-> "PROVISIONAL"][ScoreStatus(p)]

Judged(route, p) ==
  CASE route = "explain" -> Explain(p)
    [] route = "explain_v2" -> ExplainV2(p)
    [] route = "path_score" -> Score(p)
    [] route = "render" -> RenderPath(p)

AnswerPath ==
  /\ phase = "found"
  /\ query.route \in PathRoutes
  /\ phase' = "answered"
  /\ reply' = IF paths # <<>>
              THEN [status |-> Judged(query.route, Best), best |-> Best, shown |-> {}]
              ELSE [status |-> IF query.route = "render" THEN "KNOWN" ELSE "UNKNOWN",
                    best |-> <<>>, shown |-> {}]
  /\ UNCHANGED <<record, query, stack, paths>>
---------------------------------------------------------------------------
(* The answers that list relations. *)

At(x) == {e \in Edges : x \in {SubjectOf[e], ObjectOf[e]}}
Contested(e) == record[e].status = "disputed" \/ record[e].contradicted
Weak(e) == record[e].status \in {"candidate", "disputed"} \/ Fade(e) = "stale"
WeakCentral == {x \in Entities : Cardinality(At(x)) >= 2 /\ \E e \in At(x) : Weak(e)}

(* context_allowed, for the committed and reinforced relations of an entity. *)
Context(x) ==
  {e \in At(x) : /\ record[e].status \in {"committed", "reinforced"}
                 /\ ~(TypeOf[e] \in Objective /\ VaultOnly(record[e]))
                 /\ "DISPUTED_OR_UNSAFE" \notin record[e].classes}

(* The relations a question is about, before the answer is cut to ShowLimit. *)
About(route, x) ==
  CASE route = "decayed" -> {e \in Edges : Fade(e) # "fresh"}
    [] route = "stable" -> {e \in Edges : Fade(e) = "fresh"
                                          /\ record[e].status \in {"committed", "reinforced"}}
    [] route = "weak" -> {e \in Edges : \E w \in WeakCentral : e \in At(w) /\ Weak(e)}
    [] route \in {"contradictions", "disputed_areas"} -> {e \in Edges : Contested(e)}
    [] route = "conflicts" -> {e \in At(x) : Contested(e)}
    [] route = "candidates" -> {e \in Edges : record[e].status \in {"candidate", "reinforced"}}
    [] route = "dependencies" ->
         {e \in At(x) : TypeOf[e] \in {"depends_on", "has_component", "belongs_to_project"}}
    [] route \in {"central", "themes", "changes", "sources"} -> Edges
    [] route = "neighborhood" -> At(x)
    [] route = "context" -> Context(x)
    [] route = "none" -> {}

(* The heaviest by decayed weight come first. *)
Shown(es) ==
  {e \in es : Cardinality({f \in es : Decayed(f) > Decayed(e)}) < ShowLimit}

OnlyCandidates(es) ==
  /\ \A e \in es : record[e].status = "candidate"
  /\ \A e \in es : record[e].classes \cap {"SYSTEM_CANONICAL", "VERIFIED_PROJECT_FACT"} = {}

(* render_answer, all other questions. *)
AnswerList ==
  /\ phase = "found"
  /\ query.route \in ListRoutes
  /\ phase' = "answered"
  /\ LET es == About(query.route, query.from)
         weak == query.route = "none" \/ (query.route = "neighborhood" /\ OnlyCandidates(es))
     IN reply' = [status |-> IF weak THEN "ASK_USER_FOR_SOURCE" ELSE "KNOWN",
                  best |-> <<>>, shown |-> Shown(es)]
  /\ UNCHANGED <<record, query, stack, paths>>

Next == Visit \/ EndSearch \/ AnswerPath \/ AnswerList

Spec == Init /\ [][Next]_vars
---------------------------------------------------------------------------
(* What is a path: the reference definition. *)
Leaves(hop, x) ==
  \/ hop.dir = "forward" /\ SubjectOf[hop.edge] = x
  \/ hop.dir = "backward" /\ ObjectOf[hop.edge] = x /\ TypeOf[hop.edge] = "contradicts"
  \/ /\ hop.dir = "inverse" /\ query.inverse /\ ObjectOf[hop.edge] = x
     /\ TypeOf[hop.edge] \in {"broader_than", "narrower_than"}
Place(p, i) == IF i = 0 THEN query.from ELSE End(p[i])
IsPath(p) ==
  /\ \A i \in 1..Len(p) : Leaves(p[i], Place(p, i - 1))
  /\ \A i, j \in 0..Len(p) : i # j => Place(p, i) # Place(p, j)
  /\ query.to # None => Place(p, Len(p)) = query.to
Chains == UNION {[1..n -> [edge : Edges, dir : {"forward", "backward", "inverse"}]] :
                   n \in 1..query.depth}

(* PathsAreExact: a search that was not cut off finds every simple path in    *)
(* the stored directions (and inverse ones when asked), each once, no longer  *)
(* than asked, and none besides (multi_hop_path).                             *)
PathsAreExact ==
  phase = "found" /\ query.route \in PathRoutes /\ Len(paths) < Most =>
    /\ Range(paths) = {p \in Chains : IsPath(p)}
    /\ \A i, j \in 1..Len(paths) : i # j => paths[i] # paths[j]

(* VerdictLadder: a path is judged in four places that do not mean the same   *)
(* by KNOWN.  They differ by one thing a rung, whatever else the records say   *)
(* of contradictions and canonical origin: the explanation asks for committed, *)
(* sourced hops as they are stored; the second explanation also takes hops     *)
(* without a source or rendered in reverse, which its own text says cannot be  *)
(* asserted as known (relation_reports.py:257-258); the path score also takes  *)
(* reinforced hops; the rendered answer takes any path without a dispute.      *)
(* What is disputed is disputed for all four.                                  *)
VerdictLadder ==
  phase \in {"found", "answered"} =>
    \A i \in 1..Len(paths) :
      LET p == paths[i]
          Only(statuses) == \A r \in Recs(p) : r.status \in statuses
          disputed == \E r \in Recs(p) : r.status = "disputed"
      IN /\ Explain(p) = "KNOWN" <=>
              Only({"committed"}) /\ (\A r \in Recs(p) : r.ids > 0) /\ ~Reversed(p)
         /\ ExplainV2(p) = "KNOWN" <=> Only({"committed"})
         /\ Score(p) = "KNOWN" <=> Only({"committed", "reinforced"})
         /\ RenderPath(p) = "KNOWN" <=> ~disputed
         /\ \A verdict \in {Explain(p), ExplainV2(p), Score(p), RenderPath(p)} :
              verdict = "DISPUTED" <=> disputed
=============================================================================
