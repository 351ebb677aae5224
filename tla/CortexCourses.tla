---------------------------- MODULE CortexCourses ----------------------------
(***************************************************************************)
(* The courses the cortex is audited with (dcortex/v99_source.py,          *)
(* v10_developmental_loop.py, v10_milestone.py): a fresh memory learns a   *)
(* domain lesson by lesson, sleeps, is reloaded, is probed whole and with  *)
(* parts taken away, is contradicted, sleeps on it, and is cleared.        *)
(***************************************************************************)
EXTENDS CortexLedger

CONSTANTS
  Domains,    \* domain ids of the audits
  Cycles      \* domain_learning_experience_cycles

VARIABLES
  mem,        \* the memory of the learner
  domain,     \* the domain it is taught
  taught,     \* the keys it is taught
  stage,
  cell        \* lessons given in this stage

vars == <<mem, domain, taught, stage, cell>>

Stages == {"learning", "learnt", "consolidated", "contradicting", "contradicted",
           "relearnt", "cleared"}

-----------------------------------------------------------------------------
\* build_continual_domain_spec.

ValuesOf(d) == [k \in Keys |-> (k * 3 + d + 1) % NValues]
Previous(d) == [k \in Keys |-> (ValuesOf(d)[k] + 2) % NValues]
RelationsOf(d) ==
  [k \in Keys |-> LET r == (k + 2 + d) % NKeys IN IF r = k THEN NextKey(k) ELSE r]

\* The contradicting course: other values for the same keys, by other sources.
Contrary(d) == [k \in Keys |-> (ValuesOf(d)[k] + 1) % NValues]

-----------------------------------------------------------------------------
\* The lessons.  Every statement carries the trusted hint; the conflict, the
\* delay and the queries of a lesson do not touch the memory.

Statement(kind, k, v, s) ==
  [kind |-> kind, key |-> k, value |-> v, source |-> s, hinted |-> TRUE]

\* build_domain_experience_batch, one row, and what the memory makes of it.
Lesson(m, d, values, k, s) ==
  LET told == Heard(m, Statement("observe", k, Previous(d)[k], s))
      related == Heard(told, [kind |-> "relate", key |-> k, rel |-> RelationsOf(d)[k],
                              source |-> s, hinted |-> TRUE])
      corrected == Heard(related, Statement("correct", k, values[k], s))
  IN Heard(corrected, Statement("source_flip", k, values[k], s))

\* _teach_keys, one row.
ShortLesson(m, d, k, s) ==
  LET told == Heard(m, Statement("observe", k, ValuesOf(d)[k], s))
  IN Heard(told, Statement("correct", k, ValuesOf(d)[k], s))

-----------------------------------------------------------------------------
Init ==
  /\ mem = Blank
  /\ domain \in Domains
  /\ taught \in {Keys, {k \in Keys : k % 2 = 0}}
  /\ stage = "learning" /\ cell = 0

Lessons == Cycles * NKeys
KeyOf(c) == c % NKeys

\* A whole course is given row by row; a half one touches every other key.
Teach ==
  /\ stage = "learning" /\ cell < Lessons
  /\ \E s \in Sources :
       mem' = IF taught = Keys
              THEN Lesson(mem, domain, ValuesOf(domain), KeyOf(cell), s)
              ELSE IF KeyOf(cell) \in taught
              THEN ShortLesson(mem, domain, KeyOf(cell), s) ELSE mem
  /\ cell' = cell + 1
  /\ UNCHANGED <<domain, taught, stage>>

Ends(from, to) ==
  /\ stage = from /\ cell = Lessons
  /\ stage' = to /\ cell' = 0
  /\ UNCHANGED <<domain, taught>>

FinishCourse == Ends("learning", "learnt") /\ UNCHANGED mem

\* The sleep, then the reload of all registered buffers into a fresh model.
SleepOnIt ==
  /\ stage = "learnt" /\ stage' = "consolidated"
  /\ mem' = Slept(mem)
  /\ UNCHANGED <<domain, taught, cell>>

Contradict ==
  /\ stage = "consolidated" /\ taught = Keys
  /\ stage' = "contradicting"
  /\ UNCHANGED <<mem, domain, taught, cell>>

TeachContrary ==
  /\ stage = "contradicting" /\ cell < Lessons
  /\ \E s \in Sources :
       mem' = Lesson(mem, domain, Contrary(domain), KeyOf(cell), s)
  /\ cell' = cell + 1
  /\ UNCHANGED <<domain, taught, stage>>

FinishContrary == Ends("contradicting", "contradicted") /\ UNCHANGED mem

SleepAgain ==
  /\ stage = "contradicted" /\ stage' = "relearnt"
  /\ mem' = Slept(mem)
  /\ UNCHANGED <<domain, taught, cell>>

\* clear_persistent_cortex_memory.
Forget ==
  /\ stage \in {"consolidated", "relearnt"} /\ stage' = "cleared"
  /\ mem' = Blank
  /\ UNCHANGED <<domain, taught, cell>>

Next ==
  \/ Teach \/ FinishCourse \/ SleepOnIt
  \/ Contradict \/ TeachContrary \/ FinishContrary \/ SleepAgain
  \/ Forget

Spec == Init /\ [][Next]_vars

-----------------------------------------------------------------------------
\* continual_domain_probe: how many keys get the answer the course expects.

Correct(m, values) == Cardinality({k \in Keys : Answer(m, k, k) = values[k]})
Scrambled(m, values) ==
  Cardinality({k \in Keys : Answer(m, NextKey(k), NextKey(k)) = values[k]})
Related(m, values, relations) ==
  Cardinality({k \in Keys : Answer(m, k, NextKey(k)) = values[relations[k]]})

AtLeast(n, percent) == n * 100 >= percent * NKeys

-----------------------------------------------------------------------------
TypeOK ==
  /\ mem \in Memory
  /\ domain \in Domains /\ taught \subseteq Keys
  /\ stage \in Stages /\ cell \in 0..Lessons

\* Whatever the domain, the audits judge the memory by its merit.  A course that
\* was taught is recalled, also through relations, after sleep and reload; not
\* from a scrambled key, nor without the memory, nor once it is cleared; what was
\* not taught is UNKNOWN; a contrary course, however often repeated, is resisted
\* until a sleep and taken over by it.
AuditsPass ==
  LET values == ValuesOf(domain)
  IN /\ stage \in {"learnt", "consolidated", "contradicted"} /\ taught = Keys =>
          /\ AtLeast(Correct(mem, values), 85)
          /\ AtLeast(Related(mem, values, RelationsOf(domain)), 85)
     /\ stage = "consolidated" /\ taught = Keys =>
          AtLeast(Correct(mem, values) - Scrambled(mem, values), 30)
     /\ stage \in {"learnt", "consolidated"} =>
          \A k \in Keys : Answer(mem, k, k) = IF k \in taught THEN values[k] ELSE Unknown
     /\ stage = "relearnt" => AtLeast(Correct(mem, Contrary(domain)), 85)
     /\ stage = "cleared" => Correct(mem, values) = 0
=============================================================================
