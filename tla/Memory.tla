------------------------------- MODULE Memory --------------------------------
(***************************************************************************)
(* What keeps facts beside the vault manifest: the tombstones of the       *)
(* memory service, the memory of the cortex, the courses it is audited     *)
(* with, and the books of the episodes it is trained on.  Each has its own *)
(* state; what it promises is said here in the words of its own module.    *)
(***************************************************************************)
EXTENDS Naturals

CONSTANTS
  None,           \* no value
  \* of the tombstones
  StoredFacts, ContentOf, SidOf, TrustOf, AllowVerified, Threads, MaxLog, MaxPasses,
  \* of the memory of the cortex
  NKeys, NValues, Sources, M, MaxEvents, MaxNights,
  \* of its courses
  CourseKeys, CourseValues, CourseSources, Domains, Cycles,
  \* of an episode, with the keys and values of its world
  T, WorldKeys, WorldValues, Unknown

VARIABLES
  log, records, sets, mtime, tombPc, lines, due, shown, excused, own, masked, plan, store,
  kept, passes,
  cortex, saved, disk, said, belief, before, onDisk, events, nights,
  learner, domain, taught, stage, cell,
  script, step, flipped, world, core, row

tombVars == <<log, records, sets, mtime, tombPc, lines, due, shown, excused, own, masked,
              plan, store, kept, passes>>
cortexVars == <<cortex, saved, disk, said, belief, before, onDisk, events, nights>>
courseVars == <<learner, domain, taught, stage, cell>>
episodeVars == <<script, step, flipped, world, core, row>>

Tomb == INSTANCE Tombstones WITH Facts <- StoredFacts, pc <- tombPc, text <- lines
Cortex == INSTANCE CortexMemory WITH Nothing <- None, mem <- cortex
Course == INSTANCE CortexCourses WITH NKeys <- CourseKeys, NValues <- CourseValues,
                                      Sources <- CourseSources, Unknown <- None, mem <- learner
Episode == INSTANCE CortexEpisode WITH NKeys <- WorldKeys, NValues <- WorldValues, t <- step

ASSUME TombNumbers == MaxLog \in Nat
ASSUME CortexNumbers ==
  /\ NKeys \in Nat \ {0} /\ NValues \in Nat \ {0} /\ M \in Nat \ {0}
  /\ MaxEvents \in Nat /\ MaxNights \in Nat
ASSUME NoneAssumption ==
  /\ None \notin Tomb!Record /\ None \notin Cortex!Values /\ None \notin Cortex!Memory
  /\ None \notin Course!Values

\* The courses' arithmetic is that of six values (V92Config), and a contrary lesson
\* says its value twice, which is what a sleep asks for (V99_COMMIT_RETROGRADE_M).
ASSUME CourseNumbers ==
  /\ CourseKeys \in Nat /\ CourseKeys >= 2 /\ CourseValues = 6
  /\ M <= 2 /\ Cycles \in Nat \ {0} /\ Domains \subseteq Nat

\* An episode is long enough for its relation to be drawn before the rules flip.
ASSUME EpisodeNumbers == T \in Nat /\ T >= 12 /\ WorldKeys \in Nat /\ WorldValues \in Nat

-----------------------------------------------------------------------------
\* No hidden fact is answered without an excuse (Tombstones).
LeakIsExcused == Tomb!LeakIsExcused

\* The copy the compaction kept stays visible (Tombstones): false, see the README.
NewestIsKept == Tomb!NewestIsKept

\* The memory holds what the log of statements makes of it (CortexMemory).
MemoryFollowsTheLog == Cortex!MemoryFollowsTheLog

\* An answer is a value somebody reliable gave (CortexMemory).
AnswersAreGrounded == Cortex!AnswersAreGrounded

\* The audits judge the memory by its merit (CortexCourses).
AuditsPass == Course!AuditsPass

\* What the world teaches the cortex can answer (CortexEpisode).
LabelsAgree == Episode!LabelsAgree
=============================================================================
