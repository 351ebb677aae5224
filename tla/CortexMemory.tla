---------------------------- MODULE CortexMemory -----------------------------
(***************************************************************************)
(* The life of the cortex's addressable memory (dcortex/v99_source.py):    *)
(* events, sleeps, checkpoints and restarts, clears, and probes that take  *)
(* the memory away and put it back.                                        *)
(*                                                                         *)
(* The histories say in terms of the reliable statements alone what must   *)
(* be remembered: the rule the docstrings of the sleep give ("transient    *)
(* contradiction is resisted, a genuinely repeated correction updates").   *)
(***************************************************************************)
EXTENDS CortexLedger, SequencesExt

CONSTANTS
  Nothing,      \* no value, no saved memory
  MaxEvents,    \* bound: events
  MaxNights     \* bound: sleeps, clears, checkpoints, restarts

VARIABLES
  mem,      \* the persistent_* buffers of the model
  saved,    \* what a probe with the memory disabled has put aside
  disk,     \* the checkpoint
  said,     \* history: reliable statements on each key since it was consolidated
  belief,   \* history: what each key held then
  before,   \* history: what it held before its last change
  onDisk,   \* history: the three above, at the checkpoint
  events, nights

history == <<said, belief, before>>
vars == <<mem, saved, disk, said, belief, before, onDisk, events, nights>>

Nobody == [k \in Keys |-> Nothing]
Silence == [k \in Keys |-> <<>>]
Fresh == [said |-> Silence, belief |-> Nobody, before |-> Nobody]

Init ==
  /\ mem = Blank /\ saved = Nothing /\ disk = Blank
  /\ said = Silence /\ belief = Nobody /\ before = Nobody
  /\ onDisk = Fresh
  /\ events = 0 /\ nights = 0

-----------------------------------------------------------------------------
\* The rule of the histories.

\* How often the last statement was made in a row.
Insisted(log) ==
  Cardinality({i \in DOMAIN log : \A j \in i..Len(log) : log[j] = Last(log)})

\* By day a consolidated value stands and any other follows the last word.
ByDay(b, log) == IF b # Nothing \/ log = <<>> THEN b ELSE Last(log)

\* By night a value that was insisted on replaces it.
ByNight(b, log) ==
  IF b # Nothing /\ log # <<>> /\ Last(log) # b /\ Insisted(log) >= M
  THEN Last(log) ELSE ByDay(b, log)

\* The value a key now holds, and the one it held before.
Holds(k) == ByDay(belief[k], said[k])
Replaced(old, new, prior) == IF old # Nothing /\ old # new THEN old ELSE prior

-----------------------------------------------------------------------------
Awake == saved = Nothing

Hear(e) ==
  /\ Awake /\ events < MaxEvents
  /\ mem' = Heard(mem, e)
  /\ said' = IF States(mem, e) THEN [said EXCEPT ![e.key] = Append(@, e.value)] ELSE said
  /\ before' = [k \in Keys |-> Replaced(Holds(k), ByDay(belief[k], said'[k]), before[k])]
  /\ events' = events + 1
  /\ UNCHANGED <<saved, disk, belief, onDisk, nights>>

Sleep ==
  /\ Awake /\ nights < MaxNights
  /\ mem' = Slept(mem)
  /\ belief' = [k \in Keys |-> ByNight(belief[k], said[k])]
  /\ said' = Silence
  /\ before' = [k \in Keys |-> Replaced(Holds(k), belief'[k], before[k])]
  /\ nights' = nights + 1
  /\ UNCHANGED <<saved, disk, onDisk, events>>

\* clear_persistent_cortex_memory.
Clear ==
  /\ Awake /\ nights < MaxNights
  /\ mem' = Blank
  /\ said' = Silence /\ belief' = Nobody /\ before' = Nobody
  /\ nights' = nights + 1
  /\ UNCHANGED <<saved, disk, onDisk, events>>

\* torch.save of state_dict, which holds the registered buffers.
Checkpoint ==
  /\ Awake /\ nights < MaxNights
  /\ disk' = mem
  /\ onDisk' = [said |-> said, belief |-> belief, before |-> before]
  /\ nights' = nights + 1
  /\ UNCHANGED <<mem, saved, history, events>>

\* A process dies, in a probe or not; a fresh model loads the checkpoint.
Restart ==
  /\ nights < MaxNights
  /\ mem' = disk /\ saved' = Nothing
  /\ said' = onDisk.said /\ belief' = onDisk.belief /\ before' = onDisk.before
  /\ nights' = nights + 1
  /\ UNCHANGED <<disk, onDisk, events>>

\* A probe with disable_persistent_memory copies the buffers and clears them, ...
Disable ==
  /\ Awake
  /\ saved' = mem /\ mem' = Blank
  /\ UNCHANGED <<disk, history, onDisk, events, nights>>

\* ... and puts them back in a finally, whether the forward pass raised or not.
Enable ==
  /\ ~Awake
  /\ mem' = saved /\ saved' = Nothing
  /\ UNCHANGED <<disk, history, onDisk, events, nights>>

Next ==
  \/ \E e \in Event : Hear(e)
  \/ Sleep \/ Clear \/ Checkpoint \/ Restart \/ Disable \/ Enable

Spec == Init /\ [][Next]_vars

-----------------------------------------------------------------------------
TypeOK ==
  /\ mem \in Memory /\ disk \in Memory
  /\ saved \in Memory \cup {Nothing}
  /\ events \in 0..MaxEvents /\ nights \in 0..MaxNights

\* The memory follows the log of reliable statements, through every order of
\* statements, sleeps, probes, clears and restarts: a value that was consolidated
\* stands until, and changes at, a sleep before which another was stated M times
\* in a row; a value that was not follows the last word; the archive holds the
\* value before.
MemoryFollowsTheLog ==
  Awake => \A k \in Keys :
    /\ k \in mem.known <=> Holds(k) # Nothing
    /\ k \in mem.known => mem.current[k] = Holds(k)
    /\ k \in mem.archiveKnown <=> before[k] # Nothing
    /\ k \in mem.archiveKnown => mem.archive[k] = before[k]

\* A query is answered with what was reliably stated of the key it is read from,
\* and with UNKNOWN when nothing was, or while the memory is taken away: never
\* with the zero an empty cell holds.
Grounded(k) == IF Awake /\ Holds(k) # Nothing THEN Holds(k) ELSE Unknown

AnswersAreGrounded ==
  \A k \in Keys :
    /\ Answer(mem, k, k) = Grounded(k)
    /\ Answer(mem, k, NextKey(k)) =
         Grounded(IF k \in mem.hasRelation THEN mem.relation[k] ELSE k)
    /\ ArchiveAnswer(mem, k) =
         IF Awake /\ before[k] # Nothing THEN before[k] ELSE Grounded(k)
=============================================================================
