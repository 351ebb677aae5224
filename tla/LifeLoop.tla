------------------------------ MODULE LifeLoop ------------------------------
(***************************************************************************)
(* The internal circulation of the gateway: events raise a pressure per    *)
(* topic (gateway/pressure.py), and a tick consolidates when something is  *)
(* due, lets pressure fade and runs a few research tasks                   *)
(* (gateway/lifeloop.py).  Ticks come from a daemon thread and from a      *)
(* route, and run side by side with each other and with the events.        *)
(*                                                                         *)
(* Pressure is counted in halves (UNKNOWN +1.0 is 2 here), time in hours.  *)
(* A question is its own topic.  The task queue is only what this module   *)
(* needs of it: ResearchTasks has its statuses in full.                    *)
(***************************************************************************)
EXTENDS Integers, Sequences, FiniteSets, Functions

CONSTANTS Topics,       \* topics of questions
          Tickers,      \* threads that tick: the daemon and a route
          Every,        \* consolidate_every
          None,         \* no value
          MaxEvents,    \* bound: events
          MaxTicks,     \* bound: ticks
          MaxHours      \* bound: hours that pass

Threshold == 6          \* pressure_threshold, 3.0
Never == -1000          \* last_seen_ts is 0: longer ago than any pressure lasts

VARIABLES
    topics,     \* PressureModel.topics, written to its file by every change
    recent,     \* _recent: topics asked about since the start
    since,      \* interactions_since_consolidate
    feedback,   \* feedback_pressure
    reasons,    \* whether _pending_consolidation_reasons holds one
    tasks,      \* the research tasks, in the order of their creation
    pc,         \* per ticker: where its tick is
    job,        \* per ticker: the task it runs
    now,        \* hours
    events,     \* events so far (bound)
    ticks,      \* ticks so far (bound)
    unserved,   \* history: an ask is neither served nor lost for a known reason
    missed,     \* history: topics with a failed run since an operator let them go
    halted,     \* history: those of which a later run then ended in an error
    doubled     \* history: topics of which two tickers had a task at once

asks == <<since, feedback, reasons, unserved>>
hist == <<missed, halted, doubled>>
vars == <<topics, recent, since, feedback, reasons, tasks, pc, job, now,
          events, ticks, unserved, missed, halted, doubled>>

-----------------------------------------------------------------------------
(* The pressure model.                                                     *)

Fresh == [pressure |-> 0, unknown |-> 0, provisional |-> 0, fail |-> 0, seen |-> Never]

AtLeastZero(x) == IF x < 0 THEN 0 ELSE x

\* A count, as far as something is made of it.
Counted(n, most) == IF n < most THEN n + 1 ELSE n

Pressures(T) == [t \in Topics |-> T[t].pressure]
Total == SumFunction(Pressures(topics))

\* What an answer's status does to its topic.
Observed(rec, status) ==
    LET again == status = "UNKNOWN" /\ rec.unknown >= 1
        delta == CASE status = "UNKNOWN"     -> IF again THEN 6 ELSE 2
                   [] status = "PROVISIONAL" -> 1
                   [] status = "DISPUTED"    -> 4
                   [] OTHER                  -> 0
    IN  [rec EXCEPT !.pressure = @ + delta,
                    !.unknown = IF status = "UNKNOWN" THEN Counted(@, 2) ELSE @,
                    !.provisional = IF status = "PROVISIONAL" THEN Counted(@, 2) ELSE @,
                    !.seen = now]

\* A rating and a task's outcome leave last_seen_ts alone.
Rated(rec, wrong) == [rec EXCEPT !.pressure = AtLeastZero(@ + IF wrong THEN 6 ELSE -2)]
Outcome(rec, out) ==
    CASE out = "done"     -> [rec EXCEPT !.pressure = AtLeastZero(@ - 2)]
      [] out = "failed"   -> [rec EXCEPT !.pressure = @ + 2, !.fail = @ + 1]
      [] out = "disputed" -> rec

\* decay: half a unit (1 here) for every hour since the topic was last seen.
Decayed(rec) ==
    IF rec.pressure > 0 /\ now > rec.seen
    THEN [rec EXCEPT !.pressure = AtLeastZero(@ - (now - rec.seen))]
    ELSE rec

\* relieve: 2.0 in all, the highest pressure first, and of equal ones any.
Orders(T) ==
    {r \in [Topics -> 1 .. Cardinality(Topics)] :
        \A t, u \in Topics :
            t # u => r[t] # r[u] /\ (T[t].pressure > T[u].pressure => r[t] < r[u])}

Relieved(T) ==
    LET Left(r, t) == AtLeastZero(4 - SumFunctionOnSet(Pressures(T), {u \in Topics : r[u] < r[t]}))
    IN  {[t \in Topics |-> [T[t] EXCEPT !.pressure = AtLeastZero(@ - Left(r, t))]] :
            r \in Orders(T)}

-----------------------------------------------------------------------------
Init ==
    /\ topics = [t \in Topics |-> Fresh]
    /\ recent = {}
    /\ since = 0
    /\ feedback = 0
    /\ reasons = FALSE
    /\ tasks = <<>>
    /\ pc = [w \in Tickers |-> "idle"]
    /\ job = [w \in Tickers |-> None]
    /\ now = 0
    /\ events = 0
    /\ ticks = 0
    /\ unserved = FALSE
    /\ missed = {}
    /\ halted = {}
    /\ doubled = {}

Consolidating == \E w \in Tickers : pc[w] \in {"consolidate", "clear"}

\* An event asks for a consolidation; one under way may clear it unserved, and
\* so it is not counted as unserved then.
Ask == reasons' = TRUE /\ unserved' = (unserved \/ ~Consolidating)

NoAsk == UNCHANGED <<reasons, unserved>>

Event == events < MaxEvents /\ events' = events + 1

\* A task of the topic is open: creating it again only adds the trigger.
Open(status) == status \in {"pending", "running", "blocked"}
Filed(t) ==
    IF \E i \in DOMAIN tasks : tasks[i].topic = t /\ Open(tasks[i].status)
    THEN tasks
    ELSE Append(tasks, [topic |-> t, status |-> "pending"])

Interaction(t, status) ==
    /\ Event
    /\ topics' = [topics EXCEPT ![t] = Observed(@, status)]
    /\ recent' = recent \union {t}
    /\ since' = Counted(since, Every)
    /\ IF status = "DISPUTED" THEN Ask ELSE NoAsk
    /\ tasks' = IF /\ status \in {"UNKNOWN", "PROVISIONAL"}
                   /\ \/ t \in recent
                      \/ topics'[t].unknown >= 2
                      \/ topics'[t].provisional >= 2
                THEN Filed(t) ELSE tasks
    /\ UNCHANGED <<feedback, pc, job, now, ticks, hist>>

\* A secret or refused question: counted, no pressure, no task.
Withheld ==
    /\ Event
    /\ since' = Counted(since, Every)
    /\ UNCHANGED <<topics, recent, feedback, reasons, tasks, pc, job, now, ticks,
                   unserved, hist>>

Feedback(t, wrong) ==
    /\ Event
    /\ topics' = [topics EXCEPT ![t] = Rated(@, wrong)]
    /\ IF wrong
       THEN feedback' = feedback + 3 /\ Ask
       ELSE feedback' = AtLeastZero(feedback - 1) /\ NoAsk
    /\ UNCHANGED <<recent, since, tasks, pc, job, now, ticks, hist>>

\* record_event of a memory action: the consolidate route.
MemoryAction ==
    /\ Event
    /\ Ask
    /\ UNCHANGED <<topics, recent, since, feedback, tasks, pc, job, now, ticks, hist>>

\* The operator lets a topic go: its pressure and its open tasks.
MarkResolved(t) ==
    /\ Event
    /\ topics' = [topics EXCEPT ![t].pressure = 0]
    /\ tasks' = [i \in DOMAIN tasks |->
                    IF tasks[i].topic = t /\ Open(tasks[i].status)
                    THEN [tasks[i] EXCEPT !.status = "closed"] ELSE tasks[i]]
    /\ missed' = missed \ {t}
    /\ halted' = halted \ {t}
    /\ UNCHANGED <<recent, asks, pc, job, now, ticks, doubled>>

Hour ==
    /\ now < MaxHours
    /\ \A w \in Tickers : pc[w] = "idle"
    /\ now' = now + 1
    /\ UNCHANGED <<topics, recent, asks, tasks, pc, job, events, ticks, hist>>

-----------------------------------------------------------------------------
(* A tick.                                                                 *)

Due == since >= Every \/ feedback >= Threshold \/ Total >= Threshold \/ reasons

Tick(w) ==
    /\ pc[w] = "idle"
    /\ ticks < MaxTicks
    /\ ticks' = ticks + 1
    /\ pc' = [pc EXCEPT ![w] = IF Due THEN "consolidate" ELSE "decay"]
    /\ UNCHANGED <<topics, recent, asks, tasks, job, now, events, hist>>

\* fce_consolidate answers, or the service is not there; either way nothing that
\* asked before is left to wait for.
Consolidate(w) ==
    /\ pc[w] = "consolidate"
    /\ topics' \in Relieved(topics) \union {topics}
    /\ unserved' = FALSE
    /\ pc' = [pc EXCEPT ![w] = "clear"]
    /\ UNCHANGED <<recent, since, feedback, reasons, tasks, job, now, events, ticks, hist>>

\* Whatever it answered, the counters start again and the reasons go.
ClearReasons(w) ==
    /\ pc[w] = "clear"
    /\ since' = 0
    /\ feedback' = AtLeastZero(feedback - Threshold)
    /\ reasons' = FALSE
    /\ pc' = [pc EXCEPT ![w] = "decay"]
    /\ UNCHANGED <<topics, recent, tasks, job, now, events, ticks, unserved, hist>>

\* Mutant: the reasons are cleared at the end of every tick, due or not.
MutDecay(w) ==
    /\ pc[w] = "decay"
    /\ topics' = [t \in Topics |-> Decayed(topics[t])]
    /\ reasons' = FALSE
    /\ pc' = [pc EXCEPT ![w] = "drain"]
    /\ UNCHANGED <<recent, since, feedback, unserved, tasks, job, now, events, ticks, hist>>

Decay(w) ==
    /\ pc[w] = "decay"
    /\ topics' = [t \in Topics |-> Decayed(topics[t])]
    /\ pc' = [pc EXCEPT ![w] = "drain"]
    /\ UNCHANGED <<recent, asks, tasks, job, now, events, ticks, hist>>

Has(w, t) == job[w] # None /\ tasks[job[w]].topic = t

\* drain_tasks reads a task as pending, then marks it running: another ticker
\* may have read it too.  It runs one task a tick here
\* (BYON_RELATION_AUTORUN_MAX_TASKS_PER_TICK).
Pick(w, i) ==
    /\ pc[w] = "drain"
    /\ tasks[i].status = "pending"
    /\ job' = [job EXCEPT ![w] = i]
    /\ pc' = [pc EXCEPT ![w] = "picked"]
    /\ doubled' = doubled \union
                    {tasks[i].topic : v \in {u \in Tickers : Has(u, tasks[i].topic)}}
    /\ UNCHANGED <<topics, recent, asks, tasks, now, events, ticks, missed, halted>>

NothingToRun(w) ==
    /\ pc[w] = "drain"
    /\ \A i \in DOMAIN tasks : tasks[i].status # "pending"
    /\ pc' = [pc EXCEPT ![w] = "idle"]
    /\ UNCHANGED <<topics, recent, asks, tasks, job, now, events, ticks, hist>>

Run(w) ==
    /\ pc[w] = "picked"
    /\ tasks' = [tasks EXCEPT ![job[w]].status = "running"]
    /\ pc' = [pc EXCEPT ![w] = "run"]
    /\ UNCHANGED <<topics, recent, asks, job, now, events, ticks, hist>>

TopicOf(w) == tasks[job[w]].topic

\* The run ends: KNOWN or provisional, or DISPUTED.
Answered(w) ==
    /\ pc[w] = "run"
    /\ \E out \in {"done", "disputed"} :
           topics' = [topics EXCEPT ![TopicOf(w)] = Outcome(@, out)]
    /\ pc' = [pc EXCEPT ![w] = "close"]
    /\ UNCHANGED <<recent, asks, tasks, job, now, events, ticks, hist>>

\* It found no answer: a failure to the pressure model, a task done to the queue,
\* and so never the failure that stops the topic.
Unanswered(w) ==
    /\ pc[w] = "run"
    /\ topics' = [topics EXCEPT ![TopicOf(w)] = Outcome(@, "failed")]
    /\ missed' = missed \union {TopicOf(w)}
    /\ pc' = [pc EXCEPT ![w] = "close"]
    /\ UNCHANGED <<recent, asks, tasks, job, now, events, ticks, halted, doubled>>

\* An error that is not the first failure of its topic halts it.
Halting(w) == IF TopicOf(w) \in missed THEN halted \union {TopicOf(w)} ELSE halted

\* Mutant: one failure more before the user is asked.
MutFailed(w) ==
    /\ pc[w] = "run"
    /\ topics' = [topics EXCEPT ![TopicOf(w)] = Outcome(@, "failed")]
    /\ missed' = missed \union {TopicOf(w)}
    /\ halted' = Halting(w)
    /\ pc' = [pc EXCEPT ![w] = IF topics'[TopicOf(w)].fail > 2 THEN "block" ELSE "close"]
    /\ UNCHANGED <<recent, asks, tasks, job, now, events, ticks, doubled>>

\* It ends in an error: the failures of its topic, those without an answer with
\* them, are read before the status is set.
Failed(w) ==
    /\ pc[w] = "run"
    /\ topics' = [topics EXCEPT ![TopicOf(w)] = Outcome(@, "failed")]
    /\ missed' = missed \union {TopicOf(w)}
    /\ halted' = Halting(w)
    /\ pc' = [pc EXCEPT ![w] = IF topics'[TopicOf(w)].fail >= 2 THEN "block" ELSE "close"]
    /\ UNCHANGED <<recent, asks, tasks, job, now, events, ticks, doubled>>

\* A task whose error was not the first failure of its topic waits for the user.
Settle(w) ==
    /\ pc[w] \in {"close", "block"}
    /\ tasks' = [tasks EXCEPT ![job[w]].status =
                    IF pc[w] = "block" THEN "blocked" ELSE "closed"]
    /\ job' = [job EXCEPT ![w] = None]
    /\ pc' = [pc EXCEPT ![w] = "idle"]
    /\ UNCHANGED <<topics, recent, asks, now, events, ticks, hist>>

\* The gateway restarts: the pressure and the tasks are read from their files.
Restart ==
    /\ Event
    /\ recent' = {}
    /\ since' = 0
    /\ feedback' = 0
    /\ reasons' = FALSE
    /\ pc' = [w \in Tickers |-> "idle"]
    /\ job' = [w \in Tickers |-> None]
    /\ unserved' = FALSE
    /\ UNCHANGED <<topics, tasks, now, ticks, hist>>

Next ==
    \/ \E t \in Topics :
        \/ \E st \in {"KNOWN", "UNKNOWN", "PROVISIONAL", "DISPUTED"} : Interaction(t, st)
        \/ \E wrong \in BOOLEAN : Feedback(t, wrong)
        \/ MarkResolved(t)
    \/ Withheld
    \/ MemoryAction
    \/ Hour
    \/ Restart
    \/ \E w \in Tickers :
        \/ Tick(w) \/ Consolidate(w) \/ ClearReasons(w) \/ Decay(w)
        \/ \E i \in DOMAIN tasks : Pick(w, i)
        \/ NothingToRun(w) \/ Run(w) \/ Settle(w)
        \/ Answered(w) \/ Unanswered(w) \/ Failed(w)

Spec == Init /\ [][Next]_vars

-----------------------------------------------------------------------------
\* An event that asked for a consolidation is served by one that began after
\* it, or still keeps the loop due; only an ask that came while one ran, an
\* outage of the service or a restart can lose it (lifeloop.py:247).
AskIsServed ==
    unserved => reasons \/ Consolidating

\* "repeated failure on a topic -> stop looping, ask the user" (lifeloop.py:404):
\* once a run of a topic ended in an error after an earlier one had failed, in an
\* error or without an answer, no ticker takes up a task of it until the operator
\* lets it go.  Two ticks that once had tasks of it at the same time can break
\* this: both had read one as pending, or the operator had let go a topic whose
\* task was running.  Runs that find no answer, however many, stop nothing.
RepeatedFailureStops ==
    \A t \in halted \ doubled, w \in Tickers : Has(w, t) => pc[w] = "block"

\* Pressure fades by at most half a unit for every hour that passes.
FadesSlowly ==
    [][\A w \in Tickers : Decay(w) =>
         \A t \in Topics : topics[t].pressure - topics'[t].pressure <= now]_vars
=============================================================================
