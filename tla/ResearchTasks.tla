---------------------------- MODULE ResearchTasks ----------------------------
(***************************************************************************)
(* The internal research-task queue of the LifeLoop                        *)
(* (gateway/research_tasks.py) with the threads of the gateway that work   *)
(* on it: the life daemon, whose every tick drains the queue               *)
(* (lifeloop.drain_tasks), and the HTTP threads, which tick too, run one   *)
(* task on demand, approve, cancel and resolve (gateway/app.py).           *)
(*                                                                         *)
(* The queue locks each of its own methods, but no caller holds that lock  *)
(* across "look at the status, then set it": every such gap is a step      *)
(* boundary here.  The jsonl file keeps the last record written per task;  *)
(* a write may fail silently, and a restart reloads what the file holds.   *)
(***************************************************************************)
EXTENDS Naturals, FiniteSets

CONSTANTS
  Topics,           \* what tasks are about (none of them a secret's)
  TaskIds,          \* the uuids tasks may get: bounds how many are ever filed
  NoTask,           \* an id that names no task
  Daemon,           \* the life-daemon threads (they only tick)
  HttpThreads,      \* request threads of the gateway
  AutonomousWeb,    \* BYON_ALLOW_AUTONOMOUS_WEB
  MaxTasksPerTick,  \* BYON_RELATION_AUTORUN_MAX_TASKS_PER_TICK
  FailLimit,        \* failures on a topic after which its task waits for the user
  MaxOps,           \* bound: operator requests in a behaviour
  MaxLostWrites,    \* bound: appends to the file that fail silently
  MaxRestarts       \* bound: restarts of the gateway in a behaviour

Threads == Daemon \cup HttpThreads

ASSUME ThreadsAssumption == Daemon \cap HttpThreads = {}
ASSUME NumbersAssumption ==
  /\ MaxTasksPerTick \in Nat \ {0}
  /\ FailLimit \in Nat \ {0}
  /\ MaxOps \in Nat
  /\ MaxLostWrites \in Nat
  /\ MaxRestarts \in Nat
ASSUME AutonomousWebAssumption == AutonomousWeb \in BOOLEAN

OpenStatuses == {"pending", "running", "blocked"}
Statuses == OpenStatuses \cup {"done", "failed", "cancelled"}

\* "web" is membership of "web" in allowed_sources.
Task == [topic : Topics, web : BOOLEAN, needsPerm : BOOLEAN, status : Statuses]

ASSUME NoTaskAssumption == NoTask \notin Task /\ NoTask \notin TaskIds

Outcomes == {"success", "disputed", "unknown", "error"}

VARIABLES
  mem,       \* ResearchTaskQueue.tasks
  disk,      \* research_tasks.jsonl: the last record of each id
  filed,     \* history: the ids ever given to a task
  fails,     \* PressureModel fail_count per topic, counted up to FailLimit
  pc,        \* where each thread is
  todo,      \* the snapshot a thread iterates over
  ran,       \* len(ran) of a thread's drain
  cur,       \* the task a thread works on
  usesWeb,   \* allow_web of the research call in progress
  approved,  \* history: tasks approve_web was called on
  reopened,  \* history: tasks that were closed once and are, or were, open again
  orphaned,  \* history: tasks a restart found "running"
  lost,      \* appends that failed
  ops,       \* operator requests made
  restarts   \* restarts made

queue == <<mem, disk, lost>>
locals == <<pc, todo, ran, cur, usesWeb>>
vars == <<mem, disk, filed, fails, pc, todo, ran, cur, usesWeb, approved, reopened,
          orphaned, lost, ops, restarts>>

Exists(t) == mem[t] # NoTask
IsOpen(t) == Exists(t) /\ mem[t].status \in OpenStatuses
Pending == {t \in TaskIds : IsOpen(t)}

\* Mutant: permission looked at, the web itself forgotten.
MutIsMemoryOnly(t) == ~mem[t].needsPerm

\* No secret topic is among Topics, so only these two tests are left.
IsMemoryOnly(t) == ~mem[t].web /\ ~mem[t].needsPerm

\* A thread between its set_status(RUNNING) and its final set_status.
HoldsPcs == {"drainRun", "drainOutcome", "taskCall", "taskRun"}
Holds(th, t) == pc[th] \in HoldsPcs /\ cur[th] = t

Init ==
  /\ mem = [t \in TaskIds |-> NoTask]
  /\ disk = [t \in TaskIds |-> NoTask]
  /\ filed = {}
  /\ fails = [p \in Topics |-> 0]
  /\ pc = [th \in Threads |-> "idle"]
  /\ todo = [th \in Threads |-> {}]
  /\ ran = [th \in Threads |-> 0]
  /\ cur = [th \in Threads |-> NoTask]
  /\ usesWeb = [th \in Threads |-> FALSE]
  /\ approved = {}
  /\ reopened = {}
  /\ orphaned = {}
  /\ lost = 0
  /\ ops = 0
  /\ restarts = 0

-----------------------------------------------------------------------------
\* The queue's methods.

\* The record goes to memory always, to the file unless the write fails.
Write(t, rec) ==
  /\ mem' = [mem EXCEPT ![t] = rec]
  /\ \/ disk' = [disk EXCEPT ![t] = rec] /\ lost' = lost
     \/ lost < MaxLostWrites /\ disk' = disk /\ lost' = lost + 1

\* Every change of a status is noted in the history of reopened tasks.
SetTask(t, rec) ==
  /\ Write(t, rec)
  /\ reopened' = IF mem[t].status \notin OpenStatuses /\ rec.status \in OpenStatuses
                 THEN reopened \cup {t} ELSE reopened

SetStatus(t, s) == SetTask(t, [mem[t] EXCEPT !.status = s])

\* Mutant: only a task that still waits counts as existing.
MutExisting(topic) == {t \in Pending : mem[t].topic = topic /\ mem[t].status = "pending"}

\* create: an open task on the topic is returned (its priority bumped), never
\* a second one filed.
Existing(topic) == {t \in Pending : mem[t].topic = topic}

Create(topic, web) ==
  LET needsPerm == web /\ ~AutonomousWeb IN
  /\ IF Existing(topic) # {}
     THEN (\E t \in Existing(topic) : Write(t, mem[t])) /\ filed' = filed
     ELSE \E t \in TaskIds \ filed :
            /\ Write(t, [topic |-> topic, web |-> web, needsPerm |-> needsPerm,
                         status |-> IF needsPerm THEN "blocked" ELSE "pending"])
            /\ filed' = filed \cup {t}
  /\ UNCHANGED <<fails, locals, approved, reopened, orphaned, ops, restarts>>

\* An operator's request, within the bound.
OperatorRequest == ops < MaxOps /\ ops' = ops + 1

ApproveWeb(t) ==
  /\ OperatorRequest
  /\ Exists(t)
  /\ SetTask(t, [mem[t] EXCEPT !.needsPerm = FALSE, !.status = "pending"])
  /\ approved' = approved \cup {t}
  /\ UNCHANGED <<filed, fails, locals, orphaned, restarts>>

Cancel(t) ==
  /\ OperatorRequest
  /\ Exists(t)
  /\ SetStatus(t, "cancelled")
  /\ UNCHANGED <<filed, fails, locals, approved, orphaned, restarts>>

-----------------------------------------------------------------------------
\* mark_resolved: cancel, one by one, the open tasks seen at the start.

ResolveStart(th, topic) ==
  /\ OperatorRequest
  /\ pc[th] = "idle"
  /\ Existing(topic) # {}
  /\ pc' = [pc EXCEPT ![th] = "resolve"]
  /\ todo' = [todo EXCEPT ![th] = Existing(topic)]
  /\ UNCHANGED <<filed, queue, fails, ran, cur, usesWeb, approved, reopened, orphaned, restarts>>

ResolveOne(th, t) ==
  /\ pc[th] = "resolve"
  /\ t \in todo[th]
  /\ SetStatus(t, "cancelled")
  /\ todo' = [todo EXCEPT ![th] = @ \ {t}]
  /\ pc' = [pc EXCEPT ![th] = IF todo[th] = {t} THEN "idle" ELSE "resolve"]
  /\ UNCHANGED <<filed, fails, ran, cur, usesWeb, approved, orphaned, ops, restarts>>

-----------------------------------------------------------------------------
\* drain_tasks: iterate over a snapshot of the open tasks, in some order (the
\* code's is by priority), reading each task's live status.

DrainStart(th) ==
  /\ pc[th] = "idle"
  /\ pc' = [pc EXCEPT ![th] = "drain"]
  /\ todo' = [todo EXCEPT ![th] = Pending]
  /\ UNCHANGED <<filed, queue, fails, ran, cur, usesWeb, approved, reopened, orphaned, ops, restarts>>

DrainPick(th, t) ==
  /\ pc[th] = "drain"
  /\ ran[th] < MaxTasksPerTick
  /\ t \in todo[th]
  /\ todo' = [todo EXCEPT ![th] = @ \ {t}]
  /\ IF mem[t].status = "pending" /\ IsMemoryOnly(t)
     THEN /\ pc' = [pc EXCEPT ![th] = "drainClaim"]
          /\ cur' = [cur EXCEPT ![th] = t]
     ELSE UNCHANGED <<pc, cur>>
  /\ UNCHANGED <<filed, queue, fails, ran, usesWeb, approved, reopened, orphaned, ops, restarts>>

DrainEnd(th) ==
  /\ pc[th] = "drain"
  /\ ran[th] >= MaxTasksPerTick \/ todo[th] = {}
  /\ pc' = [pc EXCEPT ![th] = "idle"]
  /\ todo' = [todo EXCEPT ![th] = {}]
  /\ ran' = [ran EXCEPT ![th] = 0]
  /\ UNCHANGED <<filed, queue, fails, cur, usesWeb, approved, reopened, orphaned, ops, restarts>>

\* The runner researches with allow_web=False.
DrainClaim(th) ==
  /\ pc[th] = "drainClaim"
  /\ SetStatus(cur[th], "running")
  /\ pc' = [pc EXCEPT ![th] = "drainRun"]
  /\ usesWeb' = [usesWeb EXCEPT ![th] = FALSE]
  /\ UNCHANGED <<filed, fails, todo, ran, cur, approved, orphaned, ops, restarts>>

NextInDrain(th) ==
  /\ pc' = [pc EXCEPT ![th] = "drain"]
  /\ ran' = [ran EXCEPT ![th] = @ + 1]
  /\ cur' = [cur EXCEPT ![th] = NoTask]

\* The runner returned and pressure.task_outcome has counted it.  An answer
\* that is neither a success nor disputed counts as a failure of the topic,
\* though only an error makes the task itself fail.
DrainOutcome(th, o) ==
  LET topic == mem[cur[th]].topic IN
  /\ pc[th] = "drainRun"
  /\ fails' = IF o \in {"unknown", "error"} /\ fails[topic] < FailLimit
              THEN [fails EXCEPT ![topic] = @ + 1] ELSE fails
  /\ IF o = "error"
     THEN /\ pc' = [pc EXCEPT ![th] = "drainOutcome"]
          /\ UNCHANGED <<queue, ran, cur, reopened>>
     ELSE /\ SetStatus(cur[th], "done")
          /\ NextInDrain(th)
  /\ UNCHANGED <<filed, todo, usesWeb, approved, orphaned, ops, restarts>>

\* Mutant: a failed task goes back to the queue.
MutDrainFailed(th) ==
  /\ pc[th] = "drainOutcome"
  /\ SetStatus(cur[th], "pending")
  /\ NextInDrain(th)
  /\ UNCHANGED <<filed, fails, todo, usesWeb, approved, orphaned, ops, restarts>>

\* After an error: the topic's failures are read again, then the status set.
DrainFailed(th) ==
  /\ pc[th] = "drainOutcome"
  /\ SetStatus(cur[th], IF fails[mem[cur[th]].topic] >= FailLimit
                        THEN "blocked" ELSE "failed")
  /\ NextInDrain(th)
  /\ UNCHANGED <<filed, fails, todo, usesWeb, approved, orphaned, ops, restarts>>

-----------------------------------------------------------------------------
\* POST /v1/lifeloop/run-task: only a blocked task is refused.

RunTaskCheck(th, t) ==
  /\ OperatorRequest
  /\ pc[th] = "idle"
  /\ Exists(t)
  /\ mem[t].status # "blocked"
  /\ pc' = [pc EXCEPT ![th] = "taskClaim"]
  /\ cur' = [cur EXCEPT ![th] = t]
  /\ UNCHANGED <<filed, queue, fails, todo, ran, usesWeb, approved, reopened, orphaned, restarts>>

RunTaskClaim(th) ==
  /\ pc[th] = "taskClaim"
  /\ SetStatus(cur[th], "running")
  /\ pc' = [pc EXCEPT ![th] = "taskCall"]
  /\ UNCHANGED <<filed, fails, todo, ran, cur, usesWeb, approved, orphaned, ops, restarts>>

\* Mutant: allow_web looks at the sources only.
MutAllowWeb(t) == mem[t].web

\* allow_web is evaluated when the research call is made.
AllowWeb(t) == mem[t].web /\ ~mem[t].needsPerm

RunTaskCall(th) ==
  /\ pc[th] = "taskCall"
  /\ usesWeb' = [usesWeb EXCEPT ![th] = AllowWeb(cur[th])]
  /\ pc' = [pc EXCEPT ![th] = "taskRun"]
  /\ UNCHANGED <<filed, queue, fails, todo, ran, cur, approved, reopened, orphaned, ops, restarts>>

\* Mutant: an exception out of the research call leaves the status alone.
MutRunTaskFinish(th, ok) ==
  /\ pc[th] = "taskRun"
  /\ IF ok THEN SetStatus(cur[th], "done") ELSE UNCHANGED <<queue, reopened>>
  /\ pc' = [pc EXCEPT ![th] = "idle"]
  /\ cur' = [cur EXCEPT ![th] = NoTask]
  /\ usesWeb' = [usesWeb EXCEPT ![th] = FALSE]
  /\ UNCHANGED <<filed, fails, todo, ran, approved, orphaned, ops, restarts>>

RunTaskFinish(th, ok) ==
  /\ pc[th] = "taskRun"
  /\ SetStatus(cur[th], IF ok THEN "done" ELSE "failed")
  /\ pc' = [pc EXCEPT ![th] = "idle"]
  /\ cur' = [cur EXCEPT ![th] = NoTask]
  /\ usesWeb' = [usesWeb EXCEPT ![th] = FALSE]
  /\ UNCHANGED <<filed, fails, todo, ran, approved, orphaned, ops, restarts>>

-----------------------------------------------------------------------------
\* The gateway dies and starts again: every thread is gone and the queue is
\* what the file holds, a "running" task included.
Restart ==
  /\ restarts < MaxRestarts
  /\ restarts' = restarts + 1
  /\ mem' = disk
  /\ pc' = [th \in Threads |-> "idle"]
  /\ todo' = [th \in Threads |-> {}]
  /\ ran' = [th \in Threads |-> 0]
  /\ cur' = [th \in Threads |-> NoTask]
  /\ usesWeb' = [th \in Threads |-> FALSE]
  /\ reopened' = reopened \cup
       {t \in TaskIds : disk[t] # NoTask /\ disk[t].status \in OpenStatuses /\ ~IsOpen(t)}
  /\ orphaned' = orphaned \cup
       {t \in TaskIds : disk[t] # NoTask /\ disk[t].status = "running"}
  /\ UNCHANGED <<filed, disk, lost, fails, approved, ops>>

Drain(th) ==
  \/ DrainStart(th)
  \/ \E t \in TaskIds : DrainPick(th, t)
  \/ DrainEnd(th)
  \/ DrainClaim(th)
  \/ \E o \in Outcomes : DrainOutcome(th, o)
  \/ DrainFailed(th)

RunTask(th) ==
  \/ \E t \in TaskIds : RunTaskCheck(th, t)
  \/ RunTaskClaim(th)
  \/ RunTaskCall(th)
  \/ \E ok \in BOOLEAN : RunTaskFinish(th, ok)

Resolve(th) ==
  \/ \E p \in Topics : ResolveStart(th, p)
  \/ \E t \in TaskIds : ResolveOne(th, t)

Next ==
  \/ \E p \in Topics, web \in BOOLEAN : Create(p, web)
  \/ \E t \in TaskIds : ApproveWeb(t) \/ Cancel(t)
  \/ \E th \in Threads : Drain(th)
  \/ \E th \in HttpThreads : RunTask(th) \/ Resolve(th)
  \/ Restart

Spec == Init /\ [][Next]_vars

\* What the threads owe: the daemon sleeps a bounded time and ticks again, and
\* a request that was accepted runs to its end.  No request is owed by anyone.
Work(th) ==
  \/ \E t \in TaskIds : DrainPick(th, t)
  \/ DrainEnd(th)
  \/ DrainClaim(th)
  \/ \E o \in Outcomes : DrainOutcome(th, o)
  \/ DrainFailed(th)
  \/ RunTaskClaim(th)
  \/ RunTaskCall(th)
  \/ \E ok \in BOOLEAN : RunTaskFinish(th, ok)
  \/ \E t \in TaskIds : ResolveOne(th, t)

Fairness ==
  /\ \A th \in Threads : WF_vars(Work(th))
  /\ \A th \in Daemon : WF_vars(DrainStart(th))

FairSpec == Spec /\ Fairness

-----------------------------------------------------------------------------
Pcs == {"idle", "resolve", "drain", "drainClaim", "taskClaim"} \cup HoldsPcs

TypeOK ==
  /\ mem \in [TaskIds -> Task \cup {NoTask}]
  /\ disk \in [TaskIds -> Task \cup {NoTask}]
  /\ filed \subseteq TaskIds
  /\ fails \in [Topics -> 0..FailLimit]
  /\ pc \in [Threads -> Pcs]
  /\ todo \in [Threads -> SUBSET TaskIds]
  /\ ran \in [Threads -> 0..MaxTasksPerTick]
  /\ cur \in [Threads -> TaskIds \cup {NoTask}]
  /\ usesWeb \in [Threads -> BOOLEAN]
  /\ approved \subseteq TaskIds
  /\ reopened \subseteq TaskIds
  /\ orphaned \subseteq TaskIds
  /\ lost \in 0..MaxLostWrites
  /\ ops \in 0..MaxOps
  /\ restarts \in 0..MaxRestarts

\* "WEB research requires user permission unless BYON_ALLOW_AUTONOMOUS_WEB is
\* set" (research_tasks.py:6-8): whatever was cancelled, run, approved or
\* reloaded in whatever order, no research call in progress may use the web
\* unless its task was approved or the autonomous web is on.
WebOnlyWithPermission ==
  \A th \in Threads : usesWeb[th] => AutonomousWeb \/ cur[th] \in approved

\* "Web/secret/permissioned tasks are never run here" (lifeloop.py:375-376):
\* the drain checks a task, then claims it in another step; the task it runs is
\* still one that does not ask for the web.
DrainRunsMemoryOnly ==
  \A th \in Threads :
    pc[th] \in {"drainClaim", "drainRun", "drainOutcome"} =>
      Exists(cur[th]) /\ ~mem[cur[th]].web /\ ~mem[cur[th]].needsPerm

\* Idempotence by topic, as far as the code has it: two tasks on a topic are
\* open together only if one of them had been closed and was opened again (by
\* approve-web, run-task, a worker that outlived a cancel, or a restart that
\* reloaded a record whose closing was not written).
DuplicatesOnlyByReopening ==
  \A t1, t2 \in Pending :
    t1 # t2 /\ mem[t1].topic = mem[t2].topic => t1 \in reopened \/ t2 \in reopened

\* A task is "running" only while some thread runs it: the two workers that can
\* claim one task, cancel and approval in between, never leave it "running"
\* when the last of them is done.  Only a restart can.
RunningHasWorker ==
  \A t \in TaskIds :
    Exists(t) /\ mem[t].status = "running" =>
      t \in orphaned \/ \E th \in Threads : Holds(th, t)

\* A filed memory-only task does not wait for ever: the daemon runs it, or
\* somebody cancels it.  (Finitely many operator requests: an operator who
\* keeps re-approving other tasks can keep the daemon's ticks busy.)
PendingIsDrained ==
  \A t \in TaskIds :
    (Exists(t) /\ mem[t].status = "pending" /\ IsMemoryOnly(t))
      ~> ~(Exists(t) /\ mem[t].status = "pending" /\ IsMemoryOnly(t))

\* A task that is run is settled, as long as the gateway stays up.
RunningIsSettled ==
  \A t \in TaskIds :
    (Exists(t) /\ mem[t].status = "running")
      ~> ~(Exists(t) /\ mem[t].status = "running")
=============================================================================
