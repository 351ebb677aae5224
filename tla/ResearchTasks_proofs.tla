------------------------- MODULE ResearchTasks_proofs -------------------------
(***************************************************************************)
(* The safety invariants of ResearchTasks for any topics, ids, threads and *)
(* bounds.                                                                 *)
(***************************************************************************)
EXTENDS ResearchTasks, TLAPS

\* What the file holds is an older state of what memory holds: the same task,
\* its topic and sources never changed, and its permission given no later.
DiskFollowsMem ==
  \A t \in TaskIds :
    /\ mem[t] # NoTask => t \in filed
    /\ disk[t] # NoTask =>
         mem[t] # NoTask /\ disk[t].topic = mem[t].topic /\ disk[t].web = mem[t].web

\* A web task that needs no permission was approved, or never needed any.
PermissionRecorded ==
  \A t \in TaskIds :
    /\ mem[t] # NoTask /\ mem[t].web /\ ~mem[t].needsPerm => AutonomousWeb \/ t \in approved
    /\ disk[t] # NoTask /\ disk[t].web /\ ~disk[t].needsPerm => AutonomousWeb \/ t \in approved

WorkingPcs == {"drainClaim", "taskClaim"} \cup HoldsPcs

\* Threads only hold tasks that exist, and use the web inside run-task only.
ThreadsHoldTasks ==
  \A th \in Threads :
    /\ pc[th] \in WorkingPcs => cur[th] \in TaskIds /\ mem[cur[th]] # NoTask
    /\ \A t \in todo[th] : mem[t] # NoTask
    /\ usesWeb[th] => pc[th] = "taskRun"
    /\ pc[th] \in WorkingPcs \cap {"drainClaim", "drainRun", "drainOutcome"} =>
         ran[th] < MaxTasksPerTick

IInv ==
  /\ TypeOK
  /\ DiskFollowsMem
  /\ PermissionRecorded
  /\ ThreadsHoldTasks
  /\ WebOnlyWithPermission
  /\ DrainRunsMemoryOnly
  /\ DuplicatesOnlyByReopening
  /\ RunningHasWorker

-----------------------------------------------------------------------------
QueueInv == DiskFollowsMem /\ PermissionRecorded /\ DuplicatesOnlyByReopening

USE DEF OpenStatuses, Statuses

\* Whatever record one of the queue's methods writes for an existing task, as
\* long as it keeps its topic and sources and has no permission of its own
\* making, the queue's invariant survives, written to the file or not.
LEMMA SetTaskKeepsQueue ==
  ASSUME TypeOK, QueueInv,
         NEW t \in TaskIds, Exists(t),
         NEW rec \in Task, rec.topic = mem[t].topic, rec.web = mem[t].web,
         rec.web /\ ~rec.needsPerm => AutonomousWeb \/ t \in approved',
         SetTask(t, rec), filed' = filed,
         approved \subseteq approved'
  PROVE  /\ QueueInv'
         /\ mem' = [mem EXCEPT ![t] = rec]
         /\ mem' \in [TaskIds -> Task \cup {NoTask}]
         /\ disk' \in [TaskIds -> Task \cup {NoTask}]
         /\ lost' \in 0..MaxLostWrites
         /\ reopened' \subseteq TaskIds
         /\ \A u \in TaskIds : mem[u] # NoTask => mem'[u] # NoTask
<1> USE NoTaskAssumption, NumbersAssumption DEF Exists
<1>1. /\ mem' = [mem EXCEPT ![t] = rec]
      /\ disk' = [disk EXCEPT ![t] = rec] \/ disk' = disk
      /\ lost' \in 0..MaxLostWrites
  BY DEF SetTask, Write, TypeOK
<1>2. /\ mem' \in [TaskIds -> Task \cup {NoTask}]
      /\ disk' \in [TaskIds -> Task \cup {NoTask}]
      /\ reopened' \subseteq TaskIds
      /\ \A u \in TaskIds : mem[u] # NoTask => mem'[u] # NoTask
  BY <1>1 DEF SetTask, TypeOK
<1>3. DiskFollowsMem'
  BY <1>1 DEF DiskFollowsMem, QueueInv, TypeOK
<1>4. PermissionRecorded'
  BY <1>1 DEF PermissionRecorded, QueueInv, TypeOK
<1>5. DuplicatesOnlyByReopening'
  <2> SUFFICES ASSUME NEW t1 \in Pending', NEW t2 \in Pending', t1 # t2,
                      mem'[t1].topic = mem'[t2].topic
               PROVE  t1 \in reopened' \/ t2 \in reopened'
    BY DEF DuplicatesOnlyByReopening
  <2>1. t1 \in TaskIds /\ t2 \in TaskIds /\ mem'[t1] # NoTask /\ mem'[t2] # NoTask
    BY DEF Pending, IsOpen
  <2>2. \A u \in {t1, t2} : u \in Pending \/ u \in reopened'
    BY <1>1, <2>1 DEF Pending, IsOpen, SetTask, TypeOK
  <2>3. mem[t1].topic = mem[t2].topic
    BY <1>1, <2>1 DEF TypeOK
  <2>4. reopened \subseteq reopened'
    BY DEF SetTask
  <2> QED BY <2>2, <2>3, <2>4 DEF QueueInv, DuplicatesOnlyByReopening
<1> QED BY <1>1, <1>2, <1>3, <1>4, <1>5 DEF QueueInv

\* A status is such a record.
LEMMA SetStatusKeepsQueue ==
  ASSUME TypeOK, QueueInv,
         NEW t \in TaskIds, Exists(t), NEW s \in Statuses,
         SetStatus(t, s), filed' = filed, approved' = approved
  PROVE  /\ QueueInv'
         /\ \A u \in TaskIds \ {t} : mem'[u] = mem[u]
         /\ mem'[t] \in Task /\ mem'[t].status = s
         /\ mem'[t].web = mem[t].web /\ mem'[t].needsPerm = mem[t].needsPerm
         /\ mem'[t].topic = mem[t].topic
         /\ mem' \in [TaskIds -> Task \cup {NoTask}]
         /\ disk' \in [TaskIds -> Task \cup {NoTask}]
         /\ lost' \in 0..MaxLostWrites
         /\ reopened' \subseteq TaskIds
         /\ \A u \in TaskIds : mem[u] # NoTask => mem'[u] # NoTask
<1> DEFINE rec == [mem[t] EXCEPT !.status = s]
<1>1. mem[t] \in Task
  BY DEF TypeOK, Exists
<1>2. rec \in Task /\ rec.topic = mem[t].topic /\ rec.web = mem[t].web
      /\ rec.needsPerm = mem[t].needsPerm /\ rec.status = s
  BY <1>1 DEF Task
<1>3. rec.web /\ ~rec.needsPerm => AutonomousWeb \/ t \in approved'
  BY <1>2 DEF QueueInv, PermissionRecorded, Exists
<1>4. SetTask(t, rec)
  BY DEF SetStatus
<1>5. mem' = [mem EXCEPT ![t] = rec]
  BY <1>4 DEF SetTask, Write
<1> HIDE DEF rec
<1>6. /\ QueueInv'
      /\ mem' \in [TaskIds -> Task \cup {NoTask}]
      /\ disk' \in [TaskIds -> Task \cup {NoTask}]
      /\ lost' \in 0..MaxLostWrites
      /\ reopened' \subseteq TaskIds
      /\ \A u \in TaskIds : mem[u] # NoTask => mem'[u] # NoTask
  BY <1>2, <1>3, <1>4, SetTaskKeepsQueue
<1> QED BY <1>2, <1>5, <1>6 DEF TypeOK

THEOREM InitIInv == Init => IInv
<1> SUFFICES ASSUME Init PROVE IInv
  OBVIOUS
<1> USE NoTaskAssumption, NumbersAssumption DEF Init
<1>1. TypeOK
  BY DEF TypeOK, Pcs
<1>2. DiskFollowsMem /\ PermissionRecorded /\ DuplicatesOnlyByReopening /\ RunningHasWorker
  BY DEF DiskFollowsMem, PermissionRecorded, DuplicatesOnlyByReopening, Pending, IsOpen,
         Exists, RunningHasWorker
<1>3. ThreadsHoldTasks /\ WebOnlyWithPermission /\ DrainRunsMemoryOnly
  BY DEF ThreadsHoldTasks, WorkingPcs, HoldsPcs, WebOnlyWithPermission, DrainRunsMemoryOnly
<1> QED BY <1>1, <1>2, <1>3 DEF IInv

-----------------------------------------------------------------------------
\* Every invariant of the threads and the running tasks after a step that sets
\* one existing task to a status other than "running", frees at most one thread,
\* th, from holding a task - that one - and starts no claim.
LEMMA SettleKeepsThreads ==
  ASSUME IInv, QueueInv, NEW t \in TaskIds, Exists(t), NEW s \in Statuses \ {"running"},
         SetStatus(t, s), filed' = filed, approved' = approved, orphaned' = orphaned,
         NEW th \in Threads,
         \A x \in Threads \ {th} :
           pc'[x] = pc[x] /\ cur'[x] = cur[x] /\ todo'[x] = todo[x]
             /\ ran'[x] = ran[x] /\ usesWeb'[x] = usesWeb[x],
         todo'[th] \subseteq todo[th],
         pc'[th] \notin WorkingPcs, ~usesWeb'[th],
         pc[th] \in HoldsPcs => cur[th] = t
  PROVE  /\ QueueInv'
         /\ ThreadsHoldTasks' /\ WebOnlyWithPermission' /\ DrainRunsMemoryOnly'
         /\ RunningHasWorker'
         /\ mem' \in [TaskIds -> Task \cup {NoTask}]
         /\ disk' \in [TaskIds -> Task \cup {NoTask}]
         /\ lost' \in 0..MaxLostWrites
         /\ reopened' \subseteq TaskIds
<1> USE NoTaskAssumption
<1>1. TypeOK
  BY DEF IInv
<1>2. /\ QueueInv'
      /\ \A u \in TaskIds \ {t} : mem'[u] = mem[u]
      /\ mem'[t] \in Task /\ mem'[t].status = s
      /\ mem'[t].web = mem[t].web /\ mem'[t].needsPerm = mem[t].needsPerm
      /\ mem' \in [TaskIds -> Task \cup {NoTask}]
      /\ disk' \in [TaskIds -> Task \cup {NoTask}]
      /\ lost' \in 0..MaxLostWrites
      /\ reopened' \subseteq TaskIds
      /\ \A u \in TaskIds : mem[u] # NoTask => mem'[u] # NoTask
  BY <1>1, SetStatusKeepsQueue
<1>3. ThreadsHoldTasks'
  BY <1>1, <1>2 DEF IInv, ThreadsHoldTasks, TypeOK, WorkingPcs, HoldsPcs
<1>4. WebOnlyWithPermission'
  BY DEF IInv, WebOnlyWithPermission
<1>5. DrainRunsMemoryOnly'
  <2> SUFFICES ASSUME NEW x \in Threads, pc'[x] \in {"drainClaim", "drainRun", "drainOutcome"}
               PROVE  Exists(cur[x])' /\ ~mem'[cur'[x]].web /\ ~mem'[cur'[x]].needsPerm
    BY DEF DrainRunsMemoryOnly
  <2>1. x # th /\ pc[x] = pc'[x] /\ cur'[x] = cur[x]
    BY DEF WorkingPcs, HoldsPcs
  <2>2. cur[x] \in TaskIds /\ Exists(cur[x]) /\ ~mem[cur[x]].web /\ ~mem[cur[x]].needsPerm
    BY <2>1 DEF IInv, DrainRunsMemoryOnly, ThreadsHoldTasks, WorkingPcs, HoldsPcs
  <2> QED BY <1>2, <2>1, <2>2 DEF Exists
<1>6. RunningHasWorker'
  <2> SUFFICES ASSUME NEW u \in TaskIds, mem'[u] # NoTask, mem'[u].status = "running",
                      u \notin orphaned
               PROVE  \E x \in Threads : Holds(x, u)'
    BY DEF RunningHasWorker, Exists
  <2>1. u # t /\ mem'[u] = mem[u]
    BY <1>2
  <2>2. PICK x \in Threads : Holds(x, u)
    BY <2>1 DEF IInv, RunningHasWorker, Exists
  <2>3. x # th
    BY <2>1, <2>2 DEF Holds
  <2> QED BY <2>2, <2>3 DEF Holds
<1> QED BY <1>2, <1>3, <1>4, <1>5, <1>6

\* The same after a step in which thread th claims task t.
LEMMA ClaimKeepsThreads ==
  ASSUME IInv, QueueInv, NEW th \in Threads, NEW t \in TaskIds, t = cur[th],
         pc[th] \in {"drainClaim", "taskClaim"},
         SetStatus(t, "running"), filed' = filed, approved' = approved, orphaned' = orphaned,
         pc' = [pc EXCEPT ![th] = IF @ = "drainClaim" THEN "drainRun" ELSE "taskCall"],
         UNCHANGED <<cur, todo, ran, usesWeb>>
  PROVE  /\ QueueInv'
         /\ ThreadsHoldTasks' /\ WebOnlyWithPermission' /\ DrainRunsMemoryOnly'
         /\ RunningHasWorker'
         /\ mem' \in [TaskIds -> Task \cup {NoTask}]
         /\ disk' \in [TaskIds -> Task \cup {NoTask}]
         /\ lost' \in 0..MaxLostWrites
         /\ reopened' \subseteq TaskIds
<1> USE NoTaskAssumption
<1>1. TypeOK /\ Exists(t)
  BY DEF IInv, ThreadsHoldTasks, WorkingPcs, Exists
<1>2. /\ QueueInv'
      /\ \A u \in TaskIds \ {t} : mem'[u] = mem[u]
      /\ mem'[t] \in Task /\ mem'[t].status = "running"
      /\ mem'[t].web = mem[t].web /\ mem'[t].needsPerm = mem[t].needsPerm
      /\ mem' \in [TaskIds -> Task \cup {NoTask}]
      /\ disk' \in [TaskIds -> Task \cup {NoTask}]
      /\ lost' \in 0..MaxLostWrites
      /\ reopened' \subseteq TaskIds
      /\ \A u \in TaskIds : mem[u] # NoTask => mem'[u] # NoTask
  BY <1>1, SetStatusKeepsQueue
<1>3. ThreadsHoldTasks'
  BY <1>1, <1>2 DEF IInv, ThreadsHoldTasks, TypeOK, WorkingPcs, HoldsPcs
<1>4. WebOnlyWithPermission'
  BY DEF IInv, WebOnlyWithPermission
<1>5. DrainRunsMemoryOnly'
  <2> SUFFICES ASSUME NEW x \in Threads, pc'[x] \in {"drainClaim", "drainRun", "drainOutcome"}
               PROVE  Exists(cur[x])' /\ ~mem'[cur'[x]].web /\ ~mem'[cur'[x]].needsPerm
    BY DEF DrainRunsMemoryOnly
  <2>1. pc[x] \in {"drainClaim", "drainRun", "drainOutcome"}
    BY <1>1 DEF TypeOK
  <2>2. cur[x] \in TaskIds /\ Exists(cur[x]) /\ ~mem[cur[x]].web /\ ~mem[cur[x]].needsPerm
    BY <2>1 DEF IInv, DrainRunsMemoryOnly, ThreadsHoldTasks, WorkingPcs, HoldsPcs
  <2> QED BY <1>2, <2>2 DEF Exists
<1>6. RunningHasWorker'
  <2> SUFFICES ASSUME NEW u \in TaskIds, mem'[u] # NoTask, mem'[u].status = "running",
                      u \notin orphaned
               PROVE  \E x \in Threads : Holds(x, u)'
    BY DEF RunningHasWorker, Exists
  <2>1. CASE u = t
    BY <1>1, <2>1 DEF Holds, HoldsPcs, TypeOK
  <2>2. CASE u # t
    <3>1. PICK x \in Threads : Holds(x, u)
      BY <1>2, <2>2 DEF IInv, RunningHasWorker, Exists
    <3> QED BY <1>1, <3>1 DEF Holds, HoldsPcs, TypeOK
  <2> QED BY <2>1, <2>2
<1> QED BY <1>2, <1>3, <1>4, <1>5, <1>6

\* The same after a step of no thread: tasks are added or changed, none of them
\* to "running" and none to want the web or a permission it did not want before.
LEMMA RequestKeepsThreads ==
  ASSUME IInv, UNCHANGED locals, orphaned' = orphaned, approved \subseteq approved',
         \A u \in TaskIds : mem[u] # NoTask =>
           /\ mem'[u] # NoTask /\ mem'[u].web = mem[u].web
           /\ mem'[u].needsPerm => mem[u].needsPerm,
         \A u \in TaskIds : mem'[u] # NoTask /\ mem'[u].status = "running" =>
           mem[u] # NoTask /\ mem[u].status = "running"
  PROVE  ThreadsHoldTasks' /\ WebOnlyWithPermission' /\ DrainRunsMemoryOnly'
         /\ RunningHasWorker'
<1>1. ThreadsHoldTasks'
  BY DEF IInv, locals, ThreadsHoldTasks, TypeOK, WorkingPcs, HoldsPcs
<1>2. WebOnlyWithPermission'
  BY DEF IInv, locals, WebOnlyWithPermission
<1>3. DrainRunsMemoryOnly'
  <2> SUFFICES ASSUME NEW x \in Threads, pc[x] \in {"drainClaim", "drainRun", "drainOutcome"}
               PROVE  mem'[cur[x]] # NoTask /\ ~mem'[cur[x]].web /\ ~mem'[cur[x]].needsPerm
    BY DEF DrainRunsMemoryOnly, Exists, locals
  <2>1. cur[x] \in TaskIds /\ mem[cur[x]] # NoTask /\ ~mem[cur[x]].web
        /\ ~mem[cur[x]].needsPerm
    BY DEF IInv, DrainRunsMemoryOnly, ThreadsHoldTasks, WorkingPcs, HoldsPcs, Exists
  <2> QED BY <2>1
<1>4. RunningHasWorker'
  BY DEF IInv, locals, RunningHasWorker, Exists, Holds
<1> QED BY <1>1, <1>2, <1>3, <1>4

\* A step that leaves the queue alone leaves its invariant alone.
LEMMA QueueUntouched ==
  ASSUME QueueInv, UNCHANGED <<mem, disk, filed, approved, reopened>>
  PROVE  QueueInv'
BY DEF QueueInv, DiskFollowsMem, PermissionRecorded, DuplicatesOnlyByReopening, Pending,
       IsOpen, Exists

-----------------------------------------------------------------------------
LEMMA CreateStep ==
  ASSUME IInv, NEW topic \in Topics, NEW web \in BOOLEAN, Create(topic, web)
  PROVE  IInv'
<1> USE NoTaskAssumption, NumbersAssumption, AutonomousWebAssumption
<1>1. TypeOK /\ QueueInv
  BY DEF IInv, QueueInv
<1>2. CASE Existing(topic) # {}
  <2>1. PICK t \in Existing(topic) : Write(t, mem[t])
    BY <1>2 DEF Create
  <2>2. t \in TaskIds /\ mem[t] # NoTask
    BY <2>1 DEF Existing, Pending, IsOpen, Exists
  <2>3. mem' = mem /\ (disk' = disk \/ disk' = [disk EXCEPT ![t] = mem[t]])
        /\ lost' \in 0..MaxLostWrites
    BY <1>1, <2>1, <2>2 DEF Write, TypeOK
  <2>4. TypeOK'
    BY <1>1, <1>2, <2>2, <2>3 DEF TypeOK, Create, locals
  <2>5. QueueInv'
    BY <1>1, <1>2, <2>2, <2>3
    DEF TypeOK, Create, QueueInv, DiskFollowsMem, PermissionRecorded,
        DuplicatesOnlyByReopening, Pending, IsOpen, Exists
  <2>6. ThreadsHoldTasks' /\ WebOnlyWithPermission' /\ DrainRunsMemoryOnly'
        /\ RunningHasWorker'
    <3>1. UNCHANGED locals /\ orphaned' = orphaned /\ approved' = approved
      BY DEF Create
    <3> QED BY <2>3, <3>1, RequestKeepsThreads
  <2> QED BY <2>4, <2>5, <2>6 DEF IInv, QueueInv
<1>3. CASE Existing(topic) = {}
  <2> DEFINE needsPerm == web /\ ~AutonomousWeb
             rec == [topic |-> topic, web |-> web, needsPerm |-> needsPerm,
                     status |-> IF needsPerm THEN "blocked" ELSE "pending"]
  <2>1. PICK t \in TaskIds \ filed : Write(t, rec) /\ filed' = filed \cup {t}
    BY <1>3 DEF Create
  <2>2. rec \in Task /\ rec.topic = topic /\ rec.web = web
        /\ (rec.web /\ ~rec.needsPerm => AutonomousWeb) /\ rec.status # "running"
    BY DEF Task
  <2> HIDE DEF rec
  <2>3. /\ mem' = [mem EXCEPT ![t] = rec] 
        /\ disk' = disk \/ disk' = [disk EXCEPT ![t] = rec]
        /\ lost' \in 0..MaxLostWrites
        /\ mem[t] = NoTask /\ disk[t] = NoTask
    BY <1>1, <2>1 DEF Write, TypeOK, QueueInv, DiskFollowsMem
  <2>4. TypeOK'
    BY <1>1, <2>1, <2>2, <2>3 DEF TypeOK, Create, locals
  <2>5. QueueInv'
    <3>1. DiskFollowsMem' /\ PermissionRecorded'
      BY <1>1, <2>1, <2>2, <2>3
      DEF TypeOK, Create, QueueInv, DiskFollowsMem, PermissionRecorded
    <3>2. DuplicatesOnlyByReopening'
      <4> SUFFICES ASSUME NEW t1 \in Pending', NEW t2 \in Pending', t1 # t2,
                          mem'[t1].topic = mem'[t2].topic
                   PROVE  t1 \in reopened \/ t2 \in reopened
        BY DEF DuplicatesOnlyByReopening, Create
      <4>1. \A u \in Pending' \ {t} : u \in Pending /\ mem'[u] = mem[u]
        BY <1>1, <2>3 DEF Pending, IsOpen, Exists, TypeOK
      <4>2. \A u \in Pending : mem[u].topic # topic
        BY <1>3 DEF Existing
      <4>3. t1 # t /\ t2 # t
        BY <1>1, <2>2, <2>3, <4>1, <4>2 DEF TypeOK
      <4> QED BY <1>1, <4>1, <4>3 DEF QueueInv, DuplicatesOnlyByReopening
    <3> QED BY <3>1, <3>2 DEF QueueInv
  <2>6. ThreadsHoldTasks' /\ WebOnlyWithPermission' /\ DrainRunsMemoryOnly'
        /\ RunningHasWorker'
    <3>1. UNCHANGED locals /\ orphaned' = orphaned /\ approved' = approved
      BY DEF Create
    <3>2. \A u \in TaskIds : mem'[u] = IF u = t THEN rec ELSE mem[u]
      BY <1>1, <2>3 DEF TypeOK
    <3> QED BY <2>2, <2>3, <3>1, <3>2, RequestKeepsThreads
  <2> QED BY <2>4, <2>5, <2>6 DEF IInv, QueueInv
<1> QED BY <1>2, <1>3

LEMMA ApproveWebStep ==
  ASSUME IInv, NEW t \in TaskIds, ApproveWeb(t)
  PROVE  IInv'
<1> USE NoTaskAssumption, NumbersAssumption
<1> DEFINE rec == [mem[t] EXCEPT !.needsPerm = FALSE, !.status = "pending"]
<1>1. TypeOK /\ QueueInv /\ Exists(t) /\ mem[t] \in Task
  BY DEF IInv, QueueInv, ApproveWeb, Exists, TypeOK
<1>2. rec \in Task /\ rec.topic = mem[t].topic /\ rec.web = mem[t].web
      /\ ~rec.needsPerm /\ rec.status # "running"
  BY <1>1 DEF Task
<1>3. SetTask(t, rec) /\ approved' = approved \cup {t} /\ filed' = filed
      /\ UNCHANGED locals /\ orphaned' = orphaned
  BY DEF ApproveWeb
<1> HIDE DEF rec
<1>4. /\ QueueInv'
      /\ mem' = [mem EXCEPT ![t] = rec]
      /\ mem' \in [TaskIds -> Task \cup {NoTask}]
      /\ disk' \in [TaskIds -> Task \cup {NoTask}]
      /\ lost' \in 0..MaxLostWrites
      /\ reopened' \subseteq TaskIds
      /\ \A u \in TaskIds : mem[u] # NoTask => mem'[u] # NoTask
  BY <1>1, <1>2, <1>3, SetTaskKeepsQueue
<1>5. \A u \in TaskIds : mem'[u] = IF u = t THEN rec ELSE mem[u]
  BY <1>1, <1>4 DEF TypeOK
<1>6. TypeOK'
  BY <1>1, <1>3, <1>4 DEF TypeOK, ApproveWeb, OperatorRequest, locals
<1>7. ThreadsHoldTasks' /\ WebOnlyWithPermission' /\ DrainRunsMemoryOnly'
      /\ RunningHasWorker'
  BY <1>1, <1>2, <1>3, <1>4, <1>5, RequestKeepsThreads DEF Exists
<1> QED BY <1>4, <1>6, <1>7 DEF IInv, QueueInv

LEMMA CancelStep ==
  ASSUME IInv, NEW t \in TaskIds, Cancel(t)
  PROVE  IInv'
<1> USE NoTaskAssumption, NumbersAssumption
<1>1. TypeOK /\ QueueInv /\ Exists(t) /\ SetStatus(t, "cancelled")
      /\ approved' = approved /\ filed' = filed /\ UNCHANGED locals /\ orphaned' = orphaned
  BY DEF IInv, QueueInv, Cancel
<1>2. /\ QueueInv'
      /\ \A u \in TaskIds \ {t} : mem'[u] = mem[u]
      /\ mem'[t] \in Task /\ mem'[t].status = "cancelled"
      /\ mem'[t].web = mem[t].web /\ mem'[t].needsPerm = mem[t].needsPerm
      /\ mem' \in [TaskIds -> Task \cup {NoTask}]
      /\ disk' \in [TaskIds -> Task \cup {NoTask}]
      /\ lost' \in 0..MaxLostWrites
      /\ reopened' \subseteq TaskIds
      /\ \A u \in TaskIds : mem[u] # NoTask => mem'[u] # NoTask
  BY <1>1, SetStatusKeepsQueue
<1>3. TypeOK'
  BY <1>1, <1>2 DEF TypeOK, Cancel, OperatorRequest, locals
<1>4. ThreadsHoldTasks' /\ WebOnlyWithPermission' /\ DrainRunsMemoryOnly'
      /\ RunningHasWorker'
  BY <1>1, <1>2, RequestKeepsThreads DEF Exists
<1> QED BY <1>2, <1>3, <1>4 DEF IInv, QueueInv

-----------------------------------------------------------------------------
LEMMA ResolveStartStep ==
  ASSUME IInv, NEW th \in Threads, NEW topic \in Topics, ResolveStart(th, topic)
  PROVE  IInv'
<1>1. TypeOK'
  BY NumbersAssumption DEF IInv, TypeOK, ResolveStart, OperatorRequest, Existing, Pending, Pcs, queue
<1>2. QueueInv'
  BY QueueUntouched DEF IInv, QueueInv, ResolveStart, queue
<1>3. ThreadsHoldTasks' /\ WebOnlyWithPermission' /\ DrainRunsMemoryOnly'
  BY DEF IInv, TypeOK, ResolveStart, queue, Existing, Pending, IsOpen, Exists, WorkingPcs,
         HoldsPcs, ThreadsHoldTasks, WebOnlyWithPermission, DrainRunsMemoryOnly
<1>4. RunningHasWorker'
  BY DEF IInv, TypeOK, ResolveStart, queue, RunningHasWorker, Holds, HoldsPcs, Exists
<1> QED BY <1>1, <1>2, <1>3, <1>4 DEF IInv, QueueInv

LEMMA ResolveOneStep ==
  ASSUME IInv, NEW th \in Threads, NEW t \in TaskIds, ResolveOne(th, t)
  PROVE  IInv'
<1> USE NoTaskAssumption, NumbersAssumption
<1>1. TypeOK /\ QueueInv /\ Exists(t)
  BY DEF IInv, QueueInv, ResolveOne, ThreadsHoldTasks, Exists
<1>2. /\ SetStatus(t, "cancelled") /\ filed' = filed /\ approved' = approved
      /\ orphaned' = orphaned
      /\ pc' = [pc EXCEPT ![th] = IF todo[th] = {t} THEN "idle" ELSE "resolve"]
      /\ todo' = [todo EXCEPT ![th] = @ \ {t}] /\ cur' = cur /\ ran' = ran
      /\ usesWeb' = usesWeb /\ fails' = fails /\ ops' = ops /\ restarts' = restarts
      /\ pc[th] = "resolve"
  BY DEF ResolveOne
<1>3. /\ QueueInv'
      /\ ThreadsHoldTasks' /\ WebOnlyWithPermission' /\ DrainRunsMemoryOnly'
      /\ RunningHasWorker'
      /\ mem' \in [TaskIds -> Task \cup {NoTask}]
      /\ disk' \in [TaskIds -> Task \cup {NoTask}]
      /\ lost' \in 0..MaxLostWrites
      /\ reopened' \subseteq TaskIds
  <2>1. ~usesWeb'[th] /\ pc'[th] \notin WorkingPcs /\ todo'[th] \subseteq todo[th]
        /\ pc[th] \notin HoldsPcs
    BY <1>1, <1>2 DEF TypeOK, IInv, ThreadsHoldTasks, WorkingPcs, HoldsPcs
  <2>2. \A x \in Threads \ {th} :
           pc'[x] = pc[x] /\ cur'[x] = cur[x] /\ todo'[x] = todo[x]
             /\ ran'[x] = ran[x] /\ usesWeb'[x] = usesWeb[x]
    BY <1>1, <1>2 DEF TypeOK
  <2> QED BY <1>1, <1>2, <2>1, <2>2, SettleKeepsThreads
<1>4. TypeOK'
  BY <1>1, <1>2, <1>3 DEF TypeOK, Pcs
<1> QED BY <1>3, <1>4 DEF IInv, QueueInv

LEMMA DrainStartStep ==
  ASSUME IInv, NEW th \in Threads, DrainStart(th)
  PROVE  IInv'
<1>1. TypeOK'
  BY DEF IInv, TypeOK, DrainStart, Pending, Pcs, queue
<1>2. QueueInv'
  BY QueueUntouched DEF IInv, QueueInv, DrainStart, queue
<1>3. ThreadsHoldTasks' /\ WebOnlyWithPermission' /\ DrainRunsMemoryOnly'
  BY DEF IInv, TypeOK, DrainStart, queue, Pending, IsOpen, Exists, WorkingPcs,
         HoldsPcs, ThreadsHoldTasks, WebOnlyWithPermission, DrainRunsMemoryOnly
<1>4. RunningHasWorker'
  BY DEF IInv, TypeOK, DrainStart, queue, RunningHasWorker, Holds, HoldsPcs, Exists
<1> QED BY <1>1, <1>2, <1>3, <1>4 DEF IInv, QueueInv

LEMMA DrainPickStep ==
  ASSUME IInv, NEW th \in Threads, NEW t \in TaskIds, DrainPick(th, t)
  PROVE  IInv'
<1>1. TypeOK'
  BY DEF IInv, TypeOK, DrainPick, Pcs, queue
<1>2. QueueInv'
  BY QueueUntouched DEF IInv, QueueInv, DrainPick, queue
<1>3. ThreadsHoldTasks'
  BY DEF IInv, TypeOK, DrainPick, queue, WorkingPcs, HoldsPcs, ThreadsHoldTasks
<1>4. WebOnlyWithPermission'
  BY DEF IInv, TypeOK, DrainPick, queue, ThreadsHoldTasks, WebOnlyWithPermission
<1>5. DrainRunsMemoryOnly'
  BY DEF IInv, TypeOK, DrainPick, queue, DrainRunsMemoryOnly, ThreadsHoldTasks, Exists,
         IsMemoryOnly
<1>6. RunningHasWorker'
  BY DEF IInv, TypeOK, DrainPick, queue, RunningHasWorker, Holds, HoldsPcs, Exists
<1> QED BY <1>1, <1>2, <1>3, <1>4, <1>5, <1>6 DEF IInv, QueueInv

LEMMA DrainEndStep ==
  ASSUME IInv, NEW th \in Threads, DrainEnd(th)
  PROVE  IInv'
<1>1. TypeOK'
  BY NumbersAssumption DEF IInv, TypeOK, DrainEnd, Pcs, queue
<1>2. QueueInv'
  BY QueueUntouched DEF IInv, QueueInv, DrainEnd, queue
<1>3. ThreadsHoldTasks' /\ WebOnlyWithPermission' /\ DrainRunsMemoryOnly'
  BY DEF IInv, TypeOK, DrainEnd, queue, Exists, WorkingPcs,
         HoldsPcs, ThreadsHoldTasks, WebOnlyWithPermission, DrainRunsMemoryOnly
<1>4. RunningHasWorker'
  BY DEF IInv, TypeOK, DrainEnd, queue, RunningHasWorker, Holds, HoldsPcs, Exists
<1> QED BY <1>1, <1>2, <1>3, <1>4 DEF IInv, QueueInv

LEMMA DrainClaimStep ==
  ASSUME IInv, NEW th \in Threads, DrainClaim(th)
  PROVE  IInv'
<1> USE NoTaskAssumption, NumbersAssumption
<1>1. TypeOK /\ QueueInv /\ cur[th] \in TaskIds /\ ~usesWeb[th]
  BY DEF IInv, QueueInv, DrainClaim, ThreadsHoldTasks, WorkingPcs
<1>2. /\ SetStatus(cur[th], "running") /\ filed' = filed /\ approved' = approved
      /\ orphaned' = orphaned /\ pc[th] = "drainClaim"
      /\ pc' = [pc EXCEPT ![th] = IF @ = "drainClaim" THEN "drainRun" ELSE "taskCall"]
      /\ UNCHANGED <<cur, todo, ran, usesWeb>>
      /\ fails' = fails /\ ops' = ops /\ restarts' = restarts
  BY <1>1 DEF DrainClaim, TypeOK
<1>3. /\ QueueInv'
      /\ ThreadsHoldTasks' /\ WebOnlyWithPermission' /\ DrainRunsMemoryOnly'
      /\ RunningHasWorker'
      /\ mem' \in [TaskIds -> Task \cup {NoTask}]
      /\ disk' \in [TaskIds -> Task \cup {NoTask}]
      /\ lost' \in 0..MaxLostWrites
      /\ reopened' \subseteq TaskIds
  BY <1>1, <1>2, ClaimKeepsThreads
<1>4. TypeOK'
  BY <1>1, <1>2, <1>3 DEF TypeOK, Pcs, HoldsPcs
<1> QED BY <1>3, <1>4 DEF IInv, QueueInv

LEMMA RunTaskClaimStep ==
  ASSUME IInv, NEW th \in Threads, RunTaskClaim(th)
  PROVE  IInv'
<1> USE NoTaskAssumption, NumbersAssumption
<1>1. TypeOK /\ QueueInv /\ cur[th] \in TaskIds
  BY DEF IInv, QueueInv, RunTaskClaim, ThreadsHoldTasks, WorkingPcs
<1>2. /\ SetStatus(cur[th], "running") /\ filed' = filed /\ approved' = approved
      /\ orphaned' = orphaned /\ pc[th] = "taskClaim"
      /\ pc' = [pc EXCEPT ![th] = IF @ = "drainClaim" THEN "drainRun" ELSE "taskCall"]
      /\ UNCHANGED <<cur, todo, ran, usesWeb>>
      /\ fails' = fails /\ ops' = ops /\ restarts' = restarts
  BY <1>1 DEF RunTaskClaim, TypeOK
<1>3. /\ QueueInv'
      /\ ThreadsHoldTasks' /\ WebOnlyWithPermission' /\ DrainRunsMemoryOnly'
      /\ RunningHasWorker'
      /\ mem' \in [TaskIds -> Task \cup {NoTask}]
      /\ disk' \in [TaskIds -> Task \cup {NoTask}]
      /\ lost' \in 0..MaxLostWrites
      /\ reopened' \subseteq TaskIds
  BY <1>1, <1>2, ClaimKeepsThreads
<1>4. TypeOK'
  BY <1>1, <1>2, <1>3 DEF TypeOK, Pcs, HoldsPcs
<1> QED BY <1>3, <1>4 DEF IInv, QueueInv

\* A thread's drain has settled the task it held and goes on with the next.
LEMMA DrainSettles ==
  ASSUME IInv, NEW th \in Threads, pc[th] \in {"drainRun", "drainOutcome"},
         NEW s \in Statuses \ {"running"}, SetStatus(cur[th], s), NextInDrain(th),
         fails' \in [Topics -> 0..FailLimit],
         UNCHANGED <<filed, todo, usesWeb, approved, orphaned, ops, restarts>>
  PROVE  IInv'
<1> USE NoTaskAssumption, NumbersAssumption
<1>1. /\ TypeOK /\ QueueInv /\ cur[th] \in TaskIds /\ Exists(cur[th]) /\ ~usesWeb[th]
      /\ ran[th] < MaxTasksPerTick
  BY DEF IInv, QueueInv, ThreadsHoldTasks, WorkingPcs, HoldsPcs, Exists
<1>2. /\ pc' = [pc EXCEPT ![th] = "drain"]
      /\ ran' = [ran EXCEPT ![th] = @ + 1]
      /\ cur' = [cur EXCEPT ![th] = NoTask]
  BY DEF NextInDrain
<1>3. /\ QueueInv'
      /\ ThreadsHoldTasks' /\ WebOnlyWithPermission' /\ DrainRunsMemoryOnly'
      /\ RunningHasWorker'
      /\ mem' \in [TaskIds -> Task \cup {NoTask}]
      /\ disk' \in [TaskIds -> Task \cup {NoTask}]
      /\ lost' \in 0..MaxLostWrites
      /\ reopened' \subseteq TaskIds
  <2>1. ~usesWeb'[th] /\ pc'[th] \notin WorkingPcs /\ todo'[th] \subseteq todo[th]
    BY <1>1, <1>2 DEF TypeOK, WorkingPcs, HoldsPcs
  <2>2. \A x \in Threads \ {th} :
           pc'[x] = pc[x] /\ cur'[x] = cur[x] /\ todo'[x] = todo[x]
             /\ ran'[x] = ran[x] /\ usesWeb'[x] = usesWeb[x]
    BY <1>1, <1>2 DEF TypeOK
  <2> QED BY <1>1, <2>1, <2>2, SettleKeepsThreads
<1>4. TypeOK'
  BY <1>1, <1>2, <1>3 DEF TypeOK, Pcs
<1> QED BY <1>3, <1>4 DEF IInv, QueueInv

LEMMA DrainOutcomeStep ==
  ASSUME IInv, NEW th \in Threads, NEW o \in Outcomes, DrainOutcome(th, o)
  PROVE  IInv'
<1> USE NumbersAssumption
<1>1. fails' \in [Topics -> 0..FailLimit]
  <2>1. mem[cur[th]] \in Task
    BY DEF IInv, TypeOK, DrainOutcome, ThreadsHoldTasks, WorkingPcs, HoldsPcs
  <2>2. mem[cur[th]].topic \in Topics
    BY <2>1 DEF Task
  <2> QED BY <2>2 DEF IInv, TypeOK, DrainOutcome
<1>2. CASE o = "error"
  <2>1. TypeOK'
    BY <1>1, <1>2 DEF IInv, TypeOK, DrainOutcome, Pcs, HoldsPcs, queue
  <2>2. QueueInv'
    BY <1>2, QueueUntouched DEF IInv, QueueInv, DrainOutcome, queue
  <2>3. ThreadsHoldTasks' /\ WebOnlyWithPermission' /\ DrainRunsMemoryOnly'
    BY <1>2 DEF IInv, TypeOK, DrainOutcome, queue, Exists, WorkingPcs, HoldsPcs,
                ThreadsHoldTasks, WebOnlyWithPermission, DrainRunsMemoryOnly
  <2>4. RunningHasWorker'
    BY <1>2 DEF IInv, TypeOK, DrainOutcome, queue, RunningHasWorker, Holds, HoldsPcs, Exists
  <2> QED BY <2>1, <2>2, <2>3, <2>4 DEF IInv, QueueInv
<1>3. CASE o # "error"
  <2>1. /\ pc[th] \in {"drainRun", "drainOutcome"} /\ SetStatus(cur[th], "done")
        /\ NextInDrain(th)
        /\ UNCHANGED <<filed, todo, usesWeb, approved, orphaned, ops, restarts>>
    BY <1>3 DEF DrainOutcome
  <2> QED BY <1>1, <2>1, DrainSettles
<1> QED BY <1>2, <1>3

LEMMA DrainFailedStep ==
  ASSUME IInv, NEW th \in Threads, DrainFailed(th)
  PROVE  IInv'
<1> DEFINE s == IF fails[mem[cur[th]].topic] >= FailLimit THEN "blocked" ELSE "failed"
<1>1. /\ pc[th] \in {"drainRun", "drainOutcome"} /\ SetStatus(cur[th], s)
      /\ NextInDrain(th) /\ fails' = fails
      /\ UNCHANGED <<filed, todo, usesWeb, approved, orphaned, ops, restarts>>
  BY DEF DrainFailed
<1>2. s \in Statuses \ {"running"} /\ fails \in [Topics -> 0..FailLimit]
  BY DEF IInv, TypeOK
<1> QED BY <1>1, <1>2, DrainSettles

LEMMA RunTaskCheckStep ==
  ASSUME IInv, NEW th \in Threads, NEW t \in TaskIds, RunTaskCheck(th, t)
  PROVE  IInv'
<1>1. TypeOK'
  BY NumbersAssumption DEF IInv, TypeOK, RunTaskCheck, OperatorRequest, Pcs, queue
<1>2. QueueInv'
  BY QueueUntouched DEF IInv, QueueInv, RunTaskCheck, queue
<1>3. ThreadsHoldTasks' /\ WebOnlyWithPermission' /\ DrainRunsMemoryOnly'
  BY DEF IInv, TypeOK, RunTaskCheck, queue, Exists, WorkingPcs, HoldsPcs,
         ThreadsHoldTasks, WebOnlyWithPermission, DrainRunsMemoryOnly
<1>4. RunningHasWorker'
  BY DEF IInv, TypeOK, RunTaskCheck, queue, RunningHasWorker, Holds, HoldsPcs, Exists
<1> QED BY <1>1, <1>2, <1>3, <1>4 DEF IInv, QueueInv

\* The one step that starts to use the web.
LEMMA RunTaskCallStep ==
  ASSUME IInv, NEW th \in Threads, RunTaskCall(th)
  PROVE  IInv'
<1>1. cur[th] \in TaskIds /\ mem[cur[th]] # NoTask /\ mem[cur[th]] \in Task
  BY DEF IInv, TypeOK, RunTaskCall, ThreadsHoldTasks, WorkingPcs, HoldsPcs
<1>2. TypeOK'
  BY <1>1 DEF IInv, TypeOK, RunTaskCall, AllowWeb, Pcs, HoldsPcs, queue, Task
<1>3. QueueInv'
  BY QueueUntouched DEF IInv, QueueInv, RunTaskCall, queue
<1>4. ThreadsHoldTasks' /\ DrainRunsMemoryOnly'
  BY DEF IInv, TypeOK, RunTaskCall, queue, Exists, WorkingPcs, HoldsPcs,
         ThreadsHoldTasks, DrainRunsMemoryOnly
<1>5. WebOnlyWithPermission'
  BY <1>1 DEF IInv, TypeOK, RunTaskCall, AllowWeb, PermissionRecorded, WebOnlyWithPermission
<1>6. RunningHasWorker'
  BY DEF IInv, TypeOK, RunTaskCall, queue, RunningHasWorker, Holds, HoldsPcs, Exists
<1> QED BY <1>2, <1>3, <1>4, <1>5, <1>6 DEF IInv, QueueInv

LEMMA RunTaskFinishStep ==
  ASSUME IInv, NEW th \in Threads, NEW ok \in BOOLEAN, RunTaskFinish(th, ok)
  PROVE  IInv'
<1> USE NoTaskAssumption, NumbersAssumption
<1> DEFINE s == IF ok THEN "done" ELSE "failed"
<1>1. /\ TypeOK /\ QueueInv /\ cur[th] \in TaskIds /\ Exists(cur[th])
  BY DEF IInv, QueueInv, RunTaskFinish, ThreadsHoldTasks, WorkingPcs, HoldsPcs, Exists
<1>2. /\ s \in Statuses \ {"running"} /\ SetStatus(cur[th], s)
      /\ pc' = [pc EXCEPT ![th] = "idle"]
      /\ cur' = [cur EXCEPT ![th] = NoTask]
      /\ usesWeb' = [usesWeb EXCEPT ![th] = FALSE]
      /\ UNCHANGED <<filed, fails, todo, ran, approved, orphaned, ops, restarts>>
  BY DEF RunTaskFinish
<1> HIDE DEF s
<1>3. /\ QueueInv'
      /\ ThreadsHoldTasks' /\ WebOnlyWithPermission' /\ DrainRunsMemoryOnly'
      /\ RunningHasWorker'
      /\ mem' \in [TaskIds -> Task \cup {NoTask}]
      /\ disk' \in [TaskIds -> Task \cup {NoTask}]
      /\ lost' \in 0..MaxLostWrites
      /\ reopened' \subseteq TaskIds
  <2>1. ~usesWeb'[th] /\ pc'[th] \notin WorkingPcs /\ todo'[th] \subseteq todo[th]
    BY <1>1, <1>2 DEF TypeOK, WorkingPcs, HoldsPcs
  <2>2. \A x \in Threads \ {th} :
           pc'[x] = pc[x] /\ cur'[x] = cur[x] /\ todo'[x] = todo[x]
             /\ ran'[x] = ran[x] /\ usesWeb'[x] = usesWeb[x]
    BY <1>1, <1>2 DEF TypeOK
  <2> QED BY <1>1, <1>2, <2>1, <2>2, SettleKeepsThreads
<1>4. TypeOK'
  BY <1>1, <1>2, <1>3 DEF TypeOK, Pcs
<1> QED BY <1>3, <1>4 DEF IInv, QueueInv

\* What a restart brings back is a record of the file: an open one whose
\* closing was lost counts as reopened, a running one as orphaned.
LEMMA RestartStep ==
  ASSUME IInv, Restart
  PROVE  IInv'
<1> USE NoTaskAssumption, NumbersAssumption
<1>1. TypeOK /\ TypeOK'
  BY DEF IInv, TypeOK, Restart, Pcs
<1>2. DiskFollowsMem' /\ PermissionRecorded'
  BY DEF IInv, DiskFollowsMem, PermissionRecorded, Restart
<1>3. DuplicatesOnlyByReopening'
  <2> SUFFICES ASSUME NEW t1 \in Pending', NEW t2 \in Pending', t1 # t2,
                      disk[t1].topic = disk[t2].topic, t1 \notin reopened', t2 \notin reopened'
               PROVE  FALSE
    BY DEF DuplicatesOnlyByReopening, Restart
  <2>1. \A u \in Pending' : u \in TaskIds /\ disk[u] # NoTask /\ disk[u].status \in OpenStatuses
    BY DEF Pending, IsOpen, Exists, Restart
  <2>2. IsOpen(t1) /\ IsOpen(t2) /\ t1 \notin reopened /\ t2 \notin reopened
    BY <2>1 DEF Restart
  <2>3. mem[t1].topic = mem[t2].topic
    BY <2>1 DEF IInv, DiskFollowsMem
  <2> QED BY <2>1, <2>2, <2>3 DEF IInv, DuplicatesOnlyByReopening, Pending
<1>4. ThreadsHoldTasks' /\ WebOnlyWithPermission' /\ DrainRunsMemoryOnly'
  BY DEF ThreadsHoldTasks, WebOnlyWithPermission, DrainRunsMemoryOnly, Restart, WorkingPcs,
         HoldsPcs
<1>5. RunningHasWorker'
  BY DEF RunningHasWorker, Restart, Exists
<1> QED BY <1>1, <1>2, <1>3, <1>4, <1>5 DEF IInv

\* IInv is inductive.
THEOREM NextKeepsIInv == IInv /\ [Next]_vars => IInv'
<1> SUFFICES ASSUME IInv, [Next]_vars PROVE IInv'
  OBVIOUS
<1>1. CASE \E p \in Topics, web \in BOOLEAN : Create(p, web)
  BY <1>1, CreateStep
<1>2. CASE \E t \in TaskIds : ApproveWeb(t) \/ Cancel(t)
  BY <1>2, ApproveWebStep, CancelStep
<1>3. CASE \E th \in Threads : Drain(th)
  BY <1>3, DrainStartStep, DrainPickStep, DrainEndStep, DrainClaimStep, DrainOutcomeStep,
     DrainFailedStep DEF Drain
<1>4. CASE \E th \in HttpThreads : RunTask(th) \/ Resolve(th)
  BY <1>4, RunTaskCheckStep, RunTaskClaimStep, RunTaskCallStep, RunTaskFinishStep,
     ResolveStartStep, ResolveOneStep DEF RunTask, Resolve, Threads
<1>5. CASE Restart
  BY <1>5, RestartStep
<1>6. CASE UNCHANGED vars
  BY <1>6 DEF vars, IInv, TypeOK, DiskFollowsMem, PermissionRecorded, ThreadsHoldTasks,
     WebOnlyWithPermission, DrainRunsMemoryOnly, DuplicatesOnlyByReopening, RunningHasWorker,
     Exists, IsOpen, Pending, Holds
<1> QED BY <1>1, <1>2, <1>3, <1>4, <1>5, <1>6 DEF Next

\* Type correctness of the queue and its threads (research_tasks.py, the drain
\* and the task endpoints), for any topics, threads and bounds.
THEOREM TypeCorrect == Spec => []TypeOK
<1>1. IInv => TypeOK
  BY DEF IInv
<1> QED BY InitIInv, NextKeepsIInv, <1>1, PTL DEF Spec

\* No research call uses the web for a task nobody approved, whatever the
\* threads, the operator, lost appends and restarts do (research_tasks.py:6-8,
\* the allow_web of run-task).
THEOREM WebNeedsPermission == Spec => []WebOnlyWithPermission
<1>1. IInv => WebOnlyWithPermission
  BY DEF IInv
<1> QED BY InitIInv, NextKeepsIInv, <1>1, PTL DEF Spec

\* The drain never runs a web task, though it checks and claims in two steps
\* (lifeloop.drain_tasks).
THEOREM DrainIsMemoryOnly == Spec => []DrainRunsMemoryOnly
<1>1. IInv => DrainRunsMemoryOnly
  BY DEF IInv
<1> QED BY InitIInv, NextKeepsIInv, <1>1, PTL DEF Spec

\* Two open tasks on one topic always come from a reopening, never from
\* ResearchTaskQueue.create.
THEOREM CreateIsIdempotent == Spec => []DuplicatesOnlyByReopening
<1>1. IInv => DuplicatesOnlyByReopening
  BY DEF IInv
<1> QED BY InitIInv, NextKeepsIInv, <1>1, PTL DEF Spec

\* A task is left "running" by a restart only, never by the threads that
\* settle it (drain_tasks, lifeloop_run_task).
THEOREM RunningIsOwned == Spec => []RunningHasWorker
<1>1. IInv => RunningHasWorker
  BY DEF IInv
<1> QED BY InitIInv, NextKeepsIInv, <1>1, PTL DEF Spec
=============================================================================
