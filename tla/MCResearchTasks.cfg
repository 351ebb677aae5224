CONSTANTS
  Topics = {p1}
  TaskIds = {t1, t2}
  NoTask = NoTask
  Daemon = {d1}
  HttpThreads = {h1}
  AutonomousWeb = FALSE
  MaxTasksPerTick = 1
  FailLimit = 2
  MaxOps = 2
  MaxLostWrites = 1
  MaxRestarts = 1
SYMMETRY Symmetry
SPECIFICATION Spec
INVARIANTS
  WebOnlyWithPermission
  DrainRunsMemoryOnly
  DuplicatesOnlyByReopening
  RunningHasWorker
