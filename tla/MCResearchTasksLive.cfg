CONSTANTS
  Topics = {p1}
  TaskIds = {t1, t2}
  NoTask = NoTask
  Daemon = {d1}
  HttpThreads = {h1}
  AutonomousWeb = FALSE
  MaxTasksPerTick = 1
  FailLimit = 2
  MaxOps = 2
  MaxLostWrites = 0
  MaxRestarts = 0
SPECIFICATION FairSpec
PROPERTIES
  PendingIsDrained
  RunningIsSettled
