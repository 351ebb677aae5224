SPECIFICATION Spec
CONSTANTS
  Trainers = {p1, p2}
  NoLock = NoLock
  MaxStalls = 0
  MaxGuardRuns = 0
CHECK_DEADLOCK FALSE
INVARIANT OneWriter
