SPECIFICATION MCSpec
CONSTANTS
  Trainers = {p1, p2, p3}
  NoLock = NoLock
  MaxStalls = 1
  MaxGuardRuns = 2
  Tickers = {daemon, route}
  None = None
  Launches = {l1, l2}
  Nobody = Nobody
  Topics = {a}
  Every = 2
  MaxEvents = 4
  MaxTicks = 3
  MaxHours = 1
  OnWindows = TRUE
  MaxCrashes = 2
  RestartPhase = TRUE
  MaxDeaths = 2
  MaxOutages = 2
CHECK_DEADLOCK FALSE
SYMMETRY MCSymmetry
INVARIANTS
  AloneUnlessExcused
  WriterIsVisible
  AskIsServed
  RepeatedFailureStops
  RestartReplaces
  RecallIsNoEcho
  SilenceIsNoPass
  LastingCrashFails
