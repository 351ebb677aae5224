SPECIFICATION Spec
INVARIANT SnapshotIsAnnounced
CONSTANTS
  Writers = {w1}
  Readers = {r1, r2}
  NoPid = NoPid
  BatchItems = 2
  MaxBatches = 1
  MaxReads = 3
  MaxFailed = 0
  MaxStalls = 0
CHECK_DEADLOCK FALSE
