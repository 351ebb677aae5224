\* Two trainers, one gateway thread; liveness wants no symmetry.
SPECIFICATION FairSpec
INVARIANTS MarkerHonest PartialIsExplained
PROPERTIES ReadEnds FlagEnds
CONSTANTS
  Writers = {w1, w2}
  Readers = {r1}
  NoPid = NoPid
  BatchItems = 2
  MaxBatches = 2
  MaxReads = 2
  MaxFailed = 1
  MaxStalls = 1
CHECK_DEADLOCK FALSE
