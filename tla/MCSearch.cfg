SPECIFICATION MCSpec
CONSTANTS
  Claims = {c1, c2}
  NoClaim = NoClaim
  Open = Open
  Hits <- MCHits
  MaxHits = 2
  MaxResults = 2
  AutoCommit = TRUE
  MinWebSources = 2
  RequireAudit = TRUE
  Threads = {t1, t2}
  Values = {c1, c2}
  NoValue = NoClaim
  Threshold = 2
  MaxWeight = 2
  MaxOps = 4
  MaxCrashes = 1
CHECK_DEADLOCK FALSE
SYMMETRY Symmetry
INVARIANTS
  NoBleed
  IndependentIsSought
  PromotionEarned
  LedgerExact
PROPERTIES
  Promise
