SPECIFICATION Spec
CONSTANTS
  Claims = {c1, c2}
  NoClaim = NoClaim
  Open = Open
  Hits <- MCHits
  MaxHits = 2
  MaxResults = 2
  AutoCommit = TRUE
  MinWebSources = 2
  RequireAudit = TRUE
CHECK_DEADLOCK FALSE
INVARIANTS
  FallsThrough
