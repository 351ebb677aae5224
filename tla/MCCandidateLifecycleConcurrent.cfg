\* Two overlapping sessions; one source is enough; a crash that may tear a
\* line, or a load or append that fails.
SPECIFICATION Spec
CONSTANTS
  Ids = {i1, i2}
  None = None
  Monday = Monday
  Friday = Friday
  MondayNoon = MondayNoon
  user1 = user1
  user2 = user2
  web1 = web1
  web2 = web2
  canon = canon
  other = other
  Claims = {Monday, Friday}
  Opposition = "contradicts"
  Relation <- MCRelation
  Keys = {user1}
  ClassOf <- MCClassOf
  Workers = {w1, w2}
  CommitEvidence = 1
  Ageing = FALSE
  MaxOps = 1
  MaxCrashes = 1
  MaxFailures = 1
SYMMETRY Symmetry
CONSTRAINT OneFault
INVARIANTS ContradictionBlocksCommit ActiveAgree DisputeHasTwoSides
