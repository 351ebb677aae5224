\* One session at a time.
SPECIFICATION Spec
CONSTANTS
  Ids = {i1, i2}
  None = None
  Monday = Monday
  Friday = Friday
  MondayNoon = MondayNoon
  user1 = user1
  user2 = user2
  web1 = web1
  web2 = web2
  canon = canon
  other = other
  Claims = {Monday, Friday}
  Opposition = "contradicts"
  Relation <- MCRelation
  Keys = {user1, web1, web2}
  ClassOf <- MCClassOf
  Workers = {w1}
  CommitEvidence = 2
  Ageing = FALSE
  MaxOps = 1
  MaxCrashes = 0
  MaxFailures = 0
SYMMETRY Symmetry
INVARIANTS CommittedAgree
