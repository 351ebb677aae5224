\* Ticks, and a load or append that fails; a result that says DISPUTED contradicts.
SPECIFICATION FairSpec
CONSTANTS
  Ids = {i1, i2}
  None = None
  Monday = Monday
  Friday = Friday
  MondayNoon = MondayNoon
  user1 = user1
  user2 = user2
  web1 = web1
  web2 = web2
  canon = canon
  other = other
  Claims = {Monday}
  Opposition = "contradicts"
  Relation <- MCRelation
  Keys = {user1, user2}
  ClassOf <- MCClassOf
  Workers = {w1}
  CommitEvidence = 2
  Ageing = TRUE
  MaxOps = 1
  MaxCrashes = 0
  MaxFailures = 1
PROPERTIES ReadyIsDecided
