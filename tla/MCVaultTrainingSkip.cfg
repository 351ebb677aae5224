SPECIFICATION MCSpec
CONSTANTS
  Files = {n1, n2}
  t1 = t1
  t2 = t2
  t3 = t3
  a = a
  b = b
  Texts = {t1, t2, t3}
  Chunks = {a, b}
  ChunksOf <- MCChunksOf
  NoText = NoText
  NoFile = NoFile
  BatchSize = 2
  ProgressEvery = 2
  MaxEdits = 1
  MaxCrashes = 1
  MaxFailures = 1
  None = None
  StoredFacts <- MCFacts
  ContentOf <- MCContentOf
  SidOf <- MCSidOf
  TrustOf <- MCTrustOf
  AllowVerified = FALSE
  Threads = {h1, h2}
  MaxLog = 3
  MaxPasses = 2
  NKeys = 2
  NValues = 3
  Sources = {s1}
  M = 2
  MaxEvents = 3
  MaxNights = 3
  CourseKeys = 8
  CourseValues = 6
  CourseSources = {c1, c2}
  Domains <- MCDomains
  Cycles = 6
  T = 18
  WorldKeys = 3
  WorldValues = 3
  Unknown = 3
CHECK_DEADLOCK FALSE
PROPERTY SkippedIsIndexed
