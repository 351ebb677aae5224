SPECIFICATION MCSpec
CONSTANTS
  dep = dep
  seed = seed
  neg = neg
  rs = rs
  fact = fact
  note = note
  echo = echo
  a = a
  b = b
  c = c
  None = None
  Requests = {r1, r2}
  Positive = {dep, seed}
  Negative = {neg}
  Seeded = {seed}
  Between <- MCBetween
  Sources = {rs, fact, note, echo}
  ClassOf <- MCClassOf
  Cites <- MCCites
  Vouches <- MCVouches
  Denies <- MCDenies
  Echoes = {echo}
  TypeOf <- MCTypeOf
  AboutCore = {seed}
  MaxOpens = 3
  MaxWrites = 3
  MaxSlips = 1
  Entities = {a, b, c}
  Ledger <- MCLedger
  SubjectOf <- MCSubjectOf
  ObjectOf <- MCObjectOf
  HopTypeOf <- MCHopTypeOf
  Records <- MCRecords
  Limit = 12
  ShowLimit = 2
  MaxDepth = 2
CHECK_DEADLOCK FALSE
SYMMETRY Symmetry
CONSTRAINT Budget
INVARIANTS
  CommitEarned
  PathsAreExact
  VerdictLadder
PROPERTIES
  LossIsExplained
