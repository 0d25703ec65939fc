CONSTANTS
  source = source
  x1 = x1
  Transactions = {t1, t2}
  Items = {i1}
  Revisions = {r1, r2}
  Generations = {g1}
  Sets = {x1, x2}
  SourceOf <- MCSourceOf
  PassageCount <- MCPassageCount
  Interventions = {"withdraw", "restore", "switch"}
  MaxAttempts = 1
  Deadline = 1
  Leases = {1}
  Backoff <- MCBackoff
  ClaimLimit = 1
  LastWrite = 0
  ClockLimit = 0
  SelectionLimit = 1
  None = None
SPECIFICATION TransactionsSpec
SYMMETRY Interchangeable
INVARIANTS NoLostIntent NothingOutlivesItem ReadinessHonest
PROPERTIES PublishedWhileCurrent
CHECK_DEADLOCK FALSE
