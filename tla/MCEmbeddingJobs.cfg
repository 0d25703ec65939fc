CONSTANTS
  source = source
  x1 = x1
  Items = {i1}
  Revisions = {r1, r2}
  Generations = {g1, g2}
  Sets = {}
  SourceOf <- MCSourceOf
  PassageCount <- MCPassageCount
  Interventions = {"withdraw", "switch"}
  MaxAttempts = 2
  Deadline = 2
  Leases = {1}
  Backoff <- MCBackoff
  ClaimLimit = 1
  LastWrite = 1
  ClockLimit = 3
  SelectionLimit = 2
  None = None
SPECIFICATION Spec
SYMMETRY Interchangeable
INVARIANTS JobsTypeOK PublishedByLastLease OneWorkerAtATime
PROPERTIES PublishedWhileCurrent
CHECK_DEADLOCK FALSE
