CONSTANTS
  source = source
  x1 = x1
  Items = {i1}
  Revisions = {r1}
  Generations = {g1}
  Sets = {x2}
  SourceOf <- MCSourceOf
  PassageCount <- MCPassageCount
  Interventions = {"withdraw", "restore", "switch"}
  MaxAttempts = 2
  Deadline = 2
  Leases = {1}
  Backoff <- MCBackoff
  ClaimLimit = 1
  LastWrite = 0
  ClockLimit = 4
  SelectionLimit = 2
  None = None
SPECIFICATION Spec
PROPERTIES EveryJobSettles ReadinessSettles
CHECK_DEADLOCK FALSE
