CONSTANTS
  source = source
  RowShapes <- MCRowShapes
  Requests <- MCRequests
  DefaultBytes = 5
  MaxBytes = 6
  ItemLimit = 3
  SourceLimit = 2
  ExcerptCap = 3
  RowLimit = 4
  MaxCounts = 5
  TokenCeiling = 3
  None = None
SPECIFICATION Spec
INVARIANTS PackTypeOK WithinLimits SourceRules TruncationHonest CountsSuffice
CHECK_DEADLOCK FALSE
