CONSTANTS
  alice = alice
  writer = writer
  reader = reader
  i1 = i1
  r1 = r1
  Owners = {alice}
  Credentials = {writer, reader}
  Collections = {1}
  Items = {}
  Revisions = {}
  Keys = {k1}
  Payloads = {p1}
  CredentialOwner <- MCCredentialOwner
  CredentialOperations <- MCCredentialOperations
  CredentialExpires <- MCCredentialExpires
  CollectionOwner <- MCCollectionOwner
  ReaderOperations <- MCReaderOperations
  Refused = {}
  TTL = 1
  Lag = 0
  ClockLimit = 0
  EpochLimit = 0
  ReplayLimit = 0
  None = None
  Sessions = {s1, s2, s3}
  Generations = {}
  Requests <- TokenSearches
  Permits = 2
SPECIFICATION FairReads
INVARIANTS ReadsTypeOK
PROPERTIES HeldIsReleased
CHECK_DEADLOCK FALSE
