CONSTANTS
  alice = alice
  writer = writer
  reader = reader
  i1 = i1
  r1 = r1
  Owners = {alice}
  Credentials = {writer, reader}
  Collections = {1}
  Items = {i1}
  Revisions = {r1, r2}
  Keys = {k1}
  Payloads = {p1}
  CredentialOwner <- MCCredentialOwner
  CredentialOperations <- MCCredentialOperations
  CredentialExpires <- MCCredentialExpires
  CollectionOwner <- MCCollectionOwner
  ReaderOperations <- MCReaderOperations
  Refused = {}
  TTL = 1
  Lag = 0
  ClockLimit = 1
  EpochLimit = 3
  ReplayLimit = 0
  None = None
  Sessions = {s1}
  Generations = {g1, g2}
  Requests <- MCRequests
  Permits = 1
SPECIFICATION ReadsSpec
SYMMETRY Twins
INVARIANTS AnswersAudited
PROPERTIES TrueAtCommit
CHECK_DEADLOCK FALSE
