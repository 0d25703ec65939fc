CONSTANTS
  alice = alice
  aliceCredential = aliceCredential
  Owners = {alice}
  Credentials = {aliceCredential}
  Collections = {1}
  Items = {i1}
  Revisions = {r1, r2}
  Keys = {k1}
  Payloads = {p1}
  CredentialOwner <- MCCredentialOwner
  CredentialOperations <- MCCredentialOperations
  CredentialExpires <- MCCredentialExpires
  CollectionOwner <- MCCollectionOwner
  Refused = {}
  TTL = 1
  Lag = 1
  ClockLimit = 1
  EpochLimit = 2
  ReplayLimit = 3
  None = None
  Sessions = {s1, s2, s3}
  Requests <- MCRequests
SPECIFICATION RequestsSpec
SYMMETRY Interchangeable
INVARIANTS RequestsTypeOK AnswersHold RetriesConverge
PROPERTIES ReceiptsHideForgotten CallsAreAtomic
CHECK_DEADLOCK FALSE
