CONSTANTS
  alice = alice
  aliceCredential = aliceCredential
  Owners = {alice}
  Credentials = {aliceCredential}
  Collections = {1}
  Items = {i1}
  Revisions = {r1, r2}
  Keys = {k1}
  Payloads = {p1, p2}
  CredentialOwner <- MCCredentialOwner
  CredentialOperations <- MCCredentialOperations
  CredentialExpires <- MCCredentialExpires
  CollectionOwner <- MCCollectionOwner
  Refused = {p2}
  TTL = 1
  Lag = 1
  ClockLimit = 1
  EpochLimit = 1
  ReplayLimit = 3
  None = None
  Sessions = {s1, s2}
  Requests <- MCRequests
SPECIFICATION RequestsSpec
PROPERTIES RowIsReleased
CHECK_DEADLOCK FALSE
