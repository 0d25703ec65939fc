CONSTANTS
  alice = alice
  bob = bob
  aliceCredential = aliceCredential
  aliceSpare = aliceSpare
  bobCredential = bobCredential
  Owners = {alice}
  Credentials = {aliceCredential, aliceSpare}
  Collections = {1}
  Items = {i1, i2}
  Revisions = {r1, r2, r3}
  Keys = {k1}
  Payloads = {p1, p2}
  CredentialOwner <- MCCredentialOwner
  CredentialOperations <- MCCredentialOperations
  CredentialExpires <- MCCredentialExpires
  CollectionOwner <- MCCollectionOwner
  Refused = {}
  TTL = 1
  Lag = 1
  ClockLimit = 2
  EpochLimit = 0
  ReplayLimit = 1
  None = None
SPECIFICATION Spec
SYMMETRY Identifiers
INVARIANTS TypeOK OneEffectPerKey ReceiptNamesItsEffect LinearHistory ServingIntact DeletionAgrees NothingOutlivesPurge
PROPERTIES ForgottenForever KeepsPromise
CHECK_DEADLOCK FALSE
