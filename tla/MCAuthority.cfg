CONSTANTS
  alice = alice
  bob = bob
  aliceCredential = aliceCredential
  aliceSpare = aliceSpare
  bobCredential = bobCredential
  Owners = {alice, bob}
  Credentials = {aliceCredential, bobCredential}
  Collections = {1, 2, 3}
  Items = {i1, i2}
  Revisions = {r1, r2}
  Keys = {k1}
  Payloads = {p1, p2}
  CredentialOwner <- MCCredentialOwner
  CredentialOperations <- MCCredentialOperations
  CredentialExpires <- MCCredentialExpires
  CollectionOwner <- MCCollectionOwner
  Refused = {p2}
  TTL = 1
  Lag = 0
  ClockLimit = 1
  EpochLimit = 3
  ReplayLimit = 1
  None = None
SPECIFICATION Spec

INVARIANTS OneTotalOrder OwnersKeepApart
PROPERTIES WithdrawnFrozen
CHECK_DEADLOCK FALSE
