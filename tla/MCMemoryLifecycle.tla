-------------------------- MODULE MCMemoryLifecycle --------------------------
(* TLC instances of MemoryLifecycle: the constants that are functions.       *)
EXTENDS MemoryLifecycle, TLC

CONSTANTS alice, bob, aliceCredential, aliceSpare, bobCredential

\* Two credentials of one owner share its keys; the spare one can't forget and
\* expires at the second instant.
MCCredentialOwner == [c \in Credentials |-> IF c = bobCredential THEN bob ELSE alice]
MCCredentialOperations ==
  [c \in Credentials |-> IF c = aliceSpare THEN {"create", "correct"} ELSE Operations]
MCCredentialExpires ==
  [c \in Credentials |-> IF c = aliceSpare THEN 1 ELSE ClockLimit + 1]

\* Alice has two private collections, so a withdrawal moves where she creates.
MCCollectionOwner == [l \in Collections |-> IF l = 3 THEN bob ELSE alice]

Identifiers ==
  Permutations(Items) \cup Permutations(Revisions) \cup Permutations(Keys) \cup Permutations(Payloads)
=============================================================================
