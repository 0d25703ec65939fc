-------------------------- MODULE MCMutationRequests --------------------------
(* TLC instances of MutationRequests: the requests that are sent.            *)
EXTENDS MutationRequests, TLC

CONSTANTS alice, aliceCredential

MCCredentialOwner == [c \in Credentials |-> alice]
MCCredentialOperations == [c \in Credentials |-> Operations]
MCCredentialExpires == [c \in Credentials |-> ClockLimit + 1]
MCCollectionOwner == [l \in Collections |-> alice]

RequestOf(op, k, d) == [credential |-> aliceCredential, op |-> op, key |-> k, digest |-> d]

\* One key for everything, so that every request may be a retry or a conflict.
MCRequests ==
  {RequestOf("create", k, CreateDigest(p)) : k \in Keys, p \in Payloads}
  \cup {RequestOf("correct", k, CorrectDigest(i, e, p)) :
          k \in Keys, i \in Items, e \in Revisions, p \in Payloads}
  \cup {RequestOf("forget", k, ForgetDigest(i, e)) :
          k \in Keys, i \in Items, e \in Revisions}

Interchangeable == Permutations(Sessions) \cup Permutations(Revisions) \cup Permutations(Items)
=============================================================================
