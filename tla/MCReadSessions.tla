---------------------------- MODULE MCReadSessions ----------------------------
(* TLC instances of ReadSessions: one owner, a writer and a reader.          *)
EXTENDS ReadSessions, TLC

CONSTANTS alice, writer, reader, i1, r1

MCCredentialOwner == [c \in Credentials |-> alice]
MCCredentialOperations == [c \in Credentials |-> IF c = writer THEN Operations ELSE {}]
MCReaderOperations == [c \in Credentials |-> IF c = reader THEN {"read", "search"} ELSE {}]
MCCredentialExpires == [c \in Credentials |-> 1]
MCCollectionOwner == [l \in Collections |-> alice]

Ask(op, item, expected, semantic, tokens) ==
  [credential |-> reader, op |-> op, item |-> item, expected |-> expected,
   semantic |-> semantic, tokens |-> tokens, defect |-> "none"]

Search(semantic, tokens) == Ask("search", None, None, semantic, tokens)

\* A read, a read of a revision known before, searches with and without semantics
\* and tokens, and two that are malformed.
MCRequests ==
  {Ask("read", i1, None, "none", FALSE), Ask("read", i1, r1, "none", FALSE),
   Search("query", FALSE), Search("vector", FALSE), Search("query", TRUE),
   [Search("none", FALSE) EXCEPT !.defect = "input"],
   [Search("query", FALSE) EXCEPT !.defect = "scope"]}

TokenSearches == {Search("none", TRUE), Search("none", FALSE)}

Twins == Permutations(Generations)
=============================================================================
