--------------------------- MODULE MCEmbeddingJobs ---------------------------
(* TLC instances of EmbeddingJobs.                                           *)
EXTENDS EmbeddingJobs, TLC

CONSTANTS source, x1

\* The second attempt is retried later than the first.
MCBackoff == [a \in 1..MaxAttempts |-> a - 1]

\* Every set is drawn from one source, the first has two passages.
MCSourceOf == [x \in Sets |-> source]
MCPassageCount == [x \in Sets |-> IF x = x1 THEN 2 ELSE 1]

Interchangeable == Permutations(Items) \cup Permutations(Revisions) \cup Permutations(Generations)
=============================================================================
