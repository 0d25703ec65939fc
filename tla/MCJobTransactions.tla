-------------------------- MODULE MCJobTransactions --------------------------
(* A TLC instance of JobTransactions.                                        *)
EXTENDS JobTransactions, TLC

CONSTANTS source, x1

MCBackoff == [a \in 1..MaxAttempts |-> 0]

\* Every set is drawn from one source, the first has two passages.
MCSourceOf == [x \in Sets |-> source]
MCPassageCount == [x \in Sets |-> IF x = x1 THEN 2 ELSE 1]

Interchangeable == Permutations(Transactions) \cup Permutations(Revisions)
=============================================================================
