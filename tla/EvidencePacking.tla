---------------------------- MODULE EvidencePacking ----------------------------
(***************************************************************************)
(* How one search answer is packed: pack_search_rows of src/lib.rs walks the *)
(* ranked rows once and keeps what fits the byte budget, the item and source *)
(* limits and, when the request states one, the token allowance kept by       *)
(* context_tokens::Work.  Nothing here is concurrent: the difficulty is that  *)
(* six limits interact and that whatever they leave out must be admitted.     *)
(*                                                                         *)
(* A content is its length in bytes with the offsets that are character       *)
(* boundaries.  The tokenizer is external: a text may count to anything.      *)
(***************************************************************************)
EXTENDS Integers, Sequences, FiniteSets, FiniteSetsExt

CONSTANTS
  RowShapes,        \* rows a ranked search returns
  Requests,         \* budgets stated by clients
  DefaultBytes, MaxBytes, \* SearchLimits
  ItemLimit,        \* items of an answer: 12
  SourceLimit,      \* items of one source: 4
  ExcerptCap,       \* bytes of a memory excerpt: 512
  RowLimit,         \* rows a token worker takes: 82
  MaxCounts,        \* texts a token worker counts: 83
  TokenCeiling,     \* bound: tokens a text counts to
  None

Kinds == {"memory", "semantic_memory", "passage", "semantic_passage",
          "adjacent_continuation"}
PassageKinds == {"passage", "semantic_passage", "adjacent_continuation"}

ASSUME RowsAreRows ==
  \A row \in RowShapes :
    /\ row.kind \in Kinds
    /\ row.length \in Nat \ {0}
    /\ {0, row.length} \subseteq row.boundaries /\ row.boundaries \subseteq 0..row.length

ASSUME LimitsConfigured == \* SearchLimits::new, and the constants
  /\ DefaultBytes \in Nat \ {0} /\ MaxBytes \in Nat /\ DefaultBytes <= MaxBytes
  /\ {ItemLimit, SourceLimit, ExcerptCap, RowLimit, MaxCounts, TokenCeiling} \subseteq Nat
  /\ RowLimit < MaxCounts

ASSUME RequestsValidated ==
  \A q \in Requests :
    /\ q.max_context_bytes \in (1..MaxBytes) \cup {None}
    /\ q.max_tokens \in (Nat \ {0}) \cup {None}

VARIABLES
  request, rows, candidate_omitted, \* the input, constant
  stage,                     \* "opened", "packing", "packed", or the failure
  ordinal,                   \* next row
  remaining, cut,            \* ExcerptBudget: remaining, truncated
  source_contribution_omitted,
  source_contributions, accepted_passages, accepted_direct_passages,
  items,                     \* <<ordinal, bytes shown>> of the accepted rows
  counts, token_count, text  \* Work: texts counted, and the context so far

input == <<request, rows, candidate_omitted>>
admitted == <<source_contributions, accepted_passages, accepted_direct_passages, items>>
work == <<counts, token_count, text>>
vars == <<input, stage, ordinal, remaining, cut, source_contribution_omitted, admitted, work>>

Failures == {"budget_unavailable", "budget_invalid"}
Sources == {row.source : row \in {r \in RowShapes : r.kind \in PassageKinds}}

\* max_context_bytes as stated, else the maximum when tokens bound the answer.
ContextBytes(q) ==
  IF q.max_context_bytes # None THEN q.max_context_bytes
  ELSE IF q.max_tokens # None THEN MaxBytes ELSE DefaultBytes

Limit == ContextBytes(request)
InTokens == request.max_tokens # None

Init ==
  /\ request \in Requests
  /\ rows \in UNION {[1..n -> RowShapes] : n \in 0..RowLimit + 1}
  /\ candidate_omitted \in IF rows = << >> THEN {FALSE} ELSE BOOLEAN
  /\ stage = IF InTokens THEN "opened" ELSE "packing"
  /\ ordinal = 1
  /\ remaining = Limit /\ cut = FALSE
  /\ source_contribution_omitted = FALSE
  /\ source_contributions = [s \in Sources |-> 0]
  /\ accepted_passages = {} /\ accepted_direct_passages = {}
  /\ items = << >>
  /\ counts = 0 /\ token_count = 0 /\ text = << >>

-----------------------------------------------------------------------------
(* Faults.                                                                 *)

TakenOfWholeBudget(row) ==
  IF row.kind \in {"passage", "semantic_passage", "adjacent_continuation"} \/ InTokens
  THEN IF row.length <= Limit THEN row.length ELSE None
  ELSE Max({b \in row.boundaries : b <= Min({Limit, ExcerptCap})})

ParentAcceptedOfSource(row) == \E id \in accepted_direct_passages : id[1] = row.source

KeepBytes(n) == remaining' = remaining - n

TooManyRowsButOne == Len(rows) > RowLimit + 1

TruncatedByRowsAlone == candidate_omitted \/ Len(rows) > Len(items)

-----------------------------------------------------------------------------
(* One row.                                                                *)

IsPassage(row) == row.kind \in PassageKinds
Identity(row) == <<row.source, row.passage>>

\* The longest prefix of whole characters within the limit.
BoundedExcerpt(row, limit) == Max({b \in row.boundaries : b <= limit})

\* Bytes ExcerptBudget gives the row: whole or a bounded excerpt; None if refused.
Taken(row) ==
  IF IsPassage(row) \/ InTokens
  THEN IF row.length <= remaining THEN row.length ELSE None
  ELSE LET n == BoundedExcerpt(row, Min({remaining, ExcerptCap})) IN
       IF n = 0 THEN None ELSE n

\* A continuation is shown only beside an accepted direct hit it continues.
ParentAccepted(row) ==
  \E p \in row.parents : <<row.source, p>> \in accepted_direct_passages

Orphaned(row) == row.kind = "adjacent_continuation" /\ ~ParentAccepted(row)
Repeated(row) == IsPassage(row) /\ Identity(row) \in accepted_passages
SourceFull(row) == IsPassage(row) /\ source_contributions[row.source] = SourceLimit

Visiting(row) ==
  /\ stage = "packing" /\ Len(items) < ItemLimit
  /\ ordinal \in DOMAIN rows /\ row = rows[ordinal]

Admissible(row) == Visiting(row) /\ ~Orphaned(row) /\ ~Repeated(row) /\ ~SourceFull(row)

Pass == ordinal' = ordinal + 1

ReportOmission == source_contribution_omitted' = TRUE

Skip ==
  /\ \E row \in RowShapes : Visiting(row) /\ (Orphaned(row) \/ Repeated(row) \/ SourceFull(row))
  /\ Pass /\ ReportOmission
  /\ UNCHANGED <<input, stage, remaining, cut, admitted, work>>

\* A row the byte budget refuses ends the packing only when nothing remains.
RefuseBytes ==
  /\ \E row \in RowShapes : Admissible(row) /\ Taken(row) = None
  /\ cut' = TRUE
  /\ IF remaining > 0 THEN Pass /\ UNCHANGED stage ELSE stage' = "packed" /\ UNCHANGED ordinal
  /\ UNCHANGED <<input, remaining, source_contribution_omitted, admitted, work>>

\* What an accepted row leaves in the maps and the answer.
Admit(row, n) ==
  /\ Pass
  /\ remaining' = remaining - n
  /\ cut' = (cut \/ n < row.length)
  /\ items' = Append(items, <<ordinal, n>>)
  /\ IF IsPassage(row)
     THEN /\ source_contributions' = [source_contributions EXCEPT ![row.source] = @ + 1]
          /\ accepted_passages' = accepted_passages \cup {Identity(row)}
          /\ accepted_direct_passages' = accepted_direct_passages \cup
               IF row.kind = "passage" THEN {Identity(row)} ELSE {}
     ELSE UNCHANGED <<source_contributions, accepted_passages, accepted_direct_passages>>
  /\ UNCHANGED <<input, stage, source_contribution_omitted>>

AcceptExcerpt ==
  /\ ~InTokens
  /\ \E row \in RowShapes : Admissible(row) /\ Taken(row) # None /\ Admit(row, Taken(row))
  /\ UNCHANGED work

-----------------------------------------------------------------------------
(* context_tokens                                                          *)

Count == counts' = counts + 1

TooManyRows == Len(rows) > RowLimit

\* The empty envelope must fit before anything is packed.
OpenWork ==
  /\ stage = "opened"
  /\ UNCHANGED <<input, ordinal, remaining, cut, source_contribution_omitted, admitted, text>>
  /\ \/ /\ TooManyRows
        /\ stage' = "budget_unavailable" /\ UNCHANGED <<counts, token_count>>
     \/ /\ ~TooManyRows /\ Count
        /\ \E n \in 1..TokenCeiling :
             IF n <= request.max_tokens
             THEN stage' = "packing" /\ token_count' = n
             ELSE stage' = "budget_invalid" /\ UNCHANGED token_count

\* The tokenizer, the serializer's bound, or the count limit gives up.
FailCounting ==
  /\ InTokens
  /\ stage = "opened" \/ \E row \in RowShapes : Admissible(row) /\ Taken(row) # None
  /\ stage' = "budget_unavailable"
  /\ UNCHANGED <<input, ordinal, remaining, cut, source_contribution_omitted, admitted, work>>

\* Work::admit renders the items with the candidate and keeps the text if it fits.
AcceptTokens ==
  /\ InTokens /\ counts < MaxCounts
  /\ \E row \in RowShapes : Admissible(row) /\ Taken(row) # None /\ Admit(row, Taken(row))
  /\ Count
  /\ token_count' \in 1..request.max_tokens
  /\ text' = Append(text, ordinal)

\* A candidate that doesn't fit gives its bytes back.
RestoreBytes(n) == UNCHANGED remaining

RefuseTokens ==
  /\ InTokens /\ counts < MaxCounts
  /\ request.max_tokens < TokenCeiling
  /\ \E row \in RowShapes : Admissible(row) /\ Taken(row) # None /\ RestoreBytes(Taken(row))
  /\ Pass /\ cut' = TRUE
  /\ Count
  /\ UNCHANGED <<input, stage, source_contribution_omitted, admitted, token_count, text>>

\* The walk ends with the rows or with the twelfth item.
Finish ==
  /\ stage = "packing"
  /\ ordinal = Len(rows) + 1 \/ Len(items) = ItemLimit
  /\ stage' = "packed"
  /\ UNCHANGED <<input, ordinal, remaining, cut, source_contribution_omitted, admitted, work>>

Next == Skip \/ RefuseBytes \/ AcceptExcerpt \/ OpenWork \/ FailCounting \/ AcceptTokens
        \/ RefuseTokens \/ Finish

Spec == Init /\ [][Next]_vars

\* truncated, as the answer reports it.
Truncated ==
  candidate_omitted \/ source_contribution_omitted \/ cut \/ Len(rows) > Len(items)

-----------------------------------------------------------------------------
(* Properties                                                              *)

\* The walk's state is of its type, and the sources counted are sources of rows.
PackTypeOK ==
  /\ stage \in {"opened", "packing", "packed"} \cup Failures
  /\ ordinal \in 1..Len(rows) + 1
  /\ remaining \in 0..Limit
  /\ {cut, source_contribution_omitted} \subseteq BOOLEAN
  /\ source_contributions \in [Sources -> Nat]
  /\ accepted_direct_passages \subseteq accepted_passages
  /\ \A n \in DOMAIN items : items[n][1] \in DOMAIN rows /\ items[n][2] \in Nat
  /\ {counts, token_count} \subseteq Nat

ShownRow(n) == rows[items[n][1]]

\* However rows were refused, cut and given back, the bytes shown and the bytes
\* left make up the budget, every excerpt ends at a character boundary, and the
\* context's text is exactly the items returned, within the allowance.
WithinLimits ==
  /\ Len(items) <= ItemLimit
  /\ LET left[n \in 0..Len(items)] == IF n = 0 THEN Limit ELSE left[n - 1] - items[n][2]
     IN  left[Len(items)] = remaining
  /\ \A n \in DOMAIN items : items[n][2] \in ShownRow(n).boundaries \ {0}
  /\ InTokens =>
       /\ text = [n \in DOMAIN items |-> items[n][1]]
       /\ token_count <= request.max_tokens
       /\ \A n \in DOMAIN items : items[n][2] = ShownRow(n).length

\* A source never fills the answer, no passage is shown twice by two retrieval
\* paths, and a continuation follows a direct hit on the passage it continues.
SourceRules ==
  /\ \A s \in Sources :
       Cardinality({n \in DOMAIN items : IsPassage(ShownRow(n)) /\ ShownRow(n).source = s})
         <= SourceLimit
  /\ \A m, n \in DOMAIN items :
       m < n /\ IsPassage(ShownRow(m)) /\ IsPassage(ShownRow(n))
         => Identity(ShownRow(m)) # Identity(ShownRow(n))
  /\ \A n \in DOMAIN items : ShownRow(n).kind = "adjacent_continuation" =>
       \E m \in 1..n - 1 :
         /\ ShownRow(m).kind = "passage" /\ ShownRow(m).source = ShownRow(n).source
         /\ ShownRow(m).passage \in ShownRow(n).parents

\* An answer that isn't marked truncated holds every candidate, whole and in order.
TruncationHonest ==
  stage = "packed" /\ ~Truncated =>
    /\ ~candidate_omitted
    /\ items = [n \in DOMAIN rows |-> <<n, rows[n].length>>]

\* The count limit is one more than the row limit, and that is exactly enough: a
\* worker that took the rows never runs out of counts before it has seen them all.
CountsSuffice ==
  stage = "packing" /\ InTokens /\ ordinal <= Len(rows) => counts < MaxCounts
=============================================================================
