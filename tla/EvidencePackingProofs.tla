------------------------ MODULE EvidencePackingProofs ------------------------
(***************************************************************************)
(* What holds of EvidencePacking for any rows, budgets and limits: the six    *)
(* limits hold together, sources stay apart, an answer that left something out *)
(* says so, and a token worker that took the rows can count them all.          *)
(***************************************************************************)
EXTENDS EvidencePacking, FiniteSetTheorems, WellFoundedInduction, TLAPS

-----------------------------------------------------------------------------
(* The inductive invariant                                                 *)

TypeInv ==
  /\ request \in Requests /\ rows \in Seq(RowShapes) /\ candidate_omitted \in BOOLEAN
  /\ stage \in {"opened", "packing", "packed"} \cup Failures
  /\ ordinal \in 1..Len(rows) + 1
  /\ remaining \in 0..Limit /\ cut \in BOOLEAN /\ source_contribution_omitted \in BOOLEAN
  /\ source_contributions \in [Sources -> Nat]
  /\ items \in Seq(Nat \X Nat)
  /\ counts \in Nat /\ token_count \in Nat

\* Every item shows a row passed before, to a character boundary, and in token mode whole.
ItemsInv ==
  /\ Len(items) <= ItemLimit
  /\ \A n \in DOMAIN items :
       /\ items[n][1] \in 1..ordinal - 1
       /\ items[n][2] \in ShownRow(n).boundaries \ {0}
       /\ InTokens => items[n][2] = ShownRow(n).length

\* The bytes left after each item.
IsLedger(left) ==
  /\ left = [n \in 0..Len(items) |-> IF n = 0 THEN Limit ELSE left[n - 1] - items[n][2]]
  /\ left[Len(items)] = remaining

PassagesOf(s) == {n \in DOMAIN items : IsPassage(ShownRow(n)) /\ ShownRow(n).source = s}

\* The maps record exactly the passages among the items.
SourcesInv ==
  /\ \A n \in DOMAIN items : IsPassage(ShownRow(n)) => Identity(ShownRow(n)) \in accepted_passages
  /\ accepted_direct_passages \subseteq accepted_passages
  /\ \A id \in accepted_direct_passages :
       \E n \in DOMAIN items : ShownRow(n).kind = "passage" /\ Identity(ShownRow(n)) = id
  /\ \A s \in Sources :
       /\ IsFiniteSet(PassagesOf(s))
       /\ Cardinality(PassagesOf(s)) = source_contributions[s]
       /\ source_contributions[s] <= SourceLimit

\* No passage is shown twice, and a continuation follows what it continues.
OrderInv ==
  /\ \A m, n \in DOMAIN items :
       m < n /\ IsPassage(ShownRow(m)) /\ IsPassage(ShownRow(n))
         => Identity(ShownRow(m)) # Identity(ShownRow(n))
  /\ \A n \in DOMAIN items : ShownRow(n).kind = "adjacent_continuation" =>
       \E m \in 1..n - 1 :
         /\ ShownRow(m).kind = "passage" /\ ShownRow(m).source = ShownRow(n).source
         /\ ShownRow(m).passage \in ShownRow(n).parents

\* As long as nothing was cut or left out, every row passed is shown whole.
WholeInv ==
  ~cut /\ ~source_contribution_omitted =>
    /\ Len(items) = ordinal - 1
    /\ \A n \in DOMAIN items : items[n] = <<n, rows[n].length>>

\* A text is counted per row passed, and one for the empty envelope.
CountsInv ==
  /\ stage = "opened" => ordinal = 1 /\ counts = 0
  /\ stage = "packing" /\ InTokens => Len(rows) <= RowLimit /\ counts <= ordinal
  /\ InTokens =>
       /\ text = [n \in DOMAIN items |-> items[n][1]]
       /\ token_count <= request.max_tokens

PackInv ==
  /\ TypeInv /\ ItemsInv /\ SourcesInv /\ OrderInv /\ WholeInv /\ CountsInv
  /\ \E left : IsLedger(left)
-----------------------------------------------------------------------------
(* Numbers                                                                 *)

\* A set of naturals has a least element.
LEMMA LeastNatural ==
  ASSUME NEW T, T \subseteq Nat, T # {}
  PROVE  \E x \in T : \A y \in T : x <= y
<1>1. PICK x \in T : \A y \in T : <<y, x>> \notin OpToRel(<, Nat)
  BY NatLessThanWellFounded, WFMin
<1>2. \A y \in T : x \in Nat /\ y \in Nat /\ ~(y < x)
  BY <1>1 DEF OpToRel
<1>3. \A y \in T : x <= y
  BY <1>2
<1> QED
  BY <1>3

\* The maximum of a bounded set of naturals belongs to it, and is its greatest.
LEMMA MaxBelow ==
  ASSUME NEW T, T \subseteq Nat, T # {}, NEW b \in Nat, \A x \in T : x <= b
  PROVE  Max(T) \in T
<1> DEFINE gaps == {b - x : x \in T}
<1>0. \A x \in T : b - x \in Nat
  OBVIOUS
<1>1. gaps \subseteq Nat /\ gaps # {}
  BY <1>0
<1>2. PICK g \in gaps : \A h \in gaps : g <= h
  BY <1>1, LeastNatural
<1>3. PICK x \in T : g = b - x
  OBVIOUS
<1>4. \A y \in T : x >= y
  BY <1>2, <1>3
<1> QED
  BY <1>4 DEF Max

\* The smaller of two naturals.
LEMMA MinOfTwo ==
  ASSUME NEW x \in Nat, NEW y \in Nat
  PROVE  Min({x, y}) \in Nat /\ Min({x, y}) <= x /\ Min({x, y}) <= y
<1>1. \E m \in {x, y} : \A k \in {x, y} : m <= k
  OBVIOUS
<1>2. Min({x, y}) \in {x, y} /\ \A k \in {x, y} : Min({x, y}) <= k
  BY <1>1 DEF Min
<1> QED
  BY <1>2

\* There is one ledger only.
LEMMA OneLedger ==
  ASSUME NEW f, NEW g, items \in Seq(Nat \X Nat),
         f = [n \in 0..Len(items) |-> IF n = 0 THEN Limit ELSE f[n - 1] - items[n][2]],
         g = [n \in 0..Len(items) |-> IF n = 0 THEN Limit ELSE g[n - 1] - items[n][2]]
  PROVE  f = g
<1> DEFINE differ == {n \in 0..Len(items) : f[n] # g[n]}
<1>1. Len(items) \in Nat
  OBVIOUS
<1>2. differ = {}
  <2>1. SUFFICES ASSUME differ # {} PROVE FALSE
    OBVIOUS
  <2>2. differ \subseteq Nat
    BY <1>1
  <2>3. PICK n \in differ : \A m \in differ : n <= m
    <3> HIDE DEF differ
    <3> QED
      BY <2>1, <2>2, LeastNatural
  <2>4. n \in 0..Len(items) /\ n # 0
    BY <1>1
  <2>5. n - 1 \in 0..Len(items) /\ ~(n <= n - 1)
    BY <1>1, <2>4
  <2>6. n - 1 \notin differ
    BY <2>3, <2>5
  <2>7. f[n - 1] = g[n - 1]
    BY <2>5, <2>6
  <2> QED
    BY <2>4, <2>7
<1> QED
  BY <1>2
-----------------------------------------------------------------------------
(* One row                                                                 *)

\* The byte budget of a request.
LEMMA LimitType ==
  ASSUME TypeInv PROVE Limit \in Nat
BY RequestsValidated, LimitsConfigured DEF TypeInv, Limit, ContextBytes

\* What the byte budget gives a row ends at a character boundary, is not nothing, and
\* is at most what remains; passages and counted rows are given whole.
LEMMA TakenBounds ==
  ASSUME TypeInv, NEW row \in RowShapes, Taken(row) # None
  PROVE  /\ Taken(row) \in row.boundaries \ {0}
         /\ Taken(row) \in 0..remaining /\ Taken(row) \in 0..row.length
         /\ IsPassage(row) \/ InTokens => Taken(row) = row.length
<1>1. remaining \in Nat /\ ExcerptCap \in Nat
  BY LimitType, LimitsConfigured DEF TypeInv
<1>2. /\ row.length \in Nat \ {0} /\ {0, row.length} \subseteq row.boundaries
      /\ row.boundaries \subseteq 0..row.length
  BY RowsAreRows
<1>3. CASE IsPassage(row) \/ InTokens
  BY <1>1, <1>2, <1>3 DEF Taken
<1>4. CASE ~(IsPassage(row) \/ InTokens)
  <2> DEFINE least == Min({remaining, ExcerptCap})
             fitting == {b \in row.boundaries : b <= least}
  <2>1. least \in Nat /\ least <= remaining
    BY <1>1, MinOfTwo
  <2> HIDE DEF least
  <2>2. fitting \subseteq Nat /\ 0 \in fitting /\ \A x \in fitting : x <= least
    BY <1>2, <2>1
  <2>3. Max(fitting) \in fitting
    <3> HIDE DEF fitting
    <3> QED
      BY <2>1, <2>2, MaxBelow
  <2>4. Taken(row) = IF Max(fitting) = 0 THEN None ELSE Max(fitting)
    BY <1>4 DEF Taken, BoundedExcerpt, least
  <2>5. Taken(row) \in fitting \ {0}
    BY <2>3, <2>4
  <2> QED
    BY <1>1, <1>2, <1>4, <2>1, <2>5
<1> QED
  BY <1>3, <1>4

\* An item appended leaves those before it where they are.
LEMMA ItemAdded ==
  ASSUME TypeInv, NEW row, NEW n \in Nat, Visiting(row),
         items' = Append(items, <<ordinal, n>>), rows' = rows
  PROVE  /\ items' \in Seq(Nat \X Nat) /\ Len(items') = Len(items) + 1 /\ Len(items) \in Nat
         /\ DOMAIN items = 1..Len(items) /\ DOMAIN items' = 1..Len(items) + 1
         /\ \A m \in 1..Len(items) : items'[m] = items[m] /\ ShownRow(m)' = ShownRow(m)
         /\ items'[Len(items) + 1] = <<ordinal, n>>
         /\ \A m : m = Len(items) + 1 => ShownRow(m)' = row
<1>1. <<ordinal, n>> \in Nat \X Nat /\ items \in Seq(Nat \X Nat) /\ row = rows[ordinal]
  BY DEF TypeInv, Visiting
<1>2. /\ items' \in Seq(Nat \X Nat) /\ Len(items') = Len(items) + 1 /\ Len(items) \in Nat
      /\ DOMAIN items = 1..Len(items) /\ DOMAIN items' = 1..Len(items) + 1
      /\ \A m \in 1..Len(items) : items'[m] = items[m]
      /\ items'[Len(items) + 1] = <<ordinal, n>>
  BY <1>1
<1> QED
  BY <1>1, <1>2 DEF ShownRow

\* The ledger goes on with an item.
LEMMA LedgerGoesOn ==
  ASSUME TypeInv, NEW row, NEW n \in 0..remaining, Visiting(row),
         items' = Append(items, <<ordinal, n>>), UNCHANGED input,
         remaining' = remaining - n, \E left : IsLedger(left)
  PROVE  \E left : IsLedger(left)'
<1>1. PICK left : IsLedger(left)
  OBVIOUS
<1> DEFINE k == Len(items)
           further == [m \in 0..k + 1 |-> IF m = k + 1 THEN remaining - n ELSE left[m]]
<1>2. rows' = rows /\ Limit' = Limit /\ remaining \in Nat /\ n \in Nat
  BY LimitType DEF input, Limit, TypeInv
<1>3. /\ Len(items') = k + 1 /\ k \in Nat /\ items'[k + 1] = <<ordinal, n>>
      /\ \A m \in 1..k : items'[m] = items[m]
  BY <1>2, ItemAdded
<1>4. /\ left = [m \in 0..k |-> IF m = 0 THEN Limit ELSE left[m - 1] - items[m][2]]
      /\ left[k] = remaining
  BY <1>1 DEF IsLedger
<1> HIDE DEF k
<1>5. ASSUME NEW m \in 0..k + 1
      PROVE  further[m] = IF m = 0 THEN Limit ELSE further[m - 1] - items'[m][2]
  <2>1. CASE m = k + 1
    BY <1>3, <1>4, <2>1
  <2>2. CASE m \in 0..k
    <3>1. left[m] = IF m = 0 THEN Limit ELSE left[m - 1] - items[m][2]
      BY <1>4, <2>2
    <3> QED
      BY <1>3, <2>2, <3>1
  <2> QED
    BY <1>3, <2>1, <2>2
<1>6. further = [m \in 0..k + 1 |-> IF m = 0 THEN Limit ELSE further[m - 1] - items'[m][2]]
  BY <1>5
<1>7. further[k + 1] = remaining'
  BY <1>3
<1> HIDE DEF further
<1>8. PICK f : f = further
  OBVIOUS
<1>9. IsLedger(f)'
  BY <1>2, <1>3, <1>6, <1>7, <1>8 DEF IsLedger
<1> QED
  BY <1>9

-----------------------------------------------------------------------------
(* Accepting a row                                                         *)

\* An accepted row keeps the items within their limit and to their boundaries.
LEMMA AdmitKeepsItems ==
  ASSUME PackInv, NEW row \in RowShapes, Admissible(row), Taken(row) # None,
         Admit(row, Taken(row))
  PROVE  ItemsInv' /\ WholeInv' /\ \E left : IsLedger(left)'
<1> DEFINE n == Taken(row)
<1>1. /\ TypeInv /\ ItemsInv /\ Visiting(row) /\ Len(items) < ItemLimit /\ row = rows[ordinal]
      /\ ordinal \in Nat \ {0} /\ ItemLimit \in Nat
  BY LimitsConfigured DEF PackInv, Admissible, Visiting, TypeInv
<1>2. /\ n \in row.boundaries \ {0} /\ n \in 0..remaining /\ n \in 0..row.length
      /\ InTokens => n = row.length
  BY <1>1, TakenBounds
<1>3. /\ items' = Append(items, <<ordinal, n>>) /\ UNCHANGED input /\ ordinal' = ordinal + 1
      /\ remaining' = remaining - n /\ cut' = (cut \/ n < row.length)
      /\ UNCHANGED source_contribution_omitted
  BY DEF Admit, Pass
<1>4. remaining \in Nat /\ n \in Nat /\ row.length \in Nat
  BY <1>1, <1>2, LimitType, RowsAreRows DEF TypeInv
<1> HIDE DEF n
<1>5. rows' = rows /\ InTokens' = InTokens
  BY <1>3 DEF input, InTokens
<1>6. /\ Len(items') = Len(items) + 1 /\ Len(items) \in Nat
      /\ DOMAIN items = 1..Len(items) /\ DOMAIN items' = 1..Len(items) + 1
      /\ \A m \in 1..Len(items) : items'[m] = items[m] /\ ShownRow(m)' = ShownRow(m)
      /\ items'[Len(items) + 1] = <<ordinal, n>>
      /\ \A m : m = Len(items) + 1 => ShownRow(m)' = row
  BY <1>1, <1>3, <1>4, <1>5, ItemAdded
<1>7. ItemsInv'
  <2>1. ASSUME NEW m \in 1..Len(items) + 1
        PROVE  /\ items'[m][1] \in 1..ordinal' - 1
               /\ items'[m][2] \in ShownRow(m)'.boundaries \ {0}
               /\ InTokens' => items'[m][2] = ShownRow(m)'.length
    <3>1. CASE m \in 1..Len(items)
      BY <1>1, <1>3, <1>5, <1>6, <3>1 DEF ItemsInv
    <3>2. CASE m = Len(items) + 1
      BY <1>1, <1>2, <1>3, <1>5, <1>6, <3>2
    <3> QED
      BY <1>6, <3>1, <3>2
  <2>2. Len(items') <= ItemLimit
    BY <1>1, <1>6
  <2> QED
    BY <1>6, <2>1, <2>2 DEF ItemsInv
<1>8. WholeInv'
  <2>1. SUFFICES ASSUME ~cut', ~source_contribution_omitted'
                 PROVE  /\ Len(items') = ordinal' - 1
                        /\ \A m \in DOMAIN items' : items'[m] = <<m, rows[m].length>>
    BY <1>5 DEF WholeInv
  <2>2. n = row.length
    <3>1. ~(n < row.length)
      BY <1>3, <2>1, Zenon
    <3> QED
      BY <1>2, <1>4, <3>1
  <2>3. Len(items) = ordinal - 1 /\ \A m \in DOMAIN items : items[m] = <<m, rows[m].length>>
    BY <1>3, <2>1 DEF PackInv, WholeInv
  <2> QED
    BY <1>1, <1>3, <1>6, <2>2, <2>3
<1>9. \E left : IsLedger(left)'
  BY <1>1, <1>2, <1>3, LedgerGoesOn DEF PackInv
<1> QED
  BY <1>7, <1>8, <1>9

\* An accepted row is counted with its source, and shown as the rules of sources allow.
LEMMA AdmitKeepsSources ==
  ASSUME PackInv, NEW row \in RowShapes, Admissible(row), Taken(row) # None,
         Admit(row, Taken(row))
  PROVE  SourcesInv' /\ OrderInv' /\ source_contributions' \in [Sources -> Nat]
<1> DEFINE n == Taken(row)
           last == Len(items) + 1
<1>1. TypeInv /\ SourcesInv /\ OrderInv /\ Visiting(row)
  BY DEF PackInv, Admissible
<1>2. n \in Nat /\ items' = Append(items, <<ordinal, n>>) /\ rows' = rows
  BY <1>1, TakenBounds, LimitType DEF Admit, input, TypeInv
<1> HIDE DEF n
<1>3. /\ Len(items) \in Nat /\ DOMAIN items = 1..Len(items)
      /\ DOMAIN items' = 1..Len(items) + 1
      /\ \A m \in 1..Len(items) : ShownRow(m)' = ShownRow(m)
      /\ \A m : m = last => ShownRow(m)' = row
  BY <1>1, <1>2, ItemAdded
<1>4. PICK z : z = last
  OBVIOUS
<1>5. /\ z \in Nat /\ DOMAIN items = 1..z - 1 /\ DOMAIN items' = (1..z - 1) \cup {z}
      /\ \A m \in 1..z - 1 : ShownRow(m)' = ShownRow(m)
      /\ ShownRow(z)' = row /\ z \notin 1..z - 1
  BY <1>3, <1>4
<1>6. ~Orphaned(row) /\ ~Repeated(row) /\ ~SourceFull(row)
  BY DEF Admissible
<1>7. OrderInv'
  <2>1. ASSUME NEW p \in DOMAIN items', NEW m \in DOMAIN items', p < m,
               IsPassage(ShownRow(p)'), IsPassage(ShownRow(m)')
        PROVE  Identity(ShownRow(p)') # Identity(ShownRow(m)')
    <3>1. p \in 1..z - 1
      BY <1>5, <2>1
    <3>2. CASE m \in 1..z - 1
      BY <1>1, <1>5, <2>1, <3>1, <3>2 DEF OrderInv
    <3>3. CASE m = z
      BY <1>1, <1>5, <1>6, <2>1, <3>1, <3>3 DEF SourcesInv, Repeated
    <3> QED
      BY <1>5, <3>2, <3>3
  <2>2. ASSUME NEW m \in DOMAIN items', ShownRow(m)'.kind = "adjacent_continuation"
        PROVE  \E p \in 1..m - 1 :
                 /\ ShownRow(p)'.kind = "passage" /\ ShownRow(p)'.source = ShownRow(m)'.source
                 /\ ShownRow(p)'.passage \in ShownRow(m)'.parents
    <3>1. CASE m \in 1..z - 1
      <4>1. ShownRow(m).kind = "adjacent_continuation" /\ m \in DOMAIN items
        BY <1>5, <2>2, <3>1
      <4>2. PICK p \in 1..m - 1 :
              /\ ShownRow(p).kind = "passage" /\ ShownRow(p).source = ShownRow(m).source
              /\ ShownRow(p).passage \in ShownRow(m).parents
        BY <1>1, <4>1 DEF OrderInv
      <4>3. p \in 1..z - 1
        BY <1>5, <3>1
      <4> QED
        BY <1>5, <3>1, <4>2, <4>3
    <3>2. CASE m = z
      <4>1. row.kind = "adjacent_continuation"
        BY <1>5, <2>2, <3>2
      <4>2. PICK q \in row.parents : <<row.source, q>> \in accepted_direct_passages
        BY <1>6, <4>1 DEF Orphaned, ParentAccepted
      <4>3. PICK p \in DOMAIN items :
              ShownRow(p).kind = "passage" /\ Identity(ShownRow(p)) = <<row.source, q>>
        BY <1>1, <4>2 DEF SourcesInv
      <4>4. ShownRow(p).source = row.source /\ ShownRow(p).passage = q /\ p \in 1..z - 1
        BY <1>5, <4>3 DEF Identity
      <4> QED
        BY <1>5, <3>2, <4>2, <4>3, <4>4
    <3> QED
      BY <1>5, <3>1, <3>2
  <2> QED
    BY <2>1, <2>2 DEF OrderInv, IsPassage, Identity
<1>8. CASE IsPassage(row)
  <2>1. /\ row.source \in Sources /\ DOMAIN source_contributions = Sources
        /\ source_contributions' = [source_contributions EXCEPT ![row.source] =
                                      source_contributions[row.source] + 1]
        /\ accepted_passages' = accepted_passages \cup {Identity(row)}
        /\ accepted_direct_passages' = accepted_direct_passages \cup
             IF row.kind = "passage" THEN {Identity(row)} ELSE {}
    BY <1>1, <1>8 DEF Admit, TypeInv, Sources, IsPassage
  <2>2. source_contributions' \in [Sources -> Nat]
    BY <1>1, <2>1 DEF TypeInv
  <2>3. \A m \in DOMAIN items' :
          IsPassage(ShownRow(m)') => Identity(ShownRow(m)') \in accepted_passages'
    BY <1>1, <1>5, <2>1 DEF SourcesInv
  <2>4. accepted_direct_passages' \subseteq accepted_passages'
    BY <1>1, <2>1 DEF SourcesInv
  <2>5. ASSUME NEW id \in accepted_direct_passages'
        PROVE  \E m \in DOMAIN items' : ShownRow(m)'.kind = "passage" /\ Identity(ShownRow(m)') = id
    <3>1. CASE id \in accepted_direct_passages
      <4>1. PICK m \in DOMAIN items : ShownRow(m).kind = "passage" /\ Identity(ShownRow(m)) = id
        BY <1>1, <3>1 DEF SourcesInv
      <4>2. m \in DOMAIN items' /\ ShownRow(m)' = ShownRow(m)
        BY <1>5
      <4> QED
        BY <4>1, <4>2
    <3>2. CASE row.kind = "passage" /\ id = Identity(row)
      BY <1>5, <3>2
    <3> QED
      BY <2>1, <3>1, <3>2
  <2>6. ASSUME NEW s \in Sources
        PROVE  /\ IsFiniteSet(PassagesOf(s)')
               /\ Cardinality(PassagesOf(s)') = source_contributions'[s]
               /\ source_contributions'[s] <= SourceLimit
    <3>1. /\ IsFiniteSet(PassagesOf(s)) /\ Cardinality(PassagesOf(s)) = source_contributions[s]
          /\ source_contributions[s] \in Nat /\ source_contributions[s] <= SourceLimit
          /\ SourceLimit \in Nat
      BY <1>1, LimitsConfigured DEF SourcesInv, TypeInv
    <3>2. PassagesOf(s)' = IF row.source = s THEN PassagesOf(s) \cup {z} ELSE PassagesOf(s)
      BY <1>5, <1>8 DEF PassagesOf
    <3>3. z \notin PassagesOf(s)
      BY <1>5 DEF PassagesOf
    <3>4. CASE row.source = s
      <4>1. source_contributions[s] # SourceLimit
        BY <1>6, <1>8, <3>4 DEF SourceFull
      <4>2. /\ IsFiniteSet(PassagesOf(s)')
            /\ Cardinality(PassagesOf(s)') = Cardinality(PassagesOf(s)) + 1
        BY <3>1, <3>2, <3>3, <3>4, FS_AddElement
      <4> QED
        BY <2>1, <3>1, <3>4, <4>1, <4>2
    <3>5. CASE row.source # s
      BY <2>1, <3>1, <3>2, <3>5
    <3> QED
      BY <3>4, <3>5
  <2>7. SourcesInv'
    BY <2>3, <2>4, <2>5, <2>6 DEF SourcesInv, IsPassage, Identity
  <2> QED
    BY <1>7, <2>2, <2>7
<1>9. CASE ~IsPassage(row)
  <2>1. UNCHANGED <<source_contributions, accepted_passages, accepted_direct_passages>>
    BY <1>9 DEF Admit
  <2>2. row.kind # "passage"
    BY <1>9 DEF IsPassage, PassageKinds
  <2>3. \A m \in DOMAIN items' :
          IsPassage(ShownRow(m)') => Identity(ShownRow(m)') \in accepted_passages'
    BY <1>1, <1>5, <1>9, <2>1 DEF SourcesInv
  <2>4. \A id \in accepted_direct_passages' :
          \E m \in DOMAIN items' : ShownRow(m)'.kind = "passage" /\ Identity(ShownRow(m)') = id
    BY <1>1, <1>5, <2>1 DEF SourcesInv
  <2>5. \A s \in Sources : PassagesOf(s)' = PassagesOf(s)
    BY <1>5, <1>9 DEF PassagesOf
  <2>6. SourcesInv'
    BY <1>1, <2>1, <2>3, <2>4, <2>5 DEF SourcesInv, IsPassage, Identity
  <2> QED
    BY <1>1, <1>7, <2>1, <2>6 DEF TypeInv
<1> QED
  BY <1>8, <1>9
-----------------------------------------------------------------------------
(* Every step                                                              *)

\* A row that is passed without being shown is reported, one way or the other.
LEMMA PassKeeps ==
  ASSUME PackInv, UNCHANGED <<input, remaining, admitted>>,
         cut => cut', source_contribution_omitted => source_contribution_omitted',
         \/ ordinal' = ordinal
         \/ ordinal' = ordinal + 1 /\ (cut' \/ source_contribution_omitted')
  PROVE  /\ ItemsInv' /\ SourcesInv' /\ OrderInv' /\ WholeInv' /\ \E left : IsLedger(left)'
         /\ UNCHANGED <<request, rows, candidate_omitted, items, source_contributions, remaining>>
         /\ InTokens' = InTokens /\ Limit' = Limit
<1>1. /\ UNCHANGED <<request, rows, candidate_omitted, items, source_contributions, remaining>>
      /\ UNCHANGED <<accepted_passages, accepted_direct_passages>>
  BY DEF input, admitted
<1>2. InTokens' = InTokens /\ Limit' = Limit
  BY <1>1 DEF InTokens, Limit
<1>3. ordinal \in Nat /\ ordinal' \in Nat /\ ordinal <= ordinal'
  BY DEF PackInv, TypeInv
<1>4. ItemsInv'
  BY <1>1, <1>2, <1>3 DEF PackInv, ItemsInv, ShownRow
<1>5. SourcesInv' /\ OrderInv'
  BY <1>1 DEF PackInv, SourcesInv, OrderInv, PassagesOf, ShownRow
<1>6. WholeInv'
  BY <1>1 DEF PackInv, WholeInv
<1>7. \A left : IsLedger(left)' <=> IsLedger(left)
  BY <1>1, <1>2 DEF IsLedger
<1> QED
  BY <1>1, <1>2, <1>4, <1>5, <1>6, <1>7 DEF PackInv

\* A continuation without its hit, a repeated passage, a full source: passed and reported.
LEMMA SkipKeeps ==
  ASSUME PackInv, Skip PROVE PackInv'
<1>1. /\ UNCHANGED <<input, stage, remaining, cut, admitted, work>>
      /\ ordinal' = ordinal + 1 /\ source_contribution_omitted' = TRUE
      /\ stage = "packing" /\ ordinal \in DOMAIN rows
  BY DEF Skip, Pass, ReportOmission, Visiting
<1>2. /\ ItemsInv' /\ SourcesInv' /\ OrderInv' /\ WholeInv' /\ \E left : IsLedger(left)'
      /\ UNCHANGED <<request, rows, candidate_omitted, items, source_contributions, remaining>>
      /\ InTokens' = InTokens /\ Limit' = Limit
  BY <1>1, PassKeeps
<1>3. TypeInv'
  BY <1>1, <1>2 DEF PackInv, TypeInv, work
<1>4. CountsInv'
  BY <1>1, <1>2 DEF PackInv, TypeInv, CountsInv, work
<1> QED
  BY <1>2, <1>3, <1>4 DEF PackInv

\* A row the byte budget refuses.
LEMMA RefuseBytesKeeps ==
  ASSUME PackInv, RefuseBytes PROVE PackInv'
<1>1. /\ UNCHANGED <<input, remaining, source_contribution_omitted, admitted, work>>
      /\ cut' = TRUE /\ stage = "packing" /\ ordinal \in DOMAIN rows
      /\ \/ ordinal' = ordinal + 1 /\ UNCHANGED stage
         \/ ordinal' = ordinal /\ stage' = "packed"
  BY DEF RefuseBytes, Pass, Admissible, Visiting
<1>2. /\ ItemsInv' /\ SourcesInv' /\ OrderInv' /\ WholeInv' /\ \E left : IsLedger(left)'
      /\ UNCHANGED <<request, rows, candidate_omitted, items, source_contributions, remaining>>
      /\ InTokens' = InTokens /\ Limit' = Limit
  BY <1>1, PassKeeps
<1>3. TypeInv'
  BY <1>1, <1>2 DEF PackInv, TypeInv, work
<1>4. CountsInv'
  BY <1>1, <1>2 DEF PackInv, TypeInv, CountsInv, work
<1> QED
  BY <1>2, <1>3, <1>4 DEF PackInv

\* A candidate the tokenizer finds too long: counted, reported, and its bytes given back.
LEMMA RefuseTokensKeeps ==
  ASSUME PackInv, RefuseTokens PROVE PackInv'
<1>1. /\ UNCHANGED <<input, stage, remaining, source_contribution_omitted, admitted>>
      /\ UNCHANGED <<token_count, text>> /\ counts' = counts + 1
      /\ cut' = TRUE /\ stage = "packing" /\ ordinal \in DOMAIN rows /\ ordinal' = ordinal + 1
  BY DEF RefuseTokens, Pass, Count, RestoreBytes, Admissible, Visiting
<1>2. /\ ItemsInv' /\ SourcesInv' /\ OrderInv' /\ WholeInv' /\ \E left : IsLedger(left)'
      /\ UNCHANGED <<request, rows, candidate_omitted, items, source_contributions, remaining>>
      /\ InTokens' = InTokens /\ Limit' = Limit
  BY <1>1, PassKeeps
<1>3. TypeInv'
  BY <1>1, <1>2 DEF PackInv, TypeInv
<1>4. CountsInv'
  BY <1>1, <1>2 DEF PackInv, TypeInv, CountsInv
<1> QED
  BY <1>2, <1>3, <1>4 DEF PackInv

\* The worker opens with the empty envelope, or fails; the walk ends.
LEMMA StagesKeep ==
  ASSUME PackInv, OpenWork \/ FailCounting \/ Finish PROVE PackInv'
<1>1. /\ UNCHANGED <<input, ordinal, remaining, cut, source_contribution_omitted, admitted, text>>
      /\ stage' \in {"packing", "packed"} \cup Failures
      /\ \/ UNCHANGED <<counts, token_count>> /\ stage' # "packing"
         \/ /\ stage = "opened" /\ ~TooManyRows /\ counts' = counts + 1
            /\ \/ token_count' \in Nat /\ token_count' <= request.max_tokens
               \/ token_count' = token_count
  BY DEF OpenWork, FailCounting, Finish, Count, work, Failures
<1>2. /\ ItemsInv' /\ SourcesInv' /\ OrderInv' /\ WholeInv' /\ \E left : IsLedger(left)'
      /\ UNCHANGED <<request, rows, candidate_omitted, items, source_contributions, remaining>>
      /\ InTokens' = InTokens /\ Limit' = Limit
  BY <1>1, PassKeeps
<1>3. TypeInv'
  BY <1>1, <1>2 DEF PackInv, TypeInv
<1>4. CountsInv'
  <2>1. stage' # "opened"
    BY <1>1 DEF Failures
  <2>2. stage' = "packing" /\ InTokens => Len(rows) <= RowLimit /\ counts' <= ordinal
    BY <1>1, LimitsConfigured DEF PackInv, TypeInv, CountsInv, TooManyRows
  <2> QED
    BY <1>1, <1>2, <2>1, <2>2 DEF PackInv, CountsInv
<1> QED
  BY <1>2, <1>3, <1>4 DEF PackInv

\* A row accepted by the bytes, and in token mode by the tokenizer.
LEMMA AcceptKeeps ==
  ASSUME PackInv, AcceptExcerpt \/ AcceptTokens PROVE PackInv'
<1>1. TypeInv /\ CountsInv
  BY DEF PackInv
<1>2. PICK row \in RowShapes : Admissible(row) /\ Taken(row) # None /\ Admit(row, Taken(row))
  BY DEF AcceptExcerpt, AcceptTokens
<1> DEFINE n == Taken(row)
<1>3. ItemsInv' /\ WholeInv' /\ \E left : IsLedger(left)'
  BY <1>2, AdmitKeepsItems
<1>4. SourcesInv' /\ OrderInv' /\ source_contributions' \in [Sources -> Nat]
  BY <1>2, AdmitKeepsSources
<1>5. /\ n \in 0..remaining /\ n \in Nat /\ remaining \in Nat
  BY <1>1, <1>2, TakenBounds, LimitType DEF TypeInv
<1> HIDE DEF n
<1>6. /\ items' = Append(items, <<ordinal, n>>) /\ UNCHANGED <<request, rows, candidate_omitted>>
      /\ ordinal' = ordinal + 1 /\ remaining' = remaining - n
      /\ UNCHANGED <<stage, source_contribution_omitted>>
      /\ stage = "packing" /\ ordinal \in DOMAIN rows /\ Visiting(row)
  BY <1>2 DEF Admit, Pass, input, Admissible, Visiting, n
<1>7. cut' \in BOOLEAN
  BY <1>2 DEF Admit
<1>8. InTokens' = InTokens /\ Limit' = Limit
  BY <1>6 DEF InTokens, Limit
<1>9. /\ items' \in Seq(Nat \X Nat) /\ Len(items) \in Nat
      /\ DOMAIN items = 1..Len(items) /\ DOMAIN items' = 1..Len(items) + 1
      /\ \A m \in 1..Len(items) : items'[m] = items[m]
      /\ items'[Len(items) + 1] = <<ordinal, n>>
  BY <1>1, <1>5, <1>6, ItemAdded
<1>10. /\ request' \in Requests /\ rows' \in Seq(RowShapes) /\ candidate_omitted' \in BOOLEAN
       /\ stage' \in {"opened", "packing", "packed"} \cup Failures
       /\ source_contribution_omitted' \in BOOLEAN
  BY <1>1, <1>6 DEF TypeInv
<1>11. ordinal' \in 1..Len(rows') + 1
  BY <1>1, <1>6 DEF TypeInv
<1>12. remaining' \in 0..Limit'
  BY <1>1, <1>5, <1>6, <1>8, LimitType DEF TypeInv
<1>13. CASE AcceptExcerpt
  <2>1. ~InTokens /\ UNCHANGED <<counts, token_count, text>>
    BY <1>13 DEF AcceptExcerpt, work
  <2>2. TypeInv'
    BY <1>1, <1>4, <1>7, <1>9, <1>10, <1>11, <1>12, <2>1 DEF TypeInv
  <2>3. CountsInv'
    BY <1>6, <1>8, <2>1 DEF CountsInv
  <2> QED
    BY <1>3, <1>4, <2>2, <2>3 DEF PackInv
<1>14. CASE AcceptTokens
  <2>1. /\ InTokens /\ counts' = counts + 1 /\ token_count' \in 1..request.max_tokens
        /\ text' = Append(text, ordinal)
    BY <1>14 DEF AcceptTokens, Count
  <2>2. request.max_tokens \in Nat
    BY <1>1, <2>1, RequestsValidated DEF TypeInv, InTokens
  <2>3. TypeInv'
    <3>1. counts' \in Nat /\ token_count' \in Nat
      BY <1>1, <2>1, <2>2 DEF TypeInv
    <3> QED
      BY <1>4, <1>7, <1>9, <1>10, <1>11, <1>12, <3>1 DEF TypeInv
  <2>4. text' = [m \in DOMAIN items' |-> items'[m][1]]
    <3>1. text = [m \in 1..Len(items) |-> items[m][1]]
      BY <1>1, <1>9, <2>1 DEF CountsInv
    <3>2. \A m \in 1..Len(items) : items[m][1] \in Nat
      BY <1>1, <1>9 DEF TypeInv
    <3>3. text \in Seq(Nat) /\ Len(text) = Len(items)
      BY <1>9, <3>1, <3>2
    <3>4. /\ DOMAIN text' = 1..Len(items) + 1 /\ text'[Len(items) + 1] = ordinal
          /\ \A m \in 1..Len(items) : text'[m] = text[m]
          /\ text' \in Seq(Nat)
      BY <1>1, <1>9, <2>1, <3>3 DEF TypeInv
    <3>5. ASSUME NEW m \in 1..Len(items) + 1 PROVE text'[m] = items'[m][1]
      <4>1. CASE m \in 1..Len(items)
        <5>1. text[m] = items[m][1]
          BY <3>1, <4>1
        <5> QED
          BY <1>9, <3>4, <4>1, <5>1
      <4>2. CASE m = Len(items) + 1
        BY <1>9, <3>4, <4>2
      <4> QED
        BY <1>9, <4>1, <4>2
    <3>6. text' = [m \in 1..Len(items) + 1 |-> text'[m]]
      BY <3>4
    <3> QED
      BY <1>9, <3>5, <3>6
  <2>5. CountsInv'
    BY <1>1, <1>6, <1>8, <2>1, <2>2, <2>4 DEF CountsInv, TypeInv
  <2> QED
    BY <1>3, <1>4, <2>3, <2>5 DEF PackInv
<1> QED
  BY <1>13, <1>14

\* Nothing is shown at first.
LEMMA PackStart == Init => PackInv
<1> SUFFICES ASSUME Init PROVE PackInv
  OBVIOUS
<1>1. /\ request \in Requests /\ candidate_omitted \in BOOLEAN
      /\ stage = IF InTokens THEN "opened" ELSE "packing"
      /\ ordinal = 1 /\ remaining = Limit /\ cut = FALSE /\ source_contribution_omitted = FALSE
      /\ source_contributions = [s \in Sources |-> 0]
      /\ accepted_passages = {} /\ accepted_direct_passages = {}
      /\ items = << >> /\ counts = 0 /\ token_count = 0 /\ text = << >>
  BY DEF Init
<1>2. PICK k \in 0..RowLimit + 1 : rows \in [1..k -> RowShapes]
  BY DEF Init
<1>3. rows \in Seq(RowShapes) /\ Len(rows) \in Nat
  BY <1>2, LimitsConfigured
<1>4. Limit \in Nat
  BY <1>1, RequestsValidated, LimitsConfigured DEF Limit, ContextBytes
<1>5. TypeInv
  <2>1. stage \in {"opened", "packing", "packed"}
    BY <1>1
  <2>2. ordinal \in 1..Len(rows) + 1 /\ remaining \in 0..Limit
    BY <1>1, <1>3, <1>4
  <2>3. items \in Seq(Nat \X Nat) /\ source_contributions \in [Sources -> Nat]
    BY <1>1
  <2> QED
    BY <1>1, <1>3, <2>1, <2>2, <2>3 DEF TypeInv
<1>6. ItemsInv /\ OrderInv /\ WholeInv
  BY <1>1, LimitsConfigured DEF ItemsInv, OrderInv, WholeInv
<1>7. SourcesInv
  <2>1. \A s \in Sources : PassagesOf(s) = {}
    BY <1>1 DEF PassagesOf
  <2> QED
    <3>1. SourceLimit \in Nat /\ \A s \in Sources : source_contributions[s] = 0
      BY <1>1, LimitsConfigured
    <3>2. IsFiniteSet({}) /\ Cardinality({}) = 0
      BY FS_EmptySet
    <3>3. DOMAIN items = {}
      BY <1>1
    <3>4. \A s \in Sources :
            /\ IsFiniteSet(PassagesOf(s))
            /\ Cardinality(PassagesOf(s)) = source_contributions[s]
            /\ source_contributions[s] <= SourceLimit
      BY <2>1, <3>1, <3>2
    <3> QED
      BY <1>1, <3>3, <3>4 DEF SourcesInv
<1>8. CountsInv
  BY <1>1, RequestsValidated DEF CountsInv, InTokens
<1>9. IsLedger([n \in 0..0 |-> Limit])
  BY <1>1 DEF IsLedger
<1> QED
  BY <1>5, <1>6, <1>7, <1>8, <1>9 DEF PackInv

\* Every step of the packer keeps the invariant.
LEMMA PackStep == PackInv /\ [Next]_vars => PackInv'
<1> SUFFICES ASSUME PackInv, [Next]_vars PROVE PackInv'
  OBVIOUS
<1>1. CASE UNCHANGED vars
  <2>1. UNCHANGED <<input, remaining, admitted, cut, source_contribution_omitted, ordinal, stage, counts, token_count, text>>
    BY <1>1 DEF vars, work
  <2>2. /\ ItemsInv' /\ SourcesInv' /\ OrderInv' /\ WholeInv' /\ \E left : IsLedger(left)'
        /\ UNCHANGED <<request, rows, candidate_omitted, items, source_contributions, remaining>>
        /\ InTokens' = InTokens /\ Limit' = Limit
    BY <2>1, PassKeeps
  <2>3. TypeInv' /\ CountsInv'
    BY <2>1, <2>2 DEF PackInv, TypeInv, CountsInv
  <2> QED
    BY <2>2, <2>3 DEF PackInv
<1> QED
  BY <1>1, SkipKeeps, RefuseBytesKeeps, RefuseTokensKeeps, StagesKeep, AcceptKeeps DEF Next

-----------------------------------------------------------------------------
(* Theorems                                                                *)

\* However rows are refused, cut and given back, the packer's books are in order.
THEOREM BooksAreKept == Spec => []PackInv
BY PackStart, PackStep, PTL DEF Spec

\* The walk's state is of its type.
THEOREM PackTypeCorrect == Spec => []PackTypeOK
<1>1. PackInv => PackTypeOK
  BY DEF PackInv, TypeInv, ItemsInv, SourcesInv, PackTypeOK
<1> QED
  BY <1>1, BooksAreKept, PTL

\* The bytes shown and the bytes left make up the budget, and in token mode the text
\* counted is the items returned, within the allowance.
THEOREM LimitsHold == Spec => []WithinLimits
<1>1. PackInv => WithinLimits
  <2> SUFFICES ASSUME PackInv PROVE WithinLimits
    OBVIOUS
  <2>1. PICK ledger : IsLedger(ledger)
    BY DEF PackInv
  <2> DEFINE left[n \in 0..Len(items)] == IF n = 0 THEN Limit ELSE left[n - 1] - items[n][2]
  <2>2. left = [n \in 0..Len(items) |-> IF n = 0 THEN Limit ELSE left[n - 1] - items[n][2]]
    BY <2>1 DEF IsLedger
  <2> HIDE DEF left
  <2>3. left[Len(items)] = remaining
    <3>1. items \in Seq(Nat \X Nat)
      BY DEF PackInv, TypeInv
    <3>2. /\ ledger = [n \in 0..Len(items) |-> IF n = 0 THEN Limit ELSE ledger[n - 1] - items[n][2]]
          /\ ledger[Len(items)] = remaining
      BY <2>1 DEF IsLedger
    <3>3. left = ledger
      BY <2>2, <3>1, <3>2, OneLedger
    <3> QED
      BY <3>2, <3>3
  <2> USE DEF left
  <2> QED
    BY <2>3 DEF PackInv, TypeInv, ItemsInv, CountsInv, WithinLimits
<1> QED
  BY <1>1, BooksAreKept, PTL

\* A source never fills the answer, no passage is shown twice, and a continuation
\* follows a direct hit on what it continues.
THEOREM SourcesStayApart == Spec => []SourceRules
<1>1. PackInv => SourceRules
  BY DEF PackInv, SourcesInv, OrderInv, PassagesOf, SourceRules
<1> QED
  BY <1>1, BooksAreKept, PTL

\* An answer that isn't marked truncated holds every candidate, whole and in order.
THEOREM OmissionsAreReported == Spec => []TruncationHonest
<1>1. PackInv => TruncationHonest
  BY DEF PackInv, TypeInv, WholeInv, Truncated, TruncationHonest
<1> QED
  BY <1>1, BooksAreKept, PTL

\* A worker that took the rows never runs out of counts before it has seen them all.
THEOREM CountsAreEnough == Spec => []CountsSuffice
<1>1. PackInv => CountsSuffice
  BY LimitsConfigured DEF PackInv, TypeInv, CountsInv, CountsSuffice
<1> QED
  BY <1>1, BooksAreKept, PTL
=============================================================================
