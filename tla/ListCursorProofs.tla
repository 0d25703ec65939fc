--------------------------- MODULE ListCursorProofs ---------------------------
(***************************************************************************)
(* What holds of ListCursor for any number of clients, readers, ids and page  *)
(* sizes: cursors that race for a slot, go unheard, expire or are used by        *)
(* another client never make a walk skip or repeat what was listed all along.   *)
(***************************************************************************)
EXTENDS ListCursor, FiniteSetTheorems, TLAPS

-----------------------------------------------------------------------------
(* The inductive invariant                                                 *)

InFlight == {"arrived", "prepared", "selected", "stored"}
Stages == InFlight \cup {"idle", "failed", "answered"}
Refusals == {"malformed", "unauthenticated", "storage_unavailable"}
IssuedRows == [slot : Slots, row : CursorRows, after_id : Nat]
ClientRows == [stage : Stages, query : Queries \cup {None}, at : Nat, page : Seq(Nat),
               row : CursorRows \cup {None}, code : Refusals \cup {"none", "ok"},
               audit : Refusals \cup {"none", "released"}, next : Nat \cup {None},
               seen : Seq(Nat), steady : SUBSET Ids, ended : BOOLEAN]

TypeInv ==
  /\ now \in Nat /\ usable \subseteq Readers /\ listed \in [Slots -> SUBSET Ids]
  /\ list_cursors \in [Slots -> CursorRows \cup {None}]
  /\ paging \in [Clients -> ClientRows]
  /\ issued \in Seq(IssuedRows) /\ Len(issued) <= TokenLimit

\* A token is its place among those drawn, and its row goes on behind its page.
IssuedInv ==
  \A n \in DOMAIN issued : issued[n].row.token = n /\ issued[n].row.after_id = issued[n].after_id

\* A committed row was drawn for its slot.
CommittedInv ==
  \A slot \in Slots : list_cursors[slot] # None =>
    LET row == list_cursors[slot] IN
    /\ row.token \in DOMAIN issued
    /\ issued[row.token].slot = slot /\ issued[row.token].row = row

Position(cursor) == IF cursor = None THEN 0 ELSE issued[cursor].after_id

\* Up to position p, the client heard all that was listed all along.
Met(x, p) ==
  /\ \A n \in DOMAIN x.seen : x.seen[n] <= p
  /\ \A i \in x.steady : i > p \/ \E n \in DOMAIN x.seen : x.seen[n] = i

\* The page selected goes on behind the cursor it was asked with, and leaves out
\* nothing listed all along but what lies behind its last candidate.
PageGoesOn(x) ==
  LET p == Position(x.query.cursor) IN
  /\ Ordered(x.page) /\ Len(x.page) <= x.query.limit + 1
  /\ \A n \in DOMAIN x.page : x.page[n] > p
  /\ \A i \in x.steady : i > p =>
       \/ \E n \in DOMAIN x.page : x.page[n] = i
       \/ Len(x.page) = x.query.limit + 1 /\ \A n \in DOMAIN x.page : x.page[n] < i
  /\ x.query.cursor # None =>
       issued[x.query.cursor].slot = x.query.slot /\ x.at < issued[x.query.cursor].row.expires_at

\* Where a client is on its walk, as far as the tokens drawn tell.
WalkInv(x) ==
  /\ x.stage # "idle" => x.query \in Queries
  /\ x.query \in Queries => x.query.cursor \in DOMAIN issued \cup {None}
  /\ Ordered(x.seen)
  /\ x.next # None =>
       /\ x.query \in Queries /\ ~x.ended
       /\ x.next \in DOMAIN issued /\ issued[x.next].slot = x.query.slot
       /\ Met(x, issued[x.next].after_id)
  /\ x.stage \in InFlight =>
       /\ ~x.ended /\ Met(x, Position(x.query.cursor))
       /\ x.next # None => x.next = x.query.cursor
  /\ x.stage \in {"selected", "stored"} => PageGoesOn(x)
  /\ x.stage \in {"idle", "arrived", "prepared", "selected"} => x.row = None
  /\ x.stage = "failed" => x.code # "ok" /\ ~x.ended
  /\ x.ended => \A i \in x.steady : \E n \in DOMAIN x.seen : x.seen[n] = i

\* What is steady is still listed.
SteadyInv(x) == ~x.ended /\ x.steady # {} => x.query \in Queries /\ x.steady \subseteq listed[x.query.slot]

\* The row a page stored is newer than the one committed.
StoredInv(x) ==
  x.stage = "stored" =>
    /\ x.row \in CursorRows /\ x.row.token \in DOMAIN issued
    /\ issued[x.row.token].slot = x.query.slot /\ issued[x.row.token].row = x.row
    /\ Len(x.page) = x.query.limit + 1 /\ x.row.after_id = x.page[x.query.limit]
    /\ list_cursors[x.query.slot] # None => list_cursors[x.query.slot].token < x.row.token

\* An answer is what it should be, and its cursor is committed or was overwritten later.
ResumeInv(x) ==
  x.stage = "answered" /\ x.code = "ok" =>
    /\ x.audit = "released" /\ Len(x.page) <= x.query.limit
    /\ x.query.cursor # None =>
         /\ issued[x.query.cursor].slot = x.query.slot
         /\ x.at < issued[x.query.cursor].row.expires_at
         /\ \A n \in DOMAIN x.page : x.page[n] > issued[x.query.cursor].after_id
    /\ x.next # None =>
         list_cursors[x.query.slot] # None /\ list_cursors[x.query.slot].token >= x.next

ClientInv(x) == WalkInv(x) /\ SteadyInv(x) /\ StoredInv(x) /\ ResumeInv(x)

\* One page at a time rewrites a slot.
SlotInv ==
  \A c, d \in Clients :
    paging[c].stage = "stored" /\ paging[d].stage = "stored"
      /\ paging[c].query.slot = paging[d].query.slot => c = d

CursorInv ==
  /\ TypeInv /\ IssuedInv /\ CommittedInv /\ SlotInv
  /\ \A c \in Clients : ClientInv(paging[c])
-----------------------------------------------------------------------------
(* Pages                                                                   *)

\* The statement's page is in order, behind its cursor, and leaves out no id that is
\* listed but those behind its last; that much of `ORDER BY id LIMIT limit + 1` a walk
\* relies on.
LEMMA CandidatesHold ==
  ASSUME ListTyped, TypeInv, NEW query \in Queries, NEW after \in Nat,
         NEW page \in Candidates(query, after)
  PROVE  /\ page \in Seq(Nat) /\ Ordered(page) /\ Len(page) <= query.limit + 1
         /\ \A n \in DOMAIN page : page[n] > after
         /\ \A i \in listed[query.slot] : i > after =>
              \/ \E n \in DOMAIN page : page[n] = i
              \/ Len(page) = query.limit + 1 /\ \A n \in DOMAIN page : page[n] < i
<1> DEFINE ids == {i \in listed[query.slot] : i > after}
           length == IF Cardinality(ids) > query.limit THEN query.limit + 1 ELSE Cardinality(ids)
<1>1. /\ query.slot \in Slots /\ query.limit \in Nat
      /\ ids \subseteq Ids /\ ids \subseteq Nat
  <2>1. query.slot \in Slots /\ query.limit \in Limits
    BY DEF Queries
  <2>2. listed[query.slot] \subseteq Ids
    BY <2>1 DEF TypeInv
  <2>3. Limits \subseteq 1..100 /\ Ids \subseteq Nat
    BY DEF ListTyped
  <2>4. query.limit \in Nat
    <3>1. query.limit \in 1..100
      BY <2>1, <2>3
    <3> QED
      BY <3>1
  <2>5. ids \subseteq listed[query.slot]
    OBVIOUS
  <2> QED
    BY <2>1, <2>2, <2>3, <2>4, <2>5
<1>2. IsFiniteSet(ids) /\ Cardinality(ids) \in Nat
  BY <1>1, FS_Subset, FS_CardinalityType DEF ListTyped
<1>3. /\ page \in [1..length -> ids] /\ Ordered(page)
      /\ \A i \in ids : (\E n \in 1..length : page[n] = i) \/ \A n \in 1..length : page[n] < i
  BY DEF Candidates
<1>4. length \in Nat /\ length <= query.limit + 1 /\ length <= Cardinality(ids)
  BY <1>1, <1>2
<1>5. \A i \in ids : i > after
  OBVIOUS
<1>6. ASSUME length # query.limit + 1
      PROVE  \A i \in ids : \E n \in 1..length : page[n] = i
  <2>1. length = Cardinality(ids)
    BY <1>6
  <2>2. page \in Injection(1..length, ids)
    <3>1. ASSUME NEW m \in 1..length, NEW n \in 1..length, page[m] = page[n] PROVE m = n
      <4> HIDE DEF length, ids
      <4>1. page[m] \in ids /\ page[n] \in ids /\ DOMAIN page = 1..length /\ m \in Nat /\ n \in Nat
        BY <1>3, <1>4
      <4>2. page[m] \in Nat
        BY <1>1, <4>1
      <4>3. ~(m < n) /\ ~(n < m)
        BY <1>3, <3>1, <4>1, <4>2 DEF Ordered
      <4> QED
        BY <4>1, <4>3
    <3> QED
      BY <1>3, <3>1 DEF Injection, IsInjective
  <2>3. IsFiniteSet(1..length) /\ Cardinality(1..length) = length
    BY <1>4, FS_Interval
  <2>4. page \in Surjection(1..length, ids)
    BY <1>2, <2>1, <2>2, <2>3, FS_Injection
  <2> QED
    BY <2>4 DEF Surjection
<1> HIDE DEF length
<1>7. page \in Seq(Nat) /\ Len(page) = length /\ DOMAIN page = 1..length
  BY <1>1, <1>3, <1>4
<1>8. \A n \in DOMAIN page : page[n] > after
  BY <1>3, <1>5, <1>7
<1>9. \A i \in listed[query.slot] : i > after => i \in ids
  OBVIOUS
<1> HIDE DEF ids
<1> QED
  BY <1>3, <1>4, <1>6, <1>7, <1>8, <1>9

\* A sequence behind another is the two, one after the other.
LEMMA Behind ==
  ASSUME NEW s \in Seq(Nat), NEW t \in Seq(Nat)
  PROVE  /\ s \o t \in Seq(Nat)
         /\ \A n \in DOMAIN (s \o t) :
              \/ n \in DOMAIN s /\ (s \o t)[n] = s[n]
              \/ n - Len(s) \in DOMAIN t /\ n > Len(s) /\ (s \o t)[n] = t[n - Len(s)]
         /\ \A n \in DOMAIN s : n \in DOMAIN (s \o t) /\ (s \o t)[n] = s[n]
         /\ \A n \in DOMAIN t : Len(s) + n \in DOMAIN (s \o t) /\ (s \o t)[Len(s) + n] = t[n]
<1>1. s \o t \in Seq(Nat) /\ Len(s \o t) = Len(s) + Len(t)
  OBVIOUS
<1>2. \A n \in 1..Len(s) + Len(t) : (s \o t)[n] = IF n <= Len(s) THEN s[n] ELSE t[n - Len(s)]
  OBVIOUS
<1>3. DOMAIN s = 1..Len(s) /\ DOMAIN t = 1..Len(t) /\ DOMAIN (s \o t) = 1..Len(s) + Len(t)
      /\ Len(s) \in Nat /\ Len(t) \in Nat
  BY <1>1
<1> QED
  BY <1>1, <1>2, <1>3

\* Ids in order, and then ids in order behind them, are in order.
LEMMA OrderedOn ==
  ASSUME NEW s \in Seq(Nat), NEW t \in Seq(Nat), NEW p \in Nat, Ordered(s), Ordered(t),
         \A n \in DOMAIN s : s[n] <= p, \A n \in DOMAIN t : t[n] > p
  PROVE  Ordered(s \o t)
<1> DEFINE u == s \o t
<1>1. SUFFICES ASSUME NEW m \in DOMAIN u, NEW n \in DOMAIN u, m < n PROVE u[m] < u[n]
  BY DEF Ordered
<1>2. /\ m \in Nat /\ n \in Nat /\ Len(s) \in Nat
      /\ DOMAIN s = 1..Len(s) /\ DOMAIN t = 1..Len(t) /\ Len(t) \in Nat
      /\ \A k \in DOMAIN s : s[k] \in Nat
      /\ \A k \in DOMAIN t : t[k] \in Nat
  BY Behind
<1>3. /\ \/ m \in DOMAIN s /\ u[m] = s[m]
         \/ m - Len(s) \in DOMAIN t /\ m > Len(s) /\ u[m] = t[m - Len(s)]
      /\ \/ n \in DOMAIN s /\ u[n] = s[n]
         \/ n - Len(s) \in DOMAIN t /\ n > Len(s) /\ u[n] = t[n - Len(s)]
  BY Behind
<1> HIDE DEF u
<1> QED
  BY <1>1, <1>2, <1>3 DEF Ordered
\* Other rows may move on, as long as the tokens drawn stay and a slot somebody is
\* rewriting is left alone: what holds of a client still holds.
LEMMA ClientFrame ==
  ASSUME TypeInv, NEW x \in ClientRows, ClientInv(x),
         listed' = listed, issued' \in Seq(IssuedRows),
         \A n \in DOMAIN issued : n \in DOMAIN issued' /\ issued'[n] = issued[n],
         list_cursors' \in [Slots -> CursorRows \cup {None}],
         \A slot \in Slots :
           \/ list_cursors'[slot] = list_cursors[slot]
           \/ /\ list_cursors'[slot] # None
              /\ list_cursors[slot] # None => list_cursors[slot].token <= list_cursors'[slot].token
              /\ ~(x.stage = "stored" /\ x.query.slot = slot)
  PROVE  ClientInv(x)'
<1>1. WalkInv(x) /\ SteadyInv(x) /\ StoredInv(x) /\ ResumeInv(x)
  BY DEF ClientInv
<1>2. x.query \in Queries => x.query.slot \in Slots
  BY DEF Queries
<1>3. x.next \in Nat \cup {None} /\ (x.query = None \/ x.query \in Queries)
  BY DEF ClientRows
<1>4. x.query \in Queries =>
        /\ x.query.cursor \in DOMAIN issued \cup {None}
        /\ Position(x.query.cursor)' = Position(x.query.cursor)
  BY <1>1 DEF WalkInv, Position
<1>5. WalkInv(x)'
  <2>1. x.stage \in {"selected", "stored"} => PageGoesOn(x)'
    BY <1>1, <1>4 DEF WalkInv, PageGoesOn, InFlight
  <2>2. x.stage \in InFlight =>
          /\ ~x.ended /\ Met(x, Position(x.query.cursor)')
          /\ x.next # None => x.next = x.query.cursor
    BY <1>1, <1>4 DEF WalkInv, InFlight
  <2>3. x.next # None =>
          /\ x.query \in Queries /\ ~x.ended
          /\ x.next \in DOMAIN issued' /\ issued'[x.next].slot = x.query.slot
          /\ Met(x, issued'[x.next].after_id)
    BY <1>1 DEF WalkInv
  <2> QED
    BY <1>1, <2>1, <2>2, <2>3 DEF WalkInv, Met, InFlight
<1>6. SteadyInv(x)'
  BY <1>1 DEF SteadyInv
<1>7. StoredInv(x)'
  BY <1>1, <1>2 DEF StoredInv, WalkInv
<1>8. ResumeInv(x)'
  <2>1. SUFFICES ASSUME x.stage = "answered", x.code = "ok" PROVE ResumeInv(x)'
    BY DEF ResumeInv
  <2>2. x.query \in Queries
    BY <1>1, <2>1 DEF WalkInv
  <2>3. x.next # None =>
          list_cursors'[x.query.slot] # None /\ list_cursors'[x.query.slot].token >= x.next
    <3>1. SUFFICES ASSUME x.next # None PROVE
          list_cursors'[x.query.slot] # None /\ list_cursors'[x.query.slot].token >= x.next
      OBVIOUS
    <3>2. /\ list_cursors[x.query.slot] # None /\ list_cursors[x.query.slot].token >= x.next
          /\ x.next \in Nat
      BY <1>1, <1>3, <2>1, <3>1 DEF ResumeInv
    <3>3. list_cursors[x.query.slot].token \in Nat
      BY <1>2, <2>2, <3>2 DEF TypeInv, CursorRows
    <3>4. list_cursors'[x.query.slot] # None => list_cursors'[x.query.slot].token \in Nat
      BY <1>2, <2>2 DEF CursorRows
    <3> QED
      BY <1>2, <2>2, <3>2, <3>3, <3>4
  <2> QED
    BY <1>1, <1>4, <2>1, <2>2, <2>3 DEF ResumeInv
<1> QED
  BY <1>5, <1>6, <1>7, <1>8 DEF ClientInv

\* One client moves; the tokens drawn and the slots as above.
LEMMA OneClientMoves ==
  ASSUME CursorInv, NEW c \in Clients, NEW y \in ClientRows,
         paging' = [paging EXCEPT ![c] = y], TypeInv', IssuedInv', CommittedInv',
         listed' = listed,
         \A n \in DOMAIN issued : n \in DOMAIN issued' /\ issued'[n] = issued[n],
         \A d \in Clients \ {c} : \A slot \in Slots :
           \/ list_cursors'[slot] = list_cursors[slot]
           \/ /\ list_cursors'[slot] # None
              /\ list_cursors[slot] # None => list_cursors[slot].token <= list_cursors'[slot].token
              /\ ~(paging[d].stage = "stored" /\ paging[d].query.slot = slot),
         y.stage = "stored" => SlotFree(y.query.slot),
         \A z : z = y => ClientInv(z)'
  PROVE  CursorInv'
<1>1. /\ paging \in [Clients -> ClientRows] /\ TypeInv /\ SlotInv
      /\ \A d \in Clients : ClientInv(paging[d])
  BY DEF CursorInv, TypeInv
<1>2. paging'[c] = y /\ \A d \in Clients \ {c} : paging'[d] = paging[d]
  BY <1>1
<1>3. issued' \in Seq(IssuedRows) /\ list_cursors' \in [Slots -> CursorRows \cup {None}]
  BY DEF TypeInv
<1>4. ASSUME NEW d \in Clients PROVE ClientInv(paging[d])'
  <2>1. PICK z : z = paging'[d]
    OBVIOUS
  <2>2. CASE d = c
    <3>1. ClientInv(z)'
      BY <1>2, <2>1, <2>2
    <3> QED
      BY <2>1, <3>1 DEF ClientInv, WalkInv, SteadyInv, StoredInv, ResumeInv, PageGoesOn
  <2>3. CASE d # c
    <3>1. z = paging[d] /\ z \in ClientRows /\ ClientInv(z)
      BY <1>1, <1>2, <2>1, <2>3
    <3>2. ClientInv(z)'
      BY <1>1, <1>3, <2>3, <3>1, ClientFrame
    <3> QED
      BY <2>1, <3>2 DEF ClientInv, WalkInv, SteadyInv, StoredInv, ResumeInv, PageGoesOn
  <2> QED
    BY <2>2, <2>3
<1>5. SlotInv'
  <2>1. SUFFICES ASSUME NEW d \in Clients, NEW e \in Clients,
                        paging'[d].stage = "stored", paging'[e].stage = "stored",
                        paging'[d].query.slot = paging'[e].query.slot
                 PROVE  d = e
    BY DEF SlotInv
  <2>2. \A u \in Clients \ {c} : paging[u].stage = "stored" => u \in Open
    BY DEF Open
  <2>3. ~(y.stage = "stored" /\ \E u \in Clients \ {c} : paging[u].stage = "stored" /\ paging[u].query.slot = y.query.slot)
    BY <2>2 DEF SlotFree
  <2> QED
    BY <1>1, <1>2, <2>1, <2>3 DEF SlotInv
<1> QED
  BY <1>4, <1>5 DEF CursorInv

\* Most steps move one client and nothing else, and leave no page stored.
LEMMA OnlyTheClientMoves ==
  ASSUME CursorInv, NEW c \in Clients, NEW y \in ClientRows,
         paging' = [paging EXCEPT ![c] = y],
         UNCHANGED <<world, list_cursors, issued>>,
         y.stage # "stored", ClientInv(y)
  PROVE  CursorInv'
<1>1. UNCHANGED <<now, usable, listed, list_cursors, issued>>
  BY DEF world
<1>2. TypeInv /\ IssuedInv /\ CommittedInv
  BY DEF CursorInv
<1>3. paging' \in [Clients -> ClientRows]
  BY <1>2 DEF TypeInv
<1>4. TypeInv'
  BY <1>1, <1>2, <1>3 DEF TypeInv
<1>5. IssuedInv' /\ CommittedInv'
  BY <1>1, <1>2 DEF IssuedInv, CommittedInv
<1>6. ASSUME NEW z, z = y PROVE ClientInv(z)'
  <2>1. ClientInv(z)
    BY <1>6
  <2> QED
    BY <1>1, <2>1 DEF ClientInv, WalkInv, SteadyInv, StoredInv, ResumeInv, PageGoesOn, Position
<1> QED
  BY <1>1, <1>4, <1>5, <1>6, OneClientMoves
-----------------------------------------------------------------------------
(* The steps                                                               *)

\* Nobody's first walk says anything.
LEMMA FirstClientHolds ==
  ASSUME NEW q \in Queries \cup {None}, TypeInv,
         q \in Queries => q.cursor \in DOMAIN issued \cup {None}
  PROVE  LET y == [FirstClient EXCEPT !.query = q] IN y \in ClientRows /\ ClientInv(y)
<1> DEFINE y == [FirstClient EXCEPT !.query = q]
<1>1. /\ y.stage = "idle" /\ y.query = q /\ y.at = 0 /\ y.page = <<>> /\ y.row = None
      /\ y.code = "none" /\ y.audit = "none" /\ y.next = None /\ y.seen = <<>>
      /\ y.steady = {} /\ y.ended = FALSE
  BY DEF FirstClient
<1>2. y \in ClientRows
  <2>1. <<>> \in Seq(Nat) /\ "idle" \in Stages
    BY DEF Stages
  <2> QED
    BY <2>1 DEF FirstClient, ClientRows
<1>3. Ordered(<<>>)
  BY DEF Ordered
<1> HIDE DEF y
<1>4. WalkInv(y) /\ SteadyInv(y) /\ StoredInv(y) /\ ResumeInv(y)
  BY <1>1, <1>3 DEF WalkInv, SteadyInv, StoredInv, ResumeInv, InFlight
<1> QED
  BY <1>2, <1>4 DEF ClientInv, y

\* A request on its way fails.
LEMMA FailStep ==
  ASSUME CursorInv, NEW c \in Clients, NEW code \in Refusals, paging[c].stage \in InFlight,
         Fail(c, code), UNCHANGED <<world, list_cursors, issued>>
  PROVE  CursorInv'
<1> DEFINE x == paging[c]
           y == [x EXCEPT !.stage = "failed", !.code = code, !.page = <<>>, !.row = None]
<1>1. x \in ClientRows /\ ClientInv(x) /\ DOMAIN paging = Clients
  BY DEF CursorInv, TypeInv
<1>2. paging' = [paging EXCEPT ![c] = y]
  BY DEF Fail
<1>3. y \in ClientRows /\ code # "ok"
  <2>1. <<>> \in Seq(Nat) /\ "failed" \in Stages /\ code # "ok"
    BY DEF Stages, Refusals
  <2> QED
    BY <1>1, <2>1 DEF ClientRows
<1>4. /\ y.stage = "failed" /\ y.code = code /\ y.query = x.query /\ y.next = x.next
      /\ y.seen = x.seen /\ y.steady = x.steady /\ y.ended = x.ended
  BY <1>1 DEF ClientRows
<1>5. x.stage \in InFlight
  OBVIOUS
<1> HIDE DEF x, y
<1>6. WalkInv(y)
  BY <1>1, <1>3, <1>4, <1>5 DEF ClientInv, WalkInv, InFlight, Met
<1>7. SteadyInv(y) /\ StoredInv(y) /\ ResumeInv(y)
  BY <1>1, <1>4 DEF ClientInv, SteadyInv, StoredInv, ResumeInv
<1> QED
  BY <1>2, <1>3, <1>4, <1>6, <1>7, OnlyTheClientMoves DEF ClientInv

\* A client asks: for the page its walk goes on with, or for one that starts another.
LEMMA AskStep ==
  ASSUME ListTyped, NoneIsNoRow, CursorInv, NEW c \in Clients, NEW query \in Queries, Ask(c, query)
  PROVE  CursorInv'
<1> DEFINE x == paging[c]
           on == [x EXCEPT !.stage = "arrived", !.query = query, !.code = "none", !.audit = "none"]
           steady == IF query.cursor = None THEN listed[query.slot] ELSE {}
           new == [FirstClient EXCEPT !.stage = "arrived", !.query = query, !.steady = steady]
           y == IF Continues(c, query) THEN on ELSE new
<1>1. /\ x \in ClientRows /\ ClientInv(x) /\ DOMAIN paging = Clients
      /\ \A u \in Clients : paging[u] \in ClientRows /\ WalkInv(paging[u])
  BY DEF CursorInv, TypeInv, ClientInv
<1>2. /\ x.stage = "idle" /\ paging' = [paging EXCEPT ![c] = y]
      /\ UNCHANGED <<world, list_cursors, issued>>
  BY DEF Ask
<1>3. query.cursor \in DOMAIN issued \cup {None}
  <2>1. ASSUME NEW u \in Clients PROVE paging[u].next \in DOMAIN issued \cup {None}
    BY <1>1 DEF WalkInv
  <2>2. ASSUME NEW u \in Clients, paging[u].query # None
        PROVE  paging[u].query.cursor \in DOMAIN issued \cup {None}
    <3>1. paging[u].query \in Queries
      BY <1>1, <2>2 DEF ClientRows
    <3> QED
      BY <1>1, <3>1 DEF WalkInv
  <2>3. query.cursor \in {None} \cup {paging[u].next : u \in Clients}
          \cup {paging[u].query.cursor : u \in {v \in Clients : paging[v].query # None}}
    BY DEF Ask
  <2> QED
    BY <2>1, <2>2, <2>3
<1>4. steady \subseteq Ids /\ (steady # {} => query.cursor = None /\ steady = listed[query.slot])
  BY DEF CursorInv, TypeInv, Queries
<1>5. CASE Continues(c, query)
  <2>1. y = on /\ query.cursor # None /\ query.cursor = x.next /\ query.slot = x.query.slot
    BY <1>5 DEF Continues
  <2>2. y \in ClientRows
    <3>1. "arrived" \in Stages
      BY DEF Stages, InFlight
    <3>2. on \in ClientRows
      BY <1>1, <3>1 DEF ClientRows
    <3> QED
      BY <2>1, <3>2
  <2>3. /\ y.stage = "arrived" /\ y.code = "none" /\ y.query = query /\ y.next = x.next
        /\ y.seen = x.seen /\ y.steady = x.steady /\ y.ended = x.ended /\ y.row = x.row
    BY <1>1, <2>1 DEF ClientRows
  <2> HIDE DEF x, y
  <2>4. WalkInv(y)
    <3>1. Position(query.cursor) = issued[x.next].after_id
      BY <2>1 DEF Position
    <3> QED
      BY <1>1, <1>2, <1>3, <2>1, <2>3, <3>1 DEF ClientInv, WalkInv, InFlight, Met
  <2>5. SteadyInv(y) /\ StoredInv(y) /\ ResumeInv(y)
    BY <1>1, <2>1, <2>3 DEF ClientInv, WalkInv, SteadyInv, StoredInv, ResumeInv
  <2> QED
    BY <1>2, <2>2, <2>3, <2>4, <2>5, OnlyTheClientMoves DEF ClientInv
<1>6. CASE ~Continues(c, query)
  <2> HIDE DEF steady
  <2>1. y = new
    BY <1>6
  <2>2. y \in ClientRows
    <3>1. "arrived" \in Stages /\ <<>> \in Seq(Nat) /\ steady \in SUBSET Ids
      BY <1>4 DEF Stages, InFlight
    <3>2. new \in ClientRows
      BY <3>1 DEF ClientRows, FirstClient
    <3> QED
      BY <2>1, <3>2
  <2>3. /\ y.stage = "arrived" /\ y.code = "none" /\ y.query = query /\ y.next = None
        /\ y.seen = <<>> /\ y.steady = steady /\ y.ended = FALSE /\ y.row = None
    BY <2>1 DEF FirstClient
  <2> HIDE DEF x, y
  <2>4. WalkInv(y)
    <3>1. Ordered(<<>>)
      BY DEF Ordered
    <3>2. Met(y, Position(query.cursor))
      <4>1. \A i \in steady : i > 0 /\ Position(query.cursor) = 0
        BY <1>4 DEF Position, ListTyped
      <4> QED
        BY <2>3, <4>1 DEF Met
    <3> QED
      BY <1>3, <2>3, <3>1, <3>2 DEF WalkInv, InFlight
  <2>5. SteadyInv(y) /\ StoredInv(y) /\ ResumeInv(y)
    BY <1>4, <2>3 DEF SteadyInv, StoredInv, ResumeInv
  <2> QED
    BY <1>2, <2>2, <2>3, <2>4, <2>5, OnlyTheClientMoves DEF ClientInv
<1> QED
  BY <1>5, <1>6

\* The credential is good, and the request goes on.
LEMMA PrepareListStep ==
  ASSUME CursorInv, NEW c \in Clients, PrepareList(c)
  PROVE  CursorInv'
<1> DEFINE x == paging[c]
           y == [x EXCEPT !.stage = "prepared"]
<1>1. x \in ClientRows /\ ClientInv(x) /\ DOMAIN paging = Clients
  BY DEF CursorInv, TypeInv
<1>2. x.stage = "arrived" /\ UNCHANGED <<world, list_cursors, issued>>
  BY DEF PrepareList
<1>3. CASE paging' = [paging EXCEPT ![c].stage = "prepared"]
  <2>1. paging' = [paging EXCEPT ![c] = y]
    BY <1>3
  <2>2. y \in ClientRows
    BY <1>1 DEF ClientRows, Stages, InFlight
  <2>3. /\ y.stage = "prepared" /\ y.code = x.code /\ y.query = x.query /\ y.next = x.next
        /\ y.seen = x.seen /\ y.steady = x.steady /\ y.ended = x.ended /\ y.row = x.row
    BY <1>1 DEF ClientRows
  <2> HIDE DEF x, y
  <2>4. WalkInv(y)
    BY <1>1, <1>2, <2>3 DEF ClientInv, WalkInv, InFlight, Met
  <2>5. SteadyInv(y) /\ StoredInv(y) /\ ResumeInv(y)
    BY <1>1, <2>3 DEF ClientInv, SteadyInv, StoredInv, ResumeInv
  <2> QED
    BY <1>2, <2>1, <2>2, <2>3, <2>4, <2>5, OnlyTheClientMoves DEF ClientInv
<1>4. CASE \E code \in Refusals : Fail(c, code)
  BY <1>2, <1>4, FailStep DEF InFlight
<1> QED
  BY <1>3, <1>4 DEF PrepareList, Refusals

\* The page refused; the request fails.
LEMMA RefusePageStep ==
  ASSUME CursorInv, NEW c \in Clients, RefusePage(c)
  PROVE  CursorInv'
<1>1. /\ paging[c].stage \in InFlight /\ UNCHANGED <<world, list_cursors, issued>>
      /\ \E code \in Refusals : Fail(c, code)
  BY DEF RefusePage, Refusals, InFlight
<1> QED
  BY <1>1, FailStep

\* The rejection is answered.
LEMMA FinishListErrorStep ==
  ASSUME CursorInv, NEW c \in Clients, FinishListError(c)
  PROVE  CursorInv'
<1> DEFINE x == paging[c]
<1>1. x \in ClientRows /\ ClientInv(x) /\ DOMAIN paging = Clients
  BY DEF CursorInv, TypeInv
<1>2. x.stage = "failed" /\ UNCHANGED <<world, list_cursors, issued>>
  BY DEF FinishListError
<1>3. PICK audit \in {x.audit, x.code} :
        paging' = [paging EXCEPT ![c] = [x EXCEPT !.stage = "answered", !.audit = audit]]
  <2>1. CASE paging' = [paging EXCEPT ![c].stage = "answered"]
    <3>1. [x EXCEPT !.stage = "answered"] = [x EXCEPT !.stage = "answered", !.audit = x.audit]
      BY <1>1 DEF ClientRows
    <3> QED
      BY <2>1, <3>1
  <2>2. CASE paging' = [paging EXCEPT ![c].stage = "answered", ![c].audit = paging[c].code]
    BY <2>2
  <2> QED
    BY <2>1, <2>2 DEF FinishListError
<1> DEFINE y == [x EXCEPT !.stage = "answered", !.audit = audit]
<1>4. x.code # "ok" /\ ~x.ended
  BY <1>1, <1>2 DEF ClientInv, WalkInv
<1>5. y \in ClientRows
  BY <1>1, <1>3, <1>4 DEF ClientRows, Stages
<1>6. /\ y.stage = "answered" /\ y.code = x.code /\ y.query = x.query /\ y.next = x.next
      /\ y.seen = x.seen /\ y.steady = x.steady /\ y.ended = x.ended /\ y.row = x.row
  BY <1>1 DEF ClientRows
<1> HIDE DEF x, y
<1>7. WalkInv(y)
  BY <1>1, <1>2, <1>6 DEF ClientInv, WalkInv, InFlight, Met
<1>8. SteadyInv(y) /\ StoredInv(y) /\ ResumeInv(y)
  BY <1>1, <1>4, <1>6 DEF ClientInv, SteadyInv, StoredInv, ResumeInv
<1> QED
  BY <1>2, <1>3, <1>5, <1>6, <1>7, <1>8, OnlyTheClientMoves DEF ClientInv, y
\* A live row resumes its own slot, where its page ended.
LEMMA ResumedHolds ==
  ASSUME CursorInv, NEW query \in Queries, query.cursor # None, NEW row \in Resumed(query)
  PROVE  /\ query.cursor \in DOMAIN issued /\ row.after_id \in Nat
         /\ row.after_id = Position(query.cursor)
         /\ issued[query.cursor].slot = query.slot /\ now < issued[query.cursor].row.expires_at
<1>1. TypeInv /\ IssuedInv /\ CommittedInv /\ query.slot \in Slots
  BY DEF CursorInv, Queries
<1>2. /\ row = list_cursors[query.slot] /\ row # None
      /\ row.token = query.cursor /\ row.expires_at > now
  BY DEF Resumed
<1>3. row \in CursorRows
  BY <1>1, <1>2 DEF TypeInv
<1>4. row.after_id \in Nat /\ row.expires_at \in Nat /\ now \in Nat
  BY <1>1, <1>3 DEF TypeInv, CursorRows
<1>5. query.cursor \in DOMAIN issued /\ issued[query.cursor].slot = query.slot
      /\ issued[query.cursor].row = row
  BY <1>1, <1>2 DEF CommittedInv
<1>6. issued[query.cursor].after_id = row.after_id
  BY <1>1, <1>5 DEF IssuedInv
<1> QED
  BY <1>2, <1>4, <1>5, <1>6 DEF Position

\* The page is selected behind the cursor, while all that was listed all along still is.
LEMMA SelectStep ==
  ASSUME ListTyped, CursorInv, NEW c \in Clients, Select(c)
  PROVE  CursorInv'
<1> DEFINE x == paging[c]
           query == x.query
<1>1. /\ x \in ClientRows /\ ClientInv(x) /\ DOMAIN paging = Clients /\ TypeInv
      /\ now \in Nat
  BY DEF CursorInv, TypeInv
<1>2. x.stage = "prepared" /\ UNCHANGED <<world, list_cursors, issued>>
  BY DEF Select
<1>3. PICK after \in IF query.cursor = None THEN {0} ELSE {row.after_id : row \in Resumed(query)} :
        \E page \in Candidates(query, after) :
          paging' = [paging EXCEPT ![c].stage = "selected", ![c].at = now, ![c].page = page]
  BY DEF Select
<1> PICK page \in Candidates(query, after) :
          paging' = [paging EXCEPT ![c].stage = "selected", ![c].at = now, ![c].page = page]
  BY <1>3
<1> DEFINE y == [x EXCEPT !.stage = "selected", !.at = now, !.page = page]
<1>4. paging' = [paging EXCEPT ![c] = y]
  OBVIOUS
<1>5. query \in Queries /\ ~x.ended
  BY <1>1, <1>2 DEF ClientInv, WalkInv, InFlight
<1>6. /\ after \in Nat /\ after = Position(query.cursor)
      /\ query.cursor # None =>
           issued[query.cursor].slot = query.slot /\ now < issued[query.cursor].row.expires_at
  <2>1. CASE query.cursor = None
    BY <1>3, <2>1 DEF Position
  <2>2. CASE query.cursor # None
    <3>1. PICK row \in Resumed(query) : after = row.after_id
      BY <1>3, <2>2
    <3> HIDE DEF query
    <3> QED
      BY <1>5, <2>2, <3>1, ResumedHolds
  <2> QED
    BY <2>1, <2>2
<1>7. /\ page \in Seq(Nat) /\ Ordered(page) /\ Len(page) <= query.limit + 1
      /\ \A n \in DOMAIN page : page[n] > after
      /\ \A i \in listed[query.slot] : i > after =>
           \/ \E n \in DOMAIN page : page[n] = i
           \/ Len(page) = query.limit + 1 /\ \A n \in DOMAIN page : page[n] < i
  <2> HIDE DEF query
  <2> QED
    BY <1>1, <1>3, <1>5, <1>6, CandidatesHold
<1>8. y \in ClientRows
  <2>1. "selected" \in Stages
    BY DEF Stages, InFlight
  <2> QED
    BY <1>1, <1>7, <2>1 DEF ClientRows
<1>9. /\ y.stage = "selected" /\ y.code = x.code /\ y.query = x.query /\ y.next = x.next
      /\ y.seen = x.seen /\ y.steady = x.steady /\ y.ended = x.ended /\ y.row = x.row
      /\ y.page = page /\ y.at = now
  BY <1>1 DEF ClientRows
<1>10. \A i \in x.steady : i \in listed[query.slot]
  BY <1>1, <1>5 DEF ClientInv, SteadyInv
<1> HIDE DEF x, y
<1>11. PageGoesOn(y)
  BY <1>6, <1>7, <1>9, <1>10 DEF PageGoesOn
<1>12. WalkInv(y)
  BY <1>1, <1>2, <1>9, <1>11 DEF ClientInv, WalkInv, InFlight, Met
<1>13. SteadyInv(y) /\ StoredInv(y) /\ ResumeInv(y)
  BY <1>1, <1>9 DEF ClientInv, SteadyInv, StoredInv, ResumeInv
<1> QED
  BY <1>2, <1>4, <1>8, <1>9, <1>12, <1>13, OnlyTheClientMoves DEF ClientInv

\* The client goes: it keeps its walk if there is more to come.
LEMMA LeaveStep ==
  ASSUME CursorInv, NEW c \in Clients, Leave(c)
  PROVE  CursorInv'
<1> DEFINE x == paging[c]
           off == [FirstClient EXCEPT !.query = x.query]
           kept == [x EXCEPT !.stage = "idle", !.at = 0, !.page = <<>>, !.row = None,
                             !.code = "none", !.audit = "none"]
<1>1. x \in ClientRows /\ ClientInv(x) /\ DOMAIN paging = Clients /\ TypeInv
  BY DEF CursorInv, TypeInv
<1>2. UNCHANGED <<world, list_cursors, issued>>
  BY DEF Leave
<1>3. CASE x.next = None
  <2>1. paging' = [paging EXCEPT ![c] = off]
    BY <1>3 DEF Leave
  <2>2. x.query \in Queries \cup {None}
        /\ (x.query \in Queries => x.query.cursor \in DOMAIN issued \cup {None})
    BY <1>1 DEF ClientInv, WalkInv, ClientRows
  <2>3. off \in ClientRows /\ ClientInv(off)
    BY <1>1, <2>2, FirstClientHolds
  <2>4. off.stage # "stored"
    BY DEF FirstClient
  <2> HIDE DEF off
  <2> QED
    BY <1>2, <2>1, <2>3, <2>4, OnlyTheClientMoves
<1>4. CASE x.next # None
  <2>1. paging' = [paging EXCEPT ![c] = kept]
    BY <1>4 DEF Leave
  <2>2. kept \in ClientRows
    <3>1. "idle" \in Stages /\ <<>> \in Seq(Nat)
      BY DEF Stages
    <3> QED
      BY <1>1, <3>1 DEF ClientRows
  <2>3. /\ kept.stage = "idle" /\ kept.query = x.query /\ kept.next = x.next
        /\ kept.seen = x.seen /\ kept.steady = x.steady /\ kept.ended = x.ended /\ kept.row = None
    BY <1>1 DEF ClientRows
  <2> HIDE DEF x, kept
  <2>4. WalkInv(kept)
    BY <1>1, <1>4, <2>3 DEF ClientInv, WalkInv, InFlight, Met
  <2>5. SteadyInv(kept) /\ StoredInv(kept) /\ ResumeInv(kept)
    BY <1>1, <2>3 DEF ClientInv, SteadyInv, StoredInv, ResumeInv
  <2> QED
    BY <1>2, <2>1, <2>2, <2>3, <2>4, <2>5, OnlyTheClientMoves DEF ClientInv
<1> QED
  BY <1>3, <1>4

\* An id appears, or vanishes and is no longer steady for those walking its slot.
LEMMA ChangeStep ==
  ASSUME NoneIsNoRow, CursorInv, NEW slot \in Slots, NEW id \in Ids, Change(slot, id)
  PROVE  CursorInv'
<1> DEFINE y(c) == IF paging[c].query # None /\ paging[c].query.slot = slot /\ ~paging[c].ended
                   THEN [paging[c] EXCEPT !.steady = @ \ {id}] ELSE paging[c]
<1>1. /\ TypeInv /\ IssuedInv /\ CommittedInv /\ SlotInv
      /\ \A c \in Clients : paging[c] \in ClientRows /\ ClientInv(paging[c])
  BY DEF CursorInv, TypeInv
<1>2. /\ paging' = [c \in Clients |-> y(c)] /\ UNCHANGED <<now, usable, list_cursors, issued>>
      /\ listed' = [listed EXCEPT ![slot] = IF id \in @ THEN @ \ {id} ELSE @ \cup {id}]
  BY DEF Change
<1>3. /\ listed' \in [Slots -> SUBSET Ids]
      /\ \A s \in Slots : \A i \in listed[s] : i \in listed'[s] \/ (s = slot /\ i = id)
  BY <1>1, <1>2 DEF TypeInv
<1>4. ASSUME NEW c \in Clients
      PROVE  /\ paging'[c] \in ClientRows /\ paging'[c].stage = paging[c].stage
             /\ paging'[c].query = paging[c].query
             /\ ClientInv(paging[c])'
  <2>1. PICK x : x = paging[c]
    OBVIOUS
  <2>2. PICK z : z = y(c)
    OBVIOUS
  <2>3. x \in ClientRows /\ ClientInv(x)
    BY <1>1, <2>1
  <2>4. paging'[c] = z
    BY <1>2, <2>2
  <2>5. /\ z \in ClientRows /\ z.stage = x.stage /\ z.query = x.query /\ z.next = x.next
        /\ z.seen = x.seen /\ z.ended = x.ended /\ z.row = x.row /\ z.page = x.page
        /\ z.at = x.at /\ z.code = x.code /\ z.audit = x.audit /\ z.steady \subseteq x.steady
        /\ x.query # None /\ x.query.slot = slot /\ ~x.ended => id \notin z.steady
    BY <2>1, <2>2, <2>3 DEF ClientRows
  <2> HIDE DEF y
  <2>6. Position(x.query.cursor)' = Position(x.query.cursor)
    BY <1>2 DEF Position
  <2>7. WalkInv(z)'
    <3>1. \A p : Met(x, p) => Met(z, p)
      BY <2>5 DEF Met
    <3>2. x.stage \in {"selected", "stored"} => PageGoesOn(z)'
      BY <1>2, <2>3, <2>5, <2>6 DEF ClientInv, WalkInv, PageGoesOn
    <3>3. x.stage \in InFlight => Met(z, Position(x.query.cursor)')
      BY <2>3, <2>6, <3>1 DEF ClientInv, WalkInv
    <3>4. x.next # None => Met(z, issued'[x.next].after_id)
      BY <1>2, <2>3, <3>1 DEF ClientInv, WalkInv
    <3> QED
      BY <1>2, <2>3, <2>5, <3>2, <3>3, <3>4 DEF ClientInv, WalkInv, Met, InFlight
  <2>8. SteadyInv(z)'
    <3>1. SUFFICES ASSUME ~z.ended, z.steady # {}
                   PROVE  z.query \in Queries /\ z.steady \subseteq listed'[z.query.slot]
      BY DEF SteadyInv
    <3>2. x.query \in Queries /\ x.steady \subseteq listed[x.query.slot]
      BY <2>3, <2>5, <3>1 DEF ClientInv, SteadyInv
    <3>3. x.query # None /\ x.query.slot \in Slots
      BY <3>2 DEF NoneIsNoRow, Queries
    <3> QED
      BY <1>3, <2>5, <3>1, <3>2, <3>3
  <2>9. StoredInv(z)' /\ ResumeInv(z)'
    BY <1>2, <2>3, <2>5 DEF ClientInv, StoredInv, ResumeInv
  <2> QED
    BY <2>1, <2>4, <2>5, <2>7, <2>8, <2>9
    DEF ClientInv, WalkInv, SteadyInv, StoredInv, ResumeInv, PageGoesOn, Position
<1> HIDE DEF y
<1>5. TypeInv'
  <2>1. paging' \in [Clients -> ClientRows]
    <3>1. DOMAIN paging' = Clients /\ paging' = [c \in Clients |-> paging'[c]]
      BY <1>2
    <3> QED
      BY <1>4, <3>1
  <2> QED
    BY <1>1, <1>2, <1>3, <2>1 DEF TypeInv
<1>6. IssuedInv' /\ CommittedInv'
  BY <1>1, <1>2 DEF IssuedInv, CommittedInv
<1>7. SlotInv'
  BY <1>1, <1>4 DEF SlotInv
<1> QED
  BY <1>4, <1>5, <1>6, <1>7 DEF CursorInv
\* The page takes the slot, and the one token no other page drew.
LEMMA StoreCursorStep ==
  ASSUME ListTyped, NoneIsNoRow, CursorInv, NEW c \in Clients, StoreCursor(c)
  PROVE  CursorInv'
<1> DEFINE x == paging[c]
           query == x.query
           token == Len(issued) + 1
           row == [token |-> token, after_id |-> x.page[query.limit], expires_at |-> now + TTL]
           drawn == [slot |-> query.slot, row |-> row, after_id |-> x.page[query.limit]]
           y == [x EXCEPT !.stage = "stored", !.row = row]
<1>1. /\ x \in ClientRows /\ ClientInv(x) /\ DOMAIN paging = Clients /\ TypeInv
      /\ IssuedInv /\ CommittedInv
  BY DEF CursorInv, TypeInv
<1>2. /\ x.stage = "selected" /\ Len(x.page) > query.limit /\ SlotFree(query.slot)
      /\ Len(issued) < TokenLimit /\ issued' = Append(issued, drawn)
      /\ paging' = [paging EXCEPT ![c] = y]
      /\ UNCHANGED <<now, usable, listed, list_cursors>>
  BY DEF StoreCursor, More, AfterId, world
<1>3. query \in Queries /\ query.slot \in Slots /\ query.limit \in Nat \ {0}
  <2>1. query \in Queries
    BY <1>1, <1>2 DEF ClientInv, WalkInv
  <2>2. query.slot \in Slots /\ query.limit \in Limits
    BY <2>1 DEF Queries
  <2>3. query.limit \in 1..100
    BY <2>2 DEF ListTyped
  <2> QED
    BY <2>1, <2>2, <2>3
<1>4. x.page \in Seq(Nat) /\ PageGoesOn(x) /\ Len(x.page) = query.limit + 1
  <2>1. x.page \in Seq(Nat) /\ PageGoesOn(x)
    BY <1>1, <1>2 DEF ClientInv, WalkInv, ClientRows
  <2>2. Len(x.page) \in Nat /\ Len(x.page) <= query.limit + 1
    BY <2>1 DEF PageGoesOn
  <2> HIDE DEF query, x
  <2> QED
    BY <1>2, <1>3, <2>1, <2>2
<1>5. row \in CursorRows /\ row.token = token /\ row.after_id = x.page[query.limit]
  <2>1. now + TTL \in Nat /\ Len(issued) + 1 \in Nat
    BY <1>1 DEF TypeInv, ListTyped
  <2>2. x.page[query.limit] \in Nat
    <3> HIDE DEF query, x
    <3>1. query.limit \in 1..Len(x.page)
      BY <1>3, <1>4
    <3> QED
      BY <1>4, <3>1
  <2> QED
    BY <2>1, <2>2 DEF CursorRows
<1> HIDE DEF row
<1>6. drawn \in IssuedRows /\ drawn.slot = query.slot /\ drawn.row = row /\ drawn.after_id = row.after_id
  BY <1>3, <1>5 DEF IssuedRows, CursorRows
<1> HIDE DEF drawn
<1>7. /\ issued' \in Seq(IssuedRows) /\ Len(issued') = token /\ token \in Nat /\ token <= TokenLimit
      /\ DOMAIN issued = 1..Len(issued) /\ DOMAIN issued' = 1..token
      /\ issued'[token] = drawn
      /\ \A n \in DOMAIN issued : n \in DOMAIN issued' /\ issued'[n] = issued[n]
  <2>1. issued \in Seq(IssuedRows) /\ Len(issued) < TokenLimit /\ TokenLimit \in Nat
    BY <1>1, <1>2 DEF TypeInv, ListTyped
  <2> QED
    BY <1>2, <1>6, <2>1
<1>8. y \in ClientRows
  <2>1. "stored" \in Stages
    BY DEF Stages, InFlight
  <2> QED
    BY <1>1, <1>5, <2>1 DEF ClientRows
<1>9. /\ y.stage = "stored" /\ y.code = x.code /\ y.query = x.query /\ y.next = x.next
      /\ y.seen = x.seen /\ y.steady = x.steady /\ y.ended = x.ended /\ y.row = row
      /\ y.page = x.page /\ y.at = x.at
  BY <1>1 DEF ClientRows
<1>10. TypeInv'
  <2>1. paging' \in [Clients -> ClientRows]
    BY <1>1, <1>2, <1>8 DEF TypeInv
  <2> QED
    BY <1>1, <1>2, <1>7, <2>1 DEF TypeInv
<1>11. IssuedInv'
  <2>1. ASSUME NEW n \in DOMAIN issued'
        PROVE  issued'[n].row.token = n /\ issued'[n].row.after_id = issued'[n].after_id
    <3>1. CASE n = token
      BY <1>5, <1>6, <1>7, <3>1
    <3>2. CASE n # token
      <4>1. n \in DOMAIN issued
        BY <1>7, <3>2
      <4> QED
        BY <1>1, <1>7, <4>1 DEF IssuedInv
    <3> QED
      BY <3>1, <3>2
  <2> QED
    BY <2>1 DEF IssuedInv
<1>12. CommittedInv'
  BY <1>1, <1>2, <1>7 DEF CommittedInv
<1> HIDE DEF x, y, token
<1>13. ASSUME NEW z, z = y PROVE ClientInv(z)'
  <2>1. PICK v : v = x
    OBVIOUS
  <2>2. ClientInv(v)'
    <3>1. list_cursors' \in [Slots -> CursorRows \cup {None}]
      BY <1>10 DEF TypeInv
    <3>2. v \in ClientRows /\ ClientInv(v) /\ TypeInv /\ listed' = listed /\ list_cursors' = list_cursors
      BY <1>1, <1>2, <2>1
    <3> QED
      BY <1>7, <3>1, <3>2, ClientFrame
  <2>3. /\ z.stage = "stored" /\ z.code = v.code /\ z.query = v.query /\ z.next = v.next
        /\ z.seen = v.seen /\ z.steady = v.steady /\ z.ended = v.ended /\ z.row = row
        /\ z.page = v.page /\ z.at = v.at /\ v.stage = "selected" /\ v.query = query
    BY <1>2, <1>9, <1>13, <2>1
  <2>4. WalkInv(z)'
    BY <2>2, <2>3 DEF ClientInv, WalkInv, InFlight, Met, PageGoesOn
  <2>5. SteadyInv(z)' /\ ResumeInv(z)'
    BY <2>2, <2>3 DEF ClientInv, SteadyInv, ResumeInv
  <2>6. StoredInv(z)'
    <3>1. z.row \in CursorRows /\ z.row.token = token /\ token \in DOMAIN issued'
      <4>1. z.row = row /\ token \in 1..token
        BY <1>7, <2>3 DEF token
      <4> QED
        BY <1>5, <1>7, <4>1
    <3>2. issued'[token].slot = query.slot /\ issued'[token].row = z.row
      BY <1>6, <1>7, <2>3
    <3>3. Len(z.page) = query.limit + 1 /\ z.row.after_id = z.page[query.limit]
      BY <1>4, <1>5, <2>1, <2>3
    <3>4. list_cursors'[query.slot] # None => list_cursors'[query.slot].token < token
      <4>1. list_cursors[query.slot] # None => list_cursors[query.slot].token \in DOMAIN issued
        BY <1>1, <1>3 DEF CommittedInv
      <4>2. token = Len(issued) + 1
        BY DEF token
      <4>3. \A n \in DOMAIN issued : n < token
        BY <1>7, <4>2
      <4> QED
        BY <1>2, <4>1, <4>3
    <3> QED
      BY <2>3, <3>1, <3>2, <3>3, <3>4 DEF StoredInv
  <2> QED
    BY <2>4, <2>5, <2>6 DEF ClientInv
<1>14. \A d \in Clients \ {c} : \A slot \in Slots : list_cursors'[slot] = list_cursors[slot]
  BY <1>2
<1> QED
  BY <1>2, <1>7, <1>8, <1>9, <1>10, <1>11, <1>12, <1>13, <1>14, OneClientMoves
\* The commit puts the page's row in its slot, over an older one.
LEMMA StoreRowHolds ==
  ASSUME NoneIsNoRow, CursorInv, NEW c \in Clients, StoreRow(c),
         paging[c].stage = "stored" \/ (paging[c].stage = "selected" /\ ~More(c)),
         UNCHANGED <<world, issued>>
  PROVE  /\ list_cursors' \in [Slots -> CursorRows \cup {None}] /\ CommittedInv'
         /\ \A d \in Clients \ {c} : \A slot \in Slots :
              \/ list_cursors'[slot] = list_cursors[slot]
              \/ /\ list_cursors'[slot] # None
                 /\ list_cursors[slot] # None => list_cursors[slot].token <= list_cursors'[slot].token
                 /\ ~(paging[d].stage = "stored" /\ paging[d].query.slot = slot)
         /\ paging[c].row # None =>
              /\ paging[c].stage = "stored" /\ paging[c].row \in CursorRows
              /\ list_cursors'[paging[c].query.slot] = paging[c].row
         /\ paging[c].row = None => paging[c].stage = "selected" /\ ~More(c)
<1> DEFINE x == paging[c]
<1>1. /\ x \in ClientRows /\ ClientInv(x) /\ TypeInv /\ CommittedInv /\ SlotInv
      /\ list_cursors \in [Slots -> CursorRows \cup {None}] /\ UNCHANGED issued
  BY DEF CursorInv, TypeInv
<1>2. x.stage = "selected" => x.row = None
  BY <1>1 DEF ClientInv, WalkInv
<1>3. CASE x.row = None
  <2>1. list_cursors' = list_cursors
    BY <1>3 DEF StoreRow
  <2>2. x.stage # "stored"
    BY <1>1, <1>3 DEF ClientInv, StoredInv, NoneIsNoRow
  <2> QED
    BY <1>1, <1>3, <2>1, <2>2 DEF CommittedInv
<1>4. CASE x.row # None
  <2> DEFINE slot == x.query.slot
  <2>1. x.stage = "stored" /\ list_cursors' = [list_cursors EXCEPT ![slot] = x.row]
    BY <1>2, <1>4 DEF StoreRow
  <2>2. slot \in Slots
    BY <1>1, <2>1 DEF ClientInv, WalkInv, Queries
  <2>3. /\ x.row \in CursorRows /\ x.row.token \in DOMAIN issued
        /\ issued[x.row.token].slot = slot /\ issued[x.row.token].row = x.row
        /\ list_cursors[slot] # None => list_cursors[slot].token < x.row.token
    BY <1>1, <2>1 DEF ClientInv, StoredInv
  <2>4. list_cursors'[slot] = x.row
        /\ \A s \in Slots \ {slot} : list_cursors'[s] = list_cursors[s]
    BY <1>1, <2>1, <2>2
  <2>5. list_cursors' \in [Slots -> CursorRows \cup {None}]
    BY <1>1, <2>1, <2>3
  <2> HIDE DEF slot
  <2>6. CommittedInv'
    BY <1>1, <2>3, <2>4 DEF CommittedInv
  <2>7. list_cursors[slot] # None => list_cursors[slot].token <= x.row.token
    <3>1. list_cursors[slot] # None => list_cursors[slot].token \in Nat
      BY <1>1, <2>2 DEF CursorRows
    <3>2. x.row.token \in Nat
      BY <2>3 DEF CursorRows
    <3> QED
      BY <2>3, <3>1, <3>2
  <2>8. x.row # None
    BY <1>4
  <2>9. \A d \in Clients \ {c} : ~(paging[d].stage = "stored" /\ paging[d].query.slot = slot)
    BY <1>1, <2>1 DEF SlotInv, slot
  <2>10. \A d \in Clients \ {c} : \A s \in Slots :
           \/ list_cursors'[s] = list_cursors[s]
           \/ /\ list_cursors'[s] # None
              /\ list_cursors[s] # None => list_cursors[s].token <= list_cursors'[s].token
              /\ ~(paging[d].stage = "stored" /\ paging[d].query.slot = s)
    <3>1. ASSUME NEW s \in Slots, s = slot, NEW d \in Clients \ {c}
          PROVE  /\ list_cursors'[s] # None
                 /\ list_cursors[s] # None => list_cursors[s].token <= list_cursors'[s].token
                 /\ ~(paging[d].stage = "stored" /\ paging[d].query.slot = s)
      BY <2>4, <2>7, <2>8, <2>9, <3>1
    <3> QED
      BY <2>4, <3>1
  <2> QED
    BY <1>4, <2>1, <2>3, <2>4, <2>5, <2>6, <2>10 DEF slot
<1> QED
  BY <1>3, <1>4

\* The page handed out keeps the look-ahead back: it is in order behind its cursor, and
\* leaves out nothing listed all along up to its last id, or at all if it is the last.
LEMMA PageOfHolds ==
  ASSUME ListTyped, CursorInv, NEW c \in Clients, paging[c].stage \in {"selected", "stored"}
  PROVE  LET x == paging[c]
             q == PageOf(c)
             p == Position(x.query.cursor) IN
         /\ q \in Seq(Nat) /\ Ordered(q) /\ Len(q) <= x.query.limit
         /\ \A n \in DOMAIN q : q[n] > p
         /\ More(c) => x.query.limit \in DOMAIN x.page /\ x.page[x.query.limit] \in Nat
         /\ More(c) => /\ x.page[x.query.limit] > p
                       /\ \A n \in DOMAIN q : q[n] <= x.page[x.query.limit]
         /\ \A i \in x.steady : i > p =>
              \/ \E n \in DOMAIN q : q[n] = i
              \/ More(c) /\ i > x.page[x.query.limit]
<1> DEFINE x == paging[c]
           page == x.page
           limit == x.query.limit
           length == IF More(c) THEN limit ELSE Len(page)
           q == PageOf(c)
           p == Position(x.query.cursor)
<1>1. x \in ClientRows /\ WalkInv(x)
  BY DEF CursorInv, TypeInv, ClientInv
<1>2. PageGoesOn(x) /\ x.query \in Queries /\ page \in Seq(Nat)
  BY <1>1 DEF WalkInv, ClientRows
<1>3. limit \in Nat \ {0}
  <2>1. limit \in 1..100
    BY <1>2 DEF Queries, ListTyped
  <2> HIDE DEF limit
  <2> QED
    BY <2>1
<1>4. x.steady \subseteq Nat
  BY <1>1 DEF ClientRows, ListTyped
<1>5. /\ Ordered(page) /\ Len(page) <= limit + 1
      /\ \A n \in DOMAIN page : page[n] > p
      /\ \A i \in x.steady : i > p =>
           \/ \E n \in DOMAIN page : page[n] = i
           \/ Len(page) = limit + 1 /\ \A n \in DOMAIN page : page[n] < i
  BY <1>2 DEF PageGoesOn
<1>6. (More(c) <=> Len(page) > limit) /\ q = SubSeq(page, 1, length)
  BY DEF More, PageOf
<1> HIDE DEF x, page, limit, q, p
<1>7. /\ DOMAIN page = 1..Len(page) /\ Len(page) \in Nat
      /\ \A n \in DOMAIN page : page[n] \in Nat
  BY <1>2
<1>8. length \in Nat /\ length <= Len(page) /\ length <= limit
      /\ (More(c) => length = limit /\ Len(page) = limit + 1)
      /\ (~More(c) => length = Len(page))
  <2>1. Len(page) \in Nat /\ limit \in Nat /\ Len(page) <= limit + 1
    BY <1>3, <1>5, <1>7
  <2>2. CASE More(c)
    <3>1. length = limit /\ Len(page) > limit
      BY <1>6, <2>2
    <3>2. Len(page) = limit + 1
      BY <2>1, <3>1
    <3> QED
      BY <2>1, <2>2, <3>1, <3>2
  <2>3. CASE ~More(c)
    <3>1. length = Len(page) /\ ~(Len(page) > limit)
      BY <1>6, <2>3
    <3>2. Len(page) <= limit
      BY <2>1, <3>1
    <3> HIDE DEF length
    <3> QED
      BY <2>1, <2>3, <3>1, <3>2
  <2> QED
    BY <2>2, <2>3
<1> HIDE DEF length
<1>9. /\ q \in Seq(Nat) /\ Len(q) = length /\ DOMAIN q = 1..length
      /\ \A n \in 1..length : q[n] = page[n] /\ n \in DOMAIN page
  <2>1. \A n \in 1..length : n \in 1..Len(page)
    <3>1. length \in Nat /\ Len(page) \in Nat /\ length <= Len(page)
      BY <1>7, <1>8
    <3> QED
      BY <3>1
  <2>2. /\ q \in Seq(Nat) /\ Len(q) = length
        /\ \A n \in 1..length : q[n] = page[n]
    <3>1. SubSeq(page, 1, length) = [n \in 1..length |-> page[n]]
      BY <1>2, <1>8
    <3>2. \A n \in 1..length : page[n] \in Nat
      BY <1>7, <2>1
    <3> QED
      BY <1>6, <1>8, <3>1, <3>2
  <2>3. DOMAIN q = 1..length
    BY <2>2
  <2> QED
    BY <1>7, <2>1, <2>2, <2>3
<1>10. Ordered(q)
  BY <1>5, <1>9 DEF Ordered
<1>11. More(c) => limit \in DOMAIN page /\ page[limit] > p
  <2>1. SUFFICES ASSUME More(c) PROVE limit \in DOMAIN page /\ page[limit] > p
    OBVIOUS
  <2>2. Len(page) = limit + 1 /\ DOMAIN page = 1..Len(page)
    BY <1>7, <1>8, <2>1
  <2>3. limit \in DOMAIN page
    BY <1>3, <2>2
  <2> QED
    BY <1>5, <2>3
<1>12. More(c) => \A n \in DOMAIN q : q[n] <= page[limit]
  <2>1. SUFFICES ASSUME More(c), NEW n \in 1..length PROVE page[n] <= page[limit]
    BY <1>9
  <2>2. n \in DOMAIN page /\ limit \in DOMAIN page /\ n \in Nat /\ (n = limit \/ n < limit)
    BY <1>3, <1>8, <1>9, <1>11, <2>1
  <2>3. page[n] \in Nat /\ page[limit] \in Nat
    BY <1>7, <2>2
  <2> QED
    BY <1>5, <2>2, <2>3 DEF Ordered
<1>13. ASSUME NEW i \in x.steady, i > p
       PROVE  (\E n \in DOMAIN q : q[n] = i) \/ (More(c) /\ i > page[limit])
  <2>1. CASE \E n \in DOMAIN page : page[n] = i
    <3>1. PICK n \in DOMAIN page : page[n] = i
      BY <2>1
    <3>2. CASE n <= length
      <4>1. n \in Nat /\ n >= 1 /\ length \in Nat
        <5>1. n \in 1..Len(page) /\ Len(page) \in Nat /\ length \in Nat
          BY <1>7, <1>8, <3>1
        <5> QED
          BY <5>1
      <4>2. n \in 1..length
        BY <3>2, <4>1
      <4>3. n \in DOMAIN q /\ q[n] = i
        BY <1>9, <3>1, <4>2
      <4> QED
        BY <4>3
    <3>3. CASE ~(n <= length)
      <4>1. n \in Nat /\ n <= Len(page) /\ length \in Nat /\ Len(page) \in Nat
        <5>1. n \in 1..Len(page) /\ Len(page) \in Nat /\ length \in Nat
          BY <1>7, <1>8, <3>1
        <5> QED
          BY <5>1
      <4>2. length # Len(page)
        BY <3>3, <4>1
      <4>3. More(c) /\ length = limit
        BY <1>8, <4>2
      <4>4. limit < n /\ limit \in DOMAIN page
        BY <1>11, <3>3, <4>1, <4>3
      <4>5. page[limit] < page[n] /\ page[limit] \in Nat /\ page[n] \in Nat
        BY <1>5, <1>7, <4>4 DEF Ordered
      <4> QED
        BY <3>1, <4>3, <4>5
    <3> QED
      BY <3>2, <3>3
  <2>2. CASE Len(page) = limit + 1 /\ \A n \in DOMAIN page : page[n] < i
    <3>1. More(c)
      BY <1>3, <1>6, <2>2
    <3>2. page[limit] < i /\ page[limit] \in Nat /\ i \in Nat
      BY <1>4, <1>7, <1>11, <2>2, <3>1
    <3> QED
      BY <3>1, <3>2
  <2> QED
    BY <1>5, <1>13, <2>1, <2>2
<1>14. More(c) => limit \in DOMAIN page /\ page[limit] \in Nat
  BY <1>7, <1>11
<1>15. Len(q) <= limit /\ \A n \in DOMAIN q : q[n] > p
  BY <1>5, <1>8, <1>9
<1> QED
  BY <1>9, <1>10, <1>11, <1>12, <1>13, <1>14, <1>15 DEF x, page, limit, q, p
\* Heard, a page takes its client on: to the end, or to the id its new cursor goes on
\* behind.
LEMMA WalkGoesOn ==
  ASSUME ListTyped, NoneIsNoRow, CursorInv, NEW c \in Clients,
         \/ /\ paging[c].stage = "stored" /\ paging[c].row \in CursorRows /\ paging[c].row # None
         \/ /\ paging[c].stage = "selected" /\ paging[c].row = None /\ ~More(c)
  PROVE  Heard(c) \in ClientRows /\ WalkInv(Heard(c))
<1> DEFINE x == paging[c]
           q == PageOf(c)
           p == Position(x.query.cursor)
           next == IF x.row = None THEN None ELSE x.row.token
           seen == x.seen \o q
           ended == x.row = None
           y == [x EXCEPT !.stage = "answered", !.code = "ok", !.audit = "released",
                   !.page = q, !.next = next, !.seen = seen, !.ended = ended]
<1>1. x \in ClientRows /\ ClientInv(x) /\ TypeInv /\ IssuedInv
  BY DEF CursorInv, TypeInv
<1>2. x.stage \in InFlight /\ x.stage \in {"selected", "stored"}
  BY DEF InFlight
<1>3. x.query \in Queries /\ x.query.cursor \in DOMAIN issued \cup {None} /\ Ordered(x.seen) /\ Met(x, p)
  BY <1>1, <1>2 DEF ClientInv, WalkInv, InFlight
<1>4. p \in Nat /\ x.seen \in Seq(Nat) /\ x.steady \subseteq Nat
  <2>1. \A n \in DOMAIN issued : issued[n].after_id \in Nat
    <3>1. issued \in Seq(IssuedRows) /\ \A n \in DOMAIN issued : issued[n] \in IssuedRows
      BY <1>1 DEF TypeInv
    <3> QED
      BY <3>1 DEF IssuedRows
  <2>2. x.seen \in Seq(Nat) /\ x.steady \subseteq Nat
    BY <1>1 DEF ClientRows, ListTyped
  <2> QED
    BY <1>3, <2>1, <2>2 DEF Position
<1>5. /\ q \in Seq(Nat) /\ Ordered(q) /\ \A n \in DOMAIN q : q[n] > p
      /\ x.page[x.query.limit] \in Nat \/ ~More(c)
      /\ More(c) => /\ x.page[x.query.limit] > p
                    /\ \A n \in DOMAIN q : q[n] <= x.page[x.query.limit]
      /\ \A i \in x.steady : i > p =>
           \/ \E n \in DOMAIN q : q[n] = i
           \/ More(c) /\ i > x.page[x.query.limit]
  BY <1>2, PageOfHolds
<1>6. next \in Nat \cup {None}
  BY DEF CursorRows
<1>7. /\ seen \in Seq(Nat)
      /\ \A n \in DOMAIN seen :
           \/ n \in DOMAIN x.seen /\ seen[n] = x.seen[n]
           \/ n - Len(x.seen) \in DOMAIN q /\ n > Len(x.seen) /\ seen[n] = q[n - Len(x.seen)]
      /\ \A n \in DOMAIN x.seen : n \in DOMAIN seen /\ seen[n] = x.seen[n]
      /\ \A n \in DOMAIN q : Len(x.seen) + n \in DOMAIN seen /\ seen[Len(x.seen) + n] = q[n]
  <2> HIDE DEF q, x
  <2> QED
    BY <1>4, <1>5, Behind
<1>0. Heard(c) = y
  BY DEF Heard
<1> HIDE DEF q, p, next, seen
<1>8. y \in ClientRows
  <2>1. "answered" \in Stages
    BY DEF Stages
  <2> QED
    BY <1>1, <1>5, <1>6, <1>7, <2>1 DEF ClientRows
<1>9. /\ y.stage = "answered" /\ y.code = "ok" /\ y.query = x.query /\ y.next = next
      /\ y.seen = seen /\ y.steady = x.steady /\ y.row = x.row
      /\ y.ended = (x.row = None)
  BY <1>1 DEF ClientRows
<1> HIDE DEF x, y
<1>10. Ordered(seen)
  BY <1>3, <1>4, <1>5, OrderedOn DEF Met, seen
<1>11. \A i : (\E n \in DOMAIN x.seen : x.seen[n] = i) \/ (\E n \in DOMAIN q : q[n] = i)
              => \E n \in DOMAIN seen : seen[n] = i
  BY <1>7
<1>12. \A n \in DOMAIN seen : (\E m \in DOMAIN x.seen : seen[n] = x.seen[m])
                              \/ \E m \in DOMAIN q : seen[n] = q[m]
  BY <1>7
<1>13. CASE x.row = None
  <2>1. next = None /\ ~More(c)
    BY <1>13 DEF next, x, NoneIsNoRow
  <2>2. ASSUME NEW i \in x.steady PROVE \E n \in DOMAIN seen : seen[n] = i
    BY <1>3, <1>5, <1>11, <2>1 DEF Met
  <2> QED
    BY <1>0, <1>3, <1>8, <1>9, <1>10, <1>13, <2>1, <2>2 DEF WalkInv, InFlight
<1>14. CASE x.row # None
  <2>1. x.stage = "stored" /\ x.row \in CursorRows
    BY <1>14 DEF x
  <2>2. /\ x.row.token \in DOMAIN issued
        /\ issued[x.row.token].slot = x.query.slot /\ issued[x.row.token].row = x.row
        /\ Len(x.page) = x.query.limit + 1 /\ x.row.after_id = x.page[x.query.limit]
    BY <1>1, <2>1 DEF ClientInv, StoredInv
  <2>3. issued[x.row.token].after_id = x.page[x.query.limit]
    BY <1>1, <2>2 DEF IssuedInv
  <2>4. More(c)
    <3>1. x.query.limit \in Limits
      BY <1>3 DEF Queries
    <3>2. x.query.limit \in Nat
      <4>1. x.query.limit \in 1..100
        BY <3>1 DEF ListTyped
      <4> QED
        BY <4>1
    <3> QED
      BY <2>2, <3>2 DEF More, x
  <2>5. Met(y, x.page[x.query.limit])
    <3>1. x.page[x.query.limit] \in Nat /\ x.page[x.query.limit] > p
      BY <1>5, <2>4
    <3>2. \A n \in DOMAIN x.seen : x.seen[n] \in Nat /\ x.seen[n] <= p
      BY <1>3, <1>4 DEF Met
    <3>3. \A n \in DOMAIN x.seen : x.seen[n] <= x.page[x.query.limit]
      BY <1>4, <3>1, <3>2
    <3>4. \A n \in DOMAIN seen : seen[n] <= x.page[x.query.limit]
      BY <1>5, <1>12, <2>4, <3>3
    <3>5. ASSUME NEW i \in x.steady
          PROVE  i > x.page[x.query.limit] \/ \E n \in DOMAIN seen : seen[n] = i
      BY <1>3, <1>5, <1>11 DEF Met
    <3> QED
      BY <1>9, <3>4, <3>5 DEF Met
  <2>6. next = x.row.token
    BY <1>14 DEF next
  <2> QED
    BY <1>0, <1>3, <1>8, <1>9, <1>10, <1>14, <2>2, <2>3, <2>5, <2>6 DEF WalkInv, InFlight
<1> QED
  BY <1>13, <1>14

\* The page commits, heard or not, or storage fails it.
LEMMA CommitPageStep ==
  ASSUME ListTyped, NoneIsNoRow, CursorInv, NEW c \in Clients, CommitPage(c)
  PROVE  CursorInv'
<1> DEFINE x == paging[c]
<1>1. /\ x \in ClientRows /\ ClientInv(x) /\ DOMAIN paging = Clients /\ TypeInv /\ IssuedInv
      /\ paging \in [Clients -> ClientRows]
  BY DEF CursorInv, TypeInv
<1>2. /\ x.stage = "stored" \/ (x.stage = "selected" /\ ~More(c))
      /\ x.stage \in InFlight
      /\ UNCHANGED <<world, issued>> /\ UNCHANGED <<now, usable, listed, issued>>
  BY DEF CommitPage, InFlight, world
<1>3. CASE UNCHANGED list_cursors /\ Fail(c, "storage_unavailable")
  BY <1>2, <1>3, FailStep DEF Refusals
<1>4. ASSUME StoreRow(c), NEW y \in ClientRows, paging' = [paging EXCEPT ![c] = y],
             y.stage # "stored", \A z : z = y => ClientInv(z)'
      PROVE  CursorInv'
  <2>1. /\ list_cursors' \in [Slots -> CursorRows \cup {None}] /\ CommittedInv'
        /\ \A d \in Clients \ {c} : \A slot \in Slots :
             \/ list_cursors'[slot] = list_cursors[slot]
             \/ /\ list_cursors'[slot] # None
                /\ list_cursors[slot] # None => list_cursors[slot].token <= list_cursors'[slot].token
                /\ ~(paging[d].stage = "stored" /\ paging[d].query.slot = slot)
    BY <1>2, <1>4, StoreRowHolds
  <2>2. paging' \in [Clients -> ClientRows]
    BY <1>1, <1>4
  <2>3. TypeInv'
    BY <1>1, <1>2, <2>1, <2>2 DEF TypeInv
  <2>4. IssuedInv'
    BY <1>1, <1>2 DEF IssuedInv
  <2> QED
    BY <1>2, <1>4, <2>1, <2>3, <2>4, OneClientMoves
<1>5. CASE StoreRow(c) /\ Answer(c)
  <2> DEFINE y == Heard(c)
  <2>1. paging' = [paging EXCEPT ![c] = y]
    BY <1>1, <1>5 DEF Answer, Heard
  <2>2. /\ x.row # None => x.stage = "stored" /\ x.row \in CursorRows
                           /\ list_cursors'[x.query.slot] = x.row
        /\ x.row = None => x.stage = "selected" /\ ~More(c)
    BY <1>2, <1>5, StoreRowHolds
  <2>3. y \in ClientRows /\ WalkInv(y)
    BY <2>2, WalkGoesOn
  <2>4. /\ PageGoesOn(x) /\ Len(PageOf(c)) <= x.query.limit
        /\ \A n \in DOMAIN PageOf(c) : PageOf(c)[n] > Position(x.query.cursor)
    <3>1. x.stage \in {"selected", "stored"}
      BY <1>2
    <3> QED
      BY <1>1, <3>1, PageOfHolds DEF ClientInv, WalkInv
  <2>5. /\ y.stage = "answered" /\ y.code = "ok" /\ y.audit = "released" /\ y.query = x.query
        /\ y.next = IF x.row = None THEN None ELSE x.row.token
        /\ y.steady = x.steady /\ y.page = PageOf(c) /\ y.at = x.at
        /\ y.ended = (x.row = None)
    BY <1>1 DEF Heard, ClientRows
  <2>6. ~x.ended
    BY <1>1, <1>2 DEF ClientInv, WalkInv
  <2> HIDE DEF x, y
  <2>7. ASSUME NEW z, z = y PROVE ClientInv(z)'
    <3>1. WalkInv(z)
      BY <2>3, <2>7
    <3>2. WalkInv(z)'
      BY <1>2, <3>1 DEF WalkInv, PageGoesOn, Position
    <3>3. SteadyInv(z)' /\ StoredInv(z)'
      BY <1>1, <1>2, <2>5, <2>6, <2>7 DEF ClientInv, SteadyInv, StoredInv
    <3>4. ResumeInv(z)'
      <4>1. x.query.cursor # None =>
              /\ issued[x.query.cursor].slot = x.query.slot
              /\ x.at < issued[x.query.cursor].row.expires_at
              /\ \A n \in DOMAIN PageOf(c) : PageOf(c)[n] > issued[x.query.cursor].after_id
        BY <2>4 DEF PageGoesOn, Position
      <4>2. z.next # None => /\ list_cursors'[x.query.slot] # None
                             /\ list_cursors'[x.query.slot].token >= z.next
        <5>1. SUFFICES ASSUME x.row # None PROVE
                /\ list_cursors'[x.query.slot] = x.row /\ x.row.token >= x.row.token
          BY <2>5, <2>7
        <5>2. x.row.token \in Nat
          BY <2>2, <5>1 DEF CursorRows
        <5> QED
          BY <2>2, <5>1, <5>2
      <4> QED
        BY <1>2, <2>4, <2>5, <2>7, <4>1, <4>2 DEF ResumeInv
    <3> QED
      BY <3>2, <3>3, <3>4 DEF ClientInv
  <2> QED
    BY <1>4, <1>5, <2>1, <2>3, <2>5, <2>7
<1>6. CASE /\ StoreRow(c)
           /\ paging' = [paging EXCEPT ![c].stage = "failed", ![c].code = "storage_unavailable",
                           ![c].page = <<>>, ![c].row = None, ![c].audit = "released"]
  <2> DEFINE y == [x EXCEPT !.stage = "failed", !.code = "storage_unavailable",
                     !.page = <<>>, !.row = None, !.audit = "released"]
  <2>1. paging' = [paging EXCEPT ![c] = y]
    BY <1>6
  <2>2. y \in ClientRows
    <3>1. <<>> \in Seq(Nat) /\ "failed" \in Stages /\ "storage_unavailable" \in Refusals
      BY DEF Stages, Refusals
    <3> QED
      BY <1>1, <3>1 DEF ClientRows
  <2>3. /\ y.stage = "failed" /\ y.code = "storage_unavailable" /\ y.query = x.query
        /\ y.next = x.next /\ y.seen = x.seen /\ y.steady = x.steady /\ y.ended = x.ended
    BY <1>1 DEF ClientRows
  <2> HIDE DEF x, y
  <2>4. ASSUME NEW z, z = y PROVE ClientInv(z)'
    <3>1. WalkInv(z)'
      BY <1>1, <1>2, <2>3, <2>4 DEF ClientInv, WalkInv, InFlight, Met
    <3>2. SteadyInv(z)' /\ StoredInv(z)' /\ ResumeInv(z)'
      BY <1>1, <1>2, <2>3, <2>4 DEF ClientInv, SteadyInv, StoredInv, ResumeInv
    <3> QED
      BY <3>1, <3>2 DEF ClientInv
  <2> QED
    BY <1>4, <1>6, <2>1, <2>2, <2>3, <2>4
<1> QED
  BY <1>3, <1>5, <1>6 DEF CommitPage
\* Clocks tick and credentials are revoked without a client noticing yet.
LEMMA SurroundingsStep ==
  ASSUME CursorInv, (\E r \in Readers : Revoke(r)) \/ Tick
  PROVE  CursorInv'
<1>1. /\ UNCHANGED <<listed, list_cursors, paging, issued>>
      /\ now' = now \/ now' = now + 1
      /\ usable' \subseteq usable
  BY DEF Revoke, Tick
<1>2. TypeInv'
  BY <1>1 DEF CursorInv, TypeInv
<1>3. IssuedInv' /\ CommittedInv' /\ SlotInv'
  BY <1>1 DEF CursorInv, IssuedInv, CommittedInv, SlotInv
<1>4. ASSUME NEW c \in Clients PROVE ClientInv(paging[c])'
  BY <1>1 DEF CursorInv, ClientInv, WalkInv, SteadyInv, StoredInv, ResumeInv, PageGoesOn, Position
<1> QED
  BY <1>2, <1>3, <1>4 DEF CursorInv

-----------------------------------------------------------------------------
(* Theorems                                                                *)

\* Whatever races for a cursor slot, goes unheard, expires or is used by another
\* client, every walk stands where the tokens drawn say, with all that was listed all
\* along up to there.
THEOREM WalksStandWhereTheySay == Spec => []CursorInv
<1>1. Init => CursorInv
  <2>1. SUFFICES ASSUME Init PROVE CursorInv
    OBVIOUS
  <2>2. \A slot \in Slots : list_cursors[slot] = None
    BY <2>1 DEF Init
  <2>3. None \notin Queries
    BY NoneIsNoRow
  <2>4. FirstClient.stage = "idle"
    BY DEF FirstClient
  <2>5. FirstClient \in ClientRows
    <3>1. <<>> \in Seq(Nat) /\ "idle" \in Stages
      BY DEF Stages
    <3> QED
      BY <3>1 DEF FirstClient, ClientRows
  <2>6. FirstClient = [FirstClient EXCEPT !.query = None]
    <3>1. FirstClient.query = None
      BY DEF FirstClient
    <3> QED
      BY <2>5, <3>1 DEF ClientRows
  <2>7. TypeInv
    <3>1. issued \in Seq(IssuedRows) /\ Len(issued) = 0 /\ TokenLimit >= 0
      BY <2>1, ListTyped DEF Init
    <3>2. paging \in [Clients -> ClientRows] /\ list_cursors \in [Slots -> CursorRows \cup {None}]
      BY <2>1, <2>5 DEF Init
    <3>3. now \in Nat /\ usable \subseteq Readers /\ listed \in [Slots -> SUBSET Ids]
      BY <2>1, ListTyped DEF Init, ListTyped
    <3> QED
      BY <3>1, <3>2, <3>3 DEF TypeInv
  <2>8. ClientInv(FirstClient)
    BY <2>6, <2>3, <2>7, FirstClientHolds
  <2>9. \A c \in Clients : paging[c] = FirstClient
    BY <2>1 DEF Init
  <2>10. IssuedInv
    BY <2>1 DEF Init, IssuedInv
  <2>11. CommittedInv /\ SlotInv
    BY <2>2, <2>4, <2>9 DEF CommittedInv, SlotInv
  <2> QED
    BY <2>7, <2>8, <2>9, <2>10, <2>11 DEF CursorInv
<1>2. CursorInv /\ [Next]_vars => CursorInv'
  <2> SUFFICES ASSUME CursorInv, [Next]_vars PROVE CursorInv'
    OBVIOUS
  <2>1. ASSUME NEW c \in Clients, NEW query \in Queries, Ask(c, query) PROVE CursorInv'
    BY <2>1, AskStep, ListTyped, NoneIsNoRow
  <2>2. ASSUME NEW c \in Clients, ListResources(c) PROVE CursorInv'
    BY <2>2, PrepareListStep, SelectStep, StoreCursorStep, CommitPageStep, RefusePageStep,
       FinishListErrorStep, ListTyped, NoneIsNoRow DEF ListResources
  <2>3. ASSUME NEW c \in Clients, Leave(c) PROVE CursorInv'
    BY <2>3, LeaveStep
  <2>4. ASSUME NEW slot \in Slots, NEW id \in Ids, Change(slot, id) PROVE CursorInv'
    BY <2>4, ChangeStep, NoneIsNoRow
  <2>5. ASSUME (\E r \in Readers : Revoke(r)) \/ Tick PROVE CursorInv'
    BY <2>5, SurroundingsStep
  <2>6. ASSUME UNCHANGED vars PROVE CursorInv'
    BY <2>6 DEF vars, CursorInv, TypeInv, IssuedInv, CommittedInv, SlotInv, ClientInv, WalkInv,
       SteadyInv, StoredInv, ResumeInv, PageGoesOn, Position
  <2> QED
    BY <2>1, <2>2, <2>3, <2>4, <2>5, <2>6 DEF Next
<1> QED
  BY <1>1, <1>2, PTL DEF Spec

\* A slot is rewritten by one page at a time, and holds a row one of its pages drew.
THEOREM CursorsTypeCorrect == Spec => []CursorsTypeOK
<1>1. CursorInv => CursorsTypeOK
  <2>1. SUFFICES ASSUME CursorInv PROVE CursorsTypeOK
    OBVIOUS
  <2>2. TypeInv /\ CommittedInv /\ SlotInv
    BY <2>1 DEF CursorInv
  <2>3. ASSUME NEW slot \in Slots
        PROVE  Cardinality({c \in Open : paging[c].stage = "stored" /\ paging[c].query.slot = slot}) <= 1
    <3> DEFINE pages == {c \in Open : paging[c].stage = "stored" /\ paging[c].query.slot = slot}
    <3>1. \A c, d \in pages : c = d
      BY <2>2 DEF SlotInv, Open
    <3> HIDE DEF pages
    <3>2. pages = {} \/ \E c : pages = {c}
      BY <3>1
    <3>3. Cardinality(pages) = 0 \/ Cardinality(pages) = 1
      BY <3>2, FS_EmptySet, FS_Singleton
    <3>4. Cardinality(pages) <= 1
      BY <3>3
    <3> QED
      BY <3>4 DEF pages
  <2>4. ASSUME NEW slot \in Slots, list_cursors[slot] # None
        PROVE  \E n \in DOMAIN issued : issued[n].slot = slot /\ issued[n].row = list_cursors[slot]
    BY <2>2, <2>4 DEF CommittedInv
  <2> QED
    BY <2>2, <2>3, <2>4 DEF CursorsTypeOK, TypeInv
<1> QED
  BY <1>1, WalksStandWhereTheySay, PTL

\* A cursor resumes only the slot it was handed out for, behind the last id handed out
\* with it and in its time; of two pages racing for a slot, the last to commit has the
\* cursor that works.
THEOREM CursorsResumeTheirPages == Spec => []CursorResumesItsPage
<1>1. CursorInv => CursorResumesItsPage
  BY DEF CursorInv, ClientInv, ResumeInv, CursorResumesItsPage
<1> QED
  BY <1>1, WalksStandWhereTheySay, PTL

\* A walk that reaches its end met every id listed all along, in order and once each.
THEOREM WalksAreComplete == Spec => []WalkIsComplete
<1>1. CursorInv => WalkIsComplete
  BY DEF CursorInv, ClientInv, WalkInv, WalkIsComplete
<1> QED
  BY <1>1, WalksStandWhereTheySay, PTL
=============================================================================
