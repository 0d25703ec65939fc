------------------------------ MODULE ListCursor ------------------------------
(***************************************************************************)
(* Paging through collections and items: list_resources of src/lib.rs and     *)
(* list_current_resources of migration 0001.  Pages share the tenant row and    *)
(* so run beside each other; each principal and app has one cursor slot per      *)
(* kind, and a page with more to come overwrites it, waiting for the page that     *)
(* overwrote it last to commit.  Clients walk page by page, repeat a cursor        *)
(* whose answer they missed, and use each other's.                               *)
(*                                                                         *)
(* What a reader may see is a set of ids here; scopes and validity move it.     *)
(***************************************************************************)
EXTENDS Integers, Sequences, FiniteSets

CONSTANTS
  Clients,    \* each sends one request at a time
  Readers,    \* principal and app of a reader credential
  Ids,        \* ids of collections and items, in the order of text
  Limits,     \* page sizes asked for, of 1..100
  Listed,     \* what each slot lists at first
  Changeable, \* bound: the <<slot, id>> whose visibility changes
  TTL,        \* 15 minutes
  ClockLimit, \* bound of the clock
  TokenLimit, \* bound: tokens drawn
  None

Kinds == {"collections", "items"}
Slots == Readers \X Kinds

ASSUME ListTyped ==
  /\ Ids \subseteq Nat \ {0} /\ IsFiniteSet(Ids) /\ Limits \subseteq 1..100
  /\ Listed \in [Slots -> SUBSET Ids] /\ Changeable \subseteq Slots \X Ids
  /\ TTL \in Nat \ {0} /\ TokenLimit \in Nat /\ None \notin Nat

Queries == [slot : Slots, limit : Limits, cursor : 1..TokenLimit \cup {None}]
CursorRows == [token : Nat, after_id : Nat, expires_at : Nat]

ASSUME NoneIsNoRow == None \notin Queries \cup CursorRows

VARIABLES
  now,
  usable,       \* readers whose credential may list
  listed,       \* slot -> ids its reader may see
  list_cursors, \* slot -> committed row, or None
  paging,       \* client -> its request, and what it knows of its walk
  issued        \* history: token -> the row drawn with it

vars == <<now, usable, listed, list_cursors, paging, issued>>
world == <<now, usable, listed>>

\* A walk: the next cursor heard, the ids heard so far, those listed all along.
FirstClient == [stage |-> "idle", query |-> None, at |-> 0, page |-> <<>>, row |-> None,
                code |-> "none", audit |-> "none",
                next |-> None, seen |-> <<>>, steady |-> {}, ended |-> FALSE]

Init ==
  /\ now = 0 /\ usable = Readers /\ listed = Listed
  /\ list_cursors = [slot \in Slots |-> None]
  /\ paging = [c \in Clients |-> FirstClient]
  /\ issued = <<>>

-----------------------------------------------------------------------------
(* Faults.                                                                 *)

CursorByTokenAlone(query) ==
  {list_cursors[slot] : slot \in {s \in Slots :
     list_cursors[s] # None /\ list_cursors[s].token = query.cursor /\ list_cursors[s].expires_at > now}}

AfterTheLookAhead(ids, limit) == ids[limit + 1]

SlotNeverLocked(slot) == TRUE

-----------------------------------------------------------------------------
(* list_current_resources.                                                 *)

\* The live row a cursor names, among those of its reader and kind.
Resumed(query) ==
  {row \in {list_cursors[query.slot]} \ {None} : row.token = query.cursor /\ row.expires_at > now}

Ordered(ids) == \A m, n \in DOMAIN ids : m < n => ids[m] < ids[n]

\* ORDER BY id LIMIT limit + 1: the one sequence of that many ids, or of all there
\* are, in order and before every id left out.
Candidates(query, after) ==
  LET ids == {i \in listed[query.slot] : i > after}
      length == IF Cardinality(ids) > query.limit THEN query.limit + 1 ELSE Cardinality(ids) IN
  {page \in [1..length -> ids] :
     /\ Ordered(page)
     /\ \A i \in ids : (\E n \in 1..length : page[n] = i) \/ \A n \in 1..length : page[n] < i}

\* The page keeps one candidate back, to know whether there is more.
More(c) == Len(paging[c].page) > paging[c].query.limit

PageOf(c) == SubSeq(paging[c].page, 1, IF More(c) THEN paging[c].query.limit ELSE Len(paging[c].page))

AfterId(ids, limit) == ids[limit]

MayList(c) == paging[c].query.slot[1] \in usable

\* Pages between their first statement and their commit.
Open == {c \in Clients : paging[c].stage \in {"selected", "stored"}}

RowFree == Open = {}

SlotFree(slot) == \A c \in Open : ~(paging[c].stage = "stored" /\ paging[c].query.slot = slot)

-----------------------------------------------------------------------------
(* The handler.                                                            *)

Fail(c, code) ==
  paging' = [paging EXCEPT ![c].stage = "failed", ![c].code = code, ![c].page = <<>>, ![c].row = None]

\* Whether a request goes on with its client's walk.
Continues(c, query) ==
  /\ query.cursor # None /\ query.cursor = paging[c].next
  /\ query.slot = paging[c].query.slot

\* A client starts afresh, goes on, or sends a cursor it or another used or heard.
Ask(c, query) ==
  /\ paging[c].stage = "idle"
  /\ query.cursor \in {None} \cup {paging[u].next : u \in Clients}
       \cup {paging[u].query.cursor : u \in {v \in Clients : paging[v].query # None}}
  /\ paging' = [paging EXCEPT ![c] =
       IF Continues(c, query)
       THEN [@ EXCEPT !.stage = "arrived", !.query = query, !.code = "none", !.audit = "none"]
       ELSE [FirstClient EXCEPT !.stage = "arrived", !.query = query,
               !.steady = IF query.cursor = None THEN listed[query.slot] ELSE {}]]
  /\ UNCHANGED <<world, list_cursors, issued>>

\* prepare_list: the credential first, then the query and the body.
PrepareList(c) ==
  /\ paging[c].stage = "arrived"
  /\ \/ /\ MayList(c)
        /\ \/ paging' = [paging EXCEPT ![c].stage = "prepared"]
           \/ Fail(c, "malformed")  \* they don't parse
     \/ ~MayList(c) /\ Fail(c, "unauthenticated")
     \/ Fail(c, "storage_unavailable")
  /\ UNCHANGED <<world, list_cursors, issued>>

\* The tenant row is shared, the cursor looked up, the page and one more selected.
Select(c) ==
  LET query == paging[c].query IN
  /\ paging[c].stage = "prepared" /\ MayList(c)
  /\ \E after \in IF query.cursor = None THEN {0} ELSE {row.after_id : row \in Resumed(query)} :
       \E page \in Candidates(query, after) :
         paging' = [paging EXCEPT ![c].stage = "selected", ![c].at = now, ![c].page = page]
  /\ UNCHANGED <<world, list_cursors, issued>>

\* A page with more to come draws a token and takes the slot, for it alone to change.
StoreCursor(c) ==
  LET query == paging[c].query
      row == [token |-> Len(issued) + 1, after_id |-> AfterId(paging[c].page, query.limit),
              expires_at |-> now + TTL] IN
  /\ paging[c].stage = "selected" /\ More(c)
  /\ SlotFree(query.slot)
  /\ Len(issued) < TokenLimit
  /\ issued' = Append(issued, [slot |-> query.slot, row |-> row,
                               after_id |-> paging[c].page[query.limit]])
  /\ paging' = [paging EXCEPT ![c].stage = "stored", ![c].row = row]
  /\ UNCHANGED <<world, list_cursors>>

StoreRow(c) ==
  list_cursors' = IF paging[c].row = None THEN list_cursors
                  ELSE [list_cursors EXCEPT ![paging[c].query.slot] = paging[c].row]

\* The client hears its page and where to go on.
Heard(c) ==
  [paging[c] EXCEPT !.stage = "answered", !.code = "ok", !.audit = "released", !.page = PageOf(c),
     !.next = IF paging[c].row = None THEN None ELSE paging[c].row.token,
     !.seen = @ \o PageOf(c), !.ended = paging[c].row = None]

Answer(c) == paging' = [paging EXCEPT ![c] = Heard(c)]

CommitPage(c) ==
  /\ paging[c].stage = "stored" \/ (paging[c].stage = "selected" /\ ~More(c))
  /\ \/ StoreRow(c) /\ Answer(c)
     \/ /\ StoreRow(c)  \* unheard
        /\ paging' = [paging EXCEPT ![c].stage = "failed", ![c].code = "storage_unavailable",
                        ![c].page = <<>>, ![c].row = None, ![c].audit = "released"]
     \/ UNCHANGED list_cursors /\ Fail(c, "storage_unavailable")
  /\ UNCHANGED <<world, issued>>

\* classify_list_database_error: a cursor that names no live row of this reader and
\* kind is malformed input; storage fails at any time, waiting for the slot included.
RefusePage(c) ==
  LET query == paging[c].query IN
  /\ \/ paging[c].stage = "prepared" /\ ~MayList(c) /\ Fail(c, "unauthenticated")
     \/ /\ paging[c].stage = "prepared" /\ MayList(c)
        /\ query.cursor # None /\ Resumed(query) = {}
        /\ Fail(c, "malformed")
     \/ paging[c].stage \in {"prepared", "selected"} /\ Fail(c, "storage_unavailable")
  /\ UNCHANGED <<world, list_cursors, issued>>

\* finish_list_error: the rejection is audited under the request id, if it can be.
FinishListError(c) ==
  /\ paging[c].stage = "failed"
  /\ \/ paging' = [paging EXCEPT ![c].stage = "answered"]
     \/ /\ paging[c].audit = "none"
        /\ paging' = [paging EXCEPT ![c].stage = "answered", ![c].audit = paging[c].code]
  /\ UNCHANGED <<world, list_cursors, issued>>

\* The client is ready for its next request, or hung up before the answer: what
\* was not committed is rolled back.
Leave(c) ==
  /\ paging[c].stage # "idle"
  /\ paging' = [paging EXCEPT ![c] =
       IF @.next = None THEN [FirstClient EXCEPT !.query = paging[c].query]
       ELSE [@ EXCEPT !.stage = "idle", !.at = 0, !.page = <<>>, !.row = None,
               !.code = "none", !.audit = "none"]]
  /\ UNCHANGED <<world, list_cursors, issued>>

-----------------------------------------------------------------------------
(* What goes on around it.                                                 *)

\* Mutations and operators wait for the tenant row; validity intervals of items don't.
Change(slot, id) ==
  /\ <<slot, id>> \in Changeable
  /\ RowFree \/ slot[2] = "items"
  /\ listed' = [listed EXCEPT ![slot] = IF id \in @ THEN @ \ {id} ELSE @ \cup {id}]
  /\ paging' = [c \in Clients |->
       IF paging[c].query # None /\ paging[c].query.slot = slot /\ ~paging[c].ended
       THEN [paging[c] EXCEPT !.steady = @ \ {id}] ELSE paging[c]]
  /\ UNCHANGED <<now, usable, list_cursors, issued>>

Revoke(r) ==
  /\ RowFree /\ r \in usable
  /\ usable' = usable \ {r}
  /\ UNCHANGED <<now, listed, list_cursors, paging, issued>>

Tick ==
  /\ now < ClockLimit
  /\ now' = now + 1
  /\ UNCHANGED <<usable, listed, list_cursors, paging, issued>>

ListResources(c) ==
  \/ PrepareList(c) \/ Select(c) \/ StoreCursor(c) \/ CommitPage(c)
  \/ RefusePage(c) \/ FinishListError(c)

Next ==
  \/ \E c \in Clients, query \in Queries : Ask(c, query)
  \/ \E c \in Clients : ListResources(c) \/ Leave(c)
  \/ \E slot \in Slots, id \in Ids : Change(slot, id)
  \/ \E r \in Readers : Revoke(r)
  \/ Tick

Spec == Init /\ [][Next]_vars

-----------------------------------------------------------------------------
(* Properties                                                              *)

\* A slot is being rewritten by one page at a time, and a committed row is one a
\* page of that slot drew.
CursorsTypeOK ==
  /\ usable \subseteq Readers /\ listed \in [Slots -> SUBSET Ids] /\ Len(issued) <= TokenLimit
  /\ \A slot \in Slots :
       /\ Cardinality({c \in Open : paging[c].stage = "stored" /\ paging[c].query.slot = slot}) <= 1
       /\ list_cursors[slot] # None =>
            \E n \in DOMAIN issued : issued[n].slot = slot /\ issued[n].row = list_cursors[slot]

\* A cursor resumes only the slot it was handed out for, behind the last id handed
\* out with it and within its 15 minutes; and of two pages racing for a slot, the one
\* that committed last has the cursor that works.
CursorResumesItsPage ==
  \A c \in Clients : paging[c].stage = "answered" /\ paging[c].code = "ok" =>
    LET query == paging[c].query
        walk == paging[c] IN
    /\ walk.audit = "released" /\ Len(walk.page) <= query.limit
    /\ query.cursor # None =>
         /\ issued[query.cursor].slot = query.slot
         /\ walk.at < issued[query.cursor].row.expires_at
         /\ \A n \in DOMAIN walk.page : walk.page[n] > issued[query.cursor].after_id
    /\ walk.next # None => list_cursors[query.slot].token >= walk.next

\* A walk that reaches its end has met, in increasing order and once each, every id
\* that was listed all along, whatever appeared, vanished, or raced for the cursor
\* slot meanwhile.
WalkIsComplete ==
  \A c \in Clients :
    /\ Ordered(paging[c].seen)
    /\ paging[c].ended =>
         \A i \in paging[c].steady : \E n \in DOMAIN paging[c].seen : paging[c].seen[n] = i
=============================================================================
