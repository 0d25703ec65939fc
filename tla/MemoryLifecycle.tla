--------------------------- MODULE MemoryLifecycle ---------------------------
(***************************************************************************)
(* The life of governed memories inside one tenant: the tables of          *)
(* migrations/0001_read_slice.sql and the SECURITY DEFINER functions that   *)
(* change them.  Each function runs in one transaction that holds the       *)
(* tenant's tenant_authority row FOR UPDATE from before its first decision  *)
(* until commit, so a call is one action here; MutationRequests opens the   *)
(* transaction up again and shows that the lock makes this legitimate.      *)
(*                                                                         *)
(* A call that raises (22023, 42501, P0002, P0003, P0004) rolls everything  *)
(* back, the idempotency record included: in this module it is no step.     *)
(*                                                                         *)
(* An owner is a (principal, application) pair: the scope of an             *)
(* idempotency key and of private collections.                             *)
(***************************************************************************)
EXTENDS Integers, Sequences, FiniteSets

CONSTANTS
  Owners, Credentials, Collections, Items, Revisions, Keys, Payloads,
  CredentialOwner,      \* credential -> owner it was issued to
  CredentialOperations, \* credential -> allowed_operations
  CredentialExpires,    \* credential -> expires_at
  CollectionOwner,      \* private collection -> its owner
  Refused,              \* payloads naming a subject the owner may not use
  TTL,                  \* life of an idempotency record (24 hours in the code)
  Lag,                  \* how far the clock moves between a statement and commit
  ClockLimit,           \* bound: last instant of the clock
  EpochLimit,           \* bound: no operator step from this epoch on
  ReplayLimit,          \* bound: receipt replays recorded
  None

Operations == {"create", "correct", "forget"}
Slots == Owners \X Operations \X Keys

ASSUME ConstantTypes ==
  /\ Collections \subseteq Int
  /\ CredentialOwner \in [Credentials -> Owners]
  /\ CredentialOperations \in [Credentials -> SUBSET Operations]
  /\ CredentialExpires \in [Credentials -> Nat]
  /\ CollectionOwner \in [Collections -> Owners]
  /\ Refused \subseteq Payloads
  /\ TTL \in Nat \ {0}
  /\ Lag \in Nat
  /\ ClockLimit \in Nat
  /\ EpochLimit \in Nat
  /\ ReplayLimit \in Nat

ASSUME NoneIsNoValue ==
  /\ None \notin Items
  /\ None \notin Revisions
  /\ None \notin Payloads

VARIABLES
  now,                      \* clock_timestamp()
  authority_epoch,          \* tenant_authority.authority_epoch
  revoked_at,               \* credential -> the epoch that revoked it, or None
  inactive,                 \* owners whose principal or application is inactive
  withdrawn,                \* collections with withdrawn_at set
  items, revisions, lexical_representations,
  deletion_markers, purge_jobs,
  idempotency_records,
  mutation_audit,           \* in commit order; the position is the operation_id
  replay_audit              \* 'replayed' rows of create_rejection_audit

authority == <<revoked_at, inactive, withdrawn>>
content == <<items, revisions, lexical_representations>>
deletion == <<deletion_markers, purge_jobs>>
vars == <<now, authority_epoch, authority, content, deletion,
          idempotency_records, mutation_audit, replay_audit>>

-----------------------------------------------------------------------------
(* Rows.  A row that does not exist is None.                               *)

\* The canonical request digest covers method, path and body: it is the request.
Digests == [item : Items \cup {None}, expected : Revisions \cup {None},
            payload : Payloads \cup {None}]

ItemRows == [collection : Collections, active : Revisions \cup {None},
             deleted : BOOLEAN, generation : Nat]
RevisionRows == [item : Items, payload : Payloads]
MarkerRows == [generation : Nat, operation : Nat, state : {"pending", "complete"}]
JobRows == [generation : Nat, operation : Nat, status : {"pending", "complete"}]
IdempotencyRows == [digest : Digests, operation : Nat, item : Items,
                    revision : Revisions, expires_at : Nat]

\* digest, and the instant at, are history: the table keeps the key digest only.
AuditRows == [slot : Slots, credential : Credentials, item : Items,
              revision : Revisions, epoch : Nat, digest : Digests, at : Nat]
ReplayRows == [slot : Slots, credential : Credentials, epoch : Nat]

ASSUME NoneIsNoRow ==
  None \notin ItemRows \cup RevisionRows \cup MarkerRows \cup JobRows \cup IdempotencyRows

Init ==
  /\ now = 0
  /\ authority_epoch = 0
  /\ revoked_at = [c \in Credentials |-> None]
  /\ inactive = {} /\ withdrawn = {}
  /\ items = [i \in Items |-> None]
  /\ revisions = [r \in Revisions |-> None]
  /\ lexical_representations = {}
  /\ deletion_markers = [i \in Items |-> None]
  /\ purge_jobs = [i \in Items |-> None]
  /\ idempotency_records = [s \in Slots |-> None]
  /\ mutation_audit = << >>
  /\ replay_audit = {}

-----------------------------------------------------------------------------
(* Faults.  Each is a plausible mistake in the definition it is named after; *)
(* a run with the fault in place must break the property it is listed with.  *)

ReservedTooBriefly(s, t) ==
  idempotency_records[s] # None /\ idempotency_records[s].expires_at > t + 1

OperationIdOfPrevious == Len(mutation_audit)

OpenCollectionsWithWithdrawn(o) == {l \in Collections : CollectionOwner[l] = o}

OwnItemOfAnyone(o, i) == items[i] # None /\ items[i].collection \notin withdrawn

WriterCurrentThoughRevoked(c, op, t) ==
  /\ op \in CredentialOperations[c]
  /\ t < CredentialExpires[c]
  /\ CredentialOwner[c] \notin inactive

IsCurrentIfEverStored(i, e) == ~items[i].deleted /\ revisions[e] # None /\ revisions[e].item = i

IsCurrentThoughDeleted(i, e) == revisions[e] # None /\ revisions[e].item = i

CreateDigestOfRouteOnly(p) == [item |-> None, expected |-> None]

StoreRevisionUnindexed(i, r, p) ==
  /\ revisions' = [revisions EXCEPT ![r] = [item |-> i, payload |-> p]]
  /\ UNCHANGED lexical_representations

LeaveMarkerOldGeneration(i, g) ==
  /\ deletion_markers' = [deletion_markers EXCEPT ![i] =
       [generation |-> g, operation |-> Len(mutation_audit) + 1, state |-> "pending"]]
  /\ purge_jobs' = [purge_jobs EXCEPT ![i] =
       [generation |-> g - 1, operation |-> Len(mutation_audit) + 1, status |-> "pending"]]

ItemRevisionsForgotten(i) ==
  {r \in Revisions :
     /\ revisions[r] # None /\ revisions[r].item = i
     /\ deletion_markers[i] # None =>
          mutation_audit[deletion_markers[i].operation].revision = r}

EraseContentIndexOnly(i) ==
  /\ lexical_representations' = lexical_representations \
       {r \in Revisions : revisions[r] # None /\ revisions[r].item = i}
  /\ UNCHANGED revisions

-----------------------------------------------------------------------------
(* What the functions look up.                                             *)

\* The instants at which a transaction committing now may have read the clock.
ReadInstants == {t \in 0..now : now - t <= Lag}

WriterCurrent(c, op, t) ==
  /\ op \in CredentialOperations[c]
  /\ t < CredentialExpires[c]
  /\ revoked_at[c] = None
  /\ CredentialOwner[c] \notin inactive

SlotOf(c, op, k) == <<CredentialOwner[c], op, k>>

\* A record whose expires_at has passed is deleted before the key is inserted.
Reserved(s, t) == idempotency_records[s] # None /\ idempotency_records[s].expires_at > t

OpenCollections(o) == {l \in Collections : CollectionOwner[l] = o /\ l \notin withdrawn}

\* The item exists in a private, unwithdrawn collection of the owner.
OwnItem(o, i) == items[i] # None /\ items[i].collection \in OpenCollections(o)

\* gen_random_uuid() never repeats: an identifier once audited is not issued again.
Unissued(r) == \A n \in DOMAIN mutation_audit : mutation_audit[n].revision # r

\* The caller's expected revision is still the one the item serves.
IsCurrent(i, e) == ~items[i].deleted /\ items[i].active = e

OperationId == Len(mutation_audit) + 1

-----------------------------------------------------------------------------
(* What every effective mutation does besides its own rows: it takes the    *)
(* next epoch, appends its audit row and completes its idempotency record.  *)

Commit(c, op, k, digest, i, r, t) ==
  /\ authority_epoch' = authority_epoch + 1
  /\ mutation_audit' = Append(mutation_audit,
       [slot |-> SlotOf(c, op, k), credential |-> c, item |-> i, revision |-> r,
        epoch |-> authority_epoch + 1, digest |-> digest, at |-> t])
  /\ idempotency_records' = [idempotency_records EXCEPT ![SlotOf(c, op, k)] =
       [digest |-> digest, operation |-> OperationId, item |-> i,
        revision |-> r, expires_at |-> t + TTL]]
  /\ UNCHANGED <<now, authority, replay_audit>>

CreateDigest(p) == [item |-> None, expected |-> None, payload |-> p]
CorrectDigest(i, e, p) == [item |-> i, expected |-> e, payload |-> p]
ForgetDigest(i, e) == [item |-> i, expected |-> e, payload |-> None]

\* A new revision is stored together with its keyword representation.
StoreRevision(i, r, p) ==
  /\ revisions' = [revisions EXCEPT ![r] = [item |-> i, payload |-> p]]
  /\ lexical_representations' = lexical_representations \cup {r}

\* create_private_memory, fresh key: the lowest open private collection receives
\* a new item whose first revision is active and lexically represented at once.
CreateMemory(c, k, p, i, r, t) ==
  LET o == CredentialOwner[c] IN
  /\ WriterCurrent(c, "create", t)
  /\ ~Reserved(SlotOf(c, "create", k), t)
  /\ p \notin Refused
  /\ items[i] = None /\ Unissued(r)
  /\ \E l \in OpenCollections(o) :
       /\ \A m \in OpenCollections(o) : l <= m
       /\ items' = [items EXCEPT ![i] = [collection |-> l, active |-> r,
                                         deleted |-> FALSE, generation |-> 0]]
  /\ StoreRevision(i, r, p)
  /\ Commit(c, "create", k, CreateDigest(p), i, r, t)
  /\ UNCHANGED deletion

\* correct_private_memory, fresh key: the named revision must still be the
\* active one; a new immutable revision takes its place.
CorrectMemory(c, k, p, i, e, r, t) ==
  /\ WriterCurrent(c, "correct", t)
  /\ ~Reserved(SlotOf(c, "correct", k), t)
  /\ OwnItem(CredentialOwner[c], i) /\ IsCurrent(i, e)
  /\ p \notin Refused
  /\ Unissued(r)
  /\ items' = [items EXCEPT ![i].active = r]
  /\ StoreRevision(i, r, p)
  /\ Commit(c, "correct", k, CorrectDigest(i, e, p), i, r, t)
  /\ UNCHANGED deletion

LeaveMarker(i, g) ==
  /\ deletion_markers' = [deletion_markers EXCEPT ![i] =
       [generation |-> g, operation |-> OperationId, state |-> "pending"]]
  /\ purge_jobs' = [purge_jobs EXCEPT ![i] =
       [generation |-> g, operation |-> OperationId, status |-> "pending"]]

\* forget_private_memory, fresh key: the item stops being served, a deletion
\* marker and a purge job of the next deletion generation are left behind.
ForgetMemory(c, k, i, e, t) ==
  LET g == items[i].generation + 1 IN
  /\ WriterCurrent(c, "forget", t)
  /\ ~Reserved(SlotOf(c, "forget", k), t)
  /\ OwnItem(CredentialOwner[c], i) /\ IsCurrent(i, e)
  /\ items' = [items EXCEPT ![i] = [collection |-> items[i].collection, active |-> None,
                                    deleted |-> TRUE, generation |-> g]]
  /\ LeaveMarker(i, g)
  /\ Commit(c, "forget", k, ForgetDigest(i, e), i, e, t)
  /\ UNCHANGED <<revisions, lexical_representations>>

\* The receipt of a reserved key may be shown: its item still lies in an open
\* private collection of the owner, and a forget receipt needs its marker.
ReceiptOpen(s) ==
  LET row == idempotency_records[s] IN
  /\ OwnItem(s[1], row.item)
  /\ s[2] = "forget" => items[row.item].deleted /\ deletion_markers[row.item] # None

\* The replay branch of the three functions: an audit row, and nothing else.
ReplayReceipt(c, op, k, digest, t) ==
  LET s == SlotOf(c, op, k) IN
  /\ WriterCurrent(c, op, t)
  /\ Reserved(s, t)
  /\ ReceiptOpen(s)
  /\ idempotency_records[s].digest = digest
  /\ Cardinality(replay_audit) < ReplayLimit
  /\ replay_audit' = replay_audit \cup
       {[slot |-> s, credential |-> c, epoch |-> authority_epoch]}
  /\ UNCHANGED <<now, authority_epoch, authority, content, deletion,
                 idempotency_records, mutation_audit>>

\* process_forget_purge for a generation: item, marker and job must agree on it.
PurgeReady(i, g) ==
  /\ items[i] # None /\ deletion_markers[i] # None /\ purge_jobs[i] # None
  /\ items[i].deleted
  /\ items[i].generation = g
  /\ deletion_markers[i].generation = g
  /\ purge_jobs[i].generation = g

ItemRevisions(i) == {r \in Revisions : revisions[r] # None /\ revisions[r].item = i}

\* Every row that holds content of the item is deleted.
EraseContent(i) ==
  /\ lexical_representations' = lexical_representations \ ItemRevisions(i)
  /\ revisions' = [r \in Revisions |-> IF r \in ItemRevisions(i) THEN None ELSE revisions[r]]

\* The first call erases every row that holds content and completes job and
\* marker; a repeated call finds both complete and changes nothing.
ProcessForgetPurge(i, g) ==
  /\ PurgeReady(i, g)
  /\ deletion_markers[i].state = "pending" /\ purge_jobs[i].status = "pending"
  /\ EraseContent(i)
  /\ purge_jobs' = [purge_jobs EXCEPT ![i].status = "complete"]
  /\ deletion_markers' = [deletion_markers EXCEPT ![i].state = "complete"]
  /\ UNCHANGED <<now, authority_epoch, authority, items, idempotency_records,
                 mutation_audit, replay_audit>>

-----------------------------------------------------------------------------
(* The operator's side (trusted setup, outside src/): every change of        *)
(* authority locks the tenant row and takes an epoch.                       *)

ChangeAuthority ==
  /\ authority_epoch < EpochLimit
  /\ authority_epoch' = authority_epoch + 1
  /\ UNCHANGED <<now, content, deletion, idempotency_records, mutation_audit, replay_audit>>

Revoke(c) ==
  /\ revoked_at[c] = None
  /\ revoked_at' = [revoked_at EXCEPT ![c] = authority_epoch + 1]
  /\ ChangeAuthority
  /\ UNCHANGED <<inactive, withdrawn>>

Deactivate(o) ==
  /\ o \notin inactive
  /\ inactive' = inactive \cup {o}
  /\ ChangeAuthority
  /\ UNCHANGED <<revoked_at, withdrawn>>

Reactivate(o) ==
  /\ o \in inactive
  /\ inactive' = inactive \ {o}
  /\ ChangeAuthority
  /\ UNCHANGED <<revoked_at, withdrawn>>

Withdraw(l) ==
  /\ l \notin withdrawn
  /\ withdrawn' = withdrawn \cup {l}
  /\ ChangeAuthority
  /\ UNCHANGED <<revoked_at, inactive>>

Restore(l) ==
  /\ l \in withdrawn
  /\ withdrawn' = withdrawn \ {l}
  /\ ChangeAuthority
  /\ UNCHANGED <<revoked_at, inactive>>

Tick ==
  /\ now < ClockLimit
  /\ now' = now + 1
  /\ UNCHANGED <<authority_epoch, authority, content, deletion,
                 idempotency_records, mutation_audit, replay_audit>>

Mutate ==
  \E c \in Credentials, k \in Keys, t \in ReadInstants :
    \/ \E p \in Payloads, i \in Items, r \in Revisions : CreateMemory(c, k, p, i, r, t)
    \/ \E p \in Payloads, i \in Items, e, r \in Revisions : CorrectMemory(c, k, p, i, e, r, t)
    \/ \E i \in Items, e \in Revisions : ForgetMemory(c, k, i, e, t)

Replay ==
  \E c \in Credentials, op \in Operations, k \in Keys, t \in ReadInstants :
    LET row == idempotency_records[SlotOf(c, op, k)] IN
    row # None /\ ReplayReceipt(c, op, k, row.digest, t)

Operate ==
  \/ \E c \in Credentials : Revoke(c)
  \/ \E o \in Owners : Deactivate(o) \/ Reactivate(o)
  \/ \E l \in Collections : Withdraw(l) \/ Restore(l)

Next ==
  \/ Mutate
  \/ Replay
  \/ \E i \in Items, g \in 1..2 : ProcessForgetPurge(i, g)
  \/ Operate
  \/ Tick

Spec == Init /\ [][Next]_vars

-----------------------------------------------------------------------------
(* Properties                                                              *)

\* Every table holds rows of its type, and no column a value of another's.
TypeOK ==
  /\ now \in Nat
  /\ authority_epoch \in Nat
  /\ revoked_at \in [Credentials -> Nat \cup {None}]
  /\ inactive \subseteq Owners
  /\ withdrawn \subseteq Collections
  /\ items \in [Items -> ItemRows \cup {None}]
  /\ revisions \in [Revisions -> RevisionRows \cup {None}]
  /\ lexical_representations \subseteq Revisions
  /\ deletion_markers \in [Items -> MarkerRows \cup {None}]
  /\ purge_jobs \in [Items -> JobRows \cup {None}]
  /\ idempotency_records \in [Slots -> IdempotencyRows \cup {None}]
  /\ mutation_audit \in Seq(AuditRows)
  /\ replay_audit \subseteq ReplayRows

\* Two mutations under one idempotency key are at least a record's life apart:
\* however often, by whichever credential and however delayed a request is sent
\* again, it takes effect at most once while its key is reserved.
OneEffectPerKey ==
  \A m, n \in DOMAIN mutation_audit :
    m < n /\ mutation_audit[m].slot = mutation_audit[n].slot
      => mutation_audit[m].at + TTL <= mutation_audit[n].at

\* A stored receipt names exactly the mutation it is the receipt of, the latest
\* under its key: a replay can't hand out another operation's identifiers.
ReceiptNamesItsEffect ==
  \A s \in Slots : idempotency_records[s] # None =>
    LET row == idempotency_records[s] IN
    /\ row.operation \in DOMAIN mutation_audit
    /\ LET effect == mutation_audit[row.operation] IN
         /\ effect.slot = s
         /\ effect.digest = row.digest
         /\ effect.item = row.item
         /\ effect.revision = row.revision
         /\ row.expires_at = effect.at + TTL
    /\ \A n \in DOMAIN mutation_audit :
         n > row.operation => mutation_audit[n].slot # s

\* The audit row m put in place the revision that item i has served since.
InForce(i, m) ==
  /\ mutation_audit[m].item = i
  /\ mutation_audit[m].slot[2] # "forget"
  /\ \A n \in DOMAIN mutation_audit : n > m => mutation_audit[n].item # i

\* No lost update: a correction or a forget was made against the very revision
\* its caller had read, the one the item's previous mutation had put in place.
LinearHistory ==
  \A n \in DOMAIN mutation_audit :
    mutation_audit[n].slot[2] # "create" =>
      \E m \in 1..(n - 1) :
        /\ mutation_audit[m].item = mutation_audit[n].item
        /\ mutation_audit[m].slot[2] # "forget"
        /\ mutation_audit[m].revision = mutation_audit[n].digest.expected
        /\ \A k \in (m + 1)..(n - 1) : mutation_audit[k].item # mutation_audit[n].item

\* An undeleted item serves the revision of its latest mutation, that revision
\* is stored under this item with the content that mutation was given, and is
\* found by keyword search: a commit never leaves an item half written.
ServingIntact ==
  \A i \in Items : items[i] # None /\ ~items[i].deleted =>
    LET r == items[i].active IN
    /\ r \in lexical_representations
    /\ revisions[r] # None /\ revisions[r].item = i
    /\ \E m \in DOMAIN mutation_audit :
         /\ InForce(i, m)
         /\ mutation_audit[m].revision = r
         /\ mutation_audit[m].digest.payload = revisions[r].payload

\* Item, deletion marker and purge job always tell the same story, so the purge
\* of a forgotten item can never be refused as stale or inconsistent.
DeletionAgrees ==
  \A i \in Items :
    LET deleted == items[i] # None /\ items[i].deleted IN
    /\ deletion_markers[i] # None <=> deleted
    /\ purge_jobs[i] # None <=> deleted
    /\ deleted =>
         /\ items[i].active = None
         /\ PurgeReady(i, items[i].generation)
         /\ purge_jobs[i].status = deletion_markers[i].state
         /\ purge_jobs[i].operation = deletion_markers[i].operation
         /\ mutation_audit[purge_jobs[i].operation].item = i
         /\ mutation_audit[purge_jobs[i].operation].slot[2] = "forget"

\* Content and keyword rows belong to items that exist and are not purged: once
\* a marker says complete, nothing of the item is stored, whoever wrote it.
NothingOutlivesPurge ==
  /\ lexical_representations \subseteq {r \in Revisions : revisions[r] # None}
  /\ \A r \in Revisions : revisions[r] # None =>
       LET i == revisions[r].item IN
       /\ items[i] # None
       /\ deletion_markers[i] # None => deletion_markers[i].state = "pending"

\* The tenant row orders everything: mutations are numbered in commit order, and
\* none is numbered after the revocation of the credential that asked for it.
OneTotalOrder ==
  /\ \A m, n \in DOMAIN mutation_audit :
       m < n => mutation_audit[m].epoch < mutation_audit[n].epoch
  /\ \A n \in DOMAIN mutation_audit :
       /\ mutation_audit[n].epoch <= authority_epoch
       /\ LET stop == revoked_at[mutation_audit[n].credential] IN
          stop # None => mutation_audit[n].epoch < stop

\* Every mutation an item ever underwent was its own owner's.
OwnersKeepApart ==
  \A n \in DOMAIN mutation_audit :
    LET i == mutation_audit[n].item IN
    /\ items[i] # None
    /\ mutation_audit[n].slot[1] = CollectionOwner[items[i].collection]
    /\ mutation_audit[n].slot[1] = CredentialOwner[mutation_audit[n].credential]

\* A forgotten item stays forgotten: no step brings it back, replaces its row,
\* opens another deletion generation or stores a revision for it.
ForgottenForever ==
  [][\A i \in Items : items[i] # None /\ items[i].deleted =>
       /\ items'[i] = items[i]
       /\ ItemRevisions(i)' \subseteq ItemRevisions(i)]_vars

\* A stored revision is never rewritten; it disappears only with its whole item,
\* in the step that completes the item's purge.
RevisionsImmutable ==
  [][\A i \in Items : \A r \in ItemRevisions(i) :
       \/ revisions'[r] = revisions[r]
       \/ deletion_markers[i] # None /\ ItemRevisions(i)' = {}]_vars

\* While its collection is withdrawn an item does not change and gets no new
\* revision: only the purge of what was forgotten before goes on.
WithdrawnFrozen ==
  [][\A i \in Items :
       items[i] # None /\ items[i].collection \in withdrawn \cap withdrawn' =>
         /\ items'[i] = items[i]
         /\ ItemRevisions(i)' \subseteq ItemRevisions(i)]_vars

-----------------------------------------------------------------------------
(* The tables implement the promise.                                       *)

PhaseOf(i) ==
  IF items[i] = None THEN "absent"
  ELSE IF ~items[i].deleted THEN "live"
  ELSE IF deletion_markers[i].state = "pending" THEN "forgotten" ELSE "erased"

CurrentOf(i) == IF PhaseOf(i) = "live" THEN revisions[items[i].active].payload ELSE None

ExecutedAt(s) ==
  IF idempotency_records[s] = None THEN None ELSE idempotency_records[s].expires_at - TTL

Promise == INSTANCE MemoryPromise WITH
  clock <- now,
  phase <- [i \in Items |-> PhaseOf(i)],
  current <- [i \in Items |-> CurrentOf(i)],
  residue <- {i \in Items : ItemRevisions(i) # {}},
  executed <- [s \in Slots |-> ExecutedAt(s)]

\* Whatever happens in the tables, a writer and a reader see a memory that is
\* saved, revised, forgotten and erased in this order, one effect per key and
\* window, served content exactly while it lives and no content once erased.
KeepsPromise == Promise!Spec
=============================================================================
