-------------------------- MODULE MemoryHistoryProofs --------------------------
(***************************************************************************)
(* What MemoryLifecycle's tables say of an item's whole life, proved for    *)
(* every value of the constants: which revision it serves and why, and what *)
(* is left of it once it is forgotten and purged.                           *)
(***************************************************************************)
EXTENDS MemoryLifecycleProofs

-----------------------------------------------------------------------------
(* The four ways in which a step can touch an item                         *)

\* A create or a correction: the fresh revision r becomes what item i serves.
Saved(c, op, k, d, i, r, t) ==
  /\ op \in {"create", "correct"}
  /\ t <= now
  /\ ~Reserved(SlotOf(c, op, k), t)
  /\ Unissued(r)
  /\ \/ op = "create" /\ items[i] = None
     \/ /\ op = "correct" /\ OwnItem(CredentialOwner[c], i) /\ IsCurrent(i, d.expected)
        /\ items'[i].collection = items[i].collection
  /\ items'[i] \in ItemRows
  /\ items'[i].active = r /\ ~items'[i].deleted
  /\ items'[i].collection \in OpenCollections(CredentialOwner[c])
  /\ \A j \in Items \ {i} : items'[j] = items[j]
  /\ d.payload \in Payloads
  /\ StoreRevision(i, r, d.payload)
  /\ Commit(c, op, k, d, i, r, t)
  /\ UNCHANGED <<deletion_markers, purge_jobs>>

\* Items, content, deletion, audit and receipts stay as they are: a replay, an
\* operator's change or the clock.
Quiet ==
  /\ UNCHANGED <<items, revisions, lexical_representations, deletion_markers,
                 purge_jobs, mutation_audit, idempotency_records>>
  /\ now' = now \/ now' = now + 1

\* Every step saves a revision, forgets an item, purges one, or leaves them alone.
LEMMA StepCases ==
  ASSUME TypeOK, [Next]_vars
  PROVE  \/ \E c \in Credentials, op \in Operations, k \in Keys, d \in Digests,
              i \in Items, r \in Revisions, t \in Nat : Saved(c, op, k, d, i, r, t)
         \/ \E c \in Credentials, k \in Keys, i \in Items, e \in Revisions, t \in Nat :
              t <= now /\ ForgetMemory(c, k, i, e, t)
         \/ \E i \in Items, g \in Nat : ProcessForgetPurge(i, g)
         \/ Quiet
<1>1. ASSUME NEW c \in Credentials, NEW k \in Keys, NEW t \in ReadInstants, NEW p \in Payloads,
             NEW i \in Items, NEW r \in Revisions, CreateMemory(c, k, p, i, r, t)
      PROVE  \E d \in Digests : Saved(c, "create", k, d, i, r, t)
  <2>1. CreateDigest(p) \in Digests /\ CreateDigest(p).payload = p
    BY DigestTypes DEF CreateDigest
  <2>2. PICK l \in OpenCollections(CredentialOwner[c]) :
          items' = [items EXCEPT ![i] = [collection |-> l, active |-> r,
                                         deleted |-> FALSE, generation |-> 0]]
    BY <1>1 DEF CreateMemory
  <2>3. [collection |-> l, active |-> r, deleted |-> FALSE, generation |-> 0] \in ItemRows
    BY <2>2 DEF ItemRows, OpenCollections
  <2>4. /\ items'[i] = [collection |-> l, active |-> r, deleted |-> FALSE, generation |-> 0]
        /\ \A j \in Items \ {i} : items'[j] = items[j]
    BY <2>2 DEF TypeOK
  <2>5. t <= now
    BY ReadInstantsType
  <2>6. Saved(c, "create", k, CreateDigest(p), i, r, t)
    BY <1>1, <2>1, <2>2, <2>3, <2>4, <2>5 DEF Saved, CreateMemory, deletion
  <2> QED
    BY <2>1, <2>6
<1>2. ASSUME NEW c \in Credentials, NEW k \in Keys, NEW t \in ReadInstants, NEW p \in Payloads,
             NEW i \in Items, NEW e \in Revisions, NEW r \in Revisions,
             CorrectMemory(c, k, p, i, e, r, t)
      PROVE  \E d \in Digests : Saved(c, "correct", k, d, i, r, t)
  <2>1. /\ CorrectDigest(i, e, p) \in Digests
        /\ CorrectDigest(i, e, p).payload = p /\ CorrectDigest(i, e, p).expected = e
    BY DigestTypes DEF CorrectDigest
  <2>2. items[i] \in ItemRows /\ items' = [items EXCEPT ![i].active = r]
    BY <1>2 DEF CorrectMemory, OwnItem, TypeOK
  <2>3. [items[i] EXCEPT !.active = r] \in ItemRows
    BY <2>2 DEF ItemRows
  <2>4. /\ items'[i] = [items[i] EXCEPT !.active = r]
        /\ \A j \in Items \ {i} : items'[j] = items[j]
    BY <2>2 DEF TypeOK
  <2>5. /\ items'[i] \in ItemRows /\ items'[i].active = r
        /\ items'[i].deleted = items[i].deleted
        /\ items'[i].collection = items[i].collection
    BY <2>2, <2>3, <2>4 DEF ItemRows
  <2>6. t <= now
    BY ReadInstantsType
  <2>7. Saved(c, "correct", k, CorrectDigest(i, e, p), i, r, t)
    BY <1>2, <2>1, <2>4, <2>5, <2>6 DEF Saved, CorrectMemory, OwnItem, IsCurrent, deletion
  <2> QED
    BY <2>1, <2>7
<1>3. CASE \E c \in Credentials, k \in Keys, t \in ReadInstants, i \in Items, e \in Revisions :
             ForgetMemory(c, k, i, e, t)
  BY <1>3, ReadInstantsType
<1>4. CASE Replay
  BY <1>4 DEF Replay, ReplayReceipt, content, deletion, Quiet
<1>5. CASE \E i \in Items, g \in 1..2 : ProcessForgetPurge(i, g)
  BY <1>5
<1>6. CASE Operate
  BY <1>6 DEF Operate, Revoke, Deactivate, Reactivate, Withdraw, Restore, ChangeAuthority,
     content, deletion, Quiet
<1>7. CASE Tick
  BY <1>7 DEF Tick, content, deletion, Quiet
<1>8. CASE UNCHANGED vars
  BY <1>8 DEF vars, content, deletion, Quiet
<1>9. CASE Mutate
  <2>1. "create" \in Operations /\ "correct" \in Operations
    BY DEF Operations
  <2> QED
    BY <1>1, <1>2, <1>3, <1>9, <2>1, ReadInstantsType DEF Mutate
<1> QED
  BY <1>4, <1>5, <1>6, <1>7, <1>8, <1>9 DEF Next

\* The audit row of a mutation, column by column.
LEMMA CommitRow ==
  ASSUME TypeOK, NEW c, NEW op, NEW k, NEW d, NEW i, NEW r, NEW t, Commit(c, op, k, d, i, r, t)
  PROVE  /\ OperationId \in Nat
         /\ DOMAIN mutation_audit \subseteq Nat
         /\ DOMAIN mutation_audit' = DOMAIN mutation_audit \cup {OperationId}
         /\ \A n \in DOMAIN mutation_audit :
              n < OperationId /\ mutation_audit'[n] = mutation_audit[n]
         /\ mutation_audit'[OperationId].slot = SlotOf(c, op, k)
         /\ mutation_audit'[OperationId].slot[1] = CredentialOwner[c]
         /\ mutation_audit'[OperationId].slot[2] = op
         /\ mutation_audit'[OperationId].credential = c
         /\ mutation_audit'[OperationId].item = i
         /\ mutation_audit'[OperationId].revision = r
         /\ mutation_audit'[OperationId].digest = d
<1>1. mutation_audit' = Append(mutation_audit,
        [slot |-> SlotOf(c, op, k), credential |-> c, item |-> i, revision |-> r,
         epoch |-> authority_epoch + 1, digest |-> d, at |-> t])
  BY DEF Commit
<1>2. mutation_audit \in Seq(AuditRows) /\ OperationId = Len(mutation_audit) + 1
  BY DEF TypeOK, OperationId
<1>3. SlotOf(c, op, k) = <<CredentialOwner[c], op, k>>
  BY DEF SlotOf
<1> QED
  BY <1>1, <1>2, <1>3

\* What a forget writes, table by table.
LEMMA ForgetWrites ==
  ASSUME TypeOK, NEW c, NEW k, NEW i \in Items, NEW e, NEW t, ForgetMemory(c, k, i, e, t)
  PROVE  /\ items[i] \in ItemRows /\ ~items[i].deleted /\ items[i].active = e
         /\ items'[i] = [collection |-> items[i].collection, active |-> None,
                         deleted |-> TRUE, generation |-> items[i].generation + 1]
         /\ \A j \in Items \ {i} : items'[j] = items[j]
         /\ deletion_markers'[i] = [generation |-> items[i].generation + 1,
                                    operation |-> OperationId, state |-> "pending"]
         /\ purge_jobs'[i] = [generation |-> items[i].generation + 1,
                              operation |-> OperationId, status |-> "pending"]
         /\ \A j \in Items \ {i} :
              deletion_markers'[j] = deletion_markers[j] /\ purge_jobs'[j] = purge_jobs[j]
         /\ revisions' = revisions /\ lexical_representations' = lexical_representations
<1>1. items[i] \in ItemRows /\ ~items[i].deleted /\ items[i].active = e
  BY DEF ForgetMemory, OwnItem, IsCurrent, TypeOK
<1>2. items' = [items EXCEPT ![i] = [collection |-> items[i].collection, active |-> None,
                         deleted |-> TRUE, generation |-> items[i].generation + 1]]
  BY DEF ForgetMemory
<1>3. LeaveMarker(i, items[i].generation + 1)
      /\ UNCHANGED <<revisions, lexical_representations>>
  BY DEF ForgetMemory
<1> QED
  BY <1>1, <1>2, <1>3 DEF LeaveMarker, TypeOK

\* What the first purge of a deletion generation writes, table by table.
LEMMA PurgeWrites ==
  ASSUME TypeOK, NEW i \in Items, NEW g, ProcessForgetPurge(i, g)
  PROVE  /\ PurgeReady(i, g)
         /\ items' = items /\ mutation_audit' = mutation_audit
         /\ deletion_markers'[i] # None /\ purge_jobs'[i] # None
         /\ deletion_markers'[i].state = "complete" /\ purge_jobs'[i].status = "complete"
         /\ deletion_markers'[i].generation = deletion_markers[i].generation
         /\ purge_jobs'[i].generation = purge_jobs[i].generation
         /\ deletion_markers'[i].operation = deletion_markers[i].operation
         /\ purge_jobs'[i].operation = purge_jobs[i].operation
         /\ \A j \in Items \ {i} :
              deletion_markers'[j] = deletion_markers[j] /\ purge_jobs'[j] = purge_jobs[j]
         /\ lexical_representations' = lexical_representations \ ItemRevisions(i)
         /\ \A r \in Revisions :
              revisions'[r] = IF r \in ItemRevisions(i) THEN None ELSE revisions[r]
<1>1. PurgeReady(i, g) /\ items' = items /\ mutation_audit' = mutation_audit
  BY DEF ProcessForgetPurge
<1>2. deletion_markers[i] \in MarkerRows /\ purge_jobs[i] \in JobRows
  BY <1>1 DEF PurgeReady, TypeOK
<1>3. /\ deletion_markers' = [deletion_markers EXCEPT ![i].state = "complete"]
      /\ purge_jobs' = [purge_jobs EXCEPT ![i].status = "complete"]
  BY DEF ProcessForgetPurge
<1>4. /\ deletion_markers'[i] = [deletion_markers[i] EXCEPT !.state = "complete"]
      /\ purge_jobs'[i] = [purge_jobs[i] EXCEPT !.status = "complete"]
      /\ \A j \in Items \ {i} :
           deletion_markers'[j] = deletion_markers[j] /\ purge_jobs'[j] = purge_jobs[j]
  BY <1>3 DEF TypeOK
<1>5. deletion_markers'[i] \in MarkerRows /\ purge_jobs'[i] \in JobRows
  BY <1>2, <1>4 DEF MarkerRows, JobRows
<1>6. deletion_markers'[i] # None /\ purge_jobs'[i] # None
  BY <1>5, NoneIsNoRow
<1>7. /\ lexical_representations' = lexical_representations \ ItemRevisions(i)
      /\ \A r \in Revisions :
           revisions'[r] = IF r \in ItemRevisions(i) THEN None ELSE revisions[r]
  BY DEF ProcessForgetPurge, EraseContent
<1>8. /\ deletion_markers'[i].state = "complete" /\ purge_jobs'[i].status = "complete"
      /\ deletion_markers'[i].generation = deletion_markers[i].generation
      /\ purge_jobs'[i].generation = purge_jobs[i].generation
      /\ deletion_markers'[i].operation = deletion_markers[i].operation
      /\ purge_jobs'[i].operation = purge_jobs[i].operation
  BY <1>2, <1>4 DEF MarkerRows, JobRows
<1> QED
  BY <1>1, <1>4, <1>6, <1>7, <1>8

\* What a stored revision leaves of the others.
LEMMA StoreWrites ==
  ASSUME TypeOK, NEW i \in Items, NEW r \in Revisions, NEW p \in Payloads,
         StoreRevision(i, r, p)
  PROVE  /\ revisions'[r] # None /\ revisions'[r].item = i /\ revisions'[r].payload = p
         /\ r \in lexical_representations'
         /\ lexical_representations' = lexical_representations \cup {r}
         /\ \A q \in Revisions \ {r} : revisions'[q] = revisions[q]
<1>1. [item |-> i, payload |-> p] \in RevisionRows
  BY DEF RevisionRows
<1>2. [item |-> i, payload |-> p] # None
  BY <1>1, NoneIsNoRow
<1>3. revisions' = [revisions EXCEPT ![r] = [item |-> i, payload |-> p]]
  BY DEF StoreRevision
<1> QED
  BY <1>2, <1>3 DEF StoreRevision, TypeOK

-----------------------------------------------------------------------------
(* What a step may never do                                                *)

\* No operation brings a forgotten item back, opens another deletion generation
\* for it or stores content under it.
THEOREM ForgottenStays == Spec => ForgottenForever
<1> DEFINE A == \A i \in Items : items[i] # None /\ items[i].deleted =>
                  /\ items'[i] = items[i]
                  /\ ItemRevisions(i)' \subseteq ItemRevisions(i)
<1>1. TypeOK /\ [Next]_vars => [A]_vars
  <2> SUFFICES ASSUME TypeOK, [Next]_vars,
                      NEW i \in Items, items[i] # None, items[i].deleted
               PROVE  items'[i] = items[i] /\ ItemRevisions(i)' \subseteq ItemRevisions(i)
    OBVIOUS
  <2>1. ASSUME NEW c \in Credentials, NEW op \in Operations, NEW k \in Keys, NEW d \in Digests,
               NEW j \in Items, NEW r \in Revisions, NEW t \in Nat, Saved(c, op, k, d, j, r, t)
        PROVE  items'[i] = items[i] /\ ItemRevisions(i)' \subseteq ItemRevisions(i)
    <3>1. i # j
      BY <2>1 DEF Saved, IsCurrent
    <3>2. revisions'[r].item = j /\ \A q \in Revisions \ {r} : revisions'[q] = revisions[q]
      BY <2>1, StoreWrites DEF Saved
    <3> QED
      BY <2>1, <3>1, <3>2 DEF Saved, ItemRevisions
  <2>2. ASSUME NEW c \in Credentials, NEW k \in Keys, NEW j \in Items, NEW e \in Revisions,
               NEW t \in Nat, ForgetMemory(c, k, j, e, t)
        PROVE  items'[i] = items[i] /\ ItemRevisions(i)' \subseteq ItemRevisions(i)
    BY <2>2, ForgetWrites DEF ItemRevisions
  <2>3. ASSUME NEW j \in Items, NEW g \in Nat, ProcessForgetPurge(j, g)
        PROVE  items'[i] = items[i] /\ ItemRevisions(i)' \subseteq ItemRevisions(i)
    BY <2>3, PurgeWrites DEF ItemRevisions
  <2>4. CASE Quiet
    BY <2>4 DEF Quiet, ItemRevisions
  <2> QED
    BY <2>1, <2>2, <2>3, <2>4, StepCases
<1> QED
  BY <1>1, TypeCorrect, PTL DEF Spec, ForgottenForever

\* Nothing changes an item, or adds a revision to it, while its collection is
\* withdrawn.
THEOREM WithdrawnStays == Spec => WithdrawnFrozen
<1> DEFINE A == \A i \in Items :
                  items[i] # None /\ items[i].collection \in withdrawn \cap withdrawn' =>
                    /\ items'[i] = items[i]
                    /\ ItemRevisions(i)' \subseteq ItemRevisions(i)
<1>1. TypeOK /\ [Next]_vars => [A]_vars
  <2> SUFFICES ASSUME TypeOK, [Next]_vars,
                      NEW i \in Items, items[i] # None, items[i].collection \in withdrawn
               PROVE  items'[i] = items[i] /\ ItemRevisions(i)' \subseteq ItemRevisions(i)
    OBVIOUS
  <2>1. ASSUME NEW c \in Credentials, NEW op \in Operations, NEW k \in Keys, NEW d \in Digests,
               NEW j \in Items, NEW r \in Revisions, NEW t \in Nat, Saved(c, op, k, d, j, r, t)
        PROVE  items'[i] = items[i] /\ ItemRevisions(i)' \subseteq ItemRevisions(i)
    <3>1. i # j
      BY <2>1 DEF Saved, OwnItem, OpenCollections
    <3>2. revisions'[r].item = j /\ \A q \in Revisions \ {r} : revisions'[q] = revisions[q]
      BY <2>1, StoreWrites DEF Saved
    <3> QED
      BY <2>1, <3>1, <3>2 DEF Saved, ItemRevisions
  <2>2. ASSUME NEW c \in Credentials, NEW k \in Keys, NEW j \in Items, NEW e \in Revisions,
               NEW t \in Nat, ForgetMemory(c, k, j, e, t)
        PROVE  items'[i] = items[i] /\ ItemRevisions(i)' \subseteq ItemRevisions(i)
    <3>1. i # j
      BY <2>2 DEF ForgetMemory, OwnItem, OpenCollections
    <3>2. /\ \A q \in Items \ {j} : items'[q] = items[q]
          /\ revisions' = revisions
      BY <2>2, ForgetWrites
    <3>3. items'[i] = items[i]
      BY <3>1, <3>2
    <3> QED
      BY <3>2, <3>3 DEF ItemRevisions
  <2>3. ASSUME NEW j \in Items, NEW g \in Nat, ProcessForgetPurge(j, g)
        PROVE  items'[i] = items[i] /\ ItemRevisions(i)' \subseteq ItemRevisions(i)
    BY <2>3, PurgeWrites DEF ItemRevisions
  <2>4. CASE Quiet
    BY <2>4 DEF Quiet, ItemRevisions
  <2> QED
    BY <2>1, <2>2, <2>3, <2>4, StepCases
<1> QED
  BY <1>1, TypeCorrect, PTL DEF Spec, WithdrawnFrozen

-----------------------------------------------------------------------------
(* The whole life of an item                                               *)

\* A purge job names a mutation that happened.
JobsAudited ==
  \A i \in Items : purge_jobs[i] # None => purge_jobs[i].operation \in DOMAIN mutation_audit

\* Whatever is stored was issued by a mutation, so a fresh identifier is free.
StoredIsAudited ==
  \A r \in Revisions : revisions[r] # None =>
    \E n \in DOMAIN mutation_audit : mutation_audit[n].revision = r

\* A correction is linear because what the item serves is its latest mutation;
\* that stays so because fresh identifiers collide with nothing served; content
\* goes away with its item because item, marker and job agree: the parts need
\* one another.
HistoryInv ==
  /\ TypeOK
  /\ JobsAudited /\ StoredIsAudited
  /\ OwnersKeepApart /\ LinearHistory /\ ServingIntact
  /\ DeletionAgrees /\ NothingOutlivesPurge

\* The audit row of a mutation keeps the history linear: a caller that changed an
\* item named the revision it served.
LEMMA RowKeepsHistory ==
  ASSUME HistoryInv,
         NEW c \in Credentials, NEW op \in Operations, NEW k, NEW d,
         NEW i \in Items, NEW r, NEW t, Commit(c, op, k, d, i, r, t),
         op # "create" => items[i] # None /\ IsCurrent(i, d.expected)
  PROVE  LinearHistory'
<1>1. TypeOK
  BY DEF HistoryInv
<1>2. /\ OperationId \in Nat
      /\ DOMAIN mutation_audit \subseteq Nat
      /\ DOMAIN mutation_audit' = DOMAIN mutation_audit \cup {OperationId}
      /\ \A n \in DOMAIN mutation_audit :
           n < OperationId /\ mutation_audit'[n] = mutation_audit[n]
      /\ mutation_audit'[OperationId].slot[2] = op
      /\ mutation_audit'[OperationId].item = i
      /\ mutation_audit'[OperationId].digest = d
  BY <1>1, CommitRow
<1>3. /\ \A n \in DOMAIN mutation_audit : \A l \in 1..n : l \in DOMAIN mutation_audit
      /\ \A l \in 1..(OperationId - 1) : l \in DOMAIN mutation_audit
      /\ \A m \in DOMAIN mutation_audit : m \in 1..(OperationId - 1)
  BY <1>1 DEF TypeOK, OperationId
<1> SUFFICES ASSUME NEW n \in DOMAIN mutation_audit', mutation_audit'[n].slot[2] # "create"
             PROVE  \E x \in 1..(n - 1) :
                      /\ mutation_audit'[x].item = mutation_audit'[n].item
                      /\ mutation_audit'[x].slot[2] # "forget"
                      /\ mutation_audit'[x].revision = mutation_audit'[n].digest.expected
                      /\ \A l \in (x + 1)..(n - 1) :
                           mutation_audit'[l].item # mutation_audit'[n].item
  BY DEF LinearHistory
<1>5. CASE n = OperationId
  <2>1. PICK m \in DOMAIN mutation_audit :
          /\ mutation_audit[m].item = i /\ mutation_audit[m].slot[2] # "forget"
          /\ mutation_audit[m].revision = d.expected
          /\ \A l \in DOMAIN mutation_audit : l > m => mutation_audit[l].item # i
    BY <1>2, <1>5 DEF HistoryInv, ServingIntact, IsCurrent, InForce
  <2>2. \A l \in (m + 1)..(n - 1) : l \in DOMAIN mutation_audit /\ l > m
    BY <1>2, <1>3, <1>5
  <2>3. \A l \in (m + 1)..(n - 1) : mutation_audit'[l].item # mutation_audit'[n].item
    BY <1>2, <1>5, <2>1, <2>2
  <2> QED
    BY <1>2, <1>3, <1>5, <2>1, <2>3
<1>6. CASE n \in DOMAIN mutation_audit
  <2>1. PICK x \in 1..(n - 1) :
          /\ mutation_audit[x].item = mutation_audit[n].item
          /\ mutation_audit[x].slot[2] # "forget"
          /\ mutation_audit[x].revision = mutation_audit[n].digest.expected
          /\ \A l \in (x + 1)..(n - 1) : mutation_audit[l].item # mutation_audit[n].item
    BY <1>2, <1>6 DEF HistoryInv, LinearHistory
  <2>2. \A l \in 1..n : mutation_audit'[l] = mutation_audit[l]
    BY <1>2, <1>3, <1>6
  <2>3. n \in Nat /\ \A l \in (x + 1)..(n - 1) : l \in 1..n
    BY <1>2, <1>6
  <2>4. n \in 1..n /\ x \in 1..n
    BY <2>3
  <2> QED
    BY <2>1, <2>2, <2>3, <2>4
<1> QED
  BY <1>2, <1>5, <1>6

\* A create or a correction keeps the invariant.
LEMMA SavedKeeps ==
  ASSUME HistoryInv, TypeOK',
         NEW c \in Credentials, NEW op \in Operations, NEW k \in Keys, NEW d \in Digests,
         NEW i \in Items, NEW r \in Revisions, NEW t \in Nat, Saved(c, op, k, d, i, r, t)
  PROVE  HistoryInv'
<1>1. TypeOK
  BY DEF HistoryInv
<1>2. /\ OperationId \in Nat
      /\ DOMAIN mutation_audit \subseteq Nat
      /\ DOMAIN mutation_audit' = DOMAIN mutation_audit \cup {OperationId}
      /\ \A n \in DOMAIN mutation_audit :
           n < OperationId /\ mutation_audit'[n] = mutation_audit[n]
      /\ mutation_audit'[OperationId].slot[1] = CredentialOwner[c]
      /\ mutation_audit'[OperationId].slot[2] = op
      /\ mutation_audit'[OperationId].credential = c
      /\ mutation_audit'[OperationId].item = i
      /\ mutation_audit'[OperationId].revision = r
      /\ mutation_audit'[OperationId].digest = d
  <2>1. Commit(c, op, k, d, i, r, t)
    BY DEF Saved
  <2> QED
    BY <1>1, <2>1, CommitRow
<1>3. /\ revisions'[r] # None /\ revisions'[r].item = i /\ revisions'[r].payload = d.payload
      /\ lexical_representations' = lexical_representations \cup {r}
      /\ \A q \in Revisions \ {r} : revisions'[q] = revisions[q]
  BY <1>1, StoreWrites DEF Saved
<1>4. /\ items'[i] # None /\ items'[i].active = r /\ ~items'[i].deleted
      /\ CollectionOwner[items'[i].collection] = CredentialOwner[c]
      /\ \A j \in Items \ {i} : items'[j] = items[j]
      /\ deletion_markers' = deletion_markers /\ purge_jobs' = purge_jobs
      /\ items[i] # None => ~items[i].deleted /\ items'[i].collection = items[i].collection
      /\ Unissued(r) /\ op \in {"create", "correct"}
  BY NoneIsNoRow DEF Saved, OpenCollections, IsCurrent
<1>5. \A n \in DOMAIN mutation_audit : mutation_audit[n].item \in Items
  BY <1>1, AuditType
<1>6. JobsAudited'
  BY <1>2, <1>4 DEF HistoryInv, JobsAudited
<1>7. StoredIsAudited'
  <2> SUFFICES ASSUME NEW q \in Revisions, revisions'[q] # None
               PROVE  \E n \in DOMAIN mutation_audit' : mutation_audit'[n].revision = q
    BY DEF StoredIsAudited
  <2>1. CASE q = r
    BY <1>2, <2>1
  <2>2. CASE q # r
    <3>1. PICK n \in DOMAIN mutation_audit : mutation_audit[n].revision = q
      BY <1>3, <2>2 DEF HistoryInv, StoredIsAudited
    <3> QED
      BY <1>2, <3>1
  <2> QED
    BY <2>1, <2>2
<1>8. OwnersKeepApart'
  <2> SUFFICES ASSUME NEW n \in DOMAIN mutation_audit'
               PROVE  LET j == mutation_audit'[n].item IN
                      /\ items'[j] # None
                      /\ mutation_audit'[n].slot[1] = CollectionOwner[items'[j].collection]
                      /\ mutation_audit'[n].slot[1]
                           = CredentialOwner[mutation_audit'[n].credential]
    BY DEF OwnersKeepApart
  <2>1. CASE n = OperationId
    BY <1>2, <1>4, <2>1
  <2>2. CASE n \in DOMAIN mutation_audit
    <3>1. LET j == mutation_audit[n].item IN
          /\ items[j] # None
          /\ mutation_audit[n].slot[1] = CollectionOwner[items[j].collection]
          /\ mutation_audit[n].slot[1] = CredentialOwner[mutation_audit[n].credential]
      BY <2>2 DEF HistoryInv, OwnersKeepApart
    <3>2. mutation_audit'[n] = mutation_audit[n] /\ mutation_audit[n].item \in Items
      BY <1>2, <1>5, <2>2
    <3>3. CASE mutation_audit[n].item = i
      <4>1. items[i] # None => items'[i].collection = items[i].collection
        BY <1>4
      <4>2. items'[i] # None
        BY <1>4
      <4> QED
        BY <3>1, <3>2, <3>3, <4>1, <4>2
    <3>4. CASE mutation_audit[n].item # i
      <4>1. items'[mutation_audit[n].item] = items[mutation_audit[n].item]
        BY <1>4, <3>2, <3>4
      <4> QED
        BY <3>1, <3>2, <4>1
    <3> QED
      BY <3>3, <3>4
  <2> QED
    BY <1>2, <2>1, <2>2
<1>9. LinearHistory'
  BY RowKeepsHistory DEF Saved, OwnItem
<1>10. ServingIntact'
  <2> SUFFICES ASSUME NEW j \in Items, items'[j] # None, ~items'[j].deleted
               PROVE  LET q == items'[j].active IN
                      /\ q \in lexical_representations'
                      /\ revisions'[q] # None /\ revisions'[q].item = j
                      /\ \E m \in DOMAIN mutation_audit' :
                           /\ InForce(j, m)'
                           /\ mutation_audit'[m].revision = q
                           /\ mutation_audit'[m].digest.payload = revisions'[q].payload
    BY DEF ServingIntact, InForce
  <2>1. CASE j = i
    <3>1. PICK m \in DOMAIN mutation_audit' : m = OperationId
      BY <1>2
    <3>2. InForce(i, m)'
      BY <1>2, <1>4, <3>1 DEF InForce
    <3> QED
      BY <1>2, <1>3, <1>4, <2>1, <3>1, <3>2
  <2>2. CASE j # i
    <3>1. items'[j] = items[j]
      BY <1>4, <2>2
    <3> DEFINE q == items[j].active
    <3>2. /\ q \in lexical_representations
          /\ revisions[q] # None /\ revisions[q].item = j
      BY <3>1 DEF HistoryInv, ServingIntact
    <3>3. PICK m \in DOMAIN mutation_audit :
            /\ InForce(j, m)
            /\ mutation_audit[m].revision = q
            /\ mutation_audit[m].digest.payload = revisions[q].payload
      BY <3>1 DEF HistoryInv, ServingIntact
    <3>4. q # r /\ q \in Revisions
      BY <1>1, <1>4, <3>2, <3>3 DEF Unissued, TypeOK
    <3>5. InForce(j, m)'
      BY <1>2, <2>2, <3>3 DEF InForce
    <3> QED
      BY <1>2, <1>3, <3>1, <3>2, <3>3, <3>4, <3>5
  <2> QED
    BY <2>1, <2>2
<1>11. DeletionAgrees'
  <2> SUFFICES ASSUME NEW j \in Items
               PROVE  LET deleted == items'[j] # None /\ items'[j].deleted IN
                      /\ deletion_markers'[j] # None <=> deleted
                      /\ purge_jobs'[j] # None <=> deleted
                      /\ deleted =>
                           /\ items'[j].active = None
                           /\ PurgeReady(j, items[j].generation)'
                           /\ purge_jobs'[j].status = deletion_markers'[j].state
                           /\ purge_jobs'[j].operation = deletion_markers'[j].operation
                           /\ mutation_audit'[purge_jobs'[j].operation].item = j
                           /\ mutation_audit'[purge_jobs'[j].operation].slot[2] = "forget"
    BY DEF DeletionAgrees
  <2>1. CASE j = i
    BY <1>4, <2>1 DEF HistoryInv, DeletionAgrees
  <2>2. CASE j # i
    <3>1. items'[j] = items[j]
      BY <1>4, <2>2
    <3>2. purge_jobs[j] # None =>
            mutation_audit'[purge_jobs[j].operation] = mutation_audit[purge_jobs[j].operation]
      BY <1>2 DEF HistoryInv, JobsAudited
    <3> QED
      BY <1>4, <3>1, <3>2 DEF HistoryInv, DeletionAgrees, PurgeReady
  <2> QED
    BY <2>1, <2>2
<1>12. NothingOutlivesPurge'
  <2>1. lexical_representations' \subseteq {q \in Revisions : revisions'[q] # None}
    BY <1>3 DEF HistoryInv, NothingOutlivesPurge
  <2>2. ASSUME NEW q \in Revisions, revisions'[q] # None
        PROVE  /\ items'[revisions'[q].item] # None
               /\ deletion_markers'[revisions'[q].item] # None =>
                    deletion_markers'[revisions'[q].item].state = "pending"
    <3>1. CASE q = r
      BY <1>3, <1>4, <3>1 DEF HistoryInv, DeletionAgrees
    <3>2. CASE q # r
      <4>1. revisions'[q] = revisions[q] /\ revisions[q].item \in Items
        BY <1>1, <1>3, <2>2, <3>2 DEF TypeOK, RevisionRows
      <4> QED
        BY <1>4, <2>2, <4>1 DEF HistoryInv, NothingOutlivesPurge
    <3> QED
      BY <3>1, <3>2
  <2> QED
    BY <2>1, <2>2 DEF NothingOutlivesPurge
<1> QED
  BY <1>6, <1>7, <1>8, <1>9, <1>10, <1>11, <1>12 DEF HistoryInv

\* A forget keeps the invariant.
LEMMA ForgetKeeps ==
  ASSUME HistoryInv, TypeOK',
         NEW c \in Credentials, NEW k \in Keys, NEW i \in Items, NEW e \in Revisions,
         NEW t \in Nat, ForgetMemory(c, k, i, e, t)
  PROVE  HistoryInv'
<1> DEFINE d == ForgetDigest(i, e)
           g == items[i].generation + 1
<1>1. TypeOK
  BY DEF HistoryInv
<1>2. /\ items[i] \in ItemRows /\ ~items[i].deleted /\ items[i].active = e
      /\ items'[i] = [collection |-> items[i].collection, active |-> None,
                      deleted |-> TRUE, generation |-> g]
      /\ \A j \in Items \ {i} : items'[j] = items[j]
      /\ deletion_markers'[i] = [generation |-> g, operation |-> OperationId, state |-> "pending"]
      /\ purge_jobs'[i] = [generation |-> g, operation |-> OperationId, status |-> "pending"]
      /\ \A j \in Items \ {i} :
           deletion_markers'[j] = deletion_markers[j] /\ purge_jobs'[j] = purge_jobs[j]
      /\ revisions' = revisions /\ lexical_representations' = lexical_representations
  BY <1>1, ForgetWrites
<1>3. /\ Commit(c, "forget", k, d, i, e, t) /\ OwnItem(CredentialOwner[c], i) /\ IsCurrent(i, e)
      /\ d.expected = e /\ "forget" \in Operations
  BY DEF ForgetMemory, ForgetDigest, Operations
<1> HIDE DEF d, g
<1>4. /\ OperationId \in Nat
      /\ DOMAIN mutation_audit \subseteq Nat
      /\ DOMAIN mutation_audit' = DOMAIN mutation_audit \cup {OperationId}
      /\ \A n \in DOMAIN mutation_audit :
           n < OperationId /\ mutation_audit'[n] = mutation_audit[n]
      /\ mutation_audit'[OperationId].slot[1] = CredentialOwner[c]
      /\ mutation_audit'[OperationId].slot[2] = "forget"
      /\ mutation_audit'[OperationId].credential = c
      /\ mutation_audit'[OperationId].item = i
  BY <1>1, <1>3, CommitRow
<1>5. items[i] # None /\ items'[i] # None /\ deletion_markers'[i] # None /\ purge_jobs'[i] # None
  <2>1. items'[i] \in ItemRows
    BY <1>1, <1>2 DEF TypeOK, ItemRows, g
  <2>2. deletion_markers'[i] \in MarkerRows /\ purge_jobs'[i] \in JobRows
    BY <1>2, <1>4 DEF MarkerRows, JobRows, ItemRows, g
  <2> QED
    BY <1>2, <2>1, <2>2, NoneIsNoRow
<1>6. /\ items'[i].collection = items[i].collection /\ items'[i].active = None
      /\ items'[i].deleted /\ items'[i].generation = g
      /\ deletion_markers'[i].generation = g /\ deletion_markers'[i].operation = OperationId
      /\ deletion_markers'[i].state = "pending"
      /\ purge_jobs'[i].generation = g /\ purge_jobs'[i].operation = OperationId
      /\ purge_jobs'[i].status = "pending"
  BY <1>2
<1>7. JobsAudited'
  BY <1>2, <1>4, <1>6 DEF HistoryInv, JobsAudited
<1>8. StoredIsAudited'
  <2> SUFFICES ASSUME NEW q \in Revisions, revisions[q] # None
               PROVE  \E n \in DOMAIN mutation_audit' : mutation_audit'[n].revision = q
    BY <1>2 DEF StoredIsAudited
  <2>1. PICK n \in DOMAIN mutation_audit : mutation_audit[n].revision = q
    BY DEF HistoryInv, StoredIsAudited
  <2> QED
    BY <1>4, <2>1
<1>9. OwnersKeepApart'
  <2> SUFFICES ASSUME NEW n \in DOMAIN mutation_audit'
               PROVE  LET j == mutation_audit'[n].item IN
                      /\ items'[j] # None
                      /\ mutation_audit'[n].slot[1] = CollectionOwner[items'[j].collection]
                      /\ mutation_audit'[n].slot[1]
                           = CredentialOwner[mutation_audit'[n].credential]
    BY DEF OwnersKeepApart
  <2>1. CASE n = OperationId
    BY <1>3, <1>4, <1>5, <1>6, <2>1 DEF OwnItem, OpenCollections
  <2>2. CASE n \in DOMAIN mutation_audit
    <3>1. LET j == mutation_audit[n].item IN
          /\ j \in Items /\ items[j] # None
          /\ mutation_audit[n].slot[1] = CollectionOwner[items[j].collection]
          /\ mutation_audit[n].slot[1] = CredentialOwner[mutation_audit[n].credential]
      BY <1>1, <2>2, AuditType DEF HistoryInv, OwnersKeepApart
    <3>2. CASE mutation_audit[n].item = i
      <4>1. mutation_audit'[n] = mutation_audit[n]
        BY <1>4, <2>2
      <4>2. items'[i] # None /\ items'[i].collection = items[i].collection
        BY <1>5, <1>6
      <4> QED
        BY <3>1, <3>2, <4>1, <4>2
    <3>3. CASE mutation_audit[n].item # i
      <4>1. mutation_audit'[n] = mutation_audit[n]
        BY <1>4, <2>2
      <4>2. items'[mutation_audit[n].item] = items[mutation_audit[n].item]
        BY <1>2, <3>1, <3>3
      <4> QED
        BY <3>1, <4>1, <4>2
    <3> QED
      BY <3>2, <3>3
  <2> QED
    BY <1>4, <2>1, <2>2
<1>10. LinearHistory'
  BY <1>3, <1>5, RowKeepsHistory
<1>11. ServingIntact'
  <2> SUFFICES ASSUME NEW j \in Items, items'[j] # None, ~items'[j].deleted
               PROVE  LET q == items'[j].active IN
                      /\ q \in lexical_representations'
                      /\ revisions'[q] # None /\ revisions'[q].item = j
                      /\ \E m \in DOMAIN mutation_audit' :
                           /\ InForce(j, m)'
                           /\ mutation_audit'[m].revision = q
                           /\ mutation_audit'[m].digest.payload = revisions'[q].payload
    BY DEF ServingIntact, InForce
  <2>1. j # i /\ items'[j] = items[j]
    BY <1>2, <1>6
  <2> DEFINE q == items[j].active
  <2>2. /\ q \in lexical_representations
        /\ revisions[q] # None /\ revisions[q].item = j
    BY <2>1 DEF HistoryInv, ServingIntact
  <2>3. PICK m \in DOMAIN mutation_audit :
          /\ InForce(j, m)
          /\ mutation_audit[m].revision = q
          /\ mutation_audit[m].digest.payload = revisions[q].payload
    BY <2>1 DEF HistoryInv, ServingIntact
  <2>4. InForce(j, m)'
    BY <1>4, <2>1, <2>3 DEF InForce
  <2> QED
    BY <1>2, <1>4, <2>1, <2>2, <2>3, <2>4
<1>12. DeletionAgrees'
  <2> SUFFICES ASSUME NEW j \in Items
               PROVE  LET deleted == items'[j] # None /\ items'[j].deleted IN
                      /\ deletion_markers'[j] # None <=> deleted
                      /\ purge_jobs'[j] # None <=> deleted
                      /\ deleted =>
                           /\ items'[j].active = None
                           /\ PurgeReady(j, items[j].generation)'
                           /\ purge_jobs'[j].status = deletion_markers'[j].state
                           /\ purge_jobs'[j].operation = deletion_markers'[j].operation
                           /\ mutation_audit'[purge_jobs'[j].operation].item = j
                           /\ mutation_audit'[purge_jobs'[j].operation].slot[2] = "forget"
    BY DEF DeletionAgrees
  <2>1. CASE j = i
    BY <1>4, <1>5, <1>6, <2>1 DEF PurgeReady
  <2>2. CASE j # i
    <3>1. /\ items'[j] = items[j]
          /\ deletion_markers'[j] = deletion_markers[j] /\ purge_jobs'[j] = purge_jobs[j]
      BY <1>2, <2>2
    <3>2. purge_jobs[j] # None =>
            mutation_audit'[purge_jobs[j].operation] = mutation_audit[purge_jobs[j].operation]
      BY <1>4 DEF HistoryInv, JobsAudited
    <3> QED
      BY <3>1, <3>2 DEF HistoryInv, DeletionAgrees, PurgeReady
  <2> QED
    BY <2>1, <2>2
<1>13. NothingOutlivesPurge'
  <2>1. ASSUME NEW q \in Revisions, revisions[q] # None
        PROVE  /\ items'[revisions[q].item] # None
               /\ deletion_markers'[revisions[q].item] # None =>
                    deletion_markers'[revisions[q].item].state = "pending"
    <3>1. revisions[q].item \in Items
      BY <1>1, <2>1 DEF TypeOK, RevisionRows
    <3>2. CASE revisions[q].item = i
      BY <1>5, <1>6, <3>2
    <3>3. CASE revisions[q].item # i
      BY <1>2, <2>1, <3>1, <3>3 DEF HistoryInv, NothingOutlivesPurge
    <3> QED
      BY <3>2, <3>3
  <2> QED
    BY <1>2, <2>1 DEF HistoryInv, NothingOutlivesPurge
<1> QED
  BY <1>7, <1>8, <1>9, <1>10, <1>11, <1>12, <1>13 DEF HistoryInv

\* A purge keeps the invariant.
LEMMA PurgeKeeps ==
  ASSUME HistoryInv, TypeOK', NEW i \in Items, NEW g \in Nat, ProcessForgetPurge(i, g)
  PROVE  HistoryInv'
<1>1. TypeOK
  BY DEF HistoryInv
<1>2. /\ PurgeReady(i, g)
      /\ items' = items /\ mutation_audit' = mutation_audit
      /\ deletion_markers'[i] # None /\ purge_jobs'[i] # None
      /\ deletion_markers'[i].state = "complete" /\ purge_jobs'[i].status = "complete"
      /\ deletion_markers'[i].generation = deletion_markers[i].generation
      /\ purge_jobs'[i].generation = purge_jobs[i].generation
      /\ deletion_markers'[i].operation = deletion_markers[i].operation
      /\ purge_jobs'[i].operation = purge_jobs[i].operation
      /\ \A j \in Items \ {i} :
           deletion_markers'[j] = deletion_markers[j] /\ purge_jobs'[j] = purge_jobs[j]
      /\ lexical_representations' = lexical_representations \ ItemRevisions(i)
      /\ \A r \in Revisions :
           revisions'[r] = IF r \in ItemRevisions(i) THEN None ELSE revisions[r]
  BY <1>1, PurgeWrites
<1>3. items[i] # None /\ items[i].deleted /\ deletion_markers[i] # None /\ purge_jobs[i] # None
  BY <1>2 DEF PurgeReady
<1>4. JobsAudited'
  BY <1>2, <1>3 DEF HistoryInv, JobsAudited
<1>5. StoredIsAudited'
  BY <1>2 DEF HistoryInv, StoredIsAudited
<1>6. OwnersKeepApart' /\ LinearHistory'
  BY <1>2 DEF HistoryInv, OwnersKeepApart, LinearHistory
<1>7. ServingIntact'
  <2> SUFFICES ASSUME NEW j \in Items, items[j] # None, ~items[j].deleted
               PROVE  LET q == items[j].active IN
                      /\ q \in lexical_representations'
                      /\ revisions'[q] # None /\ revisions'[q].item = j
                      /\ \E m \in DOMAIN mutation_audit :
                           /\ InForce(j, m)
                           /\ mutation_audit[m].revision = q
                           /\ mutation_audit[m].digest.payload = revisions'[q].payload
    BY <1>2 DEF ServingIntact, InForce
  <2> DEFINE q == items[j].active
  <2>1. /\ q \in lexical_representations
        /\ revisions[q] # None /\ revisions[q].item = j
        /\ \E m \in DOMAIN mutation_audit :
             /\ InForce(j, m)
             /\ mutation_audit[m].revision = q
             /\ mutation_audit[m].digest.payload = revisions[q].payload
    BY DEF HistoryInv, ServingIntact
  <2>2. q \in Revisions /\ q \notin ItemRevisions(i)
    BY <1>1, <1>3, <2>1 DEF TypeOK, ItemRevisions
  <2> QED
    BY <1>2, <2>1, <2>2
<1>8. DeletionAgrees'
  <2> SUFFICES ASSUME NEW j \in Items
               PROVE  LET deleted == items[j] # None /\ items[j].deleted IN
                      /\ deletion_markers'[j] # None <=> deleted
                      /\ purge_jobs'[j] # None <=> deleted
                      /\ deleted =>
                           /\ items[j].active = None
                           /\ PurgeReady(j, items[j].generation)'
                           /\ purge_jobs'[j].status = deletion_markers'[j].state
                           /\ purge_jobs'[j].operation = deletion_markers'[j].operation
                           /\ mutation_audit[purge_jobs'[j].operation].item = j
                           /\ mutation_audit[purge_jobs'[j].operation].slot[2] = "forget"
    BY <1>2 DEF DeletionAgrees, PurgeReady
  <2>1. CASE j = i
    BY <1>2, <1>3, <2>1 DEF HistoryInv, DeletionAgrees, PurgeReady
  <2>2. CASE j # i
    BY <1>2, <2>2 DEF HistoryInv, DeletionAgrees, PurgeReady
  <2> QED
    BY <2>1, <2>2
<1>9. NothingOutlivesPurge'
  <2>1. lexical_representations' \subseteq {q \in Revisions : revisions'[q] # None}
    BY <1>2 DEF HistoryInv, NothingOutlivesPurge
  <2>2. ASSUME NEW q \in Revisions, revisions'[q] # None
        PROVE  /\ items'[revisions'[q].item] # None
               /\ deletion_markers'[revisions'[q].item] # None =>
                    deletion_markers'[revisions'[q].item].state = "pending"
    <3>1. revisions'[q] = revisions[q] /\ q \notin ItemRevisions(i)
      BY <1>2, <2>2
    <3>2. revisions[q].item \in Items \ {i}
      BY <1>1, <2>2, <3>1 DEF TypeOK, RevisionRows, ItemRevisions
    <3> QED
      BY <1>2, <2>2, <3>1, <3>2 DEF HistoryInv, NothingOutlivesPurge
  <2> QED
    BY <2>1, <2>2 DEF NothingOutlivesPurge
<1> QED
  BY <1>4, <1>5, <1>6, <1>7, <1>8, <1>9 DEF HistoryInv

\* A step that touches none of the tables keeps the invariant.
LEMMA QuietKeeps == HistoryInv /\ TypeOK' /\ Quiet => HistoryInv'
<1> SUFFICES ASSUME HistoryInv, TypeOK', Quiet PROVE HistoryInv'
  OBVIOUS
<1>1. JobsAudited' /\ StoredIsAudited'
  BY DEF Quiet, HistoryInv, JobsAudited, StoredIsAudited
<1>2. OwnersKeepApart' /\ LinearHistory'
  BY DEF Quiet, HistoryInv, OwnersKeepApart, LinearHistory
<1>3. ServingIntact'
  BY DEF Quiet, HistoryInv, ServingIntact, InForce
<1>4. DeletionAgrees'
  BY DEF Quiet, HistoryInv, DeletionAgrees, PurgeReady
<1>5. NothingOutlivesPurge'
  BY DEF Quiet, HistoryInv, NothingOutlivesPurge
<1> QED
  BY <1>1, <1>2, <1>3, <1>4, <1>5 DEF HistoryInv

\* Items, content, deletion and audit agree in every reachable state.
THEOREM HistoryIsKept == Spec => []HistoryInv
<1>1. Init => HistoryInv
  <2> SUFFICES ASSUME Init PROVE HistoryInv
    OBVIOUS
  <2>1. TypeOK
    BY ConstantTypes DEF Init, TypeOK
  <2>2. /\ DOMAIN mutation_audit = {} /\ lexical_representations = {}
        /\ \A i \in Items : items[i] = None /\ deletion_markers[i] = None /\ purge_jobs[i] = None
        /\ \A r \in Revisions : revisions[r] = None
    BY DEF Init
  <2>3. JobsAudited /\ StoredIsAudited /\ OwnersKeepApart /\ LinearHistory
    BY <2>2 DEF JobsAudited, StoredIsAudited, OwnersKeepApart, LinearHistory
  <2>4. ServingIntact /\ DeletionAgrees /\ NothingOutlivesPurge
    BY <2>2 DEF ServingIntact, DeletionAgrees, NothingOutlivesPurge
  <2> QED
    BY <2>1, <2>3, <2>4 DEF HistoryInv
<1>2. HistoryInv /\ [Next]_vars /\ TypeOK' => HistoryInv'
  <2> SUFFICES ASSUME HistoryInv, [Next]_vars, TypeOK' PROVE HistoryInv'
    OBVIOUS
  <2>1. TypeOK
    BY DEF HistoryInv
  <2> QED
    BY <2>1, StepCases, SavedKeeps, ForgetKeeps, PurgeKeeps, QuietKeeps
<1> QED
  BY <1>1, <1>2, TypeCorrect, PTL DEF Spec

\* No correction or forget ever took effect against a revision its caller had not
\* read: optimistic concurrency loses no update.
THEOREM UpdatesAreNotLost == Spec => []LinearHistory
<1>1. HistoryInv => LinearHistory
  BY DEF HistoryInv
<1> QED
  BY <1>1, HistoryIsKept, PTL

\* What an undeleted item serves is whole: stored, found by keyword and as written.
THEOREM ServingIsIntact == Spec => []ServingIntact
<1>1. HistoryInv => ServingIntact
  BY DEF HistoryInv
<1> QED
  BY <1>1, HistoryIsKept, PTL

\* Item, marker and purge job agree, so every forgotten item can be purged.
THEOREM DeletionIsAgreed == Spec => []DeletionAgrees
<1>1. HistoryInv => DeletionAgrees
  BY DEF HistoryInv
<1> QED
  BY <1>1, HistoryIsKept, PTL

\* Nothing of an item is stored once its marker says complete.
THEOREM PurgeIsFinal == Spec => []NothingOutlivesPurge
<1>1. HistoryInv => NothingOutlivesPurge
  BY DEF HistoryInv
<1> QED
  BY <1>1, HistoryIsKept, PTL

\* No owner ever changed another owner's item.
THEOREM OwnersAreApart == Spec => []OwnersKeepApart
<1>1. HistoryInv => OwnersKeepApart
  BY DEF HistoryInv
<1> QED
  BY <1>1, HistoryIsKept, PTL

\* Stored content is never rewritten: identifiers are fresh, and only the purge of
\* a whole item deletes.
THEOREM RevisionsStay == Spec => RevisionsImmutable
<1> DEFINE A == \A i \in Items : \A r \in ItemRevisions(i) :
                  \/ revisions'[r] = revisions[r]
                  \/ deletion_markers[i] # None /\ ItemRevisions(i)' = {}
<1>1. HistoryInv /\ [Next]_vars => [A]_vars
  <2> SUFFICES ASSUME HistoryInv, [Next]_vars, NEW i \in Items, NEW r \in ItemRevisions(i)
               PROVE  \/ revisions'[r] = revisions[r]
                      \/ deletion_markers[i] # None /\ ItemRevisions(i)' = {}
    OBVIOUS
  <2>1. TypeOK
    BY DEF HistoryInv
  <2>2. r \in Revisions /\ revisions[r] # None /\ revisions[r].item = i
    BY DEF ItemRevisions
  <2>3. ASSUME NEW c \in Credentials, NEW op \in Operations, NEW k \in Keys, NEW d \in Digests,
               NEW j \in Items, NEW q \in Revisions, NEW t \in Nat, Saved(c, op, k, d, j, q, t)
        PROVE  revisions'[r] = revisions[r]
    <3>1. r # q
      BY <2>2, <2>3 DEF Saved, Unissued, HistoryInv, StoredIsAudited
    <3> QED
      BY <2>1, <2>2, <2>3, <3>1, StoreWrites DEF Saved
  <2>4. ASSUME NEW c \in Credentials, NEW k \in Keys, NEW j \in Items, NEW e \in Revisions,
               NEW t \in Nat, ForgetMemory(c, k, j, e, t)
        PROVE  revisions'[r] = revisions[r]
    BY <2>1, <2>4, ForgetWrites
  <2>5. ASSUME NEW j \in Items, NEW g \in Nat, ProcessForgetPurge(j, g)
        PROVE  \/ revisions'[r] = revisions[r]
               \/ deletion_markers[i] # None /\ ItemRevisions(i)' = {}
    <3>1. /\ PurgeReady(j, g)
          /\ \A q \in Revisions :
               revisions'[q] = IF q \in ItemRevisions(j) THEN None ELSE revisions[q]
      BY <2>1, <2>5, PurgeWrites
    <3>2. CASE i = j
      BY <3>1, <3>2 DEF PurgeReady, ItemRevisions
    <3>3. CASE i # j
      BY <2>2, <3>1, <3>3 DEF ItemRevisions
    <3> QED
      BY <3>2, <3>3
  <2>6. CASE Quiet
    BY <2>6 DEF Quiet
  <2> QED
    BY <2>1, <2>3, <2>4, <2>5, <2>6, StepCases
<1> QED
  BY <1>1, HistoryIsKept, PTL DEF Spec, RevisionsImmutable
=============================================================================
