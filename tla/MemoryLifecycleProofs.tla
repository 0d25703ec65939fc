------------------------ MODULE MemoryLifecycleProofs ------------------------
(***************************************************************************)
(* What holds of MemoryLifecycle for every value of its constants: any      *)
(* number of owners, credentials, keys, items and revisions, any clock.     *)
(***************************************************************************)
EXTENDS MemoryLifecycle, TLAPS

-----------------------------------------------------------------------------
(* Typing                                                                  *)

\* A slot built from typed parts is a slot.
LEMMA SlotType ==
  ASSUME NEW c \in Credentials, NEW op \in Operations, NEW k \in Keys
  PROVE  SlotOf(c, op, k) \in Slots
BY ConstantTypes DEF SlotOf, Slots

\* The bookkeeping every mutation shares keeps epoch, audit and records typed.
LEMMA CommitType ==
  ASSUME TypeOK,
         NEW c \in Credentials, NEW op \in Operations, NEW k \in Keys,
         NEW d \in Digests, NEW i \in Items, NEW r \in Revisions, NEW t \in Nat,
         Commit(c, op, k, d, i, r, t)
  PROVE  /\ authority_epoch' \in Nat
         /\ mutation_audit' \in Seq(AuditRows)
         /\ idempotency_records' \in [Slots -> IdempotencyRows \cup {None}]
         /\ UNCHANGED <<now, revoked_at, inactive, withdrawn, replay_audit>>
<1> DEFINE row == [slot |-> SlotOf(c, op, k), credential |-> c, item |-> i, revision |-> r,
                   epoch |-> authority_epoch + 1, digest |-> d, at |-> t]
           receipt == [digest |-> d, operation |-> OperationId, item |-> i,
                       revision |-> r, expires_at |-> t + TTL]
<1>1. row \in AuditRows
  BY SlotType DEF TypeOK, AuditRows
<1>2. receipt \in IdempotencyRows
  BY ConstantTypes DEF TypeOK, IdempotencyRows, OperationId
<1>3. mutation_audit' \in Seq(AuditRows)
  BY <1>1 DEF TypeOK, Commit
<1>4. idempotency_records' \in [Slots -> IdempotencyRows \cup {None}]
  <2>1. idempotency_records' = [idempotency_records EXCEPT ![SlotOf(c, op, k)] = receipt]
    BY DEF Commit
  <2> HIDE DEF receipt
  <2> QED
    BY <1>2, <2>1 DEF TypeOK
<1> QED
  BY <1>3, <1>4 DEF TypeOK, Commit, authority

\* A stored revision keeps the two content tables typed.
LEMMA StoreRevisionType ==
  ASSUME TypeOK, NEW i \in Items, NEW r \in Revisions, NEW p \in Payloads,
         StoreRevision(i, r, p)
  PROVE  /\ revisions' \in [Revisions -> RevisionRows \cup {None}]
         /\ lexical_representations' \subseteq Revisions
<1>1. [item |-> i, payload |-> p] \in RevisionRows
  BY DEF RevisionRows
<1> QED
  BY <1>1 DEF TypeOK, StoreRevision

\* The digests of the three kinds of request.
LEMMA DigestTypes ==
  /\ \A p \in Payloads : CreateDigest(p) \in Digests
  /\ \A i \in Items, e \in Revisions, p \in Payloads : CorrectDigest(i, e, p) \in Digests
  /\ \A i \in Items, e \in Revisions : ForgetDigest(i, e) \in Digests
BY DEF CreateDigest, CorrectDigest, ForgetDigest, Digests

\* The instants a statement may have read are instants, none of them in the future.
LEMMA ReadInstantsType ==
  ASSUME TypeOK
  PROVE  ReadInstants \subseteq Nat /\ \A t \in ReadInstants : t <= now
BY DEF TypeOK, ReadInstants

\* Every function and every operator's step keeps the tables typed.
LEMMA TypeStep ==
  ASSUME TypeOK, [Next]_vars
  PROVE  TypeOK'
<1>1. ASSUME NEW c \in Credentials, NEW k \in Keys, NEW t \in ReadInstants, NEW p \in Payloads,
             NEW i \in Items, NEW r \in Revisions, CreateMemory(c, k, p, i, r, t)
      PROVE  TypeOK'
  <2>1. t \in Nat /\ CreateDigest(p) \in Digests /\ "create" \in Operations
    BY ReadInstantsType, DigestTypes DEF Operations
  <2>2. Commit(c, "create", k, CreateDigest(p), i, r, t) /\ StoreRevision(i, r, p)
        /\ UNCHANGED <<deletion_markers, purge_jobs>>
    BY <1>1 DEF CreateMemory, deletion
  <2>3. items' \in [Items -> ItemRows \cup {None}]
    <3>1. PICK l \in Collections :
            items' = [items EXCEPT ![i] = [collection |-> l, active |-> r,
                                           deleted |-> FALSE, generation |-> 0]]
      BY <1>1 DEF CreateMemory, OpenCollections
    <3>2. [collection |-> l, active |-> r, deleted |-> FALSE, generation |-> 0] \in ItemRows
      BY DEF ItemRows
    <3> QED
      BY <3>1, <3>2 DEF TypeOK
  <2> QED
    BY <2>1, <2>2, <2>3, CommitType, StoreRevisionType DEF TypeOK
<1>2. ASSUME NEW c \in Credentials, NEW k \in Keys, NEW t \in ReadInstants, NEW p \in Payloads,
             NEW i \in Items, NEW e \in Revisions, NEW r \in Revisions,
             CorrectMemory(c, k, p, i, e, r, t)
      PROVE  TypeOK'
  <2>1. t \in Nat /\ CorrectDigest(i, e, p) \in Digests /\ "correct" \in Operations
    BY ReadInstantsType, DigestTypes DEF Operations
  <2>2. Commit(c, "correct", k, CorrectDigest(i, e, p), i, r, t) /\ StoreRevision(i, r, p)
        /\ UNCHANGED <<deletion_markers, purge_jobs>>
    BY <1>2 DEF CorrectMemory, deletion
  <2>3. items' \in [Items -> ItemRows \cup {None}]
    <3>1. items[i] \in ItemRows /\ items' = [items EXCEPT ![i].active = r]
      BY <1>2 DEF CorrectMemory, OwnItem, TypeOK
    <3>2. [items[i] EXCEPT !.active = r] \in ItemRows
      BY <3>1 DEF ItemRows
    <3> QED
      BY <3>1, <3>2 DEF TypeOK
  <2> QED
    BY <2>1, <2>2, <2>3, CommitType, StoreRevisionType DEF TypeOK
<1>3. ASSUME NEW c \in Credentials, NEW k \in Keys, NEW t \in ReadInstants,
             NEW i \in Items, NEW e \in Revisions, ForgetMemory(c, k, i, e, t)
      PROVE  TypeOK'
  <2> DEFINE g == items[i].generation + 1
             gone == [collection |-> items[i].collection, active |-> None,
                      deleted |-> TRUE, generation |-> g]
  <2>1. t \in Nat /\ ForgetDigest(i, e) \in Digests /\ "forget" \in Operations
    BY ReadInstantsType, DigestTypes DEF Operations
  <2>2. Commit(c, "forget", k, ForgetDigest(i, e), i, e, t)
        /\ UNCHANGED <<revisions, lexical_representations>>
    BY <1>3 DEF ForgetMemory
  <2>3. items[i] \in ItemRows
    BY <1>3 DEF ForgetMemory, OwnItem, TypeOK
  <2>4. g \in Nat
    BY <2>3 DEF ItemRows
  <2>5. gone \in ItemRows
    BY <2>3, <2>4 DEF ItemRows
  <2>6. items' \in [Items -> ItemRows \cup {None}]
    <3>1. items' = [items EXCEPT ![i] = gone]
      BY <1>3 DEF ForgetMemory
    <3> QED
      BY <3>1, <2>5 DEF TypeOK
  <2>7. OperationId \in Nat
    BY DEF OperationId, TypeOK
  <2>8. deletion_markers' \in [Items -> MarkerRows \cup {None}]
    BY <1>3, <2>4, <2>7 DEF ForgetMemory, LeaveMarker, MarkerRows, TypeOK
  <2>9. purge_jobs' \in [Items -> JobRows \cup {None}]
    BY <1>3, <2>4, <2>7 DEF ForgetMemory, LeaveMarker, JobRows, TypeOK
  <2> QED
    BY <2>1, <2>2, <2>6, <2>8, <2>9, CommitType DEF TypeOK
<1>4. ASSUME NEW c \in Credentials, NEW op \in Operations, NEW k \in Keys,
             NEW d, NEW t \in ReadInstants, ReplayReceipt(c, op, k, d, t)
      PROVE  TypeOK'
  <2>1. [slot |-> SlotOf(c, op, k), credential |-> c, epoch |-> authority_epoch] \in ReplayRows
    BY SlotType DEF ReplayRows, TypeOK
  <2> QED
    BY <1>4, <2>1 DEF ReplayReceipt, TypeOK, authority, content, deletion
<1>5. ASSUME NEW i \in Items, NEW g \in 1..2, ProcessForgetPurge(i, g)
      PROVE  TypeOK'
  <2>1. deletion_markers[i] \in MarkerRows /\ purge_jobs[i] \in JobRows
    BY <1>5 DEF ProcessForgetPurge, PurgeReady, TypeOK
  <2>2. /\ [deletion_markers[i] EXCEPT !.state = "complete"] \in MarkerRows
        /\ [purge_jobs[i] EXCEPT !.status = "complete"] \in JobRows
    BY <2>1 DEF MarkerRows, JobRows
  <2>3. /\ deletion_markers' \in [Items -> MarkerRows \cup {None}]
        /\ purge_jobs' \in [Items -> JobRows \cup {None}]
    BY <1>5, <2>2 DEF ProcessForgetPurge, TypeOK
  <2>4. /\ revisions' \in [Revisions -> RevisionRows \cup {None}]
        /\ lexical_representations' \subseteq Revisions
    BY <1>5 DEF ProcessForgetPurge, EraseContent, TypeOK
  <2> QED
    BY <1>5, <2>3, <2>4 DEF ProcessForgetPurge, TypeOK, authority
<1>6. CASE Operate
  BY <1>6 DEF Operate, Revoke, Deactivate, Reactivate, Withdraw, Restore,
     ChangeAuthority, TypeOK, content, deletion
<1>7. CASE Tick
  BY <1>7 DEF Tick, TypeOK, authority, content, deletion
<1>8. CASE UNCHANGED vars
  BY <1>8 DEF vars, TypeOK, authority, content, deletion
<1> QED
  BY <1>1, <1>2, <1>3, <1>4, <1>5, <1>6, <1>7, <1>8 DEF Next, Mutate, Replay

\* The tables hold typed rows in every reachable state.
THEOREM TypeCorrect == Spec => []TypeOK
<1>1. Init => TypeOK
  BY ConstantTypes DEF Init, TypeOK
<1>2. TypeOK /\ [Next]_vars => TypeOK'
  BY TypeStep
<1> QED
  BY <1>1, <1>2, PTL DEF Spec

-----------------------------------------------------------------------------
(* What a step does to the audit                                           *)

\* Audit rows are numbered by naturals and typed column by column.
LEMMA AuditType ==
  ASSUME TypeOK, NEW n \in DOMAIN mutation_audit
  PROVE  /\ n \in Nat
         /\ mutation_audit[n].slot \in Slots
         /\ mutation_audit[n].credential \in Credentials
         /\ mutation_audit[n].item \in Items
         /\ mutation_audit[n].revision \in Revisions
         /\ mutation_audit[n].epoch \in Nat
         /\ mutation_audit[n].digest \in Digests
         /\ mutation_audit[n].at \in Nat
<1>1. n \in Nat /\ mutation_audit[n] \in AuditRows
  BY DEF TypeOK
<1> QED
  BY <1>1 DEF AuditRows

\* One call of create, correct or forget, seen through its bookkeeping alone.
TakesEffect(c, op, k, d, i, r, t) ==
  /\ WriterCurrent(c, op, t)
  /\ ~Reserved(SlotOf(c, op, k), t)
  /\ Commit(c, op, k, d, i, r, t)

\* Audit and idempotency records change only in an effective mutation, which its
\* writer was entitled to and whose key was free.
LEMMA EffectStep ==
  ASSUME TypeOK, [Next]_vars
  PROVE  \/ \E c \in Credentials, op \in Operations, k \in Keys, d \in Digests,
              i \in Items, r \in Revisions, t \in Nat : TakesEffect(c, op, k, d, i, r, t)
         \/ UNCHANGED <<mutation_audit, idempotency_records>>
<1> DEFINE Goal == \E c \in Credentials, op \in Operations, k \in Keys, d \in Digests,
              i \in Items, r \in Revisions, t \in Nat : TakesEffect(c, op, k, d, i, r, t)
<1>1. ASSUME NEW c \in Credentials, NEW k \in Keys, NEW t \in ReadInstants, NEW p \in Payloads,
             NEW i \in Items, NEW r \in Revisions, CreateMemory(c, k, p, i, r, t)
      PROVE  Goal
  <2>1. CreateDigest(p) \in Digests /\ "create" \in Operations /\ t \in Nat
    BY DigestTypes, ReadInstantsType DEF Operations
  <2>2. TakesEffect(c, "create", k, CreateDigest(p), i, r, t)
    BY <1>1 DEF CreateMemory, TakesEffect
  <2> QED
    BY <2>1, <2>2
<1>2. ASSUME NEW c \in Credentials, NEW k \in Keys, NEW t \in ReadInstants, NEW p \in Payloads,
             NEW i \in Items, NEW e \in Revisions, NEW r \in Revisions,
             CorrectMemory(c, k, p, i, e, r, t)
      PROVE  Goal
  <2>1. CorrectDigest(i, e, p) \in Digests /\ "correct" \in Operations /\ t \in Nat
    BY DigestTypes, ReadInstantsType DEF Operations
  <2>2. TakesEffect(c, "correct", k, CorrectDigest(i, e, p), i, r, t)
    BY <1>2 DEF CorrectMemory, TakesEffect
  <2> QED
    BY <2>1, <2>2
<1>3. ASSUME NEW c \in Credentials, NEW k \in Keys, NEW t \in ReadInstants,
             NEW i \in Items, NEW e \in Revisions, ForgetMemory(c, k, i, e, t)
      PROVE  Goal
  <2>1. ForgetDigest(i, e) \in Digests /\ "forget" \in Operations /\ t \in Nat
    BY DigestTypes, ReadInstantsType DEF Operations
  <2>2. TakesEffect(c, "forget", k, ForgetDigest(i, e), i, e, t)
    BY <1>3 DEF ForgetMemory, TakesEffect
  <2> QED
    BY <2>1, <2>2
<1>4. CASE Replay
  BY <1>4 DEF Replay, ReplayReceipt
<1>5. CASE \E i \in Items, g \in 1..2 : ProcessForgetPurge(i, g)
  BY <1>5 DEF ProcessForgetPurge
<1>6. CASE Operate
  BY <1>6 DEF Operate, Revoke, Deactivate, Reactivate, Withdraw, Restore, ChangeAuthority
<1>7. CASE Tick
  BY <1>7 DEF Tick
<1>8. CASE UNCHANGED vars
  BY <1>8 DEF vars
<1>9. CASE Mutate
  BY <1>1, <1>2, <1>3, <1>9 DEF Mutate
<1> QED
  BY <1>4, <1>5, <1>6, <1>7, <1>8, <1>9 DEF Next

\* An effective mutation adds one row to the end of the audit, its receipt points
\* at that row, and no other row or record changes.
LEMMA EffectRows ==
  ASSUME TypeOK,
         NEW c \in Credentials, NEW op \in Operations, NEW k \in Keys,
         NEW d \in Digests, NEW i \in Items, NEW r \in Revisions, NEW t \in Nat,
         Commit(c, op, k, d, i, r, t)
  PROVE  /\ OperationId \in Nat
         /\ DOMAIN mutation_audit \subseteq Nat
         /\ DOMAIN mutation_audit' = DOMAIN mutation_audit \cup {OperationId}
         /\ \A n \in DOMAIN mutation_audit :
              n < OperationId /\ mutation_audit'[n] = mutation_audit[n]
         /\ mutation_audit'[OperationId] =
              [slot |-> SlotOf(c, op, k), credential |-> c, item |-> i, revision |-> r,
               epoch |-> authority_epoch + 1, digest |-> d, at |-> t]
         /\ idempotency_records'[SlotOf(c, op, k)] =
              [digest |-> d, operation |-> OperationId, item |-> i,
               revision |-> r, expires_at |-> t + TTL]
         /\ \A s \in Slots \ {SlotOf(c, op, k)} :
              idempotency_records'[s] = idempotency_records[s]
<1> DEFINE row == [slot |-> SlotOf(c, op, k), credential |-> c, item |-> i, revision |-> r,
                   epoch |-> authority_epoch + 1, digest |-> d, at |-> t]
           receipt == [digest |-> d, operation |-> OperationId, item |-> i,
                       revision |-> r, expires_at |-> t + TTL]
<1>1. mutation_audit' = Append(mutation_audit, row) /\ mutation_audit \in Seq(AuditRows)
  BY DEF Commit, TypeOK
<1>2. idempotency_records' = [idempotency_records EXCEPT ![SlotOf(c, op, k)] = receipt]
  BY DEF Commit
<1>3. SlotOf(c, op, k) \in Slots /\ DOMAIN idempotency_records = Slots
  BY SlotType DEF TypeOK
<1> HIDE DEF row, receipt
<1>4. /\ idempotency_records'[SlotOf(c, op, k)] = receipt
      /\ \A s \in Slots \ {SlotOf(c, op, k)} :
           idempotency_records'[s] = idempotency_records[s]
  BY <1>2, <1>3
<1>5. /\ OperationId \in Nat
      /\ DOMAIN mutation_audit \subseteq Nat
      /\ DOMAIN mutation_audit' = DOMAIN mutation_audit \cup {OperationId}
      /\ \A n \in DOMAIN mutation_audit :
           n < OperationId /\ mutation_audit'[n] = mutation_audit[n]
      /\ mutation_audit'[OperationId] = row
  BY <1>1 DEF OperationId
<1> QED
  BY <1>4, <1>5 DEF row, receipt

-----------------------------------------------------------------------------
(* One effect per key                                                      *)

\* A key that was ever used still has a record: the reservation of an expired key
\* replaces it, and nothing else deletes it.
KeysRemembered ==
  \A n \in DOMAIN mutation_audit : idempotency_records[mutation_audit[n].slot] # None

\* OneEffectPerKey alone is not inductive: that the key of an old effect is free
\* says something of its age only because the key's record is the receipt of the
\* latest effect under it.
KeysInv == TypeOK /\ KeysRemembered /\ ReceiptNamesItsEffect /\ OneEffectPerKey

\* A key found free was last used at least a record's life ago.
LEMMA FreeKeyIsOld ==
  ASSUME KeysInv, NEW s \in Slots, NEW t \in Nat, ~Reserved(s, t),
         NEW m \in DOMAIN mutation_audit, mutation_audit[m].slot = s
  PROVE  mutation_audit[m].at + TTL <= t
<1> DEFINE latest == idempotency_records[s].operation
<1>1. idempotency_records[s] # None /\ idempotency_records[s] \in IdempotencyRows
  BY DEF KeysInv, KeysRemembered, TypeOK
<1>2. /\ latest \in DOMAIN mutation_audit
      /\ mutation_audit[latest].slot = s
      /\ idempotency_records[s].expires_at = mutation_audit[latest].at + TTL
      /\ m <= latest
  <2>1. /\ latest \in DOMAIN mutation_audit
        /\ mutation_audit[latest].slot = s
        /\ idempotency_records[s].expires_at = mutation_audit[latest].at + TTL
        /\ ~(m > latest)
    BY <1>1 DEF KeysInv, ReceiptNamesItsEffect
  <2> QED
    BY <2>1 DEF KeysInv, TypeOK
<1>3. /\ mutation_audit[m].at \in Nat /\ mutation_audit[latest].at \in Nat
      /\ m \in Nat /\ latest \in Nat /\ TTL \in Nat
  BY <1>2, AuditType, ConstantTypes DEF KeysInv
<1>4. mutation_audit[latest].at + TTL <= t
  BY <1>1, <1>2, <1>3 DEF Reserved, IdempotencyRows
<1>5. CASE m = latest
  BY <1>4, <1>5
<1>6. CASE m < latest
  <2>1. mutation_audit[m].at + TTL <= mutation_audit[latest].at
    BY <1>2, <1>6 DEF KeysInv, OneEffectPerKey
  <2> QED
    BY <1>3, <1>4, <2>1
<1> QED
  BY <1>2, <1>3, <1>5, <1>6

\* An effective mutation keeps the bookkeeping of keys.
LEMMA EffectKeepsKeys ==
  ASSUME KeysInv, TypeOK',
         NEW c \in Credentials, NEW op \in Operations, NEW k \in Keys,
         NEW d \in Digests, NEW i \in Items, NEW r \in Revisions, NEW t \in Nat,
         TakesEffect(c, op, k, d, i, r, t)
  PROVE  KeysInv'
<1> DEFINE slot == SlotOf(c, op, k)
           row == [slot |-> slot, credential |-> c, item |-> i, revision |-> r,
                   epoch |-> authority_epoch + 1, digest |-> d, at |-> t]
           receipt == [digest |-> d, operation |-> OperationId, item |-> i,
                       revision |-> r, expires_at |-> t + TTL]
<1>1. /\ OperationId \in Nat
      /\ DOMAIN mutation_audit \subseteq Nat
      /\ DOMAIN mutation_audit' = DOMAIN mutation_audit \cup {OperationId}
      /\ \A n \in DOMAIN mutation_audit :
           n < OperationId /\ mutation_audit'[n] = mutation_audit[n]
      /\ mutation_audit'[OperationId] = row
      /\ idempotency_records'[slot] = receipt
      /\ \A s \in Slots \ {slot} : idempotency_records'[s] = idempotency_records[s]
  BY EffectRows DEF TakesEffect, KeysInv
<1>2. slot \in Slots /\ ~Reserved(slot, t)
  BY SlotType DEF TakesEffect
<1>3. \A n \in DOMAIN mutation_audit : mutation_audit[n].slot \in Slots
  BY AuditType DEF KeysInv
<1>4. KeysRemembered'
  <2>1. receipt # None
    <3>1. receipt \in IdempotencyRows
      BY <1>1, ConstantTypes DEF IdempotencyRows
    <3> QED
      BY <3>1, NoneIsNoRow
  <2>2. ASSUME NEW n \in DOMAIN mutation_audit'
        PROVE  idempotency_records'[mutation_audit'[n].slot] # None
    <3>1. CASE n = OperationId
      BY <1>1, <2>1, <3>1
    <3>2. CASE n \in DOMAIN mutation_audit
      <4>1. idempotency_records[mutation_audit[n].slot] # None
        BY <3>2 DEF KeysInv, KeysRemembered
      <4> QED
        BY <1>1, <1>3, <2>1, <3>2, <4>1
    <3> QED
      BY <1>1, <2>2, <3>1, <3>2
  <2> QED
    BY <2>2 DEF KeysRemembered
<1>5. ReceiptNamesItsEffect'
  <2> SUFFICES ASSUME NEW s \in Slots, idempotency_records'[s] # None
               PROVE  /\ idempotency_records'[s].operation \in DOMAIN mutation_audit'
                      /\ LET effect == mutation_audit'[idempotency_records'[s].operation] IN
                           /\ effect.slot = s
                           /\ effect.digest = idempotency_records'[s].digest
                           /\ effect.item = idempotency_records'[s].item
                           /\ effect.revision = idempotency_records'[s].revision
                           /\ idempotency_records'[s].expires_at = effect.at + TTL
                      /\ \A n \in DOMAIN mutation_audit' :
                           n > idempotency_records'[s].operation => mutation_audit'[n].slot # s
    BY DEF ReceiptNamesItsEffect
  <2>1. CASE s = slot
    BY <1>1, <2>1
  <2>2. CASE s # slot
    <3>1. idempotency_records'[s] = idempotency_records[s]
      BY <1>1, <2>2
    <3>2. /\ idempotency_records[s].operation \in DOMAIN mutation_audit
          /\ LET effect == mutation_audit[idempotency_records[s].operation] IN
               /\ effect.slot = s
               /\ effect.digest = idempotency_records[s].digest
               /\ effect.item = idempotency_records[s].item
               /\ effect.revision = idempotency_records[s].revision
               /\ idempotency_records[s].expires_at = effect.at + TTL
          /\ \A n \in DOMAIN mutation_audit :
               n > idempotency_records[s].operation => mutation_audit[n].slot # s
      BY <3>1 DEF KeysInv, ReceiptNamesItsEffect
    <3> QED
      BY <1>1, <2>2, <3>1, <3>2
  <2> QED
    BY <2>1, <2>2
<1>6. OneEffectPerKey'
  <2> SUFFICES ASSUME NEW m \in DOMAIN mutation_audit', NEW n \in DOMAIN mutation_audit',
                      m < n, mutation_audit'[m].slot = mutation_audit'[n].slot
               PROVE  mutation_audit'[m].at + TTL <= mutation_audit'[n].at
    BY DEF OneEffectPerKey
  <2>1. m \in DOMAIN mutation_audit
    BY <1>1
  <2>2. CASE n = OperationId
    BY <1>1, <1>2, <2>1, <2>2, FreeKeyIsOld
  <2>3. CASE n \in DOMAIN mutation_audit
    BY <1>1, <2>1, <2>3 DEF KeysInv, OneEffectPerKey
  <2> QED
    BY <1>1, <2>2, <2>3
<1> QED
  BY <1>4, <1>5, <1>6 DEF KeysInv

\* The bookkeeping of idempotency keys is right in every reachable state.
THEOREM KeysAreKept == Spec => []KeysInv
<1>1. Init => KeysInv
  <2> SUFFICES ASSUME Init PROVE KeysInv
    OBVIOUS
  <2>1. TypeOK
    BY ConstantTypes DEF Init, TypeOK
  <2>2. DOMAIN mutation_audit = {} /\ \A s \in Slots : idempotency_records[s] = None
    BY DEF Init
  <2> QED
    BY <2>1, <2>2 DEF KeysInv, KeysRemembered, ReceiptNamesItsEffect, OneEffectPerKey
<1>2. KeysInv /\ [Next]_vars /\ TypeOK' => KeysInv'
  <2> SUFFICES ASSUME KeysInv, [Next]_vars, TypeOK' PROVE KeysInv'
    OBVIOUS
  <2>1. CASE \E c \in Credentials, op \in Operations, k \in Keys, d \in Digests,
               i \in Items, r \in Revisions, t \in Nat : TakesEffect(c, op, k, d, i, r, t)
    BY <2>1, EffectKeepsKeys
  <2>2. CASE UNCHANGED <<mutation_audit, idempotency_records>>
    BY <2>2 DEF KeysInv, KeysRemembered, ReceiptNamesItsEffect, OneEffectPerKey
  <2> QED
    BY <2>1, <2>2, EffectStep DEF KeysInv
<1> QED
  BY <1>1, <1>2, TypeCorrect, PTL DEF Spec

\* However often a request is sent again, it takes effect at most once while its
\* key is reserved.
THEOREM OncePerKey == Spec => []OneEffectPerKey
<1>1. KeysInv => OneEffectPerKey
  BY DEF KeysInv
<1> QED
  BY <1>1, KeysAreKept, PTL

\* A receipt, however old its operation, names that operation's own rows.
THEOREM ReceiptsAreTrue == Spec => []ReceiptNamesItsEffect
<1>1. KeysInv => ReceiptNamesItsEffect
  BY DEF KeysInv
<1> QED
  BY <1>1, KeysAreKept, PTL

-----------------------------------------------------------------------------
(* One order for mutations and revocations                                 *)

\* The epoch never goes back, and a revocation takes the epoch after it.
LEMMA EpochStep ==
  ASSUME TypeOK, [Next]_vars
  PROVE  /\ authority_epoch' \in Nat /\ authority_epoch <= authority_epoch'
         /\ \A c \in Credentials :
              revoked_at'[c] = revoked_at[c] \/ revoked_at'[c] = authority_epoch + 1
<1> USE DEF TypeOK
<1>1. CASE \E c \in Credentials, k \in Keys, t \in ReadInstants, p \in Payloads,
             i \in Items, r \in Revisions : CreateMemory(c, k, p, i, r, t)
  BY <1>1 DEF CreateMemory, Commit, authority
<1>2. CASE \E c \in Credentials, k \in Keys, t \in ReadInstants, p \in Payloads,
             i \in Items, e \in Revisions, r \in Revisions : CorrectMemory(c, k, p, i, e, r, t)
  BY <1>2 DEF CorrectMemory, Commit, authority
<1>3. CASE \E c \in Credentials, k \in Keys, t \in ReadInstants,
             i \in Items, e \in Revisions : ForgetMemory(c, k, i, e, t)
  BY <1>3 DEF ForgetMemory, Commit, authority
<1>4. CASE Replay
  BY <1>4 DEF Replay, ReplayReceipt, authority
<1>5. CASE \E i \in Items, g \in 1..2 : ProcessForgetPurge(i, g)
  BY <1>5 DEF ProcessForgetPurge, authority
<1>6. CASE Operate
  BY <1>6 DEF Operate, Revoke, Deactivate, Reactivate, Withdraw, Restore, ChangeAuthority
<1>7. CASE Tick
  BY <1>7 DEF Tick, authority
<1>8. CASE UNCHANGED vars
  BY <1>8 DEF vars, authority
<1> QED
  BY <1>1, <1>2, <1>3, <1>4, <1>5, <1>6, <1>7, <1>8 DEF Next, Mutate

\* Mutations are numbered in commit order, none of them after the revocation of
\* the credential that asked for it: the tenant row leaves no room for one.
THEOREM MutationsAreOrdered == Spec => []OneTotalOrder
<1>1. Init => OneTotalOrder
  BY DEF Init, OneTotalOrder
<1>2. TypeOK /\ OneTotalOrder /\ [Next]_vars => OneTotalOrder'
  <2> SUFFICES ASSUME TypeOK, OneTotalOrder, [Next]_vars PROVE OneTotalOrder'
    OBVIOUS
  <2>1. /\ authority_epoch \in Nat /\ authority_epoch' \in Nat
        /\ authority_epoch <= authority_epoch'
        /\ \A c \in Credentials :
             revoked_at'[c] = revoked_at[c] \/ revoked_at'[c] = authority_epoch + 1
        /\ \A c \in Credentials : revoked_at[c] # None => revoked_at[c] \in Nat
    BY EpochStep DEF TypeOK
  <2>2. \A n \in DOMAIN mutation_audit :
          /\ n \in Nat
          /\ mutation_audit[n].epoch \in Nat /\ mutation_audit[n].credential \in Credentials
          /\ mutation_audit[n].epoch <= authority_epoch
          /\ revoked_at[mutation_audit[n].credential] # None =>
               mutation_audit[n].epoch < revoked_at[mutation_audit[n].credential]
    BY AuditType DEF OneTotalOrder
  <2>3. ASSUME NEW c \in Credentials, NEW op \in Operations, NEW k \in Keys,
               NEW d \in Digests, NEW i \in Items, NEW r \in Revisions, NEW t \in Nat,
               TakesEffect(c, op, k, d, i, r, t)
        PROVE  OneTotalOrder'
    <3>1. /\ OperationId \in Nat
          /\ DOMAIN mutation_audit' = DOMAIN mutation_audit \cup {OperationId}
          /\ \A n \in DOMAIN mutation_audit :
               n < OperationId /\ mutation_audit'[n] = mutation_audit[n]
          /\ mutation_audit'[OperationId].epoch = authority_epoch + 1
          /\ mutation_audit'[OperationId].credential = c
      <4>1. Commit(c, op, k, d, i, r, t)
        BY <2>3 DEF TakesEffect
      <4>2. mutation_audit' = Append(mutation_audit,
              [slot |-> SlotOf(c, op, k), credential |-> c, item |-> i, revision |-> r,
               epoch |-> authority_epoch + 1, digest |-> d, at |-> t])
        BY <4>1 DEF Commit
      <4>3. mutation_audit \in Seq(AuditRows) /\ OperationId = Len(mutation_audit) + 1
        BY DEF TypeOK, OperationId
      <4> QED
        BY <4>2, <4>3
    <3>2. authority_epoch' = authority_epoch + 1 /\ revoked_at' = revoked_at
          /\ revoked_at[c] = None
      BY <2>3 DEF TakesEffect, Commit, authority, WriterCurrent
    <3>3. ASSUME NEW m \in DOMAIN mutation_audit', NEW n \in DOMAIN mutation_audit', m < n
          PROVE  mutation_audit'[m].epoch < mutation_audit'[n].epoch
      <4>1. m \in DOMAIN mutation_audit
        BY <2>2, <3>1, <3>3
      <4>2. CASE n = OperationId
        BY <2>1, <2>2, <3>1, <4>1, <4>2
      <4>3. CASE n \in DOMAIN mutation_audit
        BY <3>1, <3>3, <4>1, <4>3 DEF OneTotalOrder
      <4> QED
        BY <3>1, <4>2, <4>3
    <3>4. ASSUME NEW n \in DOMAIN mutation_audit'
          PROVE  /\ mutation_audit'[n].epoch <= authority_epoch'
                 /\ revoked_at'[mutation_audit'[n].credential] # None =>
                      mutation_audit'[n].epoch < revoked_at'[mutation_audit'[n].credential]
      BY <2>1, <2>2, <3>1, <3>2
    <3> QED
      BY <3>3, <3>4 DEF OneTotalOrder
  <2>4. CASE UNCHANGED <<mutation_audit, idempotency_records>>
    <3>1. \A m, n \in DOMAIN mutation_audit' :
            m < n => mutation_audit'[m].epoch < mutation_audit'[n].epoch
      BY <2>4 DEF OneTotalOrder
    <3>2. \A n \in DOMAIN mutation_audit' :
            /\ mutation_audit'[n].epoch <= authority_epoch'
            /\ revoked_at'[mutation_audit'[n].credential] # None =>
                 mutation_audit'[n].epoch < revoked_at'[mutation_audit'[n].credential]
      BY <2>1, <2>2, <2>4
    <3> QED
      BY <3>1, <3>2 DEF OneTotalOrder
  <2> QED
    BY <2>3, <2>4, EffectStep
<1> QED
  BY <1>1, <1>2, TypeCorrect, PTL DEF Spec
=============================================================================
