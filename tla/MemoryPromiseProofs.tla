-------------------------- MODULE MemoryPromiseProofs --------------------------
(***************************************************************************)
(* The tables of MemoryLifecycle implement MemoryPromise, for every value of *)
(* the constants: initial states are initial states of the promise, and      *)
(* every step is one of its steps or none.                                   *)
(***************************************************************************)
EXTENDS MemoryHistoryProofs

-----------------------------------------------------------------------------
(* The refinement mapping                                                  *)

phase == [i \in Items |-> PhaseOf(i)]
current == [i \in Items |-> CurrentOf(i)]
residue == {i \in Items : ItemRevisions(i) # {}}
executed == [s \in Slots |-> ExecutedAt(s)]

\* A mutation under a free key is the one effect of its slot in this window.
LEMMA CommitTakesEffect ==
  ASSUME TypeOK,
         NEW c \in Credentials, NEW op \in Operations, NEW k \in Keys,
         NEW d \in Digests, NEW i \in Items, NEW r \in Revisions, NEW t \in Nat,
         ~Reserved(SlotOf(c, op, k), t), Commit(c, op, k, d, i, r, t)
  PROVE  Promise!TakeEffect(SlotOf(c, op, k), t)
<1> DEFINE slot == SlotOf(c, op, k)
           receipt == [digest |-> d, operation |-> OperationId, item |-> i,
                       revision |-> r, expires_at |-> t + TTL]
<1>1. slot \in Slots
  BY SlotType
<1>2. TTL \in Nat
  BY ConstantTypes
<1>3. /\ idempotency_records'[slot] = receipt
      /\ \A s \in Slots \ {slot} : idempotency_records'[s] = idempotency_records[s]
  <2>1. idempotency_records' = [idempotency_records EXCEPT ![SlotOf(c, op, k)] = receipt]
    BY DEF Commit
  <2>2. SlotOf(c, op, k) \in Slots /\ DOMAIN idempotency_records = Slots
    BY SlotType DEF TypeOK
  <2> HIDE DEF receipt
  <2> QED
    BY <2>1, <2>2
<1>4. receipt # None
  <2>1. OperationId \in Nat
    BY EffectRows
  <2>2. receipt \in IdempotencyRows
    BY <1>2, <2>1 DEF IdempotencyRows
  <2> QED
    BY <2>2, NoneIsNoRow
<1>5. ExecutedAt(slot)' = t
  <2>1. idempotency_records'[slot].expires_at - TTL = t
    BY <1>2, <1>3
  <2> QED
    BY <1>3, <1>4, <2>1 DEF ExecutedAt
<1>6. \A s \in Slots \ {slot} : ExecutedAt(s)' = ExecutedAt(s)
  BY <1>3 DEF ExecutedAt
<1>7. executed[slot] # None => executed[slot] + TTL <= t
  <2>1. CASE idempotency_records[slot] = None
    BY <1>1, <2>1 DEF executed, ExecutedAt
  <2>2. CASE idempotency_records[slot] # None
    <3>1. idempotency_records[slot] \in IdempotencyRows
      BY <1>1, <2>2 DEF TypeOK
    <3>2. idempotency_records[slot].expires_at \in Nat
      BY <3>1 DEF IdempotencyRows
    <3>3. idempotency_records[slot].expires_at <= t
      BY <2>2, <3>2 DEF Reserved
    <3>4. executed[slot] = idempotency_records[slot].expires_at - TTL
      BY <1>1, <2>2 DEF executed, ExecutedAt
    <3> QED
      BY <1>2, <3>2, <3>3, <3>4
  <2> QED
    BY <2>1, <2>2
<1>8. executed' = [executed EXCEPT ![slot] = t]
  BY <1>1, <1>5, <1>6 DEF executed
<1>9. now' = now
  BY DEF Commit
<1> HIDE DEF slot
<1> QED
  BY <1>7, <1>8, <1>9 DEF Promise!TakeEffect, executed, slot

\* The operator's and the clock's steps and the replays change nothing promised.
LEMMA QuietRefines ==
  ASSUME Quiet
  PROVE  Promise!Tick \/ UNCHANGED Promise!vars
<1>1. /\ [j \in Items |-> PhaseOf(j)]' = [j \in Items |-> PhaseOf(j)]
      /\ [j \in Items |-> CurrentOf(j)]' = [j \in Items |-> CurrentOf(j)]
      /\ {j \in Items : ItemRevisions(j) # {}}' = {j \in Items : ItemRevisions(j) # {}}
      /\ [s \in Slots |-> ExecutedAt(s)]' = [s \in Slots |-> ExecutedAt(s)]
  BY DEF Quiet, PhaseOf, CurrentOf, ItemRevisions, ExecutedAt
<1>2. now' = now \/ now' = now + 1
  BY DEF Quiet
<1> QED
  BY <1>1, <1>2 DEF Promise!Tick, Promise!vars

\* A create saves, a correction revises.
LEMMA SavedRefines ==
  ASSUME HistoryInv,
         NEW c \in Credentials, NEW op \in Operations, NEW k \in Keys, NEW d \in Digests,
         NEW i \in Items, NEW r \in Revisions, NEW t \in Nat, Saved(c, op, k, d, i, r, t)
  PROVE  \/ Promise!Save(i, d.payload, SlotOf(c, op, k), t)
         \/ Promise!Revise(i, d.payload, SlotOf(c, op, k), t)
<1>1. TypeOK
  BY DEF HistoryInv
<1>2. Promise!TakeEffect(SlotOf(c, op, k), t)
  BY <1>1, CommitTakesEffect DEF Saved
<1>3. StoreRevision(i, r, d.payload) /\ d.payload \in Payloads
  BY DEF Saved
<1>4. /\ revisions'[r] # None /\ revisions'[r].item = i /\ revisions'[r].payload = d.payload
      /\ \A q \in Revisions \ {r} : revisions'[q] = revisions[q]
  BY <1>1, <1>3, StoreWrites
<1>5. /\ items'[i] # None /\ items'[i].active = r /\ ~items'[i].deleted
      /\ \A j \in Items \ {i} : items'[j] = items[j]
      /\ deletion_markers' = deletion_markers
      /\ Unissued(r)
  BY NoneIsNoRow DEF Saved
<1>6. revisions[r] = None
  BY <1>5 DEF Unissued, HistoryInv, StoredIsAudited
<1>7. PhaseOf(i)' = "live" /\ CurrentOf(i)' = d.payload
  BY <1>4, <1>5 DEF PhaseOf, CurrentOf
<1>8. ASSUME NEW j \in Items \ {i}
      PROVE  PhaseOf(j)' = PhaseOf(j) /\ CurrentOf(j)' = CurrentOf(j)
  <2>1. PhaseOf(j)' = PhaseOf(j)
    BY <1>5 DEF PhaseOf
  <2>2. CASE PhaseOf(j) = "live"
    <3>1. items[j] # None /\ ~items[j].deleted
      BY <2>2 DEF PhaseOf
    <3>2. items[j].active \in Revisions /\ revisions[items[j].active] # None
      BY <1>1, <3>1 DEF HistoryInv, ServingIntact, TypeOK
    <3>3. revisions'[items'[j].active] = revisions[items[j].active]
      BY <1>4, <1>5, <1>6, <3>2
    <3> QED
      BY <2>1, <3>3 DEF CurrentOf
  <2>3. CASE PhaseOf(j) # "live"
    BY <2>1, <2>3 DEF CurrentOf
  <2> QED
    BY <2>1, <2>2, <2>3
<1>9. /\ r \in ItemRevisions(i)'
      /\ \A j \in Items \ {i} : ItemRevisions(j)' = ItemRevisions(j)
  BY <1>4, <1>6 DEF ItemRevisions
<1>10. /\ phase' = [phase EXCEPT ![i] = "live"]
       /\ current' = [current EXCEPT ![i] = d.payload]
       /\ residue' = residue \cup {i}
  <2>1. phase' = [phase EXCEPT ![i] = "live"]
    BY <1>7, <1>8 DEF phase
  <2>2. current' = [current EXCEPT ![i] = d.payload]
    BY <1>7, <1>8 DEF current
  <2>3. residue' = residue \cup {i}
    BY <1>9 DEF residue
  <2> QED
    BY <2>1, <2>2, <2>3
<1>11. CASE items[i] = None
  <2>1. phase[i] = "absent"
    BY <1>11 DEF phase, PhaseOf
  <2> QED
    BY <1>2, <1>10, <2>1 DEF Promise!Save, phase, current, residue
<1>12. CASE items[i] # None /\ ~items[i].deleted
  <2>1. phase[i] = "live"
    BY <1>12 DEF phase, PhaseOf
  <2>2. i \in residue
    BY <1>1, <1>12 DEF residue, ItemRevisions, HistoryInv, ServingIntact, TypeOK
  <2>3. phase' = phase /\ residue' = residue
    BY <1>10, <2>1, <2>2 DEF phase
  <2> QED
    BY <1>2, <1>10, <2>1, <2>3 DEF Promise!Revise, phase, current, residue
<1> QED
  BY <1>11, <1>12 DEF Saved, OwnItem, IsCurrent

\* A forget forgets: what was served is served no more, what is stored stays.
LEMMA ForgetRefines ==
  ASSUME HistoryInv,
         NEW c \in Credentials, NEW k \in Keys, NEW i \in Items, NEW e \in Revisions,
         NEW t \in Nat, ForgetMemory(c, k, i, e, t)
  PROVE  Promise!Forget(i, SlotOf(c, "forget", k), t)
<1>1. TypeOK
  BY DEF HistoryInv
<1>2. Promise!TakeEffect(SlotOf(c, "forget", k), t)
  <2>1. "forget" \in Operations /\ ForgetDigest(i, e) \in Digests
    BY DigestTypes DEF Operations
  <2>2. ~Reserved(SlotOf(c, "forget", k), t) /\ Commit(c, "forget", k, ForgetDigest(i, e), i, e, t)
    BY DEF ForgetMemory
  <2> QED
    BY <1>1, <2>1, <2>2, CommitTakesEffect
<1>3. /\ items[i] \in ItemRows /\ ~items[i].deleted
      /\ items'[i] = [collection |-> items[i].collection, active |-> None,
                      deleted |-> TRUE, generation |-> items[i].generation + 1]
      /\ \A j \in Items \ {i} : items'[j] = items[j]
      /\ deletion_markers'[i] = [generation |-> items[i].generation + 1,
                                 operation |-> OperationId, state |-> "pending"]
      /\ \A j \in Items \ {i} : deletion_markers'[j] = deletion_markers[j]
      /\ revisions' = revisions
  BY <1>1, ForgetWrites
<1>4. items[i] # None /\ items'[i] # None /\ items'[i].deleted
  <2>1. items'[i] \in ItemRows
    BY <1>3 DEF ItemRows
  <2>2. items'[i].deleted
    BY <1>3
  <2>3. items[i] # None /\ items'[i] # None
    BY <1>3, <2>1, NoneIsNoRow
  <2> QED
    BY <2>2, <2>3
<1>5. PhaseOf(i) = "live" /\ PhaseOf(i)' = "forgotten" /\ CurrentOf(i)' = None
  BY <1>3, <1>4 DEF PhaseOf, CurrentOf
<1>6. \A j \in Items \ {i} : PhaseOf(j)' = PhaseOf(j) /\ CurrentOf(j)' = CurrentOf(j)
  BY <1>3 DEF PhaseOf, CurrentOf
<1>7. phase[i] = "live" /\ phase' = [phase EXCEPT ![i] = "forgotten"]
  BY <1>5, <1>6 DEF phase
<1>8. current' = [current EXCEPT ![i] = None]
  BY <1>5, <1>6 DEF current
<1>9. residue' = residue
  BY <1>3 DEF residue, ItemRevisions
<1> QED
  BY <1>2, <1>7, <1>8, <1>9 DEF Promise!Forget, phase, current, residue

\* A purge erases.
LEMMA PurgeRefines ==
  ASSUME HistoryInv, NEW i \in Items, NEW g \in Nat, ProcessForgetPurge(i, g)
  PROVE  Promise!Erase(i)
<1>1. TypeOK
  BY DEF HistoryInv
<1>2. /\ PurgeReady(i, g) /\ items' = items
      /\ deletion_markers'[i].state = "complete"
      /\ \A j \in Items \ {i} : deletion_markers'[j] = deletion_markers[j]
      /\ \A r \in Revisions :
           revisions'[r] = IF r \in ItemRevisions(i) THEN None ELSE revisions[r]
  BY <1>1, PurgeWrites
<1>3. /\ now' = now /\ idempotency_records' = idempotency_records
      /\ deletion_markers[i].state = "pending"
  BY DEF ProcessForgetPurge
<1>4. PhaseOf(i) = "forgotten" /\ PhaseOf(i)' = "erased"
  BY <1>2, <1>3 DEF PurgeReady, PhaseOf
<1>5. ASSUME NEW j \in Items
      PROVE  CurrentOf(j)' = CurrentOf(j)
  <2>1. CASE PhaseOf(j) = "live"
    <3>1. items[j] # None /\ ~items[j].deleted /\ j # i
      BY <1>2, <2>1 DEF PhaseOf, PurgeReady
    <3>2. /\ items[j].active \in Revisions /\ items[j].active \notin ItemRevisions(i)
      BY <1>1, <3>1 DEF HistoryInv, ServingIntact, TypeOK, ItemRevisions
    <3>3. revisions'[items[j].active] = revisions[items[j].active] /\ PhaseOf(j)' = PhaseOf(j)
      BY <1>2, <3>1, <3>2 DEF PhaseOf
    <3> QED
      BY <1>2, <3>3 DEF CurrentOf
  <2>2. CASE PhaseOf(j) # "live"
    <3>1. PhaseOf(j)' # "live"
      BY <1>2, <2>2 DEF PhaseOf
    <3> QED
      BY <2>2, <3>1 DEF CurrentOf
  <2> QED
    BY <2>1, <2>2
<1>6. /\ ItemRevisions(i)' = {}
      /\ \A j \in Items \ {i} : ItemRevisions(j)' = ItemRevisions(j)
  BY <1>2 DEF ItemRevisions
<1>7. phase[i] = "forgotten" /\ phase' = [phase EXCEPT ![i] = "erased"]
  <2>1. \A j \in Items \ {i} : PhaseOf(j)' = PhaseOf(j)
    BY <1>2 DEF PhaseOf
  <2> QED
    BY <1>4, <2>1 DEF phase
<1>8. current' = current
  BY <1>5 DEF current
<1>9. residue' = residue \ {i}
  BY <1>6 DEF residue
<1>10. executed' = executed
  BY <1>3 DEF executed, ExecutedAt
<1> QED
  BY <1>3, <1>7, <1>8, <1>9, <1>10 DEF Promise!Erase, phase, current, residue, executed

\* The tables keep the promise: saved, revised, forgotten and erased in this order,
\* one effect per key and window, content served exactly while the memory lives.
THEOREM TablesKeepThePromise == Spec => KeepsPromise
<1>1. Init => Promise!Init
  <2> SUFFICES ASSUME Init PROVE Promise!Init
    OBVIOUS
  <2>1. [i \in Items |-> PhaseOf(i)] = [i \in Items |-> "absent"]
    BY DEF Init, PhaseOf
  <2>2. [i \in Items |-> CurrentOf(i)] = [i \in Items |-> None]
    BY DEF Init, CurrentOf, PhaseOf
  <2>3. {i \in Items : ItemRevisions(i) # {}} = {}
    BY DEF Init, ItemRevisions
  <2>4. [s \in Slots |-> ExecutedAt(s)] = [s \in Slots |-> None]
    BY DEF Init, ExecutedAt
  <2> QED
    BY <2>1, <2>2, <2>3, <2>4 DEF Init, Promise!Init
<1>2. HistoryInv /\ [Next]_vars => [Promise!Next]_(Promise!vars)
  <2> SUFFICES ASSUME HistoryInv, [Next]_vars PROVE Promise!Next \/ UNCHANGED Promise!vars
    OBVIOUS
  <2>1. TypeOK
    BY DEF HistoryInv
  <2>2. ASSUME NEW c \in Credentials, NEW op \in Operations, NEW k \in Keys, NEW d \in Digests,
               NEW i \in Items, NEW r \in Revisions, NEW t \in Nat, Saved(c, op, k, d, i, r, t)
        PROVE  Promise!Next
    <3>1. SlotOf(c, op, k) \in Slots /\ d.payload \in Payloads /\ t \in 0..now
      BY <2>1, <2>2, SlotType DEF Saved, TypeOK
    <3> QED
      BY <2>2, <3>1, SavedRefines DEF Promise!Next
  <2>3. ASSUME NEW c \in Credentials, NEW k \in Keys, NEW i \in Items, NEW e \in Revisions,
               NEW t \in Nat, t <= now, ForgetMemory(c, k, i, e, t)
        PROVE  Promise!Next
    <3>1. SlotOf(c, "forget", k) \in Slots /\ t \in 0..now
      BY <2>1, <2>3, SlotType DEF Operations, TypeOK
    <3> QED
      BY <2>3, <3>1, ForgetRefines DEF Promise!Next
  <2>4. ASSUME NEW i \in Items, NEW g \in Nat, ProcessForgetPurge(i, g)
        PROVE  Promise!Next
    BY <2>4, PurgeRefines DEF Promise!Next
  <2>5. CASE Quiet
    BY <2>5, QuietRefines DEF Promise!Next
  <2> QED
    BY <2>1, <2>2, <2>3, <2>4, <2>5, StepCases
<1> QED
  BY <1>1, <1>2, HistoryIsKept, PTL DEF Spec, KeepsPromise, Promise!Spec
=============================================================================
