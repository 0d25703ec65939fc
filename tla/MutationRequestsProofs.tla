------------------------- MODULE MutationRequestsProofs -------------------------
(***************************************************************************)
(* What holds of the handlers of MutationRequests for any number of sessions *)
(* and any requests: their transactions are the atomic calls of               *)
(* MemoryLifecycle, so every theorem about its tables carries over, and the    *)
(* answers they give are true.                                               *)
(***************************************************************************)
EXTENDS MutationRequests, MemoryPromiseProofs

-----------------------------------------------------------------------------
(* What a staged plan relies on                                            *)

\* A receipt that may be shown, and the operation and item it shows.
ReplayHolds(q, plan) ==
  LET row == idempotency_records[RequestSlot(q)] IN
  /\ plan.kind = "replay"
  /\ Reserved(RequestSlot(q), plan.at) /\ ReceiptOpen(RequestSlot(q))
  /\ row.digest = q.digest
  /\ plan.operation = row.operation
  /\ plan.item # None => plan.item = row.item /\ ~items[plan.item].deleted

CreateHolds(q, plan) ==
  LET open == OpenCollections(CredentialOwner[q.credential]) IN
  /\ plan.kind = "create" /\ q.op = "create"
  /\ ~Reserved(RequestSlot(q), plan.at)
  /\ q.digest.payload \notin Refused
  /\ plan.item \in Items /\ items[plan.item] = None
  /\ plan.revision \in Revisions /\ Unissued(plan.revision)
  /\ plan.collection \in open /\ \A m \in open : plan.collection <= m

ItemHolds(q, plan) ==
  /\ ~Reserved(RequestSlot(q), plan.at)
  /\ plan.item = q.digest.item
  /\ OwnItem(CredentialOwner[q.credential], plan.item) /\ IsCurrent(plan.item, q.digest.expected)

CorrectHolds(q, plan) ==
  /\ plan.kind = "correct" /\ q.op = "correct"
  /\ ItemHolds(q, plan)
  /\ q.digest.payload \notin Refused
  /\ plan.revision \in Revisions /\ Unissued(plan.revision)

ForgetHolds(q, plan) ==
  /\ plan.kind = "forget" /\ q.op = "forget"
  /\ ItemHolds(q, plan)
  /\ plan.revision = q.digest.expected
  /\ plan.generation = items[plan.item].generation + 1

\* All that a handler read before it staged its plan is still so.
PlanHolds(q, plan) ==
  /\ q \in Requests
  /\ plan.at \in Nat /\ plan.at <= now
  /\ WriterCurrent(q.credential, q.op, plan.at)
  /\ ReplayHolds(q, plan) \/ CreateHolds(q, plan) \/ CorrectHolds(q, plan) \/ ForgetHolds(q, plan)

PlanRows == [kind : {"none", "replay", "create", "correct", "forget"}, at : Nat,
             item : Items \cup {None}, revision : Revisions \cup {None},
             collection : Collections \cup {None}, generation : Nat, operation : Nat]
SessionRows == [stage : Stages, request : Requests \cup {None}, plan : PlanRows,
                code : Refusals \cup {"none", "done", "replayed"}, operation : Nat,
                item : Items \cup {None}]

\* The tenant row is held by exactly the session that is past its lock.
RowInv ==
  /\ lock \in Sessions \cup {None}
  /\ \A s \in Sessions : session[s].stage \in Working <=> lock = s

\* What a session staged still holds, because nobody else writes meanwhile.
RequestsInv ==
  /\ TypeOK
  /\ session \in [Sessions -> SessionRows]
  /\ RowInv
  /\ \A s \in Sessions :
       /\ session[s].stage # "idle" => session[s].request \in Requests
       /\ session[s].stage = "staged" => PlanHolds(session[s].request, session[s].plan)

\* The shape of a request, and of its digest, by operation.
LEMMA RequestTypes ==
  ASSUME NEW q \in Requests
  PROVE  /\ q.credential \in Credentials /\ q.op \in Operations /\ q.key \in Keys
         /\ q.digest \in Digests
         /\ q.op = "create" =>
              q.digest.payload \in Payloads /\ q.digest = CreateDigest(q.digest.payload)
         /\ q.op = "correct" =>
              /\ q.digest.item \in Items /\ q.digest.expected \in Revisions
              /\ q.digest.payload \in Payloads
              /\ q.digest = CorrectDigest(q.digest.item, q.digest.expected, q.digest.payload)
         /\ q.op = "forget" =>
              /\ q.digest.item \in Items /\ q.digest.expected \in Revisions
              /\ q.digest = ForgetDigest(q.digest.item, q.digest.expected)
<1>1. q \in RequestShape
  BY RequestsAreShaped
<1>2. CASE q \in RequestsFor("create", {CreateDigest(p) : p \in Payloads})
  BY <1>2, DigestTypes DEF RequestsFor, CreateDigest, Operations
<1>3. CASE q \in RequestsFor("correct",
             {CorrectDigest(i, e, p) : i \in Items, e \in Revisions, p \in Payloads})
  BY <1>3, DigestTypes DEF RequestsFor, CorrectDigest, Operations
<1>4. CASE q \in RequestsFor("forget", {ForgetDigest(i, e) : i \in Items, e \in Revisions})
  BY <1>4, DigestTypes DEF RequestsFor, ForgetDigest, Operations
<1> QED
  BY <1>1, <1>2, <1>3, <1>4 DEF RequestShape

-----------------------------------------------------------------------------
(* Staging                                                                 *)

\* What is staged holds when it is staged, and is typed.
LEMMA StagedPlanHolds ==
  ASSUME RequestsInv, NEW q \in Requests,
         Verdict(q, now) \in {"effect", "replay"}, NEW plan \in Plans(q, now)
  PROVE  PlanHolds(q, plan) /\ plan \in PlanRows
<1> DEFINE row == idempotency_records[RequestSlot(q)]
           open == OpenCollections(CredentialOwner[q.credential])
<1>1. RequestSlot(q) \in Slots
  BY RequestTypes, SlotType DEF RequestSlot
<1>2. WriterCurrent(q.credential, q.op, now) /\ now \in Nat
  BY DEF Verdict, RequestsInv, TypeOK
<1>3. CASE Verdict(q, now) = "replay"
  <2> DEFINE item == IF q.op = "forget" \/ items[row.item].deleted THEN None ELSE row.item
  <2>1. Reserved(RequestSlot(q), now) /\ ReceiptOpen(RequestSlot(q)) /\ row.digest = q.digest
    BY <1>3 DEF Verdict, Recall, VerdictOfCreate, VerdictOnItem
  <2>2. row \in IdempotencyRows
    BY <1>1, <2>1 DEF RequestsInv, TypeOK, Reserved
  <2>3. plan = [kind |-> "replay", at |-> now, item |-> item, revision |-> None,
                collection |-> None, generation |-> 0, operation |-> row.operation]
    BY <1>3 DEF Plans, ReplayPlan, Plan
  <2>4. item # None => item = row.item /\ ~items[item].deleted
    OBVIOUS
  <2>5. row.operation \in Nat /\ item \in Items \cup {None}
    BY <2>2 DEF IdempotencyRows
  <2> HIDE DEF item
  <2>6. ReplayHolds(q, plan)
    BY <2>1, <2>3, <2>4 DEF ReplayHolds
  <2>7. plan \in PlanRows
    BY <1>2, <2>3, <2>5 DEF PlanRows
  <2> QED
    BY <1>2, <2>3, <2>6, <2>7 DEF PlanHolds
<1>4. CASE Verdict(q, now) = "effect"
  <2>1. ~Reserved(RequestSlot(q), now)
    BY <1>4 DEF Verdict, Recall
  <2>2. CASE q.op = "create"
    <3>1. plan \in CreatePlans(q, now)
      BY <1>4, <2>2 DEF Plans
    <3>2. PICK i \in Items, r \in Revisions, l \in open :
            /\ plan = [Plan("create", now, i, r) EXCEPT !.collection = l]
            /\ items[i] = None /\ Unissued(r)
            /\ \A n \in open : l <= n
      BY <3>1 DEF CreatePlans
    <3>3. plan = [kind |-> "create", at |-> now, item |-> i, revision |-> r,
                  collection |-> l, generation |-> 0, operation |-> 0]
      BY <3>2 DEF Plan
    <3>4. q.digest.payload \notin Refused
      BY <1>4, <2>1, <2>2 DEF Verdict, VerdictOfCreate
    <3>5. l \in Collections
      BY DEF OpenCollections
    <3>6. CreateHolds(q, plan)
      BY <2>1, <2>2, <3>2, <3>3, <3>4 DEF CreateHolds
    <3>7. plan \in PlanRows
      BY <1>2, <3>3, <3>5 DEF PlanRows
    <3> QED
      BY <1>2, <3>3, <3>6, <3>7 DEF PlanHolds
  <2>3. ASSUME q.op \in {"correct", "forget"}
        PROVE  /\ OwnItem(CredentialOwner[q.credential], q.digest.item)
               /\ IsCurrent(q.digest.item, q.digest.expected)
               /\ q.digest.payload \notin Refused
               /\ q.digest.item \in Items
    BY <1>4, <2>1, <2>3, RequestTypes DEF Verdict, VerdictOnItem, IsCurrent
  <2>4. CASE q.op = "correct"
    <3>1. PICK r \in Revisions : plan = Plan("correct", now, q.digest.item, r) /\ Unissued(r)
      BY <1>4, <2>4 DEF Plans, CorrectPlans
    <3>2. plan = [kind |-> "correct", at |-> now, item |-> q.digest.item, revision |-> r,
                  collection |-> None, generation |-> 0, operation |-> 0]
      BY <3>1 DEF Plan
    <3>3. CorrectHolds(q, plan)
      BY <2>1, <2>3, <2>4, <3>1, <3>2 DEF CorrectHolds, ItemHolds
    <3>4. plan \in PlanRows
      BY <1>2, <2>3, <2>4, <3>2 DEF PlanRows
    <3> QED
      BY <1>2, <3>2, <3>3, <3>4 DEF PlanHolds
  <2>5. CASE q.op = "forget"
    <3> DEFINE g == items[q.digest.item].generation + 1
    <3>1. plan = [Plan("forget", now, q.digest.item, q.digest.expected) EXCEPT !.generation = g]
      BY <1>4, <2>5 DEF Plans, ForgetPlan
    <3>2. plan = [kind |-> "forget", at |-> now, item |-> q.digest.item,
                  revision |-> q.digest.expected, collection |-> None, generation |-> g,
                  operation |-> 0]
      BY <3>1 DEF Plan
    <3>3. g \in Nat
      <4>1. items[q.digest.item] \in ItemRows
        BY <2>3, <2>5 DEF OwnItem, RequestsInv, TypeOK
      <4> QED
        BY <4>1 DEF ItemRows
    <3>4. ForgetHolds(q, plan)
      BY <2>1, <2>3, <2>5, <3>2 DEF ForgetHolds, ItemHolds
    <3>5. plan \in PlanRows
      BY <1>2, <2>3, <2>5, <3>2, <3>3, RequestTypes DEF PlanRows
    <3> QED
      BY <1>2, <3>2, <3>4, <3>5 DEF PlanHolds
  <2> QED
    BY <2>2, <2>4, <2>5, RequestTypes DEF Operations
<1> QED
  BY <1>3, <1>4

\* A staged plan keeps holding while nobody writes, however the clock moves on.
LEMMA PlanKeeps ==
  ASSUME NEW q, NEW plan, PlanHolds(q, plan),
         UNCHANGED memory, now' \in Nat, now \in Nat, now <= now'
  PROVE  PlanHolds(q, plan)'
<1>1. UNCHANGED <<revoked_at, inactive, withdrawn, items, deletion_markers,
                  idempotency_records, mutation_audit>>
  BY DEF memory, authority, content, deletion
<1> QED
  BY <1>1 DEF PlanHolds, WriterCurrent, ReplayHolds, CreateHolds, CorrectHolds, ForgetHolds,
     ItemHolds, Reserved, ReceiptOpen, OwnItem, OpenCollections, IsCurrent, Unissued

-----------------------------------------------------------------------------
(* Committing                                                              *)

\* Committing a staged plan is the atomic call it was decided to be.
LEMMA CommitIsCall ==
  ASSUME RequestsInv, NEW q, NEW plan, PlanHolds(q, plan), plan \in PlanRows,
         now - plan.at <= Lag, Write(q, plan)
  PROVE  Mutate \/ Replay
<1> DEFINE row == idempotency_records[RequestSlot(q)]
<1>1. q \in Requests /\ WriterCurrent(q.credential, q.op, plan.at)
  BY DEF PlanHolds
<1>2. plan.at \in ReadInstants
  BY DEF PlanHolds, ReadInstants, RequestsInv, TypeOK
<1>3. CASE ReplayHolds(q, plan)
  <2>1. plan.kind = "replay" /\ Reserved(RequestSlot(q), plan.at)
        /\ ReceiptOpen(RequestSlot(q)) /\ row.digest = q.digest
    BY <1>3 DEF ReplayHolds
  <2>2. ReplayReceipt(q.credential, q.op, q.key, row.digest, plan.at)
    BY <1>1, <2>1 DEF ReplayReceipt, Write, RequestSlot
  <2>3. row # None
    BY <2>1 DEF Reserved
  <2> QED
    BY <1>1, <1>2, <2>2, <2>3, RequestTypes DEF Replay, RequestSlot
<1>4. CASE CreateHolds(q, plan)
  <2> DEFINE open == OpenCollections(CredentialOwner[q.credential])
  <2>1. /\ plan.kind = "create" /\ q.op = "create" /\ ~Reserved(RequestSlot(q), plan.at)
        /\ q.digest.payload \notin Refused
        /\ plan.item \in Items /\ items[plan.item] = None
        /\ plan.revision \in Revisions /\ Unissued(plan.revision)
        /\ plan.collection \in open /\ \A m \in open : plan.collection <= m
    BY <1>4 DEF CreateHolds
  <2>2. q.digest.payload \in Payloads /\ q.digest = CreateDigest(q.digest.payload)
    BY <1>1, <2>1, RequestTypes
  <2>3. CreateMemory(q.credential, q.key, q.digest.payload, plan.item, plan.revision, plan.at)
    BY <1>1, <2>1, <2>2 DEF CreateMemory, Write, RequestSlot
  <2> QED
    BY <1>1, <1>2, <2>1, <2>2, <2>3, RequestTypes DEF Mutate
<1>5. CASE CorrectHolds(q, plan)
  <2>1. /\ plan.kind = "correct" /\ q.op = "correct" /\ ~Reserved(RequestSlot(q), plan.at)
        /\ plan.item = q.digest.item
        /\ OwnItem(CredentialOwner[q.credential], plan.item)
        /\ IsCurrent(plan.item, q.digest.expected)
        /\ q.digest.payload \notin Refused
        /\ plan.revision \in Revisions /\ Unissued(plan.revision)
    BY <1>5 DEF CorrectHolds, ItemHolds
  <2>2. /\ q.digest.item \in Items /\ q.digest.expected \in Revisions
        /\ q.digest.payload \in Payloads
        /\ q.digest = CorrectDigest(q.digest.item, q.digest.expected, q.digest.payload)
    BY <1>1, <2>1, RequestTypes
  <2>3. CorrectMemory(q.credential, q.key, q.digest.payload, plan.item, q.digest.expected,
                      plan.revision, plan.at)
    BY <1>1, <2>1, <2>2 DEF CorrectMemory, Write, RequestSlot
  <2> QED
    BY <1>1, <1>2, <2>1, <2>2, <2>3, RequestTypes DEF Mutate
<1>6. CASE ForgetHolds(q, plan)
  <2>1. /\ plan.kind = "forget" /\ q.op = "forget" /\ ~Reserved(RequestSlot(q), plan.at)
        /\ plan.item = q.digest.item /\ plan.revision = q.digest.expected
        /\ OwnItem(CredentialOwner[q.credential], plan.item)
        /\ IsCurrent(plan.item, q.digest.expected)
        /\ plan.generation = items[plan.item].generation + 1
    BY <1>6 DEF ForgetHolds, ItemHolds
  <2>2. /\ q.digest.item \in Items /\ q.digest.expected \in Revisions
        /\ q.digest = ForgetDigest(q.digest.item, q.digest.expected)
    BY <1>1, <2>1, RequestTypes
  <2>3. ForgetMemory(q.credential, q.key, plan.item, q.digest.expected, plan.at)
    BY <1>1, <2>1, <2>2 DEF ForgetMemory, Write, RequestSlot
  <2> QED
    BY <1>1, <1>2, <2>1, <2>2, <2>3, RequestTypes DEF Mutate
<1> QED
  BY <1>3, <1>4, <1>5, <1>6 DEF PlanHolds

-----------------------------------------------------------------------------
(* The steps of a handler                                                  *)

\* One session moves: the rest of the handlers keep their state, and the tables
\* change only when the holder of the tenant row commits.
Moved(s) ==
  /\ session' \in [Sessions -> SessionRows]
  /\ \A z \in Sessions \ {s} : session'[z] = session[z]
  /\ RowInv'
  /\ session'[s].request \in Requests
  /\ session'[s].stage = "staged" =>
       PlanHolds(session'[s].request, session'[s].plan) /\ UNCHANGED <<now, memory>>
  /\ \/ UNCHANGED <<now, memory>>
     \/ lock = s /\ (Mutate \/ Replay)

\* A handler's step is the move of its session.
LEMMA HandlerMoves ==
  ASSUME RequestsInv, NEW s \in Sessions,
         Handle(s) \/ Abandon(s) \/ \E q \in Requests : Send(s, q)
  PROVE  Moved(s)
<1> DEFINE x == session[s]
<1>1. /\ session \in [Sessions -> SessionRows] /\ x \in SessionRows /\ RowInv
      /\ x.stage # "idle" => x.request \in Requests
      /\ x.stage = "staged" => PlanHolds(x.request, x.plan)
  BY DEF RequestsInv
<1>2. NoPlan \in PlanRows
  BY DEF NoPlan, Plan, PlanRows
<1>3. ASSUME NEW stage \in Stages \ {"idle", "staged"}, Go(s, stage), RowInv',
             x.stage # "idle", UNCHANGED <<now, memory>>
      PROVE  Moved(s)
  BY <1>1, <1>3 DEF Go, Moved, SessionRows
<1>4. ASSUME NEW code \in Refusals, Reject(s, code), RowInv', x.stage # "idle",
             UNCHANGED <<now, memory>>
      PROVE  Moved(s)
  <2>1. /\ session' \in [Sessions -> SessionRows]
        /\ session'[s].stage = "rejected" /\ session'[s].request = x.request
        /\ \A z \in Sessions \ {s} : session'[z] = session[z]
    BY <1>1, <1>4 DEF Reject, SessionRows, Stages
  <2> QED
    BY <1>1, <1>4, <2>1 DEF Moved
<1>5. CASE \E q \in Requests : Send(s, q)
  <2>1. PICK q \in Requests : Send(s, q)
    BY <1>5
  <2>2. /\ session' \in [Sessions -> SessionRows]
        /\ session'[s].stage = "arrived" /\ session'[s].request = q
        /\ \A z \in Sessions \ {s} : session'[z] = session[z]
    BY <1>1, <2>1 DEF Send, SessionRows, Stages
  <2>3. RowInv'
    BY <1>1, <2>1, <2>2 DEF Send, RowInv, Working
  <2> QED
    BY <2>1, <2>2, <2>3 DEF Send, Moved
<1>6. CASE Authenticate(s)
  <2>1. RowInv'
    BY <1>1, <1>6 DEF Authenticate, Go, Reject, RowInv, Working, SessionRows
  <2> QED
    BY <1>1, <1>3, <1>4, <1>6, <2>1 DEF Authenticate, Stages, Refusals
<1>7. CASE TakeRow(s)
  <2>1. RowInv'
    BY <1>1, <1>7, NoneIsNoSession DEF TakeRow, RowFree, Go, RowInv, Working, SessionRows
  <2> QED
    BY <1>1, <1>3, <1>7, <2>1 DEF TakeRow, Stages
<1>8. CASE Raise(s)
  <2> DEFINE verdict == Verdict(x.request, now)
  <2>1. RowInv'
    BY <1>1, <1>8, NoneIsNoSession
    DEF Raise, Rollback, Reject, RowInv, Working, SessionRows
  <2>2. verdict \in Refusals
    BY <1>8 DEF Raise, Verdict, Recall, VerdictOfCreate, VerdictOnItem, Refusals
  <2> QED
    BY <1>1, <1>4, <1>8, <2>1, <2>2 DEF Raise
<1>9. CASE Stage(s)
  <2>1. /\ x.request \in Requests /\ x.stage = "deciding"
        /\ Verdict(x.request, now) \in {"effect", "replay"}
        /\ UNCHANGED <<now, memory, lock>>
    BY <1>1, <1>9 DEF Stage
  <2>2. PICK plan \in Plans(x.request, now) :
          session' = [session EXCEPT ![s].stage = "staged", ![s].plan = plan]
    BY <1>9 DEF Stage
  <2>3. PlanHolds(x.request, plan) /\ plan \in PlanRows
    BY <2>1, StagedPlanHolds
  <2>4. RowInv'
    BY <1>1, <2>1, <2>2 DEF RowInv, Working, SessionRows
  <2> QED
    BY <1>1, <2>1, <2>2, <2>3, <2>4 DEF Moved, SessionRows, Stages
<1>10. CASE CommitApplied(s)
  <2>1. /\ x.stage = "staged" /\ x.request \in Requests /\ PlanHolds(x.request, x.plan)
        /\ x.plan \in PlanRows /\ now - x.plan.at <= Lag /\ Write(x.request, x.plan)
    BY <1>1, <1>10 DEF CommitApplied, SessionRows
  <2>2. Mutate \/ Replay
    BY <2>1, CommitIsCall
  <2>3. lock = s
    BY <1>1, <2>1 DEF RowInv, Working
  <2>4. RowInv'
    BY <1>1, <1>10, NoneIsNoSession DEF CommitApplied, Rollback, RowInv, Working, SessionRows
  <2>5. OperationShown(x.request, x.plan) \in Nat /\ ItemShown(x.request, x.plan) \in Items \cup {None}
    BY <2>1 DEF OperationShown, ItemShown, PlanRows, OperationId, RequestsInv, TypeOK
  <2>6. /\ session' \in [Sessions -> SessionRows]
        /\ session'[s].stage \in {"answered", "rejected"} /\ session'[s].request = x.request
        /\ \A z \in Sessions \ {s} : session'[z] = session[z]
    <3> DEFINE op == OperationShown(x.request, x.plan)
               item == ItemShown(x.request, x.plan)
    <3>1. PICK code \in {"replayed", "done"} :
            \/ session' = [session EXCEPT ![s].stage = "answered", ![s].code = code,
                             ![s].plan = NoPlan, ![s].operation = op, ![s].item = item]
            \/ session' = [session EXCEPT ![s].stage = "rejected", ![s].plan = NoPlan,
                             ![s].code = "storage_unavailable"]
      BY <1>10 DEF CommitApplied
    <3> HIDE DEF op, item
    <3> QED
      BY <1>1, <1>2, <2>5, <3>1 DEF SessionRows, Stages, Refusals, op, item
  <2> QED
    BY <2>1, <2>2, <2>3, <2>4, <2>6 DEF Moved
<1>11. CASE StorageFails(s)
  <2>1. RowInv'
    BY <1>1, <1>11, NoneIsNoSession DEF StorageFails, Rollback, RowInv, Working, SessionRows
  <2> QED
    BY <1>1, <1>2, <1>11, <2>1 DEF StorageFails, Moved, SessionRows, Stages, Refusals
<1>12. CASE AnswerRefusal(s)
  <2>1. RowInv'
    BY <1>1, <1>12 DEF AnswerRefusal, Go, RowInv, Working, SessionRows
  <2> QED
    BY <1>1, <1>3, <1>12, <2>1 DEF AnswerRefusal, Stages
<1>13. CASE Abandon(s)
  <2>1. RowInv'
    BY <1>1, <1>13, NoneIsNoSession DEF Abandon, Rollback, RowInv, Working, SessionRows
  <2> QED
    BY <1>1, <1>2, <1>13, <2>1 DEF Abandon, Moved, SessionRows, Stages
<1> QED
  BY <1>5, <1>6, <1>7, <1>8, <1>9, <1>10, <1>11, <1>12, <1>13 DEF Handle

-----------------------------------------------------------------------------
(* Transactions are atomic calls                                           *)

\* While no session moves, only the clock moves past what one has staged.
LEMMA StagedKeeps ==
  ASSUME RequestsInv, TypeOK', UNCHANGED <<lock, session>>,
         \A s \in Sessions : session[s].stage = "staged" => UNCHANGED memory /\ now <= now'
  PROVE  RequestsInv'
<1>1. TypeOK /\ RowInv /\ session \in [Sessions -> SessionRows] /\ lock' = lock /\ session' = session
  BY DEF RequestsInv
<1>2. ASSUME NEW s \in Sessions, session[s].stage = "staged"
      PROVE  PlanHolds(session[s].request, session[s].plan)'
  <2>1. PlanHolds(session[s].request, session[s].plan)
    BY <1>2 DEF RequestsInv
  <2>2. UNCHANGED memory /\ now \in Nat /\ now' \in Nat /\ now <= now'
    BY <1>1, <1>2 DEF TypeOK
  <2>3. PICK q, plan : q = session[s].request /\ plan = session[s].plan
    OBVIOUS
  <2>4. PlanHolds(q, plan)'
    BY <2>1, <2>2, <2>3, PlanKeeps
  <2> QED
    BY <1>1, <2>3, <2>4
<1>3. RowInv' /\ session' \in [Sessions -> SessionRows]
  BY <1>1 DEF RowInv
<1>4. \A s \in Sessions : session[s].stage # "idle" => session[s].request \in Requests
  BY DEF RequestsInv
<1> QED
  BY <1>1, <1>2, <1>3, <1>4 DEF RequestsInv

\* Operators and the purge worker act while no plan is staged.
LEMMA EnvironmentKeeps ==
  ASSUME RequestsInv, Environment
  PROVE  [Next]_vars /\ RequestsInv'
<1>1. TypeOK /\ RowInv /\ UNCHANGED <<lock, session>>
  BY DEF RequestsInv, Environment, service
<1>2. Next
  BY DEF Environment, Next
<1>3. TypeOK'
  BY <1>1, <1>2, TypeStep
<1>4. ASSUME NEW s \in Sessions, session[s].stage = "staged"
      PROVE  UNCHANGED memory /\ now <= now'
  <2>1. lock = s
    BY <1>1, <1>4 DEF RowInv, Working
  <2>2. Tick
    BY <2>1, NoneIsNoSession DEF Environment
  <2> QED
    BY <1>1, <2>2 DEF Tick, memory, TypeOK
<1>5. RequestsInv'
  BY <1>1, <1>3, <1>4, StagedKeeps
<1> QED
  BY <1>2, <1>5

\* Every step of the service is a step of the tables, and keeps what is staged true.
LEMMA RequestsStep ==
  ASSUME RequestsInv, [RequestsNext]_<<vars, service>>
  PROVE  [Next]_vars /\ RequestsInv'
<1>1. CASE UNCHANGED <<vars, service>>
  <2>1. TypeOK /\ UNCHANGED vars /\ UNCHANGED <<lock, session>>
    BY <1>1 DEF service, RequestsInv
  <2>2. TypeOK'
    BY <2>1, TypeStep
  <2>3. UNCHANGED memory /\ now <= now'
    BY <2>1 DEF vars, memory, TypeOK
  <2> QED
    BY <2>1, <2>2, <2>3, StagedKeeps
<1>2. CASE Environment
  BY <1>2, EnvironmentKeeps
<1>3. ASSUME NEW s \in Sessions, Handle(s) \/ Abandon(s) \/ \E q \in Requests : Send(s, q)
      PROVE  [Next]_vars /\ RequestsInv'
  <2>1. TypeOK /\ RowInv /\ session \in [Sessions -> SessionRows]
    BY DEF RequestsInv
  <2>2. Moved(s)
    BY <1>3, HandlerMoves
  <2>3. [Next]_vars
    BY <2>2 DEF Moved, Next, vars, memory
  <2>4. TypeOK'
    BY <2>1, <2>3, TypeStep
  <2>5. ASSUME NEW z \in Sessions, session'[z].stage = "staged"
        PROVE  PlanHolds(session[z].request, session[z].plan)'
    <3>1. lock' = z
      BY <2>2, <2>5 DEF Moved, RowInv, Working
    <3>2. PICK q, plan : q = session'[z].request /\ plan = session'[z].plan
      OBVIOUS
    <3>3. PlanHolds(q, plan) /\ UNCHANGED <<now, memory>>
      <4>1. CASE z = s
        BY <2>2, <2>5, <3>2, <4>1 DEF Moved
      <4>2. CASE z # s
        BY <2>1, <2>2, <2>5, <3>2, <4>2 DEF Moved, RequestsInv, RowInv, Working
      <4> QED
        BY <4>1, <4>2
    <3>4. PlanHolds(q, plan)'
      BY <2>1, <2>4, <3>3, PlanKeeps DEF TypeOK
    <3> QED
      BY <3>2, <3>4
  <2>6. \A z \in Sessions : session'[z].stage # "idle" => session'[z].request \in Requests
    BY <2>2 DEF Moved, RequestsInv
  <2> QED
    BY <2>2, <2>3, <2>4, <2>5, <2>6 DEF Moved, RequestsInv
<1> QED
  BY <1>1, <1>2, <1>3 DEF RequestsNext

\* The service starts with nothing staged.
LEMMA RequestsStart == RequestsInit => Init /\ RequestsInv
<1> SUFFICES ASSUME RequestsInit PROVE Init /\ RequestsInv
  OBVIOUS
<1>1. Init /\ TypeOK
  BY ConstantTypes DEF RequestsInit, Init, TypeOK
<1>2. Idle \in SessionRows
  BY DEF Idle, NoPlan, Plan, PlanRows, SessionRows, Stages
<1>3. session = [s \in Sessions |-> Idle] /\ lock = None
  BY DEF RequestsInit
<1>4. \A s \in Sessions : session[s].stage = "idle"
  BY <1>3 DEF Idle
<1> QED
  BY <1>1, <1>2, <1>3, <1>4, NoneIsNoSession DEF RequestsInv, RowInv, Working

\* A plan, once staged, stays as true as when it was decided, until it commits or
\* its transaction ends: the tenant row keeps every other writer out.
THEOREM PlansStayTrue == RequestsSpec => []RequestsInv
<1>1. RequestsInit => RequestsInv
  BY RequestsStart
<1>2. RequestsInv /\ [RequestsNext]_<<vars, service>> => RequestsInv'
  BY RequestsStep
<1> QED
  BY <1>1, <1>2, PTL DEF RequestsSpec

\* Deciding and committing in two steps is the one atomic call: whatever holds of
\* the tables in every behaviour of MemoryLifecycle holds under concurrent handlers.
THEOREM TransactionsAreAtomic == RequestsSpec => CallsAreAtomic
<1>1. RequestsInit => Init
  BY RequestsStart
<1>2. RequestsInv /\ [RequestsNext]_<<vars, service>> => [Next]_vars
  BY RequestsStep
<1> QED
  BY <1>1, <1>2, PlansStayTrue, PTL DEF RequestsSpec, CallsAreAtomic, Spec

\* So the handlers, racing, failing and losing their answers, keep what the memory
\* promises its clients.
THEOREM ServiceKeepsThePromise == RequestsSpec => KeepsPromise
BY TransactionsAreAtomic, TablesKeepThePromise DEF CallsAreAtomic

-----------------------------------------------------------------------------
(* What the answers say                                                    *)

Undecided == {"idle", "arrived", "waiting", "deciding", "staged"}

\* What is known of one session: it has no effect before it commits, its answer is
\* true and stays what it was, and it is audited as refused only once it is answered.
Told(s) ==
  LET x == session[s] IN
  /\ effect[s] \in DOMAIN mutation_audit \cup {None}
  /\ x.stage \in Undecided => x.code = "none" /\ effect[s] = None
  /\ x.stage = "rejected" => x.code \in Refusals
  /\ x.code = "done" => effect[s] = x.operation /\ Satisfies(x.operation, x.request)
  /\ x.code = "replayed" => effect[s] = None /\ Satisfies(x.operation, x.request)
  /\ x.code \in {"done", "replayed"} /\ x.item # None =>
       x.item = mutation_audit[x.operation].item
  /\ x.code \in Refusals \ {"storage_unavailable"} => effect[s] = None
  /\ \A code \in Refusals : <<s, code>> \in rejection_audit =>
       x.stage = "answered" /\ x.code = code

AnswersInv ==
  /\ effect \in [Sessions -> Nat \cup {None}]
  /\ rejection_audit \subseteq Sessions \X Refusals
  /\ \A s \in Sessions : Told(s)

\* An operation, once audited, stays audited as it is.
LEMMA AuditGrows ==
  ASSUME TypeOK, [Next]_vars
  PROVE  /\ DOMAIN mutation_audit \subseteq DOMAIN mutation_audit'
         /\ \A n \in DOMAIN mutation_audit : mutation_audit'[n] = mutation_audit[n]
<1>1. CASE UNCHANGED mutation_audit
  BY <1>1
<1>2. ASSUME NEW c \in Credentials, NEW op \in Operations, NEW k \in Keys, NEW d \in Digests,
             NEW i \in Items, NEW r \in Revisions, NEW t \in Nat,
             TakesEffect(c, op, k, d, i, r, t)
      PROVE  /\ DOMAIN mutation_audit \subseteq DOMAIN mutation_audit'
             /\ \A n \in DOMAIN mutation_audit : mutation_audit'[n] = mutation_audit[n]
  BY <1>2, EffectRows DEF TakesEffect
<1> QED
  BY <1>1, <1>2, EffectStep

\* What is known of a session that does not move stays so while the audit grows.
LEMMA ToldKeeps ==
  ASSUME TypeOK, [Next]_vars, NEW s \in Sessions, Told(s),
         session'[s] = session[s], effect'[s] = effect[s],
         \A code \in Refusals : <<s, code>> \in rejection_audit' => <<s, code>> \in rejection_audit
  PROVE  Told(s)'
<1>1. /\ DOMAIN mutation_audit \subseteq DOMAIN mutation_audit'
      /\ \A n \in DOMAIN mutation_audit : mutation_audit'[n] = mutation_audit[n]
  BY AuditGrows
<1> QED
  BY <1>1 DEF Told, Satisfies

\* A step that decides nothing: the session had no answer and gets none, or is refused.
LEMMA ToldQuietly ==
  ASSUME TypeOK, [Next]_vars, NEW s \in Sessions, Told(s), session[s].stage \in Undecided,
         effect'[s] = effect[s], UNCHANGED rejection_audit,
         \/ session'[s].stage \in Undecided \cup {"lost"} /\ session'[s].code = "none"
         \/ session'[s].stage = "rejected" /\ session'[s].code \in Refusals
  PROVE  Told(s)'
<1>1. /\ effect'[s] = None /\ session'[s].code \notin {"done", "replayed"}
      /\ \A code \in Refusals : <<s, code>> \notin rejection_audit'
  BY DEF Told, Undecided, Refusals
<1>2. /\ session'[s].stage \in Undecided => session'[s].code = "none"
      /\ session'[s].stage = "rejected" => session'[s].code \in Refusals
  BY DEF Undecided
<1> QED
  BY <1>1, <1>2 DEF Told

\* A commit tells of its own effect, or of the one its receipt was stored with.
LEMMA ToldAtCommit ==
  ASSUME RequestsInv, KeysInv, AnswersInv, NEW s \in Sessions, CommitApplied(s)
  PROVE  Told(s)' /\ effect' \in [Sessions -> Nat \cup {None}]
<1> DEFINE x == session[s]
           q == session[s].request
           plan == session[s].plan
<1>1. /\ x.stage = "staged" /\ Write(q, plan) /\ PlanHolds(q, plan) /\ q \in Requests
      /\ effect' = [effect EXCEPT ![s] = IF plan.kind = "replay" THEN @ ELSE OperationId]
      /\ UNCHANGED rejection_audit
      /\ plan \in PlanRows /\ x \in SessionRows /\ session \in [Sessions -> SessionRows]
  BY DEF CommitApplied, RequestsInv, SessionRows
<1>2. /\ effect \in [Sessions -> Nat \cup {None}] /\ effect[s] = None
      /\ \A code \in Refusals : <<s, code>> \notin rejection_audit'
  BY <1>1 DEF AnswersInv, Told, Undecided
<1>3. TypeOK /\ OperationId \in Nat
  BY DEF KeysInv, TypeOK, OperationId
<1> DEFINE op == OperationShown(q, plan)
           item == ItemShown(q, plan)
           code == IF plan.kind = "replay" THEN "replayed" ELSE "done"
<1>4. \/ /\ session'[s].stage = "answered" /\ session'[s].code = code
         /\ session'[s].operation = op /\ session'[s].item = item
         /\ session'[s].request = q
      \/ session'[s].stage = "rejected" /\ session'[s].code = "storage_unavailable"
  <2>1. \/ session' = [session EXCEPT ![s].stage = "answered", ![s].code = code,
                         ![s].plan = NoPlan, ![s].operation = op, ![s].item = item]
        \/ session' = [session EXCEPT ![s].stage = "rejected", ![s].plan = NoPlan,
                         ![s].code = "storage_unavailable"]
    BY DEF CommitApplied
  <2> HIDE DEF code, op, item
  <2> QED
    BY <1>1, <2>1 DEF SessionRows
<1>5. item # None => q.op # "forget" /\ item = plan.item
  BY DEF ItemShown
<1>6. CASE plan.kind = "replay"
  <2> DEFINE row == idempotency_records[RequestSlot(q)]
  <2>1. ReplayHolds(q, plan)
    BY <1>1, <1>6 DEF PlanHolds, CreateHolds, CorrectHolds, ForgetHolds
  <2>2. /\ RequestSlot(q) \in Slots /\ row # None /\ row.digest = q.digest
        /\ op = row.operation
        /\ plan.item # None => plan.item = row.item
    BY <1>1, <1>6, <2>1, RequestTypes, SlotType
    DEF ReplayHolds, Reserved, RequestSlot, OperationShown
  <2>3. /\ op \in DOMAIN mutation_audit
        /\ mutation_audit[op].slot = RequestSlot(q) /\ mutation_audit[op].digest = q.digest
        /\ mutation_audit[op].item = row.item
    BY <2>2 DEF KeysInv, ReceiptNamesItsEffect
  <2>4. mutation_audit' = mutation_audit /\ effect' = effect
    BY <1>1, <1>2, <1>6 DEF Write
  <2>5. /\ op \in DOMAIN mutation_audit' /\ code = "replayed"
        /\ mutation_audit'[op].slot = RequestSlot(q) /\ mutation_audit'[op].digest = q.digest
    BY <1>6, <2>3, <2>4
  <2>6. item # None => item = mutation_audit'[op].item
    BY <1>5, <2>2, <2>3, <2>4
  <2> HIDE DEF op, item, code
  <2> QED
    BY <1>2, <1>4, <2>4, <2>5, <2>6 DEF Told, Undecided, Refusals, Satisfies
<1>7. CASE plan.kind # "replay"
  <2> DEFINE row == [slot |-> RequestSlot(q), credential |-> q.credential, item |-> plan.item,
                     revision |-> plan.revision, epoch |-> authority_epoch + 1,
                     digest |-> q.digest, at |-> plan.at]
  <2>1. Commit(q.credential, q.op, q.key, q.digest, plan.item, plan.revision, plan.at)
    BY <1>1, <1>7 DEF Write
  <2>2. /\ DOMAIN mutation_audit' = DOMAIN mutation_audit \cup {OperationId}
        /\ mutation_audit'[OperationId] = row
    <3>1. mutation_audit' = Append(mutation_audit, row) /\ mutation_audit \in Seq(AuditRows)
      BY <1>3, <2>1 DEF Commit, RequestSlot, TypeOK
    <3> HIDE DEF row
    <3> QED
      BY <3>1 DEF OperationId
  <2>3. op = OperationId /\ code = "done"
    BY <1>7 DEF OperationShown
  <2>4. effect'[s] = OperationId /\ effect' \in [Sessions -> Nat \cup {None}]
    BY <1>1, <1>2, <1>3, <1>7
  <2>5. /\ op \in DOMAIN mutation_audit' /\ mutation_audit'[op].slot = RequestSlot(q)
        /\ mutation_audit'[op].digest = q.digest /\ mutation_audit'[op].item = plan.item
    BY <2>2, <2>3
  <2>6. effect'[s] = op /\ (item # None => item = mutation_audit'[op].item)
    BY <1>5, <2>3, <2>4, <2>5
  <2> HIDE DEF op, item, code
  <2> QED
    BY <1>2, <1>4, <2>3, <2>4, <2>5, <2>6 DEF Told, Undecided, Refusals, Satisfies
<1> QED
  BY <1>6, <1>7

\* Every step keeps what is known of every session.
LEMMA AnswersStep ==
  ASSUME RequestsInv, KeysInv, AnswersInv, [RequestsNext]_<<vars, service>>
  PROVE  AnswersInv'
<1>1. TypeOK /\ [Next]_vars /\ session \in [Sessions -> SessionRows]
  BY RequestsStep DEF RequestsInv
<1>2. /\ effect \in [Sessions -> Nat \cup {None}]
      /\ rejection_audit \subseteq Sessions \X Refusals
      /\ \A s \in Sessions : Told(s)
  BY DEF AnswersInv
<1>3. CASE UNCHANGED service
  <2>1. UNCHANGED <<session, effect, rejection_audit>>
    BY <1>3 DEF service
  <2>2. \A s \in Sessions : Told(s)'
    BY <1>1, <1>2, <2>1, ToldKeeps
  <2> QED
    BY <1>2, <2>1, <2>2 DEF AnswersInv
<1>4. ASSUME NEW s \in Sessions, Handle(s) \/ Abandon(s) \/ \E q \in Requests : Send(s, q)
      PROVE  AnswersInv'
  <2> DEFINE x == session[s]
  <2>1. Told(s) /\ x \in SessionRows /\ \A z \in Sessions \ {s} : session'[z] = session[z]
    BY <1>1, <1>2, <1>4, HandlerMoves DEF Moved
  <2> DEFINE Rest ==
               /\ effect' \in [Sessions -> Nat \cup {None}]
               /\ rejection_audit' \subseteq Sessions \X Refusals
               /\ Told(s)'
               /\ \A z \in Sessions \ {s} :
                    /\ effect'[z] = effect[z]
                    /\ \A code \in Refusals :
                         <<z, code>> \in rejection_audit' => <<z, code>> \in rejection_audit
  <2>2. Rest => AnswersInv'
    <3>1. ASSUME Rest, NEW z \in Sessions \ {s}
          PROVE  Told(z)'
      BY <1>1, <1>2, <2>1, <3>1, ToldKeeps
    <3> QED
      BY <3>1 DEF AnswersInv
  <2>3. ASSUME x.stage \in Undecided, UNCHANGED <<effect, rejection_audit>>,
               \/ session'[s].stage \in Undecided \cup {"lost"} /\ session'[s].code = "none"
               \/ session'[s].stage = "rejected" /\ session'[s].code \in Refusals
        PROVE  AnswersInv'
    <3>1. Told(s)'
      BY <1>1, <2>1, <2>3, ToldQuietly
    <3> QED
      BY <1>2, <2>2, <2>3, <3>1
  <2>4. x.stage \in Undecided => x.code = "none"
    BY <2>1 DEF Told
  <2>5. CASE \E q \in Requests : Send(s, q)
    <3>1. /\ x.stage = "idle" /\ UNCHANGED <<effect, rejection_audit>>
          /\ session'[s].stage = "arrived" /\ session'[s].code = x.code
      BY <1>1, <2>1, <2>5 DEF Send, SessionRows
    <3> QED
      BY <2>3, <2>4, <3>1 DEF Undecided
  <2>6. CASE Authenticate(s)
    <3>1. /\ x.stage = "arrived" /\ UNCHANGED <<effect, rejection_audit>>
          /\ \/ session'[s].stage = "waiting" /\ session'[s].code = x.code
             \/ session'[s].stage = "rejected" /\ session'[s].code = "unauthenticated"
      BY <1>1, <2>1, <2>6 DEF Authenticate, Go, Reject, SessionRows
    <3> QED
      BY <2>3, <2>4, <3>1 DEF Undecided, Refusals
  <2>7. CASE TakeRow(s)
    <3>1. /\ x.stage = "waiting" /\ UNCHANGED <<effect, rejection_audit>>
          /\ session'[s].stage = "deciding" /\ session'[s].code = x.code
      BY <1>1, <2>1, <2>7 DEF TakeRow, Go, SessionRows
    <3> QED
      BY <2>3, <2>4, <3>1 DEF Undecided
  <2>8. CASE Raise(s)
    <3> DEFINE verdict == Verdict(x.request, now)
    <3>1. /\ x.stage = "deciding" /\ UNCHANGED <<effect, rejection_audit>>
          /\ session'[s].stage = "rejected" /\ session'[s].code = verdict
      <4> HIDE DEF verdict
      <4>1. Reject(s, verdict)
        BY <2>8 DEF Raise, verdict
      <4> QED
        BY <1>1, <2>1, <2>8, <4>1 DEF Raise, Reject, SessionRows
    <3>2. verdict \in Refusals
      BY <2>8 DEF Raise, Verdict, Recall, VerdictOfCreate, VerdictOnItem, Refusals
    <3> QED
      BY <2>3, <3>1, <3>2 DEF Undecided
  <2>9. CASE Stage(s)
    <3>1. /\ x.stage = "deciding" /\ UNCHANGED <<effect, rejection_audit>>
          /\ session'[s].stage = "staged" /\ session'[s].code = x.code
      BY <1>1, <2>1, <2>9 DEF Stage, SessionRows
    <3> QED
      BY <2>3, <2>4, <3>1 DEF Undecided
  <2>10. CASE CommitApplied(s)
    <3>1. Told(s)' /\ effect' \in [Sessions -> Nat \cup {None}]
      BY <2>10, ToldAtCommit
    <3>2. UNCHANGED rejection_audit /\ \A z \in Sessions \ {s} : effect'[z] = effect[z]
      BY <1>2, <2>10 DEF CommitApplied
    <3> QED
      BY <1>2, <2>2, <3>1, <3>2
  <2>11. CASE StorageFails(s)
    <3>1. /\ x.stage \in Undecided /\ UNCHANGED <<effect, rejection_audit>>
          /\ session'[s].stage = "rejected" /\ session'[s].code = "storage_unavailable"
      BY <1>1, <2>1, <2>11 DEF StorageFails, SessionRows, Undecided
    <3> QED
      BY <2>3, <3>1 DEF Refusals
  <2>12. CASE AnswerRefusal(s)
    <3>1. /\ x.stage = "rejected" /\ UNCHANGED effect
          /\ session'[s] = [x EXCEPT !.stage = "answered"]
      BY <1>1, <2>12 DEF AnswerRefusal, Go
    <3>2. /\ session'[s].stage = "answered" /\ session'[s].code = x.code
          /\ session'[s].request = x.request /\ session'[s].operation = x.operation
          /\ session'[s].item = x.item
      BY <2>1, <3>1 DEF SessionRows
    <3>3. rejection_audit' \subseteq rejection_audit \cup {<<s, x.code>>}
      BY <2>12 DEF AnswerRefusal
    <3>4. UNCHANGED mutation_audit
      BY <2>12 DEF AnswerRefusal, memory
    <3>5. x.code \in Refusals /\ \A code \in Refusals : <<s, code>> \notin rejection_audit
      BY <2>1, <3>1 DEF Told
    <3>6. Told(s)'
      BY <2>1, <3>1, <3>2, <3>3, <3>4, <3>5 DEF Told, Undecided, Satisfies, Refusals
    <3>7. rejection_audit' \subseteq Sessions \X Refusals
      BY <1>2, <3>3, <3>5
    <3>8. \A z \in Sessions \ {s} : \A code \in Refusals :
            <<z, code>> \in rejection_audit' => <<z, code>> \in rejection_audit
      BY <3>3
    <3> QED
      BY <1>2, <2>2, <3>1, <3>6, <3>7, <3>8
  <2>13. CASE Abandon(s)
    <3>1. /\ x.stage \in Undecided \cup {"rejected"} /\ UNCHANGED <<effect, rejection_audit>>
          /\ UNCHANGED mutation_audit
          /\ session'[s].stage = "lost" /\ session'[s].code = x.code
          /\ session'[s].request = x.request /\ session'[s].operation = x.operation
          /\ session'[s].item = x.item
      BY <1>1, <2>1, <2>13 DEF Abandon, SessionRows, Undecided, memory
    <3>2. CASE x.stage \in Undecided
      BY <2>3, <2>4, <3>1, <3>2
    <3>3. CASE x.stage = "rejected"
      <4>1. \A code \in Refusals : <<s, code>> \notin rejection_audit
        BY <2>1, <3>3 DEF Told
      <4>2. Told(s)'
        BY <2>1, <3>1, <4>1 DEF Told, Undecided, Satisfies
      <4> QED
        BY <1>2, <2>2, <3>1, <4>2
    <3> QED
      BY <3>1, <3>2, <3>3
  <2> QED
    BY <1>4, <2>5, <2>6, <2>7, <2>8, <2>9, <2>10, <2>11, <2>12, <2>13 DEF Handle
<1> QED
  BY <1>3, <1>4 DEF RequestsNext, Environment, service

-----------------------------------------------------------------------------
(* Theorems about the answers                                              *)

\* What is known of every session at once; it rests on the receipts of the tables.
THEOREM AnswersAreKept == RequestsSpec => [](RequestsInv /\ KeysInv /\ AnswersInv)
<1>1. RequestsInit => AnswersInv
  <2> SUFFICES ASSUME RequestsInit PROVE AnswersInv
    OBVIOUS
  <2>1. /\ session = [s \in Sessions |-> Idle] /\ rejection_audit = {}
        /\ effect = [s \in Sessions |-> None]
    BY DEF RequestsInit
  <2> QED
    BY <2>1 DEF AnswersInv, Told, Idle, Undecided, Refusals
<1>2. AnswersInv /\ RequestsInv /\ KeysInv /\ [RequestsNext]_<<vars, service>> => AnswersInv'
  BY AnswersStep
<1>3. RequestsSpec => []KeysInv
  BY TransactionsAreAtomic, KeysAreKept DEF CallsAreAtomic
<1> QED
  BY <1>1, <1>2, <1>3, PlansStayTrue, PTL DEF RequestsSpec

\* Handlers are in a known stage, and exactly the one past its lock holds the row.
THEOREM RequestsTypeCorrect == RequestsSpec => []RequestsTypeOK
<1>1. RequestsInv /\ AnswersInv => RequestsTypeOK
  BY DEF RequestsInv, AnswersInv, RequestsTypeOK, RowInv, SessionRows, Told
<1> QED
  BY <1>1, AnswersAreKept, PTL

\* Every answer is true, and every audited refusal is the refusal that was told.
THEOREM AnswersAreTrue == RequestsSpec => []AnswersHold
<1>1. AnswersInv => AnswersHold
  BY DEF AnswersInv, AnswersHold, Told
<1> QED
  BY <1>1, AnswersAreKept, PTL

\* Two successes under one key name one operation, or ones a record's life apart:
\* true answers to an operation per key.
THEOREM RetriesAgree == RequestsSpec => []RetriesConverge
<1>1. AnswersInv /\ KeysInv => RetriesConverge
  <2> SUFFICES ASSUME AnswersInv, KeysInv, NEW s \in Sessions, NEW z \in Sessions,
                      {session[s].code, session[z].code} \subseteq {"done", "replayed"},
                      RequestSlot(session[s].request) = RequestSlot(session[z].request),
                      session[s].operation < session[z].operation
               PROVE  mutation_audit[session[s].operation].at + TTL
                        <= mutation_audit[session[z].operation].at
    BY DEF RetriesConverge
  <2>1. Satisfies(session[s].operation, session[s].request)
        /\ Satisfies(session[z].operation, session[z].request)
    BY DEF AnswersInv, Told
  <2> QED
    BY <2>1 DEF Satisfies, KeysInv, OneEffectPerKey
<1> QED
  BY <1>1, AnswersAreKept, PTL

\* A replayed receipt shows no item that is forgotten when the answer commits.
THEOREM ReceiptsAreDiscreet == RequestsSpec => ReceiptsHideForgotten
<1> DEFINE A == \A s \in Sessions :
                  /\ session[s].stage = "staged" /\ session'[s].stage = "answered"
                  /\ session'[s].code = "replayed" /\ session'[s].item # None
                  => ~items'[session'[s].item].deleted
<1>1. RequestsInv /\ AnswersInv /\ [RequestsNext]_<<vars, service>> => [A]_<<vars, service>>
  <2> SUFFICES ASSUME RequestsInv, AnswersInv, RequestsNext, NEW s \in Sessions,
                      session[s].stage = "staged", session'[s].stage = "answered",
                      session'[s].code = "replayed", session'[s].item # None
               PROVE  ~items'[session'[s].item].deleted
    OBVIOUS
  <2> DEFINE x == session[s]
             q == session[s].request
             plan == session[s].plan
  <2>1. session \in [Sessions -> SessionRows] /\ x \in SessionRows /\ PlanHolds(q, plan)
    BY DEF RequestsInv
  <2>2. CommitApplied(s)
    <3>1. PICK z \in Sessions : Handle(z) \/ Abandon(z) \/ \E r \in Requests : Send(z, r)
      BY DEF RequestsNext, Environment, service
    <3>2. z = s
      BY <3>1, HandlerMoves DEF Moved
    <3> QED
      BY <2>1, <3>1, <3>2
      DEF Handle, Authenticate, TakeRow, Raise, Stage, StorageFails, AnswerRefusal, Abandon,
          Send, SessionRows
  <2>3. Write(q, plan)
    BY <2>2 DEF CommitApplied
  <2> DEFINE op == OperationShown(q, plan)
             item == ItemShown(q, plan)
             code == IF plan.kind = "replay" THEN "replayed" ELSE "done"
  <2>4. session'[s].code = code /\ session'[s].item = item
    <3>1. \/ session' = [session EXCEPT ![s].stage = "answered", ![s].code = code,
                           ![s].plan = NoPlan, ![s].operation = op, ![s].item = item]
          \/ session' = [session EXCEPT ![s].stage = "rejected", ![s].plan = NoPlan,
                           ![s].code = "storage_unavailable"]
      BY <2>2 DEF CommitApplied
    <3> HIDE DEF code, op, item
    <3> QED
      BY <2>1, <3>1 DEF SessionRows
  <2>5. plan.kind = "replay" /\ item = plan.item
    BY <2>4 DEF ItemShown
  <2>6. ~items[plan.item].deleted /\ items' = items
    BY <2>1, <2>3, <2>4, <2>5
    DEF PlanHolds, ReplayHolds, CreateHolds, CorrectHolds, ForgetHolds, Write, content
  <2> QED
    BY <2>4, <2>5, <2>6
<1> QED
  BY <1>1, AnswersAreKept, PTL DEF RequestsSpec, ReceiptsHideForgotten
=============================================================================
