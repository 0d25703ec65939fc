--------------------------- MODULE MutationRequests ---------------------------
(***************************************************************************)
(* The transactions under MemoryLifecycle: HTTP handlers of src/lib.rs that  *)
(* authenticate in one transaction, wait for the tenant row in a second one, *)
(* decide on what they read there, stage their writes, commit and answer.    *)
(* Any of it may be overtaken by other requests, by revocations and by the    *)
(* clock; a lock wait may time out, a commit may fail or succeed unheard, and *)
(* the handler may die.  A retry is one more session with the same request.   *)
(***************************************************************************)
EXTENDS MemoryLifecycle

CONSTANTS Sessions, \* bound: HTTP requests ever sent
          Requests  \* what clients send

RequestsFor(op, digests) == [credential : Credentials, op : {op}, key : Keys, digest : digests]

\* The digest a handler computes is that of the operation's own method, path and body.
RequestShape ==
  RequestsFor("create", {CreateDigest(p) : p \in Payloads})
  \cup RequestsFor("correct", {CorrectDigest(i, e, p) : i \in Items, e \in Revisions, p \in Payloads})
  \cup RequestsFor("forget", {ForgetDigest(i, e) : i \in Items, e \in Revisions})

ASSUME RequestsAreShaped == Requests \subseteq RequestShape
ASSUME NoneIsNoSession == None \notin Sessions

VARIABLES
  lock,            \* session whose transaction holds the tenant row, or None
  session,         \* handler state per session
  rejection_audit, \* <<session, code>> rows of create_rejection_audit
  effect           \* session -> operation id of the mutation_audit row with its request_id

service == <<lock, session, rejection_audit, effect>>
memory == <<authority_epoch, authority, content, deletion,
            idempotency_records, mutation_audit, replay_audit>>

Stages == {"idle", "arrived", "waiting", "deciding", "staged", "rejected",
           "answered", "lost"}
Refusals == {"unauthenticated", "unavailable", "stale_context",
             "idempotency_conflict", "malformed", "storage_unavailable"}

Plan(kind, t, i, r) == [kind |-> kind, at |-> t, item |-> i, revision |-> r,
                        collection |-> None, generation |-> 0, operation |-> 0]
NoPlan == Plan("none", 0, None, None)
Idle == [stage |-> "idle", request |-> None, plan |-> NoPlan, code |-> "none",
         operation |-> 0, item |-> None]

RequestsInit ==
  /\ Init
  /\ lock = None
  /\ session = [s \in Sessions |-> Idle]
  /\ rejection_audit = {}
  /\ effect = [s \in Sessions |-> None]

-----------------------------------------------------------------------------
(* Faults.                                                                 *)

RowFreeAlways == TRUE

OperationShownNew(q, plan) == OperationId

OperationShownLatest(q, plan) ==
  IF plan.kind = "replay" THEN Len(mutation_audit) ELSE OperationId

ReplayPlanShowingItem(q, t) ==
  LET row == idempotency_records[SlotOf(q.credential, q.op, q.key)] IN
  [Plan("replay", t, IF q.op = "forget" THEN None ELSE row.item, None) EXCEPT
     !.operation = row.operation]

RollbackKeepingRow(s) == UNCHANGED lock

-----------------------------------------------------------------------------
(* What a transaction decides, read under the lock at instant t.           *)

RequestSlot(q) == SlotOf(q.credential, q.op, q.key)

\* The replay branch, its checks in the order of the code.
Recall(q, t) ==
  IF ~ReceiptOpen(RequestSlot(q)) THEN "unavailable"
  ELSE IF idempotency_records[RequestSlot(q)].digest # q.digest THEN "idempotency_conflict"
  ELSE "replay"

\* A create under a fresh key.
VerdictOfCreate(q) ==
  IF OpenCollections(CredentialOwner[q.credential]) = {} THEN "unavailable"
  ELSE IF q.digest.payload \in Refused THEN "malformed"
  ELSE "effect"

\* A correction or a forget under a fresh key; a forget names no subjects.
VerdictOnItem(q) ==
  LET i == q.digest.item IN
  IF ~OwnItem(CredentialOwner[q.credential], i) \/ items[i].deleted THEN "unavailable"
  ELSE IF items[i].active # q.digest.expected THEN "stale_context"
  ELSE IF q.digest.payload \in Refused THEN "malformed"
  ELSE "effect"

Verdict(q, t) ==
  IF ~WriterCurrent(q.credential, q.op, t) THEN "unauthenticated"
  ELSE IF Reserved(RequestSlot(q), t) THEN Recall(q, t)
  ELSE IF q.op = "create" THEN VerdictOfCreate(q)
  ELSE VerdictOnItem(q)

\* The rows a replay will answer with, and those a mutation will write.
ReplayPlan(q, t) ==
  LET row == idempotency_records[RequestSlot(q)]
      item == IF q.op = "forget" \/ items[row.item].deleted THEN None ELSE row.item
  IN [Plan("replay", t, item, None) EXCEPT !.operation = row.operation]

CreatePlans(q, t) ==
  {[Plan("create", t, i, r) EXCEPT !.collection = l] :
     i \in {j \in Items : items[j] = None /\ \A s \in Sessions : session[s].plan.item # j},
     r \in {u \in Revisions : Unissued(u) /\ \A s \in Sessions : session[s].plan.revision # u},
     l \in {m \in OpenCollections(CredentialOwner[q.credential]) :
              \A n \in OpenCollections(CredentialOwner[q.credential]) : m <= n}}

CorrectPlans(q, t) ==
  {Plan("correct", t, q.digest.item, r) :
     r \in {u \in Revisions : Unissued(u) /\ \A s \in Sessions : session[s].plan.revision # u}}

ForgetPlan(q, t) ==
  [Plan("forget", t, q.digest.item, q.digest.expected) EXCEPT
     !.generation = items[q.digest.item].generation + 1]

Plans(q, t) ==
  IF Verdict(q, t) = "replay" THEN {ReplayPlan(q, t)}
  ELSE CASE q.op = "create" -> CreatePlans(q, t)
         [] q.op = "correct" -> CorrectPlans(q, t)
         [] q.op = "forget" -> {ForgetPlan(q, t)}

-----------------------------------------------------------------------------
(* The handler's steps.                                                    *)

Go(s, stage) == session' = [session EXCEPT ![s].stage = stage]

Reject(s, code) == session' = [session EXCEPT ![s].stage = "rejected", ![s].code = code]

\* Dropping the transaction rolls it back and frees the tenant row.
Rollback(s) == lock' = IF lock = s THEN None ELSE lock

Send(s, q) ==
  /\ session[s].stage = "idle"
  /\ session' = [session EXCEPT ![s].stage = "arrived", ![s].request = q]
  /\ UNCHANGED <<now, memory, lock, rejection_audit, effect>>

\* authenticate_writer: a transaction of its own, whose result is not relied on.
Authenticate(s) ==
  LET q == session[s].request IN
  /\ session[s].stage = "arrived"
  /\ IF WriterCurrent(q.credential, q.op, now)
     THEN Go(s, "waiting")
     ELSE Reject(s, "unauthenticated")
  /\ UNCHANGED <<now, memory, lock, rejection_audit, effect>>

RowFree == lock = None

\* SELECT ... FOR UPDATE of the tenant row returns.
TakeRow(s) ==
  /\ session[s].stage = "waiting" /\ RowFree
  /\ lock' = s
  /\ Go(s, "deciding")
  /\ UNCHANGED <<now, memory, rejection_audit, effect>>

\* The function raises: nothing it wrote survives.
Raise(s) ==
  LET verdict == Verdict(session[s].request, now) IN
  /\ session[s].stage = "deciding"
  /\ verdict \notin {"effect", "replay"}
  /\ Reject(s, verdict)
  /\ Rollback(s)
  /\ UNCHANGED <<now, memory, rejection_audit, effect>>

\* The function returns its rows; they are visible to nobody before the commit.
Stage(s) ==
  LET q == session[s].request IN
  /\ session[s].stage = "deciding"
  /\ Verdict(q, now) \in {"effect", "replay"}
  /\ \E plan \in Plans(q, now) :
       session' = [session EXCEPT ![s].stage = "staged", ![s].plan = plan]
  /\ UNCHANGED <<now, memory, lock, rejection_audit, effect>>

\* The writes of a staged plan, as they were decided, on the tables as they are.
Write(q, plan) ==
  LET i == plan.item IN
  IF plan.kind = "replay"
  THEN /\ Cardinality(replay_audit) < ReplayLimit
       /\ replay_audit' = replay_audit \cup
            {[slot |-> RequestSlot(q), credential |-> q.credential, epoch |-> authority_epoch]}
       /\ UNCHANGED <<now, authority_epoch, authority, content, deletion,
                      idempotency_records, mutation_audit>>
  ELSE /\ Commit(q.credential, q.op, q.key, q.digest, i, plan.revision, plan.at)
       /\ \/ /\ plan.kind = "create"
             /\ items' = [items EXCEPT ![i] = [collection |-> plan.collection,
                            active |-> plan.revision, deleted |-> FALSE, generation |-> 0]]
             /\ StoreRevision(i, plan.revision, q.digest.payload)
             /\ UNCHANGED deletion
          \/ /\ plan.kind = "correct"
             /\ items' = [items EXCEPT ![i].active = plan.revision]
             /\ StoreRevision(i, plan.revision, q.digest.payload)
             /\ UNCHANGED deletion
          \/ /\ plan.kind = "forget"
             /\ items' = [items EXCEPT ![i] = [collection |-> items[i].collection,
                            active |-> None, deleted |-> TRUE, generation |-> plan.generation]]
             /\ LeaveMarker(i, plan.generation)
             /\ UNCHANGED <<revisions, lexical_representations>>

\* What the answer shows: the operation it is a receipt of, and the item of a
\* create or a correction unless its replay found the item forgotten.
OperationShown(q, plan) == IF plan.kind = "replay" THEN plan.operation ELSE OperationId
ItemShown(q, plan) == IF q.op = "forget" THEN None ELSE plan.item

\* COMMIT takes effect.  If its acknowledgement is lost the client is told that
\* storage is unavailable, like one whose commit failed.
CommitApplied(s) ==
  LET q == session[s].request
      plan == session[s].plan
      code == IF plan.kind = "replay" THEN "replayed" ELSE "done"
  IN
  /\ session[s].stage = "staged" /\ now - plan.at <= Lag
  /\ Write(q, plan)
  /\ effect' = [effect EXCEPT ![s] = IF plan.kind = "replay" THEN @ ELSE OperationId]
  /\ \/ session' = [session EXCEPT ![s].stage = "answered", ![s].code = code,
                      ![s].plan = NoPlan, ![s].operation = OperationShown(q, plan),
                      ![s].item = ItemShown(q, plan)]
     \/ session' = [session EXCEPT ![s].stage = "rejected", ![s].plan = NoPlan,
                      ![s].code = "storage_unavailable"]
  /\ Rollback(s)
  /\ UNCHANGED rejection_audit

\* Before the commit storage may fail at any point: no connection is free, the
\* authentication, the wait for the tenant row or the statement times out, the
\* connection breaks.
StorageFails(s) ==
  /\ session[s].stage \in {"arrived", "waiting", "deciding", "staged"}
  /\ session' = [session EXCEPT ![s].stage = "rejected", ![s].plan = NoPlan,
                   ![s].code = "storage_unavailable"]
  /\ Rollback(s)
  /\ UNCHANGED <<now, memory, rejection_audit, effect>>

\* finish_operation_error: the rejection audit is written if a connection happens
\* to be free and its transaction succeeds; the client gets its answer anyway.
AnswerRefusal(s) ==
  /\ session[s].stage = "rejected"
  /\ Go(s, "answered")
  /\ \/ rejection_audit' = rejection_audit \cup {<<s, session[s].code>>}
     \/ UNCHANGED rejection_audit
  /\ UNCHANGED <<now, memory, lock, effect>>

\* The client hangs up or the process dies: the handler's future is dropped.
Abandon(s) ==
  /\ session[s].stage \in {"arrived", "waiting", "deciding", "staged", "rejected"}
  /\ session' = [session EXCEPT ![s].stage = "lost", ![s].plan = NoPlan]
  /\ Rollback(s)
  /\ UNCHANGED <<now, memory, rejection_audit, effect>>

\* Operators, the purge worker and the clock; the first two need the tenant row.
Environment ==
  /\ \/ lock = None /\ Operate
     \/ lock = None /\ \E i \in Items, g \in 1..2 : ProcessForgetPurge(i, g)
     \/ Tick
  /\ UNCHANGED service

Handle(s) ==
  \/ Authenticate(s) \/ TakeRow(s) \/ Raise(s) \/ Stage(s)
  \/ CommitApplied(s) \/ StorageFails(s) \/ AnswerRefusal(s)

RequestsNext ==
  \/ \E s \in Sessions : Handle(s) \/ Abandon(s) \/ \E q \in Requests : Send(s, q)
  \/ Environment

\* A handler that can take a step takes one: the runtime polls every future, and
\* every statement ends, by its result or by its timeout.
RequestsSpec ==
  /\ RequestsInit /\ [][RequestsNext]_<<vars, service>>
  /\ \A s \in Sessions : WF_<<vars, service>>(Handle(s))

-----------------------------------------------------------------------------
(* Properties                                                              *)

Working == {"deciding", "staged"}

\* Handlers are in a known stage, and exactly the session whose transaction is
\* open past its lock holds the tenant row: no path leaves it behind or works
\* without it.
RequestsTypeOK ==
  /\ lock \in Sessions \cup {None}
  /\ \A s \in Sessions :
       /\ session[s].stage \in Stages
       /\ session[s].request \in Requests \cup {None}
       /\ session[s].code \in Refusals \cup {"none", "done", "replayed"}
       /\ effect[s] \in (DOMAIN mutation_audit) \cup {None}
       /\ session[s].stage \in Working <=> lock = s
  /\ rejection_audit \subseteq Sessions \X Refusals

\* The operation n is what the request q asked for.
Satisfies(n, q) ==
  /\ n \in DOMAIN mutation_audit
  /\ mutation_audit[n].slot = RequestSlot(q)
  /\ mutation_audit[n].digest = q.digest

\* An answer is true: a success names an effect of this very request, this
\* attempt's or an earlier one's; a refusal, told or audited, means that this
\* attempt had none.  Only "storage unavailable" leaves it open.
AnswersHold ==
  \A s \in Sessions :
    LET x == session[s] IN
    /\ x.code = "done" => effect[s] = x.operation /\ Satisfies(x.operation, x.request)
    /\ x.code = "replayed" => effect[s] = None /\ Satisfies(x.operation, x.request)
    /\ x.code \in {"done", "replayed"} /\ x.item # None =>
         x.item = mutation_audit[x.operation].item
    /\ x.code \in Refusals \ {"storage_unavailable"} => effect[s] = None
    /\ \A code \in Refusals : <<s, code>> \in rejection_audit => x.code = code

\* However its answers were lost, a request that is sent again converges: two
\* successes under one key name one operation, or operations a record's life apart.
RetriesConverge ==
  \A s, z \in Sessions :
    LET x == session[s]
        y == session[z]
    IN
    /\ {x.code, y.code} \subseteq {"done", "replayed"}
    /\ RequestSlot(x.request) = RequestSlot(y.request)
    /\ x.operation < y.operation
    => mutation_audit[x.operation].at + TTL <= mutation_audit[y.operation].at

\* A replayed receipt shows an item only if it is not forgotten at the instant
\* the answer is committed, whatever happened since the receipt was looked up.
ReceiptsHideForgotten ==
  [][\A s \in Sessions :
       /\ session[s].stage = "staged" /\ session'[s].stage = "answered"
       /\ session'[s].code = "replayed" /\ session'[s].item # None
       => ~items'[session'[s].item].deleted]_<<vars, service>>

\* Deciding and committing in two steps, with everything that may happen between
\* them, is the atomic call of MemoryLifecycle: the tenant row makes it so.
CallsAreAtomic == Spec

\* The tenant row, on which every writer of the tenant waits, is always released.
RowIsReleased == \A s \in Sessions : lock = s ~> lock # s

=============================================================================
