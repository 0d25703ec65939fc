----------------------------- MODULE ReadSessions -----------------------------
(***************************************************************************)
(* Reads and searches beside MemoryLifecycle: read_item and search_memories  *)
(* of src/lib.rs.  A request authenticates in one transaction, a semantic     *)
(* search plans in a second one, and the transaction that looks things up      *)
(* holds the tenant row FOR SHARE from its first statement until commit,        *)
(* while the rows are packed and, in token mode, counted by a worker thread.    *)
(* A commit may fail or succeed unheard, the client may hang up at any point,   *)
(* and a failed semantic search is tried once more under the same request id.   *)
(*                                                                         *)
(* Abstracted: ranking (a search shows what the reader may see), validity       *)
(* intervals and subject scopes; readiness, computed in EmbeddingJobs, is here   *)
(* what the jobs make of it whenever nobody shares the row.                     *)
(***************************************************************************)
EXTENDS MemoryLifecycle

CONSTANTS
  Sessions,         \* bound: HTTP requests ever sent
  Requests,         \* what clients send
  ReaderOperations, \* credential -> read operations it allows
  Generations,      \* embedding generations
  Permits           \* token workers at a time: 2

Statuses == {"pending", "ready", "failed"}
RequestShape == [credential : Credentials, op : {"read", "search"},
                 item : Items \cup {None}, expected : Revisions \cup {None},
                 semantic : {"none", "query", "vector"}, tokens : BOOLEAN,
                 defect : {"none", "input", "scope"}]

ASSUME ReadersTyped ==
  /\ Requests \subseteq RequestShape
  /\ \A q \in Requests : q.op = "read" => q.item # None /\ q.semantic = "none" /\ ~q.tokens
  /\ ReaderOperations \in [Credentials -> SUBSET {"read", "search"}]
  /\ Permits \in Nat \ {0}

ASSUME NoneIsNoEpoch == None \notin Nat

VARIABLES
  share,      \* sessions whose transaction shares the tenant row
  workers,    \* sessions whose token worker holds a permit
  reading,    \* handler state per session
  read_audit, \* request id -> row, or None
  generation, \* active_embedding_generations, or None
  readiness   \* what semantic_readiness says of it

memory == <<authority_epoch, authority, content, deletion, idempotency_records,
            mutation_audit, replay_audit>>
semantics == <<generation, readiness>>
allVars == <<now, memory, share, workers, reading, read_audit, semantics>>

NotRequested == [status |-> "not_requested", generation |-> None]
Pending == [status |-> "pending", generation |-> None]
Failed == [status |-> "failed", generation |-> None]
Idle == [stage |-> "idle", request |-> None, plan |-> NotRequested,
         effective |-> NotRequested, shown |-> {}, epoch |-> 0,
         outcome |-> "none", code |-> "none"]

ReadsInit ==
  /\ Init
  /\ share = {} /\ workers = {}
  /\ reading = [s \in Sessions |-> Idle]
  /\ read_audit = [s \in Sessions |-> None]
  /\ generation = None /\ readiness = "pending"

-----------------------------------------------------------------------------
(* Faults.                                                                 *)

RowAlwaysFree == TRUE

EffectiveAsPlanned(s) == reading[s].plan

AuditKeyAlwaysFree(s) == FALSE

PermitByChance == TRUE

ReturnPermitIfAwaited(s) ==
  workers' = IF reading[s].stage = "packing" THEN workers \ {s} ELSE workers

-----------------------------------------------------------------------------
(* What the reader's transactions look up.                                 *)

ReaderCurrent(q, t) ==
  /\ q.op \in ReaderOperations[q.credential]
  /\ t < CredentialExpires[q.credential]
  /\ revoked_at[q.credential] = None
  /\ CredentialOwner[q.credential] \notin inactive

\* Current revisions of undeleted items in the owner's open collections.
Visible(c) ==
  {<<i, items[i].active>> : i \in {j \in Items : OwnItem(CredentialOwner[c], j) /\ ~items[j].deleted}}

VisibleOf(q) == {v \in Visible(q.credential) : q.op = "search" \/ v[1] = q.item}

\* A plan survives only if its generation is still selected and still ready.
Effective(s) ==
  LET plan == reading[s].plan IN
  IF plan.status # "ready" \/ (readiness = "ready" /\ generation = plan.generation) THEN plan
  ELSE IF readiness = "failed" THEN Failed ELSE Pending

\* Whoever changes what a reader sees takes the row FOR UPDATE.
RowFree == share = {}

AuditKeyTaken(s) == read_audit[s] # None

PermitFree == Cardinality(workers) < Permits

-----------------------------------------------------------------------------
(* The handler.                                                            *)

Go(s, stage) == reading' = [reading EXCEPT ![s].stage = stage]

Unshare(s) == share' = share \ {s}

\* permits_semantic_fallback, asked where a database attempt failed.
FallsBack(s, code) ==
  /\ reading[s].plan.status = "ready"
  /\ ~reading[s].request.tokens
  /\ code # "context_budget_unavailable" /\ code # "invalid_context_budget"

\* An attempt that failed is rolled back; the search falls back once or reports.
Fail(s, code) ==
  /\ Unshare(s)
  /\ reading' = [reading EXCEPT ![s] =
       IF FallsBack(s, code)
       THEN [@ EXCEPT !.stage = "planned", !.plan = Pending, !.shown = {}, !.outcome = "none"]
       ELSE [@ EXCEPT !.stage = "failed", !.shown = {}, !.outcome = "none", !.code = code]]

Send(s, q) ==
  /\ reading[s].stage = "idle"
  /\ reading' = [reading EXCEPT ![s].stage = "arrived", ![s].request = q]
  /\ UNCHANGED <<now, memory, share, workers, read_audit, semantics>>

WellFormed(q) == q.defect # "input"

\* authenticate_reader, a transaction of its own.
Authenticated(q) == ReaderCurrent(q, now)

\* Who asks comes first, then what is asked.
Authenticate(s) ==
  LET q == reading[s].request IN
  /\ reading[s].stage = "arrived"
  /\ \/ /\ Authenticated(q) /\ WellFormed(q)
        /\ Go(s, IF q.semantic = "none" THEN "planned" ELSE "planning")
        /\ UNCHANGED share
     \/ Authenticated(q) /\ ~WellFormed(q) /\ Fail(s, "malformed")
     \/ ~Authenticated(q) /\ Fail(s, "unauthenticated")
     \/ Fail(s, "storage_unavailable")
  /\ UNCHANGED <<now, memory, workers, read_audit, semantics>>

\* A vector sent by the client fits the ready generation or doesn't; the fixture
\* may also fail to embed the query.
ReadyPlan == [status |-> "ready", generation |-> generation]
ExternalPlans == {Pending, ReadyPlan}
FixturePlans == {Pending, Failed, ReadyPlan}

\* semantic_plan: any failure, the embedding of the query included, only makes
\* the plan pending or failed.
PlanSemantic(s) ==
  LET q == reading[s].request IN
  /\ reading[s].stage = "planning"
  /\ \E plan \in
       {Pending} \cup
       CASE ~ReaderCurrent(q, now) -> {}
         [] ReaderCurrent(q, now) /\ readiness = "pending" -> {}
         [] ReaderCurrent(q, now) /\ readiness = "failed" -> {Failed}
         [] ReaderCurrent(q, now) /\ readiness = "ready" ->
              IF q.semantic = "vector" THEN ExternalPlans ELSE FixturePlans :
       reading' = [reading EXCEPT ![s].stage = "planned", ![s].plan = plan]
  /\ UNCHANGED <<now, memory, share, workers, read_audit, semantics>>

\* Every look-up shares the row first, then checks authority again.
MayLookUp(s, op) ==
  /\ reading[s].stage = "planned" /\ reading[s].request.op = op
  /\ ReaderCurrent(reading[s].request, now)

\* The rows are read and the audit row is staged.
Find(s, stage, outcome) ==
  /\ ~AuditKeyTaken(s)
  /\ share' = share \cup {s}
  /\ reading' = [reading EXCEPT ![s] =
       [@ EXCEPT !.stage = stage, !.effective = Effective(s),
          !.shown = VisibleOf(reading[s].request), !.epoch = authority_epoch, !.outcome = outcome]]
  /\ UNCHANGED <<now, memory, workers, read_audit, semantics>>

\* read_item_from_database: an item that isn't visible is audited as unavailable.
LookUpItem(s) ==
  LET q == reading[s].request IN
  /\ MayLookUp(s, "read") /\ q.defect # "scope"
  /\ q.expected # None => \A v \in VisibleOf(q) : v[2] = q.expected
  /\ Find(s, "packed", IF VisibleOf(q) = {} THEN "unavailable" ELSE "released")

\* search_memories_in_database: the plan is checked again under the shared row.
LookUpMemories(s) ==
  /\ MayLookUp(s, "search") /\ reading[s].request.defect # "scope"
  /\ Find(s, IF reading[s].request.tokens THEN "found" ELSE "packed", "released")

Refuse(s, code) == Fail(s, code) /\ UNCHANGED <<now, memory, workers, read_audit, semantics>>

\* classify_database_error and classify_list_database_error.  Storage may fail at
\* any time, and does so where the request id is audited already.
RefuseLookUp(s) ==
  LET q == reading[s].request IN
  /\ reading[s].stage = "planned"
  /\ \/ ~ReaderCurrent(q, now) /\ Refuse(s, "unauthenticated")
     \/ MayLookUp(s, q.op) /\ q.defect = "scope" /\ Refuse(s, "malformed")
     \/ Refuse(s, "storage_unavailable")

RefuseStale(s) ==
  LET q == reading[s].request IN
  /\ MayLookUp(s, "read") /\ q.defect # "scope" /\ q.expected # None
  /\ \E v \in VisibleOf(q) : v[2] # q.expected
  /\ Refuse(s, "stale_context")

\* context_tokens::pack takes a permit without waiting, or refuses.
StartWorker(s) ==
  /\ reading[s].stage = "found"
  /\ IF PermitFree
     THEN workers' = workers \cup {s} /\ Go(s, "packing") /\ UNCHANGED share
     ELSE Fail(s, "context_budget_unavailable") /\ UNCHANGED workers
  /\ UNCHANGED <<now, memory, read_audit, semantics>>

ReturnPermit(s) == workers' = workers \ {s}

\* The blocking task ends, whether or not its request still waits for it.
EndWorker(s) ==
  /\ s \in workers
  /\ ReturnPermit(s)
  /\ \/ reading[s].stage = "packing" /\ Go(s, "packed") /\ UNCHANGED share
     \/ /\ reading[s].stage = "packing"
        /\ \E code \in {"context_budget_unavailable", "invalid_context_budget"} : Fail(s, code)
     \/ reading[s].stage = "lost" /\ UNCHANGED <<reading, share>>
  /\ UNCHANGED <<now, memory, read_audit, semantics>>

AnswerCode(s) == IF reading[s].outcome = "released" THEN "ok" ELSE "unavailable"

StoreAudit(s) ==
  read_audit' = [read_audit EXCEPT ![s] =
    IF @ = None
    THEN [outcome |-> reading[s].outcome, epoch |-> reading[s].epoch, shown |-> reading[s].shown]
    ELSE @]

CommitRead(s) ==
  /\ reading[s].stage = "packed"
  /\ \/ /\ StoreAudit(s) /\ Unshare(s)
        /\ reading' = [reading EXCEPT ![s].stage = "answered", ![s].code = AnswerCode(s)]
     \/ StoreAudit(s) /\ Fail(s, "storage_unavailable")  \* unheard
     \/ UNCHANGED read_audit /\ Fail(s, "storage_unavailable")
  /\ UNCHANGED <<now, memory, workers, semantics>>

RejectionOutcome(code) ==
  CASE code = "context_budget_unavailable" -> "unavailable"
    [] code = "invalid_context_budget" -> "malformed"
    [] OTHER -> code

\* finish_operation_error: the rejection row is written if a connection is free
\* and nothing goes wrong; the answer doesn't depend on it.
Reject(s) ==
  /\ reading[s].stage = "failed"
  /\ Go(s, "answered")
  /\ \/ UNCHANGED read_audit
     \/ /\ ~AuditKeyTaken(s)
        /\ read_audit' = [read_audit EXCEPT ![s] =
             [outcome |-> RejectionOutcome(reading[s].code), epoch |-> None, shown |-> {}]]
  /\ UNCHANGED <<now, memory, share, workers, semantics>>

\* The client hangs up: the future is dropped and its transaction rolled back,
\* but a token worker runs on.
Abandon(s) ==
  /\ reading[s].stage \notin {"idle", "answered", "lost"}
  /\ Unshare(s)
  /\ reading' = [reading EXCEPT ![s].stage = "lost", ![s].code = "none"]
  /\ UNCHANGED <<now, memory, workers, read_audit, semantics>>

-----------------------------------------------------------------------------
(* What goes on around it.                                                 *)

SelectGeneration(g) ==
  /\ RowFree /\ generation # g
  /\ generation' = g
  /\ readiness' \in Statuses
  /\ UNCHANGED <<now, memory, share, workers, reading, read_audit>>

\* (A replayed mutation takes the row too, but changes nothing a reader sees.)
\* Completing a job takes the row; failing or cancelling a leased one doesn't.
SettleJobs ==
  /\ generation # None
  /\ readiness' \in Statuses \ {readiness}
  /\ RowFree \/ (readiness = "pending" /\ readiness' = "failed")
  /\ UNCHANGED <<now, memory, share, workers, reading, read_audit, generation>>

ReadItem(s) == LookUpItem(s) \/ RefuseStale(s)

SearchMemories(s) == PlanSemantic(s) \/ LookUpMemories(s) \/ StartWorker(s)

Advance(s) ==
  \/ Authenticate(s) \/ ReadItem(s) \/ SearchMemories(s)
  \/ RefuseLookUp(s) \/ CommitRead(s) \/ Reject(s)

Around ==
  /\ RowFree
  /\ Mutate \/ Operate \/ \E i \in Items, g \in 1..2 : ProcessForgetPurge(i, g)
  /\ UNCHANGED <<share, workers, reading, read_audit, semantics>>

Clock == Tick /\ UNCHANGED <<share, workers, reading, read_audit, semantics>>

ReadsNext ==
  \/ \E s \in Sessions, q \in Requests : Send(s, q)
  \/ \E s \in Sessions : Advance(s) \/ EndWorker(s) \/ Abandon(s)
  \/ \E g \in Generations : SelectGeneration(g)
  \/ SettleJobs
  \/ Around
  \/ Clock

ReadsSpec == ReadsInit /\ [][ReadsNext]_allVars

\* A handler is polled until it answers and a worker's loop is finite.
FairReads ==
  ReadsSpec /\ \A s \in Sessions : WF_allVars(Advance(s)) /\ WF_allVars(EndWorker(s))

-----------------------------------------------------------------------------
(* Properties                                                              *)

\* The row is shared by exactly the transactions past their look-up, and there
\* are never more token workers than permits, whoever hung up meanwhile.
ReadsTypeOK ==
  /\ \A s \in Sessions :
       /\ reading[s].request \in Requests \cup {None}
       /\ reading[s].plan.status \in Statuses \cup {"not_requested"}
       /\ reading[s].effective.generation \in Generations \cup {None}
  /\ share = {s \in Sessions : reading[s].stage \in {"found", "packing", "packed"}}
  /\ \A s \in workers : reading[s].stage \in {"packing", "lost"}
  /\ Cardinality(workers) <= Permits
  /\ readiness \in Statuses /\ generation \in Generations \cup {None}

\* Whatever was decided earlier, an answer is true at its commit: what it shows is
\* current and visible to a credential not revoked, what it calls unavailable isn't,
\* and a hybrid answer ranks by the generation selected and ready right then.
TrueAtCommit ==
  [][\A s \in Sessions :
       LET q == reading'[s].request IN
       reading[s].code = "none" /\ reading'[s].stage = "answered"
         /\ reading'[s].code \in {"ok", "unavailable"} =>
         /\ reading'[s].shown = VisibleOf(q)
         /\ revoked_at[q.credential] = None /\ CredentialOwner[q.credential] \notin inactive
         /\ reading'[s].epoch = authority_epoch
         /\ reading'[s].effective.status = "ready" =>
              readiness = "ready" /\ generation = reading'[s].effective.generation]_allVars

\* The audit trail and the answer agree: an answer with content has the row that
\* names its epoch and its items, and a release the client was not told of lies
\* behind storage_unavailable, or behind the refusal of a fallback whose
\* credential was revoked after the first attempt's commit went unheard.
AnswersAudited ==
  \A s \in Sessions : reading[s].stage = "answered" =>
    LET row == read_audit[s]
        q == reading[s].request IN
    /\ reading[s].code = "ok" =>
         row = [outcome |-> "released", epoch |-> reading[s].epoch, shown |-> reading[s].shown]
    /\ row # None /\ row.outcome = "released" =>
         \/ reading[s].code \in {"ok", "storage_unavailable"}
         \/ reading[s].code = "unauthenticated" /\ q.semantic # "none" /\ ~q.tokens
    /\ row # None /\ row.epoch = None => row.outcome = RejectionOutcome(reading[s].code)

\* Each session lets go of the shared row and of its permit, even if its client hangs
\* up in the middle of packing.  (Whether a writer that waits is ever the next, with new
\* readers coming, is up to PostgreSQL's queue for the row.)
HeldIsReleased ==
  \A s \in Sessions : s \in share \cup workers ~> s \notin share \cup workers
=============================================================================
