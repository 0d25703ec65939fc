# A TLA+ model of governed-memory

governed-memory is an HTTP service (`src/src/lib.rs`, axum and sqlx) in front of a
PostgreSQL schema (`src/migrations/`). Nearly all of its logic, and all of its
authority, lives in SECURITY DEFINER functions; the Rust handlers open short
transactions around them and translate their errors. This directory holds TLA+
modules for the parts whose correctness depends on order, concurrency, failure or
time, the TLC runs that check them, and proofs checked by TLAPS.

## 1. The system

| component | state | operations | interacts with |
|---|---|---|---|
| authority | `tenant_authority` (one row per tenant, with an epoch), `principals`, `apps`, `credentials`, `collections`, grants | resolve a reader or writer from a token digest; recheck under the tenant row; revoke, deactivate, withdraw (trusted setup) | every function takes the tenant row first, FOR UPDATE to write, FOR SHARE to read |
| memories | `items`, `revisions` (immutable), `lexical_representations`, `deletion_markers`, `purge_jobs`, `idempotency_records`, `mutation_audit` | create, correct, forget, replay of a receipt, purge | authority; triggers enqueue embedding jobs; purge cascades to jobs and vectors |
| mutation handlers | the stage of each request, its transaction | authenticate in one transaction, mutate in a second, commit, answer, audit a rejection in a third | memories |
| semantic jobs | `embedding_generations`, `active_embedding_generations`, `embedding_jobs`, `embedding_representations` | select a generation, enqueue, claim, complete, fail, cancel | external workers; memories; readiness gates the semantic search |
| item read, search, list | `read_audit`, `list_cursors` | read a current item, search (lexical or hybrid, with fallback), page through collections and items | authority FOR SHARE; readiness |
| evidence packing | two worker permits | choose excerpts within limits of items, sources, bytes and tokens | search |
| document extraction | `source_revisions`, `extraction_sets`, `source_passages`, `active_extraction_sets` | activate an extraction of a revision | passages get embedding jobs and are searched |
| ranking | none | query preparation, clause union, hybrid pack order (migrations 0005 to 0018) | search |
| deployment | installed functions | apply, detect, verify and undo migrations | scripts |

What is hard in it: requests of one tenant race for the tenant row; a request is
authenticated before it gets there; commits may be lost or unheard and clients retry
under an idempotency key; keys expire; workers answer late, twice or never; memories
are corrected, forgotten and purged while all of that is under way. `PROJECT.json`
lists each of these hazards at its line, with the properties that would catch it.

What makes each component correct:

- memories: at most one effect per key and window; no lost update; an item is served
  whole or not at all; forgetting is final; a purge removes everything and cannot be
  refused; revisions are immutable.
- authority: one total order of mutations and revocations; owners stay apart; a
  withdrawn collection is frozen.
- handlers: an answer is true, retries converge, the tenant row always comes free,
  transactions behave like atomic calls.
- semantic jobs: only the holder of the last lease publishes, only for what is served
  at that instant; no intent is lost; every job ends; readiness is not stuck.
- document extraction: passages live and die with their revision, only the active
  extraction is searched, a forgotten memory gets none.
- item read and search: an answer is true at its commit, whatever was planned before;
  audit and answer agree; the shared tenant row and the permits come free.
- list: a cursor resumes its own page, racing walks stay complete.
- packing: six limits hold together, and what they leave out is admitted.

## 2. The modules

| module | models | notes |
|---|---|---|
| `MemoryPromise` | what a client may rely on: a memory is a register with the phases absent, live, forgotten, erased; a key takes effect once per window | abstract specification, no tables |
| `MemoryLifecycle` | the tables and functions of `0001_read_slice.sql` that change memories, one action per function | refines `MemoryPromise` (`KeepsPromise`) |
| `MutationRequests` | the handlers of `lib.rs` and the transactions under them; extends `MemoryLifecycle` with sessions and the tenant row | its steps are steps of `MemoryLifecycle` (`CallsAreAtomic`) |
| `EmbeddingJobs` | jobs, leases, publication, readiness and search candidates of migrations 0002 to 0004, and the activation of document extractions of 0001 | one owner's private items |
| `JobTransactions` | the transactions in which jobs are asked for, statement by statement, with the tenant row; extends `EmbeddingJobs` | its steps are steps of `EmbeddingJobs` (`TransactionsAreAtomic`) |
| `ReadSessions` | `read_item` and `search_memories` of `lib.rs` beside the mutations; extends `MemoryLifecycle` with readers, the shared tenant row, permits and the read audit | mutations are atomic here, as `CallsAreAtomic` shows |
| `ListCursor` | `list_resources` and `list_current_resources`: pages, cursor slots, racing clients | stands alone: visibility is a set of ids |
| `EvidencePacking` | `pack_search_rows`, `ExcerptBudget` and `context_tokens::Work`: one walk over ranked rows | what happens between `StartWorker` and `EndWorker` of `ReadSessions` |
| `MemoryLifecycleProofs` | types, idempotency keys and the order of epochs in `MemoryLifecycle` | TLAPS |
| `MemoryHistoryProofs` | the life of items, their content and their deletion | TLAPS, extends the former |
| `MemoryPromiseProofs` | `MemoryLifecycle` implements `MemoryPromise` | TLAPS, extends the former |
| `MutationRequestsProofs` | transactions are atomic calls, answers are true, retries converge | TLAPS, extends the former |
| `ReadSessionsProofs` | readers only read, and answer what is true | TLAPS, extends `MemoryLifecycleProofs` |
| `EmbeddingJobsProofs` | leases, publication, intent and readiness | TLAPS |
| `ListCursorProofs` | cursors resume their pages, walks are complete | TLAPS |
| `EvidencePackingProofs` | the limits hold together and truncation is reported | TLAPS |
| `MC...` | constants of the TLC runs | |

### MemoryLifecycle

Variables carry the names of the tables. A row is a record, an absent row is `None`.
`mutation_audit` is a sequence: its positions stand for operation identifiers, and the
order for the commit order that the tenant row imposes. Two columns are history only,
`digest` and `at`; the code keeps the digest in the idempotency record.

- A call is one action because its transaction holds the tenant row from before its
  first decision until commit; `MutationRequests` shows that this is legitimate.
- A call that raises rolls back everything and is no step. The refusals themselves are
  modelled in `MutationRequests`, where they are answers.
- Each function reads `clock_timestamp()`, and commits a little later: an action may
  use any instant at most `Lag` before the current one (`ReadInstants`). The two or
  three readings within a call are one instant.
- Content, subjects and validity are one payload; payloads in `Refused` name a subject
  the owner may not use. `Digests` is the injective image of method, path and body
  (the hash is taken to have no collisions).
- A new identifier is one that no audit row names (`Unissued`): random identifiers
  are taken not to repeat.
- Revoking, deactivating, withdrawing and restoring are done by an operator, outside
  the repository, under the tenant row and with a new epoch.

### MutationRequests

A session is one HTTP request: `idle`, `arrived`, `waiting` (authenticated, waiting
for the tenant row), `deciding` (row taken), `staged` (function returned, uncommitted),
`rejected`, `answered` or `lost`. `Verdict` is the cascade of checks in the order of
the SQL. `CommitApplied` writes what was decided in `Stage` onto the tables as they are
at commit, so that a missing lock would show. After the commit the acknowledgement may
be lost. `StorageFails` covers everything before the commit that ends in 503.
`Abandon` drops the handler's future at any await. A retry is another session with the
same request; `Requests` contains all requests that differ in operation, item, expected
revision or payload, under the given keys. `ReplayLimit` bounds the replays recorded, in
a session's commit as in the atomic call.

### EmbeddingJobs

A job is a pair of input and generation, the unique key of the table; an input is a
revision or one passage of an extraction set. Workers are not in the repository;
`claims` is the history of leases handed out, and any of them may be answered at any
time. `Claim` is the whole function, three statements which each skip rows that others
have locked and stop at the limit; `ClaimUnhindered` is the same call when no row is
locked. `ActivateExtraction` is the whole of `activate_document_extraction` with its
triggers: it stores the source and the passages, moves the active set and enqueues
the passages. `CurrentInputs` is what is to be embedded for a memory, `Searched` what
`search_exact_semantic_candidates` would rank of it. `skipped` is history: memories whose
collection was withdrawn while a generation was selected, for which nothing was
enqueued. `Interventions` bounds what the operator does in a run.

`Fresh`: workers name a job by its id, which is random, and here the input and generation
stand for that id. A revision's identifier is random too; those of a set and its passages
are chosen by whoever calls `activate_document_extraction` (0001:979). Either may come back
in the model once it was purged, but not while a worker still holds a claim of that name:
the new job has another id, so the old claim means nothing to it.

`Readiness` goes through the branches of `0004:48-110` in their order. Its first answer,
`extraction_not_ready`, is there but no run reaches it: `activate_document_extraction`
stores the source and its active set together, and only trusted inserts, as in the tests,
make a source without a set.

### JobTransactions

`EmbeddingJobs` takes a write, an activation and a selection as one step each. Here they
are taken apart, since what a trigger sees depends on what was committed when it ran
(READ COMMITTED). A transaction takes the tenant row (`TakeTenantRow`), its trigger reads
and inserts (`Ask`), then it commits, which is when others see what it stored and the jobs
(`Commit`). It may end in a rollback anywhere (`Rollback`). `create_private_memory`,
`correct_private_memory` and `activate_document_extraction` take the row before they decide
anything; a selection writes its own row of `active_embedding_generations` first, and its
trigger takes the tenant row (`UpsertGeneration`): between the two, others run, and the
new selection is not visible to them. A second selection waits for the row of the first.

The conditions of a call are all checked under the row, and merged into `TakeTenantRow`. The
times of a job are taken at the commit, a little later than in the code. What else
takes the tenant row (forget, purge, claim, complete, the operator) is one step at a moment
when the row is free (`Beside`); failing and cancelling lock their job only and are not held
up. Without the row (`RowFree` always true) a revision written while a generation is being
selected is left without a job, and a selection inserts jobs for a memory purged meanwhile.

### ReadSessions

A session is one read or search: `arrived`, `planning` (authenticated, the semantic plan
is being made in a transaction of its own), `planned`, `found` (rows read, tenant row
shared, audit staged), `packing` (a token worker counts), `packed`, then `answered`,
`failed` or `lost`. `share` is the set of sessions that hold the tenant row FOR SHARE:
mutations and operators need `RowFree`. `workers` is separate from the sessions because a
blocking task, and its permit, outlives a future that is dropped. `Fail` is the error
path of an attempt with the one fallback `permits_semantic_fallback` allows, which
starts again from `planned` under the same request id. `read_audit` is keyed by request id.

Abstracted: a search shows everything the reader may see (ranking and packing are
`EvidencePacking`'s); validity intervals and subject scopes are left out; readiness,
computed in `EmbeddingJobs`, changes here to any value whenever no reader shares the
row, and from pending to failed at any time, since failing a job takes no tenant row.
This allows more than the jobs do, so what holds here holds for them.

One corner met while modelling, and spelled out in `AnswersAudited`: when the first
attempt of a semantic search commits unheard and the credential is revoked before the
fallback looks, the client is answered `unauthenticated` while a `released` row with its
request id stays in the audit. Nothing was released to it; the audit errs on the safe side.

### ListCursor

A page is selected (with one candidate more than it shows), draws a token and takes the
slot of its principal, app and kind if there is more to come, and commits. `Open` pages
share the tenant row; the upsert waits for the page that changed the slot last
(`SlotFree`). A client's record remembers its walk (`seen`, `steady`: the ids listed all
along), which is history. `issued` is history too: the rows drawn, by token. Items come
and go by validity intervals even while a page shares the row (`Change`). `Candidates`
states what `ORDER BY id LIMIT limit + 1` returns: ids in order, before every id left out.

### EvidencePacking

A row has its kind, its source and passage, the passages it continues, and its content
as a length with the offsets of character boundaries. `Taken` is what `ExcerptBudget`
gives a row, `Admit` what an accepted row changes in the maps, and the token actions are
`Work` with a tokenizer that may count a text to anything. Every refusal is an action,
so the order of checks is that of the code.

## 3. The runs

All runs set CHECK_DEADLOCK FALSE: identifiers, sessions and the clock are bounded, so
a behaviour of the model ends when they are used up; the service itself goes on.

| run | states | question |
|---|---|---|
| `memory_lifecycle` | 165 505 | table invariants, finality of forgetting, refinement of `MemoryPromise` |
| `authority` | 219 300 | order of mutations and revocations, separation of owners, withdrawal |
| `mutation_requests` | 1 083 932 | three concurrent requests with every failure: true answers, converging retries, atomic calls |
| `requests_live` | 109 208 | the tenant row comes free again |
| `embedding_jobs` | 2 419 430 | leases, fencing, publication |
| `job_transactions` | 891 392 | two transactions, statement by statement, of writes, extractions and selections, against all the rest: no lost intent; passages, readiness and search agree |
| `jobs_settle` | 70 688 | every job ends, readiness settles |
| `read_sessions` | 1 230 004 | one read or search of each kind against writer, operator, generations and failures: true at commit, audited |
| `token_workers` | 39 296 | three searches for two permits: permits and the shared row come back |
| `list_cursor` | 3 173 909 | two clients race for one reader's cursors: cursors resume their pages, walks are complete |
| `evidence_packing` | 507 642 | all sequences of up to five rows: limits hold together, truncation is reported |
| `forget_stops_jobs` | violation | the design's claim that forget stops matching jobs in its transaction |

Bounds, and why they suffice for the cases meant:

- `memory_lifecycle`: two items and three revisions allow create, correct, forget and a
  second item beside it; one key makes every further request of the same operation a
  replay or conflict until the record, with TTL 1 of 3 instants, expires and the key is
  used afresh; Lag 1 makes transactions commit after the instant they read; the second
  credential shares the first one's keys and expires under way. No operator steps.
- `authority`: three collections (two of alice, so that withdrawal moves her creates, one
  of bob) and three operator steps, enough for withdraw, restore and revoke in any
  order around any mutation. TTL and history are as small as possible here.
- `mutation_requests`: three sessions give an original, its retry and an interfering
  request; one item and two revisions suffice for each conflict between them; one
  payload, so that conflicts of digest come from item and expected revision; two
  operator steps. Sessions, items and revisions are symmetric.
- `requests_live`: two sessions (the row and one who waits), no symmetry since it is a
  liveness run; a second payload that is refused.
- `embedding_jobs`: one item, two revisions and two generations make four jobs; two
  attempts and deadline 2 let a lease expire, be renewed, and a job fail by attempts and
  by deadline; writes and selections stop at instant 1 of 3. No documents and no
  restored collections here: they are in `job_transactions`.
- `job_transactions`: two transactions are what can overlap, any two of write, activation
  and selection; one item and two revisions, so that a set can be activated before or
  after a correction; two sets of one source, one of two passages, so that one extraction
  replaces another, and a document can be embedded in part; one generation, selected once,
  before, after or during anything else. One attempt and a clock that stands still, since
  what time does to a job is the same for passages and is in `embedding_jobs`.
  Transactions and revisions are symmetric. With `RowFree` always true each of its three
  invariants is violated.
- `jobs_settle`: one revision and an extraction of one passage, so that two jobs wait for
  one poll, and every intervention, so that they are stopped as stale; one generation, which
  may be selected twice; all writes at instant 0, two attempts and deadline 2, so that a lease
  expires and is renewed, clock up to 4, later than every deadline and retry. A correction
  closes jobs by the same statement as a withdrawal, and is in the other two runs.
- `read_sessions`: one session, for readers change nothing that another one looks at but
  their own audit row, the permits and the shared row, which `token_workers` covers; one
  item, two revisions (create and correct) and one forget; two generations, three operator
  steps (withdraw, restore, revoke or deactivate), one instant at which the reader's
  credential expires. Generations are symmetric.
- `token_workers`: two permits as in the code, a third session that is refused; no
  memories and no clock, which the permits do not depend on. No symmetry: a liveness run.
- `list_cursor`: two clients of one reader, whose slots no other reader touches; five
  items make three pages of two, so that a walk is resumed twice and its last page is
  short; one item that comes and goes in the middle of the second page; one collection; TTL 1
  lets a cursor expire; three tokens let one client overwrite the other's cursor twice.
- `evidence_packing`: 12 items become 3, 4 per source become 2, 82 rows and 83 counts
  become 4 and 5, the 512 bytes of an excerpt become 3, in the same order as in the code.
  Six shapes of rows: two direct passages, one of which is reached semantically too, a
  continuation of the other, and memories longer than an excerpt, and of one three-byte
  character.

Fairness:

- `FairReads`: weak fairness of `Advance` and `EndWorker` of each session, that is, of
  handlers, which the runtime polls until they answer, and of the blocking task, whose
  loop over at most 82 rows is finite. Nothing is assumed of clients, who may hang up
  anywhere, nor of writers. The specification of `list_cursor` and `evidence_packing` has
  no fairness: their properties are about safety.
- `RequestsSpec`: weak fairness of the steps of each handler. The runtime polls every
  future that is ready, and every statement ends, by its result or by the statement or
  lock timeout the handler sets. Nothing is assumed of clients, operators or the clock.
- `EmbeddingJobs!Spec`: weak fairness of the clock and of `ClaimUnhindered`: some worker
  keeps polling and, now and then, finds no row locked. No fairness of any completion:
  every lease holder may be dead.

`ReadinessSettles` has two explicit exceptions, and one that lies outside the model. A job stopped as stale is not enqueued
again when its input becomes current again (generation selected again, owner
reactivated, collection restored), since the insert does nothing on conflict; readiness
stays pending then. And a memory whose collection was withdrawn while a generation was
selected has no job when the collection is restored, until it is written again or the
generation is selected once more (`skipped`, which `NoLostIntent` and `ReadinessHonest`
name too). Outside the model are restricted collections: readiness counts those granted to
the reader (0004:50-53), while no trigger enqueues a job for their memories (0002:138,
0002:184), so a reader who was granted an indexed one stays `pending` for ever. `Eligible`
keeps private memories only, and neither restricted collections nor validity intervals
and subject conditions (0004:48-62) are in it. No document promises otherwise, so all
three are stated as what the code does and not as findings.

Each property of a passing run has a mutant: a definition of the section "Faults" of its
module, which replaces the definition it is named after by a plausible mistake and
breaks the property.

### Finding

`forget_stops_jobs`: `forget_private_memory` does not touch `embedding_jobs`, while the
design document (line 131) says that forget "stops matching jobs" in its transaction.
The jobs stay open until a claim or a completion finds their item deleted, or the purge
removes them. Claims recheck the item, so no content leaves the database through it
(`PublishedWhileCurrent`, `NothingOutlivesItem` hold); the divergence is in when the job
is stopped.

## 4. Proofs

Every invariant and every action property a passing run checks is also proved, and that
revisions are immutable (`RevisionsImmutable`), which no run repeats: for any number of
owners, credentials, keys, items, revisions, sessions, workers, generations, clients, rows
and permits, any clock, and any limits. TLC shows beside it that the formulas are not vacuous
(each has a mutant that breaks it), that the actions can all happen, and liveness.

Assumptions, all stated in the modules and evaluated by the runs:

- shapes of the constants: `ConstantTypes` (of `MemoryLifecycle` and of `EmbeddingJobs`),
  `RequestsAreShaped`, `ReadersTyped`, `ListTyped` (page sizes are 1 to 100, ids are
  finitely many), `RowsAreRows`, `LimitsConfigured` (one more count than rows),
  `RequestsValidated`;
- the value for NULL is no value: `NoneIsNoValue`, `NoneIsNoRow`, `NoneIsNoSession`,
  `NoneIsNoEpoch`;
- a revision is no passage: `InputsAreDistinct` (they are different columns).

What the models themselves take for granted is said above: identifiers do not repeat,
digests do not collide, a function is one step wherever it is not taken apart
(`MutationRequests`, `JobTransactions`).

| theorem | property | rests on |
|---|---|---|
| `TypeCorrect` | `TypeOK` | each row built by a function has its table's type |
| `OncePerKey`, `ReceiptsAreTrue` | `OneEffectPerKey`, `ReceiptNamesItsEffect` | `KeysInv` |
| `MutationsAreOrdered` | `OneTotalOrder` | `TypeOK`, `EpochStep` |
| `UpdatesAreNotLost`, `ServingIsIntact`, `DeletionIsAgreed`, `PurgeIsFinal`, `OwnersAreApart` | `LinearHistory`, `ServingIntact`, `DeletionAgrees`, `NothingOutlivesPurge`, `OwnersKeepApart` | `HistoryInv` |
| `ForgottenStays`, `WithdrawnStays` | `ForgottenForever`, `WithdrawnFrozen` | `TypeOK`, `StepCases` |
| `RevisionsStay` | `RevisionsImmutable` | `HistoryInv` |
| `TablesKeepThePromise` | `KeepsPromise` | `HistoryInv` |
| `TransactionsAreAtomic` | `CallsAreAtomic` | `RequestsInv` |
| `ServiceKeepsThePromise` | `KeepsPromise` | the two refinements above |
| `RequestsTypeCorrect`, `AnswersAreTrue`, `RetriesAgree` | `RequestsTypeOK`, `AnswersHold`, `RetriesConverge` | `AnswersInv`, `KeysInv` |
| `ReceiptsAreDiscreet` | `ReceiptsHideForgotten` | `RequestsInv` |
| `ReadersOnlyRead` | `Spec` of `MemoryLifecycle` | step by step |
| `PermitsSuffice`, `AnswersAreAudited`, `AnswersAreTrueAtCommit` | `ReadsTypeOK`, `AnswersAudited`, `TrueAtCommit` | `ReadsInv` |
| `JobsTypeCorrect`, `LastLeasePublishes`, `LeasesExclude`, `PurgeTakesWorkAlong`, `IntentIsDurable`, `ReadinessIsHonest`, `PublishesTheCurrent` | `JobsTypeOK`, `PublishedByLastLease`, `OneWorkerAtATime`, `NothingOutlivesItem`, `NoLostIntent`, `ReadinessHonest`, `PublishedWhileCurrent` | `JobsInv` |
| `TransactionsImplementJobs`, `InterleavedIntentIsDurable` | `Spec` of `EmbeddingJobs`, `NoLostIntent` | `TransactionsInv`, `JobsInv` |
| `CursorsTypeCorrect`, `CursorsResumeTheirPages`, `WalksAreComplete` | `CursorsTypeOK`, `CursorResumesItsPage`, `WalkIsComplete` | `CursorInv` |
| `PackTypeCorrect`, `LimitsHold`, `SourcesStayApart`, `OmissionsAreReported`, `CountsAreEnough` | `PackTypeOK`, `WithinLimits`, `SourceRules`, `TruncationHonest`, `CountsSuffice` | `PackInv` |

That the inductive invariants hold are theorems of their own (`PlansStayTrue`,
`AnswersAreKept`, `JobsAreKept`, `FindingsStayTrue`, `WalksStandWhereTheySay`,
`BooksAreKept`).

### Memories

`OneEffectPerKey` is not inductive: that a key is found free says how old its last effect
is only if its record is the receipt of that effect. `KeysInv` adds this
(`ReceiptNamesItsEffect`) and that a used key never loses its record, expired or not
(`KeysRemembered`: the reservation of an expired key replaces the record in the same
transaction). The heart is `FreeKeyIsOld`.

`HistoryInv` joins the table properties with two facts: a purge job names a row of the
audit (`JobsAudited`), and what is stored was issued by one (`StoredIsAudited`). They need
one another: a correction is linear because the served revision is that of the item's
latest mutation (`ServingIntact`); this survives other items' mutations because a fresh
identifier is none that the audit names; content disappears with its item because item,
marker and job agree.

Three lemmas reduce the cases. `TypeStep`: a step keeps the types. `EffectStep`: audit and
receipts change only in a mutation whose writer was entitled and whose key was free.
`StepCases`: a step saves a revision (create or correct), forgets an item, purges one, or
leaves items, content, deletion, audit and receipts alone. Then each invariant has one
lemma per case, with one step per conjunct. The refinement uses the same four cases: saving
is `Save` or `Revise`, the last case a tick or a stutter.

### Mutation requests

A session decides in one step and writes in a later one, onto the tables as they are then.
That this is one atomic call rests on `RequestsInv`: the row is held by exactly the session
that works under it (`RowInv`), and what it staged is still what its function would decide
(`PlanHolds`), at the instant it read. Everything `PlanHolds` names changes only under the
row; only the clock moves. So each commit is an action of `MemoryLifecycle`, every theorem
about the tables holds under concurrent handlers, and with `TablesKeepThePromise` the
service keeps what the memory promises its clients (`ServiceKeepsThePromise`).

`AnswersInv` says of each session what is known at its stage (`Told`): no effect before the
commit, a true answer after it, and a rejection only of what is answered so. That two answers
converge is then `OneEffectPerKey` of the operations they name.

### Reads and searches

`FoundHolds` is why a reader's answer is true at its commit: what it looked up is what its
reader may see for as long as it shares the row, because whatever changes that needs the row.
`Trail` says how a request id's audit row can be there before its answer: the first attempt of
a semantic search committed unheard and fell back, once. `HeldInv` relates permits and the
shared row to the stages. `ReadersOnlyRead`: beside readers the tables take only steps of
`MemoryLifecycle`.

### Jobs

`JobsInv` has a part per job: its claims are numbered in their order and do not overlap
(`Sequenced`, `InOrder`), a leased row knows its latest claim and a waiting row has none
running (`Fenced`), and a vector is the last attempt's (`Published`); so that of all the
answers a job may get only the last lease's counts.
`StoreInv` and `WorkStored` tie sources, sets, jobs and vectors to stored revisions.
`NoLostIntent` is lost when a collection is withdrawn and comes back; `IntentInv` carries
through that the withdrawn items have their jobs too, unless they were skipped.

`JobsInv` is inductive only because names do not return. Were a purged revision's name
used again while a worker still held a claim of that name, the claim would be one of the
new job too, with an attempt and a lease that job never had. In the code the new job has
another random id, so `Fresh` excludes it where revisions and passages are stored.

The transactions of `JobTransactions` are atomic by `TransactionsInv`: at most one has the
tenant row, and what its trigger asked for is what it would ask for now. This is stable (`AskingIsStable`) because the selected generation, the
revisions and the sets change only under the row, and what other steps change beside it
(a job that fails or is cancelled, the clock) is not looked at. So a commit is
`WriteRevision`, `ActivateExtraction` or `SelectGeneration`, every other step of a
transaction a stutter (`TransactionsImplementJobs`), and what is proved of `EmbeddingJobs`
holds of interleaved transactions; `InterleavedIntentIsDurable` spells that out for the
intent. No run repeats `TransactionsAreAtomic`: `job_transactions` checks the invariants it
carries over.

### Cursors

`CursorInv` follows each walk. `Met`: up to the position of its cursor, the client heard all
that was listed all along, and nothing behind it; `PageGoesOn`: the page selected leaves out
nothing steady but what lies behind its last candidate; `StoredInv`: the row a page stored is
newer than the committed one, because no other page may change the slot meanwhile (`SlotInv`).
So the cursor a client heard is the committed one, or was overwritten by a later token.
`CandidatesHold` is the property of the query the argument needs: a page that ended before its
limit is the image of an injection between sets of one size, so it holds every id.

### Packing

`PackInv` has a ledger: the bytes left after each item, of which `WithinLimits` is the last
entry. The ledger is a function defined by recursion; that there is just one is induction
in the form of a least counterexample (`LeastNatural`, from the well-foundedness of `<`).
The maps of sources are exactly the passages among the items (`SourcesInv`), a text is
counted per row passed and once more for the envelope (`CountsInv`), and as long as nothing
was cut every row passed is shown whole (`WholeInv`).

### Only model-checked

- Liveness: `RowIsReleased`, `EveryJobSettles`, `ReadinessSettles`, `HeldIsReleased`. The
  prover has no ENABLED, hence no weak fairness.
- That a query returns a page at all: `Candidates` is proved to have the page's properties,
  that it is never empty is seen only in the runs (it is an induction over the ids). Were
  it empty, `Select` would be disabled and the walks of `list_cursor` would never end.
- `ForgetStopsJobs`, which does not hold.

## 5. Not modelled, and the plan

Not modelled:

- text search, ranking scores and vector distance: data, not control; a search is what
  may be ranked. The pack order of migrations 0010 to 0018 is a sort over such scores.
- header, JSON and identifier validation: pure predicates on bytes. Their result is a
  choice (`malformed`) in the sessions.
- row-level security policies and grants: static configuration PostgreSQL enforces.
- `eligible_source_passages` and the checks of an extraction's envelope: predicates on
  arrays of text.
- several tenants in one claim, and the number of tenants a claim looks at: one tenant
  per module. Nothing is shared between tenants but that limit.
- restricted collections: the mutation functions write private ones only and no job is
  ever enqueued for them, with the consequence for readiness named in section 3.
- the status of the lexical preparation, and the answer of `search_memories` when it is
  refused (`lib.rs:573-586`): no property depends on it.
- the migration script: installation and detection by function text; its crash and rerun
  are listed as a hazard without a property.
- benchmarks, fixtures and tracing: they keep no state of the service.

Theorems planned:

1. A readers' form of `ServiceKeepsThePromise`, with handlers and readers in one
   specification, so that the shared and the exclusive row meet.
2. That the jobs are an instance of what `ReadSessions` takes readiness to do.
3. What a lease promises a worker, as an abstract specification that `EmbeddingJobs`
   implements: one holder, a bounded number of attempts, one result.

Models planned: the pack order as a pure operator over ranks; the migration script as a
sequence of steps that may be interrupted.
