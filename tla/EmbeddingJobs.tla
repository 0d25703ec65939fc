---------------------------- MODULE EmbeddingJobs ----------------------------
(***************************************************************************)
(* The semantic side of one application's private memories: the embedding    *)
(* jobs that triggers enqueue when a revision is indexed, a document is        *)
(* extracted or a generation is selected, the leases under which workers hold   *)
(* them, what a semantic search may rank and what readiness tells it            *)
(* (migrations/0002, 0003 and 0004, and the extraction sets of 0001).          *)
(*                                                                         *)
(* Workers are outside the repository: all it knows of them is the claims it  *)
(* handed out, any of which may be answered at any time, late or repeatedly,  *)
(* or never.  claim_embedding_jobs holds the tenant row FOR SHARE, the        *)
(* completion holds it FOR UPDATE: each is one action.                       *)
(***************************************************************************)
EXTENDS Integers, FiniteSets

CONSTANTS
  Items, Revisions, Generations,
  Sets,           \* extraction sets an operator may activate
  SourceOf,       \* set -> source revision it was extracted from
  PassageCount,   \* set -> number of its passages
  Interventions,  \* bound: what the operator does
  MaxAttempts,    \* max_attempts, 3 in the code
  Deadline,       \* life of a job, 10 minutes
  Leases,         \* lease lengths a worker may ask for
  Backoff,        \* attempt -> delay of the retry after that attempt
  ClaimLimit,     \* p_limit
  LastWrite,      \* bound: last instant at which jobs are created
  ClockLimit,     \* bound: last instant of the clock
  SelectionLimit, \* bound: generation selections
  None

ASSUME ConstantTypes ==
  /\ MaxAttempts \in Nat \ {0}
  /\ Deadline \in Nat \ {0}
  /\ Leases \subseteq Nat \ {0}
  /\ Backoff \in [1..MaxAttempts -> Nat]
  /\ ClaimLimit \in Nat \ {0}
  /\ {LastWrite, ClockLimit, SelectionLimit} \subseteq Nat
  /\ PassageCount \in [Sets -> Nat \ {0}] /\ DOMAIN SourceOf = Sets
  /\ Interventions \subseteq {"withdraw", "restore", "switch"}
  /\ None \notin Revisions \cup Generations \cup Sets \cup {SourceOf[x] : x \in Sets}
  /\ None \notin Items \cup Nat

PassagesOf(x) == {<<x, n>> : n \in 1..PassageCount[x]}
Passages == UNION {PassagesOf(x) : x \in Sets}

\* What is embedded: a revision as a whole, and each passage of its document.
Inputs == Revisions \cup Passages
Jobs == Inputs \X Generations

VARIABLES
  now,
  active_revision,  \* item -> its active revision, None before create and after forget
  item_of,          \* revision -> item it is stored for, or None
  deleted,          \* forgotten items
  source_revisions, \* revision -> its source, or None
  extraction_sets,  \* set -> revision it is stored for with its passages, or None
  active_extraction_sets, \* revision -> set its searches use, or None
  withdrawn,        \* items whose collection is withdrawn
  owner_active,     \* the owner's principal is active
  selected,         \* active_embedding_generations, or None
  selections,       \* number of selections (bound only)
  skipped,          \* history: items withdrawn when the generation was selected
  embedding_jobs,   \* job -> row, or None
  embedding_representations, \* job -> [attempt, at] that published it, or None
  claims            \* leases handed to workers: a history

memory == <<active_revision, item_of, deleted>>
authority == <<withdrawn, owner_active>>
documents == <<source_revisions, extraction_sets, active_extraction_sets>>
choice == <<selected, selections, skipped>>
work == <<embedding_jobs, embedding_representations, claims>>
vars == <<now, memory, documents, authority, choice, work>>

Terminal == {"failed", "cancelled", "stopped_stale", "complete"}
JobRows == [status : {"pending", "leased", "retry"} \cup Terminal,
            attempt : 0..MaxAttempts, available_at : Nat, lease_expires_at : Nat \cup {None},
            deadline_at : Nat]
Claims == [job : Jobs, attempt : 1..MaxAttempts, from : Nat, until : Nat]
Vectors == [attempt : 1..MaxAttempts, at : Nat]

ASSUME NoneIsNoRow == None \notin JobRows \cup Vectors

\* A job names either a revision or a passage: they are different columns.
ASSUME InputsAreDistinct == Revisions \cap Passages = {}

Init ==
  /\ now = 0
  /\ active_revision = [i \in Items |-> None]
  /\ item_of = [r \in Revisions |-> None]
  /\ deleted = {} /\ withdrawn = {} /\ owner_active = TRUE
  /\ source_revisions = [r \in Revisions |-> None]
  /\ extraction_sets = [x \in Sets |-> None]
  /\ active_extraction_sets = [r \in Revisions |-> None]
  /\ selected = None /\ selections = 0 /\ skipped = {}
  /\ embedding_jobs = [j \in Jobs |-> None]
  /\ embedding_representations = [j \in Jobs |-> None]
  /\ claims = {}

-----------------------------------------------------------------------------
(* Where inputs belong.                                                    *)

RevisionOf(input) == IF input \in Revisions THEN input ELSE extraction_sets[input[1]]

ItemOf(input) == IF RevisionOf(input) = None THEN None ELSE item_of[RevisionOf(input)]

\* What should be embedded for an item: its revision and its active passages.
CurrentInputs(i) ==
  LET r == active_revision[i] IN
  {r} \cup IF active_extraction_sets[r] = None THEN {} ELSE PassagesOf(active_extraction_sets[r])

-----------------------------------------------------------------------------
(* Faults.                                                                 *)

CloseKeepingLease(j, status) == [embedding_jobs[j] EXCEPT !.status = status]

EnqueueCreatedOnly(inputs) ==
  embedding_jobs' =
    [j \in Jobs |->
       IF /\ j[1] \in inputs \cap Revisions /\ selected = j[2] /\ embedding_jobs[j] = None
          /\ \A r \in Revisions : item_of[r] # None => item_of'[j[1]] # item_of[r]
       THEN [status |-> "pending", attempt |-> 0, available_at |-> now,
             lease_expires_at |-> None, deadline_at |-> now + Deadline]
       ELSE embedding_jobs[j]]

ClaimableThoughLeased(j) ==
  embedding_jobs[j] # None /\ embedding_jobs[j].status \in {"pending", "retry", "leased"}

FenceWithoutAttempt(c) ==
  /\ embedding_jobs[c.job] # None
  /\ embedding_jobs[c.job].status = "leased"
  /\ embedding_jobs[c.job].lease_expires_at > now

ExhaustedByLeaseOnly(j) ==
  /\ embedding_jobs[j] # None
  /\ embedding_jobs[j].status = "leased" /\ embedding_jobs[j].lease_expires_at <= now
  /\ embedding_jobs[j].attempt >= MaxAttempts

CurrentThoughUnselected(j) ==
  LET i == ItemOf(j[1]) IN
  /\ i # None
  /\ active_revision[i] = RevisionOf(j[1]) /\ i \notin deleted
  /\ i \notin withdrawn /\ owner_active

CurrentThoughReplaced(j) ==
  LET i == ItemOf(j[1]) IN
  /\ i # None
  /\ active_revision[i] = RevisionOf(j[1]) /\ i \notin deleted
  /\ i \notin withdrawn /\ owner_active
  /\ selected = j[2]

RevisionsServed(i) == {active_revision[i]} \ {None}

EraseKeepingSets(i) ==
  /\ item_of' = [r \in Revisions |-> IF item_of[r] = i THEN None ELSE item_of[r]]
  /\ embedding_jobs' = [j \in Jobs |-> IF ItemOf(j[1]) = i THEN None ELSE embedding_jobs[j]]
  /\ embedding_representations' =
       [j \in Jobs |-> IF ItemOf(j[1]) = i THEN None ELSE embedding_representations[j]]
  /\ UNCHANGED documents

-----------------------------------------------------------------------------
(* Durable intent: jobs are enqueued by triggers, inside the transaction     *)
(* that stores the revision or selects the generation.                       *)

NewJob(t) ==
  [status |-> "pending", attempt |-> 0, available_at |-> t, lease_expires_at |-> None,
   deadline_at |-> t + Deadline]

\* INSERT ... ON CONFLICT DO NOTHING: one job per input and generation, ever.
InsertJobs(asked) ==
  embedding_jobs' = [j \in Jobs |->
    IF j \in asked /\ embedding_jobs[j] = None THEN NewJob(now) ELSE embedding_jobs[j]]

EnqueueFor(inputs, g) == InsertJobs({j \in Jobs : j[1] \in inputs /\ j[2] = g})

\* Triggers lexical_embedding_intent and passage_embedding_intent: the new row asks
\* for its embedding under the selected generation, if there is one.
Enqueue(inputs) == EnqueueFor(inputs, selected)

\* A worker names a job by its id, which is random.  Here the input stands for it, so
\* none comes back, not even after a purge, while a worker still knows it.
Fresh(inputs) == \A c \in claims : c.job[1] \notin inputs

\* create_private_memory and correct_private_memory as far as they concern jobs: the
\* condition, what they store, and with the triggers the jobs they ask for.
Writable(i, r) ==
  /\ now <= LastWrite
  /\ i \notin deleted /\ i \notin withdrawn /\ owner_active
  /\ item_of[r] = None /\ Fresh({r})

StoreRevision(i, r) ==
  /\ Writable(i, r)
  /\ active_revision' = [active_revision EXCEPT ![i] = r]
  /\ item_of' = [item_of EXCEPT ![r] = i]
  /\ skipped' = skipped \ {i}
  /\ UNCHANGED <<now, deleted, documents, authority, selected, selections,
                 embedding_representations, claims>>

WriteRevision(i, r) == StoreRevision(i, r) /\ Enqueue({r})

\* activate_document_extraction: the source of a revision never changes, a new set
\* of its passages replaces the one its searches used.
Extractable(i, x) ==
  LET r == active_revision[i] IN
  /\ now <= LastWrite
  /\ r # None /\ i \notin deleted /\ i \notin withdrawn
  /\ extraction_sets[x] = None /\ Fresh(PassagesOf(x))
  /\ source_revisions[r] \in {None, SourceOf[x]}

StoreExtraction(i, x) ==
  LET r == active_revision[i] IN
  /\ Extractable(i, x)
  /\ source_revisions' = [source_revisions EXCEPT ![r] = SourceOf[x]]
  /\ extraction_sets' = [extraction_sets EXCEPT ![x] = r]
  /\ active_extraction_sets' = [active_extraction_sets EXCEPT ![r] = x]
  /\ UNCHANGED <<now, memory, authority, choice, embedding_representations, claims>>

ActivateExtraction(i, x) == StoreExtraction(i, x) /\ Enqueue(PassagesOf(x))

\* forget_private_memory: embedding_jobs is not among the tables it writes.
ForgetItem(i) ==
  /\ active_revision[i] # None /\ i \notin withdrawn /\ owner_active
  /\ active_revision' = [active_revision EXCEPT ![i] = None]
  /\ deleted' = deleted \cup {i}
  /\ UNCHANGED <<now, item_of, documents, authority, choice, work>>

\* Deleting a revision cascades to its source, sets, passages, jobs and vectors.
EraseItem(i) ==
  LET gone == {r \in Revisions : item_of[r] = i} IN
  /\ item_of' = [r \in Revisions |-> IF r \in gone THEN None ELSE item_of[r]]
  /\ source_revisions' = [r \in Revisions |-> IF r \in gone THEN None ELSE source_revisions[r]]
  /\ extraction_sets' =
       [x \in Sets |-> IF extraction_sets[x] \in gone THEN None ELSE extraction_sets[x]]
  /\ active_extraction_sets' =
       [r \in Revisions |-> IF r \in gone THEN None ELSE active_extraction_sets[r]]
  /\ embedding_jobs' = [j \in Jobs |-> IF ItemOf(j[1]) = i THEN None ELSE embedding_jobs[j]]
  /\ embedding_representations' =
       [j \in Jobs |-> IF ItemOf(j[1]) = i THEN None ELSE embedding_representations[j]]

\* process_forget_purge.
PurgeItem(i) ==
  /\ i \in deleted /\ \E r \in Revisions : item_of[r] = i
  /\ EraseItem(i)
  /\ UNCHANGED <<now, active_revision, deleted, authority, choice, claims>>

Served(i) == IF active_revision[i] = None THEN {} ELSE CurrentInputs(i)

\* The operator's upsert of active_embedding_generations.  To select the selected
\* generation again is an update too, and makes up for what an earlier one skipped.
ChooseGeneration(g) ==
  /\ selections < SelectionLimit /\ now <= LastWrite
  /\ selected' = g /\ selections' = selections + 1
  /\ skipped' = IF "restore" \notin Interventions THEN {}
                ELSE withdrawn \cap IF selected = g THEN skipped ELSE Items
  /\ UNCHANGED <<now, memory, documents, authority, embedding_representations, claims>>

\* Trigger selected_embedding_generation_intent: what is served of an unwithdrawn
\* collection, whether or not its owner is active.
SelectGeneration(g) ==
  ChooseGeneration(g) /\ EnqueueFor(UNION {Served(i) : i \in Items \ withdrawn}, g)

-----------------------------------------------------------------------------
(* Leases.                                                                 *)

\* Waiting for a worker: never claimed, to be retried, or its lease is over.
Claimable(j) ==
  LET row == embedding_jobs[j] IN
  /\ row # None
  /\ \/ row.status \in {"pending", "retry"}
     \/ row.status = "leased" /\ row.lease_expires_at <= now

\* The job's input is still what is served, and its owner may still have it processed.
Current(j) ==
  LET i == ItemOf(j[1]) IN
  /\ i # None
  /\ active_revision[i] = RevisionOf(j[1]) /\ i \notin deleted
  /\ j[1] \in CurrentInputs(i)
  /\ i \notin withdrawn /\ owner_active
  /\ selected = j[2]

Exhausted(j) ==
  /\ Claimable(j)
  /\ \/ embedding_jobs[j].deadline_at <= now
     \/ embedding_jobs[j].status = "leased" /\ embedding_jobs[j].attempt >= MaxAttempts

Ready(j) ==
  /\ Claimable(j) /\ Current(j)
  /\ embedding_jobs[j].attempt < MaxAttempts
  /\ embedding_jobs[j].available_at <= now /\ now < embedding_jobs[j].deadline_at

Close(j, status) == [embedding_jobs[j] EXCEPT !.status = status, !.lease_expires_at = None]

Lease(j, length) ==
  [embedding_jobs[j] EXCEPT !.status = "leased", !.attempt = @ + 1,
     !.lease_expires_at = now + length]

\* claim_embedding_jobs: three statements that fail what is exhausted, stop what
\* is stale and lease what is ready, each up to the limit and each skipping rows
\* that another transaction has locked.  Nothing happens unless some waiting job
\* is available.  The content of the leased jobs leaves the database here.
ClaimJobs(failed, stale, leased, length) ==
  /\ \E j \in Jobs : Claimable(j) /\ embedding_jobs[j].available_at <= now
  /\ embedding_jobs' = [j \in Jobs |->
       IF j \in failed THEN Close(j, "failed")
       ELSE IF j \in stale THEN Close(j, "stopped_stale")
       ELSE IF j \in leased THEN Lease(j, length)
       ELSE embedding_jobs[j]]
  /\ claims' = claims \cup
       {[job |-> j, attempt |-> embedding_jobs[j].attempt + 1,
         from |-> now, until |-> now + length] : j \in leased}
  /\ UNCHANGED <<now, memory, documents, authority, choice, embedding_representations>>

Batches(S) == {B \in SUBSET S : Cardinality(B) <= ClaimLimit}
FullBatches(S) == {B \in Batches(S) : Cardinality(B) = ClaimLimit \/ B = S}

Claim ==
  \E failed \in Batches({j \in Jobs : Exhausted(j)}), length \in Leases :
    \E stale \in Batches({j \in Jobs \ failed : Claimable(j) /\ ~Current(j)}) :
      \E leased \in Batches({j \in Jobs : Ready(j)}) :
        /\ failed \cup stale \cup leased # {}
        /\ ClaimJobs(failed, stale, leased, length)

\* A call that finds no row locked.
ClaimUnhindered ==
  \E failed \in FullBatches({j \in Jobs : Exhausted(j)}), length \in Leases :
    \E stale \in FullBatches({j \in Jobs \ failed : Claimable(j) /\ ~Current(j)}) :
      \E leased \in FullBatches({j \in Jobs : Ready(j)}) :
        /\ failed \cup stale \cup leased # {}
        /\ ClaimJobs(failed, stale, leased, length)

\* The answer comes from the attempt that holds the lease, in time.
Fence(c) ==
  LET row == embedding_jobs[c.job] IN
  /\ row # None
  /\ row.status = "leased" /\ row.attempt = c.attempt
  /\ row.lease_expires_at > now

\* complete_embedding_job: publish, unless the input is no longer current; an
\* answer outside its lease changes nothing, except that past the deadline it
\* fails a job that is still open, whichever attempt sends it.
Complete(c) ==
  LET j == c.job
      row == embedding_jobs[j]
      live == Fence(c) /\ row.deadline_at > now
  IN
  /\ \/ /\ live /\ Current(j)
        /\ embedding_jobs' = [embedding_jobs EXCEPT ![j] = Close(j, "complete")]
        /\ embedding_representations' = [embedding_representations EXCEPT ![j] =
             IF @ = None THEN [attempt |-> c.attempt, at |-> now] ELSE @]
     \/ /\ live /\ ~Current(j)
        /\ embedding_jobs' = [embedding_jobs EXCEPT ![j] = Close(j, "stopped_stale")]
        /\ UNCHANGED embedding_representations
     \/ /\ ~live /\ row # None /\ row.status \notin Terminal /\ row.deadline_at <= now
        /\ embedding_jobs' = [embedding_jobs EXCEPT ![j] = Close(j, "failed")]
        /\ UNCHANGED embedding_representations
  /\ UNCHANGED <<now, memory, documents, authority, choice, claims>>

AfterFailure(j) == IF embedding_jobs[j].attempt < MaxAttempts THEN "retry" ELSE "failed"

\* fail_embedding_job; the worker that reports a failure gives its lease up.
Fail(c) ==
  /\ Fence(c)
  /\ embedding_jobs' = [embedding_jobs EXCEPT ![c.job] =
       [Close(c.job, AfterFailure(c.job)) EXCEPT !.available_at = now + Backoff[c.attempt]]]
  /\ claims' = (claims \ {c}) \cup {[c EXCEPT !.until = now]}
  /\ UNCHANGED <<now, memory, documents, authority, choice, embedding_representations>>

\* cancel_embedding_job.
Cancel(c) ==
  /\ Fence(c)
  /\ embedding_jobs' = [embedding_jobs EXCEPT ![c.job] = Close(c.job, "cancelled")]
  /\ UNCHANGED <<now, memory, documents, authority, choice, embedding_representations, claims>>

-----------------------------------------------------------------------------
(* The operator, outside src/: collections are withdrawn, some restored, the   *)
(* owner is deactivated and activated again.                                 *)

WithdrawCollection(i) ==
  /\ "withdraw" \in Interventions
  /\ i \notin withdrawn /\ withdrawn' = withdrawn \cup {i}
  /\ UNCHANGED <<now, memory, documents, owner_active, choice, work>>

RestoreCollection(i) ==
  /\ "restore" \in Interventions
  /\ i \in withdrawn /\ now <= LastWrite
  /\ withdrawn' = withdrawn \ {i}
  /\ UNCHANGED <<now, memory, documents, owner_active, choice, work>>

SwitchOwner ==
  /\ "switch" \in Interventions
  /\ now <= LastWrite
  /\ owner_active' = ~owner_active
  /\ UNCHANGED <<now, memory, documents, withdrawn, choice, work>>

Tick ==
  /\ now < ClockLimit /\ now' = now + 1
  /\ UNCHANGED <<memory, documents, authority, choice, work>>

Next ==
  \/ \E i \in Items : (\E r \in Revisions : WriteRevision(i, r)) \/ ForgetItem(i) \/ PurgeItem(i)
  \/ \E i \in Items, x \in Sets : ActivateExtraction(i, x)
  \/ \E g \in Generations : SelectGeneration(g)
  \/ Claim
  \/ \E c \in claims : Complete(c) \/ Fail(c) \/ Cancel(c)
  \/ (\E i \in Items : WithdrawCollection(i) \/ RestoreCollection(i)) \/ SwitchOwner
  \/ Tick

\* Time passes, and some worker keeps polling: nothing is assumed of the workers
\* that hold leases, they may all be dead.
Spec == Init /\ [][Next]_vars /\ WF_vars(Tick) /\ WF_vars(ClaimUnhindered)

-----------------------------------------------------------------------------
(* What a search is told (semantic_readiness) and may rank                   *)
(* (search_exact_semantic_candidates).                                      *)

\* The private memories of an active collection.  The query admits restricted ones too,
\* for which no trigger ever enqueues a job; and all of them are valid here, and in scope.
Eligible == {i \in Items \ withdrawn : active_revision[i] # None}

CurrentJobs == {j \in Jobs : \E i \in Eligible : j[1] \in CurrentInputs(i) /\ j[2] = selected}
WithStatus(S) == {j \in CurrentJobs : embedding_jobs[j] # None /\ embedding_jobs[j].status \in S}

Embedded(input) == embedding_representations[<<input, selected>>] # None

Readiness ==
  IF selected = None THEN "missing"
  ELSE IF \E i \in Eligible : /\ source_revisions[active_revision[i]] # None
                              /\ active_extraction_sets[active_revision[i]] = None
       THEN "pending"
  ELSE IF WithStatus({"failed", "cancelled"}) # {} THEN "failed"
  ELSE IF WithStatus({"pending", "leased", "retry"}) # {} THEN "pending"
  ELSE IF \E j \in CurrentJobs : ~Embedded(j[1]) THEN "pending"
  ELSE "ready"

\* A document is ranked by its active passages, once all of them are embedded, any
\* other memory as a whole.
Searched(i) ==
  LET r == active_revision[i]
      x == active_extraction_sets[r] IN
  {input \in IF x = None THEN {r} ELSE PassagesOf(x) :
     /\ Embedded(input)
     /\ x # None => \A p \in PassagesOf(x) : Embedded(p)}

-----------------------------------------------------------------------------
(* Properties                                                              *)

Open(j) == embedding_jobs[j] # None /\ embedding_jobs[j].status \notin Terminal

\* Rows are typed, and carry a lease exactly while they are leased: the CHECK of
\* the table, which a wrong step would turn into a failing call.
JobsTypeOK ==
  /\ now \in Nat
  /\ active_revision \in [Items -> Revisions \cup {None}]
  /\ item_of \in [Revisions -> Items \cup {None}]
  /\ deleted \subseteq Items /\ withdrawn \subseteq Items
  /\ \A r \in Revisions : active_extraction_sets[r] # None =>
       /\ extraction_sets[active_extraction_sets[r]] = r
       /\ source_revisions[r] = SourceOf[active_extraction_sets[r]]
  /\ selected \in Generations \cup {None}
  /\ embedding_jobs \in [Jobs -> JobRows \cup {None}]
  /\ claims \subseteq Claims
  /\ \A j \in Jobs : embedding_jobs[j] # None =>
       (embedding_jobs[j].status = "leased" <=> embedding_jobs[j].lease_expires_at # None)

\* A vector was published by the attempt that was leased last, within its lease
\* and the job's deadline, and exactly the complete jobs have one: a worker that
\* was overtaken, or answers late or twice, publishes nothing.
PublishedByLastLease ==
  \A j \in Jobs :
    LET vector == embedding_representations[j]
        row == embedding_jobs[j]
    IN
    /\ vector # None <=> row # None /\ row.status = "complete"
    /\ vector # None =>
         /\ vector.attempt = row.attempt /\ vector.at < row.deadline_at
         /\ \E c \in claims :
              /\ c.job = j /\ c.attempt = vector.attempt
              /\ c.from <= vector.at /\ vector.at < c.until

\* The content of one job is with at most one worker at a time, leaves at most
\* max_attempts times, and never once the deadline is over.
OneWorkerAtATime ==
  \A c \in claims :
    /\ c.attempt <= MaxAttempts
    /\ embedding_jobs[c.job] # None => c.from < embedding_jobs[c.job].deadline_at
    /\ \A d \in claims : c.job = d.job /\ c # d =>
         \/ c.attempt < d.attempt /\ c.until <= d.from
         \/ d.attempt < c.attempt /\ d.until <= c.from

\* Sources, passages, jobs and vectors exist only for stored revisions: a purge
\* takes them along, and no worker that still holds the content, nor a document
\* that is just being extracted, can bring one back.
NothingOutlivesItem ==
  /\ \A x \in Sets : extraction_sets[x] # None => item_of[extraction_sets[x]] # None
  /\ \A r \in Revisions :
       item_of[r] = None => source_revisions[r] = None /\ active_extraction_sets[r] = None
  /\ \A j \in Jobs :
       ItemOf(j[1]) = None => embedding_jobs[j] = None /\ embedding_representations[j] = None

\* Whatever the order of writes, extractions and selections, each served revision
\* and each passage of its active set has a job for the selected generation, so that
\* readiness never waits for work nobody asked for; except where a collection was
\* withdrawn during the selection and restored, until its item is written or the
\* generation selected once more.
NoLostIntent ==
  selected # None =>
    \A i \in Eligible \ skipped : \A input \in CurrentInputs(i) :
      embedding_jobs[<<input, selected>>] # None

\* Readiness and search are queries of two migrations, and they agree: ready means
\* that a search can rank every eligible memory, a document by all the passages of
\* its latest extraction and by nothing of a replaced one; and pending means that a
\* worker is still to come, or that the one that came found the input stale.
ReadinessHonest ==
  /\ Readiness = "ready" =>
       \A i \in Eligible :
         LET x == active_extraction_sets[active_revision[i]] IN
         Searched(i) = IF x = None THEN {active_revision[i]} ELSE PassagesOf(x)
  /\ Readiness = "pending" /\ Eligible \cap skipped = {} =>
       \E j \in CurrentJobs :
         embedding_jobs[j] # None /\ (Open(j) \/ embedding_jobs[j].status = "stopped_stale")

\* A vector appears only for the revision that is served at that instant, or a
\* passage of its active set, under the generation that is selected at that instant,
\* of an owner still allowed: a correction, forget, withdrawal, new extraction or
\* switch after the claim prevents it.
PublishedWhileCurrent ==
  [][\A j \in Jobs :
       embedding_representations[j] = None /\ embedding_representations'[j] # None =>
         /\ selected = j[2] /\ owner_active
         /\ \E i \in Eligible \ deleted : j[1] \in CurrentInputs(i)]_vars

\* Even if every worker dies, each job is closed or purged in the end.
EveryJobSettles == \A j \in Jobs : Open(j) ~> ~Open(j)

\* Readiness does not stay pending, except for a job that was stopped as stale and
\* whose input is current again (owner reactivated, generation selected again, a
\* collection restored), or of an item that was withdrawn during the selection.
ReadinessSettles ==
  <>[](Readiness = "pending" =>
         \/ \E j \in CurrentJobs : embedding_jobs[j] # None /\ embedding_jobs[j].status = "stopped_stale"
         \/ Eligible \cap skipped # {})

\* The design's account of forget: it "stops matching jobs" in its transaction.
ForgetStopsJobs ==
  [][\A j \in Jobs, i \in Items :
       i \in deleted' \ deleted /\ ItemOf(j[1]) = i =>
         embedding_jobs'[j] = None \/ embedding_jobs'[j].status \in Terminal]_vars
=============================================================================
