-------------------------- MODULE EmbeddingJobsProofs --------------------------
(***************************************************************************)
(* What holds of the embedding jobs for any number of items, revisions,      *)
(* generations, documents, attempts and workers: the leases keep workers      *)
(* apart, only the last one publishes, no intent is lost, nothing outlives     *)
(* its item, and readiness tells the truth.                                  *)
(***************************************************************************)
EXTENDS JobTransactions, TLAPS

-----------------------------------------------------------------------------
(* Types                                                                   *)

\* The tables, typed.
TypeInv ==
  /\ now \in Nat
  /\ active_revision \in [Items -> Revisions \cup {None}]
  /\ item_of \in [Revisions -> Items \cup {None}]
  /\ deleted \subseteq Items /\ withdrawn \subseteq Items /\ skipped \subseteq Items
  /\ owner_active \in BOOLEAN
  /\ source_revisions \in [Revisions -> {SourceOf[x] : x \in Sets} \cup {None}]
  /\ extraction_sets \in [Sets -> Revisions \cup {None}]
  /\ active_extraction_sets \in [Revisions -> Sets \cup {None}]
  /\ selected \in Generations \cup {None}
  /\ embedding_jobs \in [Jobs -> JobRows \cup {None}]
  /\ embedding_representations \in [Jobs -> Vectors \cup {None}]
  /\ claims \subseteq Claims

\* A passage belongs to its set alone, and is no revision.
LEMMA PassageTypes ==
  /\ \A x \in Sets : PassagesOf(x) \subseteq Passages
  /\ \A x \in Sets : \A p \in PassagesOf(x) : p[1] = x /\ p \notin Revisions /\ p \in Inputs
  /\ \A p \in Passages : p[1] \in Sets /\ p \in PassagesOf(p[1]) /\ p \notin Revisions
<1>1. \A x \in Sets : \A p \in PassagesOf(x) : p[1] = x
  BY DEF PassagesOf
<1>2. \A x \in Sets : PassagesOf(x) \subseteq Passages
  BY DEF Passages
<1>3. \A p \in Passages : \E x \in Sets : p \in PassagesOf(x)
  BY DEF Passages
<1> QED
  BY <1>1, <1>2, <1>3, InputsAreDistinct DEF Inputs

\* A job is an input together with a generation.
LEMMA JobTypes ==
  /\ \A j \in Jobs : j[1] \in Inputs /\ j[2] \in Generations /\ j = <<j[1], j[2]>>
  /\ \A input \in Inputs, g \in Generations : <<input, g>> \in Jobs
BY DEF Jobs

\* What closing, leasing and failing leave of a row.
LEMMA CloseRow ==
  ASSUME NEW j \in Jobs, NEW status \in Terminal \cup {"retry"}, embedding_jobs[j] \in JobRows
  PROVE  /\ Close(j, status) \in JobRows
         /\ Close(j, status).status = status /\ Close(j, status).lease_expires_at = None
         /\ Close(j, status).attempt = embedding_jobs[j].attempt
         /\ Close(j, status).deadline_at = embedding_jobs[j].deadline_at
<1>1. Close(j, status) \in JobRows
  BY DEF Close, JobRows
<1>2. /\ Close(j, status).status = status /\ Close(j, status).lease_expires_at = None
      /\ Close(j, status).attempt = embedding_jobs[j].attempt
      /\ Close(j, status).deadline_at = embedding_jobs[j].deadline_at
  BY DEF Close, JobRows
<1> QED
  BY <1>1, <1>2

\* The record a claim leaves is a leased job of the next attempt.
LEMMA LeaseRow ==
  ASSUME NEW j \in Jobs, NEW length \in Leases, now \in Nat,
         embedding_jobs[j] \in JobRows, embedding_jobs[j].attempt < MaxAttempts
  PROVE  /\ Lease(j, length) \in JobRows
         /\ Lease(j, length).status = "leased"
         /\ Lease(j, length).lease_expires_at = now + length
         /\ Lease(j, length).attempt = embedding_jobs[j].attempt + 1
         /\ Lease(j, length).deadline_at = embedding_jobs[j].deadline_at
<1>1. embedding_jobs[j].attempt + 1 \in 0..MaxAttempts /\ now + length \in Nat
  BY ConstantTypes DEF JobRows
<1>2. Lease(j, length) \in JobRows
  BY <1>1 DEF Lease, JobRows
<1>3. /\ Lease(j, length).status = "leased"
      /\ Lease(j, length).lease_expires_at = now + length
      /\ Lease(j, length).attempt = embedding_jobs[j].attempt + 1
      /\ Lease(j, length).deadline_at = embedding_jobs[j].deadline_at
  BY DEF Lease, JobRows
<1> QED
  BY <1>2, <1>3

\* The row a reported failure leaves.
FailedRow(c) == [Close(c.job, AfterFailure(c.job)) EXCEPT !.available_at = now + Backoff[c.attempt]]

\* The record a failed attempt leaves is a job: failed, or waiting for its retry.
LEMMA FailRow ==
  ASSUME NEW c \in Claims, now \in Nat, embedding_jobs[c.job] \in JobRows
  PROVE  /\ FailedRow(c) \in JobRows
         /\ FailedRow(c).status \in {"retry", "failed"} /\ FailedRow(c).lease_expires_at = None
         /\ FailedRow(c).attempt = embedding_jobs[c.job].attempt
         /\ FailedRow(c).deadline_at = embedding_jobs[c.job].deadline_at
<1> DEFINE closed == Close(c.job, AfterFailure(c.job))
<1>1. AfterFailure(c.job) \in {"retry", "failed"} /\ c.job \in Jobs
  BY DEF AfterFailure, Claims
<1>2. /\ closed \in JobRows /\ closed.status \in {"retry", "failed"}
      /\ closed.lease_expires_at = None
      /\ closed.attempt = embedding_jobs[c.job].attempt
      /\ closed.deadline_at = embedding_jobs[c.job].deadline_at
  BY <1>1, CloseRow DEF Terminal
<1>3. now + Backoff[c.attempt] \in Nat
  BY ConstantTypes DEF Claims
<1>4. FailedRow(c) = [closed EXCEPT !.available_at = now + Backoff[c.attempt]]
  BY DEF FailedRow
<1> HIDE DEF closed
<1> QED
  BY <1>2, <1>3, <1>4 DEF JobRows

\* A job just enqueued has had no attempt.
LEMMA NewJobRow ==
  ASSUME now \in Nat
  PROVE  /\ NewJob(now) \in JobRows
         /\ NewJob(now).status = "pending" /\ NewJob(now).attempt = 0
         /\ NewJob(now).lease_expires_at = None /\ NewJob(now).deadline_at = now + Deadline
<1>1. now + Deadline \in Nat /\ 0 \in 0..MaxAttempts
  BY ConstantTypes
<1> QED
  BY <1>1 DEF NewJob, JobRows

-----------------------------------------------------------------------------
(* One job: its row, its vector and the claims handed out for it            *)

Mine(j) == {c \in claims : c.job = j}

InOrder(c, d) == c.attempt < d.attempt /\ c.until <= d.from

\* A complete job was published by its last lease.
Published(j) ==
  LET vector == embedding_representations[j]
      row == embedding_jobs[j]
  IN
  /\ vector # None <=> row # None /\ row.status = "complete"
  /\ vector # None =>
       /\ vector.attempt = row.attempt /\ vector.at < row.deadline_at
       /\ \E c \in Mine(j) :
            c.attempt = vector.attempt /\ c.from <= vector.at /\ vector.at < c.until

\* The claims of a job follow one another, none beyond its attempts or deadline.
Sequenced(j) ==
  /\ \A c \in Mine(j) : c.from <= now
  /\ \A c, d \in Mine(j) : c # d => InOrder(c, d) \/ InOrder(d, c)
  /\ embedding_jobs[j] # None => \A c \in Mine(j) :
       c.attempt <= embedding_jobs[j].attempt /\ c.from < embedding_jobs[j].deadline_at

\* A leased row knows its latest claim; a waiting one has no claim running.
Fenced(j) ==
  LET row == embedding_jobs[j] IN
  row # None =>
    /\ row.status = "leased" <=> row.lease_expires_at # None
    /\ row.status = "leased" =>
         \E c \in Mine(j) : c.attempt = row.attempt /\ c.until = row.lease_expires_at
    /\ row.status \in {"pending", "retry"} => \A c \in Mine(j) : c.until <= now

JobInv(j) == Published(j) /\ Sequenced(j) /\ Fenced(j)

\* What is left alone stays so, however the clock moves on.
LEMMA JobKept ==
  ASSUME TypeInv, NEW j \in Jobs, JobInv(j),
         embedding_jobs'[j] = embedding_jobs[j],
         embedding_representations'[j] = embedding_representations[j],
         Mine(j)' = Mine(j), now' \in Nat, now <= now'
  PROVE  JobInv(j)'
<1>1. \A c \in Mine(j) : c.from \in Nat /\ c.until \in Nat
  BY DEF TypeInv, Mine, Claims
<1>2. now \in Nat
  BY DEF TypeInv
<1>3. Published(j)'
  BY DEF JobInv, Published
<1>4. Sequenced(j)'
  BY <1>1, <1>2 DEF JobInv, Sequenced, InOrder
<1>5. Fenced(j)'
  BY <1>1, <1>2 DEF JobInv, Fenced
<1> QED
  BY <1>3, <1>4, <1>5 DEF JobInv

\* A job that is asked for.
LEMMA JobAsked ==
  ASSUME TypeInv, NEW j \in Jobs, now' = now,
         embedding_jobs'[j] = NewJob(now), embedding_representations'[j] = None, Mine(j)' = {}
  PROVE  JobInv(j)'
<1>1. /\ NewJob(now) # None /\ NewJob(now).status = "pending"
      /\ NewJob(now).lease_expires_at = None
  BY NewJobRow, NoneIsNoRow DEF TypeInv
<1> QED
  BY <1>1 DEF JobInv, Published, Sequenced, Fenced

\* A job that is purged with its input.
LEMMA JobPurged ==
  ASSUME NEW j \in Jobs, JobInv(j), now' = now,
         embedding_jobs'[j] = None, embedding_representations'[j] = None, Mine(j)' = Mine(j)
  PROVE  JobInv(j)'
BY DEF JobInv, Published, Sequenced, Fenced, InOrder

\* A job that is closed without a vector.
LEMMA JobClosed ==
  ASSUME TypeInv, NEW j \in Jobs, JobInv(j), now' = now,
         embedding_jobs[j] # None, embedding_jobs[j].status # "complete",
         NEW status \in Terminal \ {"complete"}, embedding_jobs'[j] = Close(j, status),
         embedding_representations'[j] = embedding_representations[j], Mine(j)' = Mine(j)
  PROVE  JobInv(j)'
<1>1. embedding_jobs[j] \in JobRows
  BY DEF TypeInv
<1>2. /\ Close(j, status) # None /\ Close(j, status).status = status
      /\ Close(j, status).lease_expires_at = None
      /\ Close(j, status).attempt = embedding_jobs[j].attempt
      /\ Close(j, status).deadline_at = embedding_jobs[j].deadline_at
  BY <1>1, CloseRow, NoneIsNoRow
<1> HIDE DEF Close
<1>3. Published(j)'
  BY <1>2 DEF JobInv, Published, Terminal
<1>4. Sequenced(j)'
  BY <1>2 DEF JobInv, Sequenced, InOrder
<1>5. Fenced(j)'
  BY <1>2 DEF JobInv, Fenced, Terminal
<1> QED
  BY <1>3, <1>4, <1>5 DEF JobInv

\* The claim a fence lets pass is the latest one, whose lease is running.
LEMMA FenceIsLease ==
  ASSUME TypeInv, NEW c \in claims, JobInv(c.job), Fence(c)
  PROVE  /\ c \in Mine(c.job) /\ c.job \in Jobs /\ c \in Claims
         /\ embedding_jobs[c.job] \in JobRows /\ embedding_jobs[c.job].status = "leased"
         /\ c.attempt = embedding_jobs[c.job].attempt
         /\ c.until = embedding_jobs[c.job].lease_expires_at
         /\ c.from <= now /\ now < c.until
         /\ \A d \in Mine(c.job) \ {c} : InOrder(d, c)
<1> DEFINE row == embedding_jobs[c.job]
<1>1. c \in Claims /\ c.job \in Jobs /\ c \in Mine(c.job)
  BY DEF TypeInv, Claims, Mine
<1>2. /\ row # None /\ row.status = "leased" /\ row.attempt = c.attempt
      /\ row.lease_expires_at > now
  BY DEF Fence
<1>3. row \in JobRows
  BY <1>1, <1>2 DEF TypeInv
<1>4. PICK d \in Mine(c.job) : d.attempt = row.attempt /\ d.until = row.lease_expires_at
  BY <1>2 DEF JobInv, Fenced
<1>5. \A e \in Mine(c.job) : e.attempt \in Nat /\ e.from \in Nat /\ e.until \in Nat
  BY DEF TypeInv, Mine, Claims
<1>6. d = c
  BY <1>1, <1>2, <1>4, <1>5 DEF JobInv, Sequenced, InOrder
<1>7. \A e \in Mine(c.job) \ {c} : InOrder(e, c)
  BY <1>1, <1>2, <1>5 DEF JobInv, Sequenced, InOrder
<1>8. c.from <= now /\ now < c.until
  <2>1. c.from <= now /\ c.until > now
    BY <1>1, <1>2, <1>4, <1>6 DEF JobInv, Sequenced
  <2>2. now \in Nat /\ c.until \in Nat
    BY <1>1, <1>5 DEF TypeInv
  <2> QED
    BY <2>1, <2>2
<1> QED
  BY <1>1, <1>2, <1>3, <1>4, <1>6, <1>7, <1>8

NewClaim(j, length) == [job |-> j, attempt |-> embedding_jobs[j].attempt + 1,
                        from |-> now, until |-> now + length]

\* A job that is leased: what was handed out before is over.
LEMMA JobLeased ==
  ASSUME TypeInv, NEW j \in Jobs, JobInv(j), now' = now, Ready(j), NEW length \in Leases,
         embedding_jobs'[j] = Lease(j, length),
         embedding_representations'[j] = embedding_representations[j],
         Mine(j)' = Mine(j) \cup {NewClaim(j, length)}
  PROVE  JobInv(j)'
<1> DEFINE row == embedding_jobs[j]
           new == NewClaim(j, length)
<1>1. /\ row # None /\ row.attempt < MaxAttempts /\ now < row.deadline_at
      /\ \/ row.status \in {"pending", "retry"}
         \/ row.status = "leased" /\ row.lease_expires_at <= now
  BY DEF Ready, Claimable
<1>2. row \in JobRows /\ now \in Nat /\ length \in Nat \ {0}
  BY <1>1, ConstantTypes DEF TypeInv
<1>3. /\ Lease(j, length) # None /\ Lease(j, length).status = "leased"
      /\ Lease(j, length).lease_expires_at = now + length
      /\ Lease(j, length).attempt = row.attempt + 1
      /\ Lease(j, length).deadline_at = row.deadline_at
  BY <1>1, <1>2, LeaseRow, NoneIsNoRow
<1>4. row.attempt \in Nat /\ row.deadline_at \in Nat /\ now + length \in Nat /\ now + length # None
  BY <1>2, ConstantTypes DEF JobRows
<1>5. /\ new.attempt = row.attempt + 1 /\ new.from = now /\ new.until = now + length
  BY DEF NewClaim
<1>6. \A c \in Mine(j) : /\ c.attempt \in Nat /\ c.from \in Nat /\ c.until \in Nat
                         /\ c.attempt <= row.attempt /\ c.from < row.deadline_at
                         /\ c.from <= now
  BY <1>1 DEF TypeInv, Mine, Claims, JobInv, Sequenced
<1>7. \A c \in Mine(j) : c.until <= now
  <2>1. CASE row.status \in {"pending", "retry"}
    BY <1>1, <2>1 DEF JobInv, Fenced
  <2>2. CASE row.status = "leased" /\ row.lease_expires_at <= now
    <3>1. PICK d \in Mine(j) : d.attempt = row.attempt /\ d.until = row.lease_expires_at
      BY <1>1, <2>2 DEF JobInv, Fenced
    <3>2. \A c \in Mine(j) \ {d} : InOrder(c, d)
      BY <1>6, <3>1 DEF JobInv, Sequenced, InOrder
    <3> QED
      BY <1>2, <1>6, <2>2, <3>1, <3>2 DEF InOrder
  <2> QED
    BY <1>1, <2>1, <2>2
<1> HIDE DEF new
<1>8. Published(j)'
  <2>1. embedding_representations'[j] = None
    BY <1>1 DEF JobInv, Published
  <2> QED
    BY <1>3, <2>1 DEF Published
<1>9. Sequenced(j)'
  <2>1. \A c \in Mine(j)' : c.from <= now
    BY <1>2, <1>5, <1>6 DEF new
  <2>2. \A c \in Mine(j) : InOrder(c, new)
    BY <1>4, <1>5, <1>6, <1>7 DEF InOrder
  <2>3. \A c, d \in Mine(j)' : c # d => InOrder(c, d) \/ InOrder(d, c)
    BY <2>2 DEF JobInv, Sequenced, new
  <2>4. \A c \in Mine(j)' : c.attempt <= row.attempt + 1 /\ c.from < row.deadline_at
    BY <1>1, <1>4, <1>5, <1>6 DEF new
  <2> QED
    BY <1>3, <2>1, <2>3, <2>4 DEF Sequenced, InOrder
<1>10. Fenced(j)'
  <2>1. new \in Mine(j)'
    BY DEF new
  <2> QED
    BY <1>3, <1>4, <1>5, <2>1 DEF Fenced
<1> QED
  BY <1>8, <1>9, <1>10 DEF JobInv

\* A job that is published by the worker that holds its lease.
LEMMA JobPublished ==
  ASSUME TypeInv, NEW c \in claims, JobInv(c.job), now' = now, Fence(c),
         now < embedding_jobs[c.job].deadline_at,
         embedding_jobs'[c.job] = Close(c.job, "complete"),
         embedding_representations'[c.job] =
           IF embedding_representations[c.job] = None
           THEN [attempt |-> c.attempt, at |-> now] ELSE embedding_representations[c.job],
         Mine(c.job)' = Mine(c.job)
  PROVE  JobInv(c.job)'
<1> DEFINE row == embedding_jobs[c.job]
           closed == Close(c.job, "complete")
           vector == [attempt |-> c.attempt, at |-> now]
<1>1. /\ c \in Mine(c.job) /\ row \in JobRows /\ row.status = "leased" /\ c.job \in Jobs
      /\ c.attempt = row.attempt /\ c.from <= now /\ now < c.until /\ c \in Claims
  BY FenceIsLease
<1>2. /\ closed # None /\ closed.status = "complete" /\ closed.lease_expires_at = None
      /\ closed.attempt = row.attempt /\ closed.deadline_at = row.deadline_at
  BY <1>1, CloseRow, NoneIsNoRow DEF Terminal
<1>3. embedding_representations'[c.job] = vector
  BY <1>1 DEF JobInv, Published
<1>4. vector # None
  <2>1. vector \in Vectors
    BY <1>1 DEF Vectors, Claims, TypeInv
  <2> QED
    BY <2>1, NoneIsNoRow
<1>5. vector.attempt = c.attempt /\ vector.at = now
  OBVIOUS
<1>6. row # None
  BY <1>1, NoneIsNoRow
<1> HIDE DEF closed, vector
<1>7. embedding_jobs'[c.job] = closed
  BY DEF closed
<1>8. Published(c.job)'
  BY <1>1, <1>2, <1>3, <1>4, <1>5, <1>7 DEF Published
<1>9. Sequenced(c.job)'
  BY <1>2, <1>6, <1>7 DEF JobInv, Sequenced, InOrder
<1>10. Fenced(c.job)'
  BY <1>2, <1>7 DEF Fenced
<1> QED
  BY <1>8, <1>9, <1>10 DEF JobInv

\* A job whose worker reports a failure and gives its lease up.
LEMMA JobFailed ==
  ASSUME TypeInv, NEW c \in claims, JobInv(c.job), now' = now, Fence(c),
         embedding_jobs'[c.job] = FailedRow(c),
         embedding_representations'[c.job] = embedding_representations[c.job],
         Mine(c.job)' = (Mine(c.job) \ {c}) \cup {[c EXCEPT !.until = now]}
  PROVE  JobInv(c.job)'
<1> DEFINE j == c.job
           row == embedding_jobs[c.job]
           ended == [c EXCEPT !.until = now]
<1>1. /\ c \in Mine(j) /\ row \in JobRows /\ row.status = "leased" /\ c \in Claims
      /\ c.attempt = row.attempt /\ c.from <= now /\ \A d \in Mine(j) \ {c} : InOrder(d, c)
  BY FenceIsLease
<1>2. /\ FailedRow(c) # None /\ FailedRow(c).status \in {"retry", "failed"}
      /\ FailedRow(c).lease_expires_at = None
      /\ FailedRow(c).attempt = row.attempt /\ FailedRow(c).deadline_at = row.deadline_at
  BY <1>1, FailRow, NoneIsNoRow DEF TypeInv
<1>3. ended.attempt = c.attempt /\ ended.from = c.from /\ ended.until = now
  BY <1>1 DEF Claims
<1>4. row # None /\ now \in Nat
  BY <1>1, NoneIsNoRow DEF TypeInv
<1>5. \A d \in Mine(j) : d.from \in Nat /\ d.until \in Nat
  BY DEF TypeInv, Mine, Claims
<1> HIDE DEF ended
<1>6. Mine(j)' = (Mine(j) \ {c}) \cup {ended}
  BY DEF ended
<1>7. Published(j)'
  <2>1. embedding_representations[j] = None
    BY <1>1 DEF JobInv, Published
  <2> QED
    BY <1>2, <2>1 DEF Published
<1>8. Sequenced(j)'
  <2>1. \A d \in Mine(j) \ {c} : InOrder(d, ended)
    BY <1>1, <1>3 DEF InOrder
  <2>2. \A d, e \in Mine(j)' : d # e => InOrder(d, e) \/ InOrder(e, d)
    BY <1>6, <2>1 DEF JobInv, Sequenced
  <2>3. \A d \in Mine(j)' : d.from <= now
    BY <1>1, <1>3, <1>6 DEF JobInv, Sequenced
  <2>4. \A d \in Mine(j)' : d.attempt <= row.attempt /\ d.from < row.deadline_at
    BY <1>1, <1>3, <1>4, <1>6 DEF JobInv, Sequenced
  <2> QED
    BY <1>2, <2>2, <2>3, <2>4 DEF Sequenced, InOrder
<1>9. Fenced(j)'
  <2>1. \A d \in Mine(j)' : d.until <= now
    BY <1>1, <1>3, <1>4, <1>5, <1>6 DEF InOrder
  <2> QED
    BY <1>2, <2>1 DEF Fenced
<1> QED
  BY <1>7, <1>8, <1>9 DEF JobInv

-----------------------------------------------------------------------------
(* The tables together                                                     *)

\* Items serve revisions of their own; sources, sets and passages are stored with
\* a stored revision, and a revision that has a source has a set.
StoreInv ==
  /\ \A i \in Items : active_revision[i] # None =>
       item_of[active_revision[i]] = i /\ i \notin deleted
  /\ \A r \in Revisions : source_revisions[r] # None => active_extraction_sets[r] # None
  /\ \A r \in Revisions : active_extraction_sets[r] # None =>
       /\ extraction_sets[active_extraction_sets[r]] = r
       /\ source_revisions[r] = SourceOf[active_extraction_sets[r]]
  /\ \A x \in Sets : extraction_sets[x] # None => item_of[extraction_sets[x]] # None
  /\ \A r \in Revisions :
       item_of[r] = None => source_revisions[r] = None /\ active_extraction_sets[r] = None

\* Jobs and vectors exist for stored inputs only; what a worker was given exists as
\* long as its input does.
WorkStored ==
  /\ \A j \in Jobs :
       ItemOf(j[1]) = None => embedding_jobs[j] = None /\ embedding_representations[j] = None
  /\ \A c \in claims : embedding_jobs[c.job] = None => ItemOf(c.job[1]) = None

\* Items whose intent is complete, served or withdrawn: NoLostIntent alone is lost
\* when a collection is withdrawn and restored.
Intended(i) ==
  /\ active_revision[i] # None /\ i \notin skipped
  /\ i \in withdrawn => "restore" \in Interventions

IntentInv ==
  selected # None =>
    \A i \in Items : Intended(i) =>
      \A input \in CurrentInputs(i) : embedding_jobs[<<input, selected>>] # None

JobsInv ==
  /\ TypeInv /\ StoreInv /\ WorkStored /\ IntentInv
  /\ \A j \in Jobs : JobInv(j)

\* The revision and the item an input belongs to, if their rows are there.
LEMMA InputTypes ==
  ASSUME TypeInv, NEW input \in Inputs
  PROVE  /\ RevisionOf(input) \in Revisions \cup {None}
         /\ ItemOf(input) \in Items \cup {None}
         /\ ItemOf(input) # None => RevisionOf(input) \in Revisions
<1>1. input \notin Revisions => input[1] \in Sets
  BY PassageTypes DEF Inputs
<1>2. RevisionOf(input) \in Revisions \cup {None}
  BY <1>1 DEF TypeInv, RevisionOf
<1> QED
  BY <1>2 DEF TypeInv, ItemOf

\* What is served of an item is stored for this item.
LEMMA ServedInputs ==
  ASSUME TypeInv, StoreInv, NEW i \in Items, active_revision[i] # None
  PROVE  \A input \in CurrentInputs(i) :
           /\ input \in Inputs
           /\ RevisionOf(input) = active_revision[i] /\ ItemOf(input) = i
<1> DEFINE r == active_revision[i]
           x == active_extraction_sets[r]
<1>1. r \in Revisions /\ item_of[r] = i /\ r # None /\ x \in Sets \cup {None}
  BY DEF TypeInv, StoreInv
<1>2. r \in Inputs /\ RevisionOf(r) = r /\ ItemOf(r) = i
  BY <1>1 DEF Inputs, RevisionOf, ItemOf
<1>3. ASSUME x # None, NEW p \in PassagesOf(x)
      PROVE  p \in Inputs /\ RevisionOf(p) = r /\ ItemOf(p) = i
  <2>1. p[1] = x /\ p \notin Revisions /\ p \in Inputs
    BY <1>1, <1>3, PassageTypes
  <2>2. extraction_sets[x] = r
    BY <1>1, <1>3 DEF StoreInv
  <2> QED
    BY <1>1, <2>1, <2>2 DEF RevisionOf, ItemOf
<1> QED
  BY <1>2, <1>3 DEF CurrentInputs

\* Every row that is new is a pending job that no worker was ever given.
LEMMA EnqueueKeeps ==
  ASSUME TypeInv, \A j \in Jobs : JobInv(j), NEW inputs, NEW g, EnqueueFor(inputs, g),
         UNCHANGED <<now, embedding_representations, claims>>,
         \A c \in claims : c.job[1] \in inputs => embedding_jobs[c.job] # None
  PROVE  /\ embedding_jobs' \in [Jobs -> JobRows \cup {None}]
         /\ \A j \in Jobs : JobInv(j)'
         /\ \A j \in Jobs : embedding_jobs[j] # None => embedding_jobs'[j] # None
         /\ \A j \in Jobs : embedding_jobs[j] = None =>
              (embedding_jobs'[j] # None <=> j[1] \in inputs /\ j[2] = g)
<1>1. now \in Nat /\ NewJob(now) \in JobRows /\ NewJob(now) # None
  BY NewJobRow, NoneIsNoRow DEF TypeInv
<1>2. \A j \in Jobs : embedding_jobs'[j] =
        IF j[1] \in inputs /\ j[2] = g /\ embedding_jobs[j] = None THEN NewJob(now)
        ELSE embedding_jobs[j]
  BY DEF EnqueueFor, InsertJobs
<1> HIDE DEF NewJob
<1>3. embedding_jobs' \in [Jobs -> JobRows \cup {None}]
  BY <1>1 DEF EnqueueFor, InsertJobs, TypeInv
<1>4. ASSUME NEW j \in Jobs
      PROVE  JobInv(j)'
  <2>1. Mine(j)' = Mine(j)
    BY DEF Mine
  <2>2. CASE embedding_jobs'[j] = embedding_jobs[j]
    BY <1>1, <2>1, <2>2, JobKept
  <2>3. CASE j[1] \in inputs /\ j[2] = g /\ embedding_jobs[j] = None
    <3>1. Mine(j) = {}
      BY <2>3 DEF Mine
    <3>2. embedding_representations[j] = None
      BY <2>3 DEF JobInv, Published
    <3> QED
      BY <1>2, <2>1, <2>3, <3>1, <3>2, JobAsked
  <2> QED
    BY <1>2, <2>2, <2>3
<1> QED
  BY <1>1, <1>2, <1>3, <1>4

-----------------------------------------------------------------------------
(* Steps that ask for work                                                 *)

\* Creating or correcting: the new revision and its jobs come in one step.
LEMMA WriteKeeps ==
  ASSUME JobsInv, NEW i \in Items, NEW r \in Revisions, WriteRevision(i, r)
  PROVE  JobsInv'
<1>1. TypeInv /\ StoreInv /\ WorkStored /\ IntentInv /\ \A j \in Jobs : JobInv(j)
  BY DEF JobsInv
<1>2. /\ i \notin deleted /\ i \notin withdrawn /\ item_of[r] = None /\ Fresh({r})
      /\ active_revision' = [active_revision EXCEPT ![i] = r]
      /\ item_of' = [item_of EXCEPT ![r] = i]
      /\ EnqueueFor({r}, selected)
      /\ skipped' = skipped \ {i}
      /\ UNCHANGED <<now, deleted, source_revisions, extraction_sets, active_extraction_sets,
                     withdrawn, owner_active, selected, embedding_representations, claims>>
  BY DEF WriteRevision, StoreRevision, Writable, Enqueue, documents, authority
<1>3. r # None /\ i # None /\ active_extraction_sets[r] = None /\ source_revisions[r] = None
  BY <1>1, <1>2, ConstantTypes DEF StoreInv
<1>4. \A c \in claims : c.job[1] # r
  BY <1>2 DEF Fresh
<1>5. /\ embedding_jobs' \in [Jobs -> JobRows \cup {None}]
      /\ \A j \in Jobs : JobInv(j)'
      /\ \A j \in Jobs : embedding_jobs[j] # None => embedding_jobs'[j] # None
      /\ \A j \in Jobs : embedding_jobs[j] = None =>
           (embedding_jobs'[j] # None <=> j[1] = r /\ j[2] = selected)
  <2>1. \A c \in claims : c.job[1] \in {r} => embedding_jobs[c.job] # None
    BY <1>4
  <2>2. /\ embedding_jobs' \in [Jobs -> JobRows \cup {None}]
        /\ \A j \in Jobs : JobInv(j)'
        /\ \A j \in Jobs : embedding_jobs[j] # None => embedding_jobs'[j] # None
        /\ \A j \in Jobs : embedding_jobs[j] = None =>
             (embedding_jobs'[j] # None <=> j[1] \in {r} /\ j[2] = selected)
    BY <1>1, <1>2, <2>1, EnqueueKeeps
  <2> QED
    BY <2>2
<1>6. \A input \in Inputs : input # r =>
        RevisionOf(input)' = RevisionOf(input) /\ ItemOf(input)' = ItemOf(input)
  <2>1. SUFFICES ASSUME NEW input \in Inputs, input # r
                 PROVE  RevisionOf(input)' = RevisionOf(input) /\ ItemOf(input)' = ItemOf(input)
    OBVIOUS
  <2>2. RevisionOf(input)' = RevisionOf(input)
    BY <1>2 DEF RevisionOf
  <2>3. RevisionOf(input) # r
    <3>1. input \in Revisions => RevisionOf(input) = input
      BY DEF RevisionOf
    <3>2. input \notin Revisions => input[1] \in Sets /\ RevisionOf(input) = extraction_sets[input[1]]
      BY <2>1, PassageTypes DEF Inputs, RevisionOf
    <3> QED
      BY <1>1, <1>2, <1>3, <2>1, <3>1, <3>2 DEF StoreInv
  <2> QED
    BY <1>1, <1>2, <2>2, <2>3, InputTypes DEF ItemOf, TypeInv
<1>7. RevisionOf(r)' = r /\ ItemOf(r)' = i
  BY <1>1, <1>2, <1>3 DEF RevisionOf, ItemOf, TypeInv
<1>8. TypeInv'
  BY <1>1, <1>2, <1>5 DEF TypeInv
<1>9. StoreInv'
  <2>1. \A k \in Items : active_revision'[k] # None =>
          item_of'[active_revision'[k]] = k /\ k \notin deleted'
    <3>1. active_revision'[i] = r /\ item_of'[r] = i /\ deleted' = deleted
      BY <1>1, <1>2 DEF TypeInv
    <3>2. ASSUME NEW k \in Items \ {i}, active_revision[k] # None
          PROVE  /\ active_revision'[k] = active_revision[k]
                 /\ item_of'[active_revision[k]] = k /\ k \notin deleted
      <4>1. active_revision[k] \in Revisions /\ item_of[active_revision[k]] = k /\ k # None
        BY <1>1, <3>2, ConstantTypes DEF StoreInv, TypeInv
      <4> QED
        BY <1>1, <1>2, <3>2, <4>1 DEF StoreInv, TypeInv
    <3>3. \A k \in Items \ {i} : active_revision'[k] = active_revision[k]
      BY <1>1, <1>2 DEF TypeInv
    <3> QED
      BY <1>2, <3>1, <3>2, <3>3
  <2>2. \A x \in Sets : extraction_sets'[x] # None => item_of'[extraction_sets'[x]] # None
    BY <1>1, <1>2, <1>3 DEF StoreInv, TypeInv
  <2>3. \A u \in Revisions : item_of'[u] = None => item_of[u] = None
    BY <1>1, <1>2, <1>3 DEF TypeInv
  <2> QED
    BY <1>1, <1>2, <2>1, <2>2, <2>3 DEF StoreInv
<1>10. WorkStored'
  <2>1. ASSUME NEW j \in Jobs, ItemOf(j[1])' = None
        PROVE  embedding_jobs'[j] = None /\ embedding_representations'[j] = None
    <3>1. j[1] \in Inputs /\ j[1] # r
      BY <1>3, <1>7, <2>1, JobTypes
    <3> QED
      BY <1>1, <1>2, <1>5, <1>6, <2>1, <3>1 DEF WorkStored
  <2>2. ASSUME NEW c \in claims, embedding_jobs'[c.job] = None
        PROVE  ItemOf(c.job[1])' = None
    <3>1. c.job \in Jobs /\ c.job[1] \in Inputs /\ c.job[1] # r
      BY <1>1, <1>4, JobTypes DEF TypeInv, Claims
    <3> QED
      BY <1>1, <1>5, <1>6, <2>2, <3>1 DEF WorkStored
  <2> QED
    BY <1>2, <2>1, <2>2 DEF WorkStored
<1>11. IntentInv'
  <2>1. SUFFICES ASSUME selected # None, NEW k \in Items, Intended(k)',
                        NEW input \in CurrentInputs(k)'
                 PROVE  embedding_jobs'[<<input, selected>>] # None
    BY <1>2 DEF IntentInv
  <2>2. selected \in Generations
    BY <1>1, <2>1 DEF TypeInv
  <2>3. CASE k = i
    <3>1. active_revision'[i] = r
      BY <1>1, <1>2 DEF TypeInv
    <3>2. input = r
      BY <1>2, <1>3, <2>1, <2>3, <3>1 DEF CurrentInputs
    <3>3. <<r, selected>> \in Jobs
      BY <2>2, JobTypes DEF Inputs
    <3> QED
      BY <1>5, <3>2, <3>3
  <2>4. CASE k # i
    <3>1. active_revision'[k] = active_revision[k]
      BY <1>1, <1>2, <2>4 DEF TypeInv
    <3>2. Intended(k) /\ input \in CurrentInputs(k)
      BY <1>2, <2>1, <2>4, <3>1 DEF Intended, CurrentInputs
    <3>3. input \in Inputs
      BY <1>1, <3>2, ServedInputs DEF Intended
    <3> QED
      BY <1>1, <1>5, <2>1, <2>2, <3>2, <3>3, JobTypes DEF IntentInv
  <2> QED
    BY <2>3, <2>4
<1> QED
  BY <1>5, <1>8, <1>9, <1>10, <1>11 DEF JobsInv

\* A finished extraction brings in its passages and their jobs.
LEMMA ActivateKeeps ==
  ASSUME JobsInv, NEW i \in Items, NEW x \in Sets, ActivateExtraction(i, x)
  PROVE  JobsInv'
<1> DEFINE r == active_revision[i]
           S == PassagesOf(x)
<1>1. TypeInv /\ StoreInv /\ WorkStored /\ IntentInv /\ \A j \in Jobs : JobInv(j)
  BY DEF JobsInv
<1>2. /\ r # None /\ i \notin deleted /\ i \notin withdrawn
      /\ extraction_sets[x] = None /\ Fresh(S)
      /\ source_revisions[r] \in {None, SourceOf[x]}
      /\ source_revisions' = [source_revisions EXCEPT ![r] = SourceOf[x]]
      /\ extraction_sets' = [extraction_sets EXCEPT ![x] = r]
      /\ active_extraction_sets' = [active_extraction_sets EXCEPT ![r] = x]
      /\ EnqueueFor(S, selected)
      /\ UNCHANGED <<now, active_revision, item_of, deleted, withdrawn, owner_active,
                     selected, skipped, embedding_representations, claims>>
  BY DEF ActivateExtraction, StoreExtraction, Extractable, Enqueue, memory, authority, choice
<1>3. r \in Revisions /\ item_of[r] = i /\ i # None /\ x # None /\ SourceOf[x] # None
  BY <1>1, <1>2, ConstantTypes DEF StoreInv, TypeInv
<1>4. \A c \in claims : c.job[1] \notin S
  BY <1>2 DEF Fresh
<1>5. /\ embedding_jobs' \in [Jobs -> JobRows \cup {None}]
      /\ \A j \in Jobs : JobInv(j)'
      /\ \A j \in Jobs : embedding_jobs[j] # None => embedding_jobs'[j] # None
      /\ \A j \in Jobs : embedding_jobs[j] = None =>
           (embedding_jobs'[j] # None <=> j[1] \in S /\ j[2] = selected)
  <2>1. \A c \in claims : c.job[1] \in S => embedding_jobs[c.job] # None
    BY <1>4
  <2> HIDE DEF S
  <2> QED
    BY <1>1, <1>2, <2>1, EnqueueKeeps
<1>6. \A input \in S : input \in Inputs /\ input \notin Revisions /\ input[1] = x
  BY PassageTypes
<1>7. \A input \in Inputs : input \notin S => input \in Revisions \/ (input[1] \in Sets /\ input[1] # x)
  BY PassageTypes DEF Inputs
<1> HIDE DEF S
<1>8. \A input \in Inputs : input \notin S =>
        RevisionOf(input)' = RevisionOf(input) /\ ItemOf(input)' = ItemOf(input)
  BY <1>1, <1>2, <1>7 DEF RevisionOf, ItemOf, TypeInv
<1>9. \A input \in S : ItemOf(input)' = i
  BY <1>1, <1>2, <1>3, <1>6 DEF RevisionOf, ItemOf, TypeInv
<1>10. active_extraction_sets'[r] = x /\ source_revisions'[r] = SourceOf[x] /\ extraction_sets'[x] = r
  BY <1>1, <1>2, <1>3 DEF TypeInv
<1>11. /\ \A u \in Revisions \ {r} : /\ active_extraction_sets'[u] = active_extraction_sets[u]
                                     /\ source_revisions'[u] = source_revisions[u]
       /\ \A y \in Sets \ {x} : extraction_sets'[y] = extraction_sets[y]
  BY <1>1, <1>2 DEF TypeInv
<1> HIDE DEF r
<1>12. TypeInv'
  <2>1. SourceOf[x] \in {SourceOf[y] : y \in Sets}
    OBVIOUS
  <2>2. /\ source_revisions' \in [Revisions -> {SourceOf[y] : y \in Sets} \cup {None}]
        /\ extraction_sets' \in [Sets -> Revisions \cup {None}]
        /\ active_extraction_sets' \in [Revisions -> Sets \cup {None}]
    BY <1>1, <1>2, <1>3, <2>1 DEF TypeInv
  <2> QED
    BY <1>1, <1>2, <1>5, <2>2 DEF TypeInv
<1>13. StoreInv'
  <2>1. \A u \in Revisions : active_extraction_sets'[u] # None =>
          /\ extraction_sets'[active_extraction_sets'[u]] = u
          /\ source_revisions'[u] = SourceOf[active_extraction_sets'[u]]
    <3>1. SUFFICES ASSUME NEW u \in Revisions \ {r}, active_extraction_sets[u] # None
                   PROVE  /\ extraction_sets'[active_extraction_sets[u]] = u
                          /\ source_revisions'[u] = SourceOf[active_extraction_sets[u]]
      BY <1>10, <1>11
    <3>2. /\ active_extraction_sets[u] \in Sets
          /\ extraction_sets[active_extraction_sets[u]] = u
          /\ source_revisions[u] = SourceOf[active_extraction_sets[u]] /\ u # None
      BY <1>1, <3>1, ConstantTypes DEF StoreInv, TypeInv
    <3>3. active_extraction_sets[u] # x
      BY <1>2, <3>2
    <3> QED
      BY <1>11, <3>2, <3>3
  <2>2. \A y \in Sets : extraction_sets'[y] # None => item_of'[extraction_sets'[y]] # None
    BY <1>1, <1>2, <1>3, <1>10, <1>11 DEF StoreInv
  <2>3. \A u \in Revisions : source_revisions'[u] # None => active_extraction_sets'[u] # None
    BY <1>1, <1>3, <1>10, <1>11 DEF StoreInv
  <2>4. \A u \in Revisions :
          item_of'[u] = None => source_revisions'[u] = None /\ active_extraction_sets'[u] = None
    BY <1>1, <1>2, <1>3, <1>11 DEF StoreInv
  <2>5. \A k \in Items : active_revision'[k] # None =>
          item_of'[active_revision'[k]] = k /\ k \notin deleted'
    BY <1>1, <1>2 DEF StoreInv
  <2> QED
    BY <2>1, <2>2, <2>3, <2>4, <2>5 DEF StoreInv
<1>14. WorkStored'
  <2>1. ASSUME NEW j \in Jobs, ItemOf(j[1])' = None
        PROVE  embedding_jobs'[j] = None /\ embedding_representations'[j] = None
    <3>1. j[1] \in Inputs /\ j[1] \notin S
      BY <1>3, <1>9, <2>1, JobTypes
    <3> QED
      BY <1>1, <1>2, <1>5, <1>8, <2>1, <3>1 DEF WorkStored
  <2>2. ASSUME NEW c \in claims, embedding_jobs'[c.job] = None
        PROVE  ItemOf(c.job[1])' = None
    <3>1. c.job \in Jobs /\ c.job[1] \in Inputs /\ c.job[1] \notin S
      BY <1>1, <1>4, JobTypes DEF TypeInv, Claims
    <3> QED
      BY <1>1, <1>5, <1>8, <2>2, <3>1 DEF WorkStored
  <2> QED
    BY <1>2, <2>1, <2>2 DEF WorkStored
<1>15. IntentInv'
  <2>1. SUFFICES ASSUME selected # None, NEW k \in Items, Intended(k)',
                        NEW input \in CurrentInputs(k)'
                 PROVE  embedding_jobs'[<<input, selected>>] # None
    BY <1>2 DEF IntentInv
  <2>2. selected \in Generations
    BY <1>1, <2>1 DEF TypeInv
  <2>3. Intended(k)
    BY <1>2, <2>1 DEF Intended
  <2>4. CASE input \in S
    <3>1. <<input, selected>> \in Jobs
      BY <1>6, <2>2, <2>4, JobTypes
    <3> QED
      BY <1>5, <2>4, <3>1
  <2>5. CASE input \notin S
    <3>1. input \in CurrentInputs(k)
      <4>1. CASE active_revision[k] = r
        BY <1>2, <1>10, <2>1, <2>5, <4>1 DEF CurrentInputs, S
      <4>2. CASE active_revision[k] # r
        <5>1. active_revision[k] \in Revisions \ {r}
          BY <1>1, <2>3, <4>2 DEF Intended, TypeInv
        <5> QED
          BY <1>2, <1>11, <2>1, <5>1 DEF CurrentInputs
      <4> QED
        BY <4>1, <4>2
    <3>2. input \in Inputs
      BY <1>1, <2>3, <3>1, ServedInputs DEF Intended
    <3> QED
      BY <1>1, <1>5, <2>1, <2>2, <2>3, <3>1, <3>2, JobTypes DEF IntentInv
  <2> QED
    BY <2>4, <2>5
<1> QED
  BY <1>5, <1>12, <1>13, <1>14, <1>15 DEF JobsInv

\* Selecting a generation enqueues what it lacks.
LEMMA SelectKeeps ==
  ASSUME JobsInv, NEW g \in Generations, SelectGeneration(g)
  PROVE  JobsInv'
<1> DEFINE S == UNION {Served(i) : i \in Items \ withdrawn}
<1>1. TypeInv /\ StoreInv /\ WorkStored /\ IntentInv /\ \A j \in Jobs : JobInv(j)
  BY DEF JobsInv
<1>2. /\ selected' = g /\ EnqueueFor(S, g)
      /\ skipped' = IF "restore" \notin Interventions THEN {}
                    ELSE withdrawn \cap IF selected = g THEN skipped ELSE Items
      /\ UNCHANGED <<now, active_revision, item_of, deleted, withdrawn, owner_active,
                     source_revisions, extraction_sets, active_extraction_sets,
                     embedding_representations, claims>>
  BY DEF SelectGeneration, ChooseGeneration, memory, documents, authority
<1>3. \A input \in S : input \in Inputs /\ ItemOf(input) # None
  <2>1. SUFFICES ASSUME NEW i \in Items \ withdrawn, NEW input \in Served(i)
                 PROVE  input \in Inputs /\ ItemOf(input) # None
    OBVIOUS
  <2>2. active_revision[i] # None /\ input \in CurrentInputs(i)
    BY DEF Served
  <2> QED
    BY <1>1, <2>2, ServedInputs, ConstantTypes
<1>4. /\ embedding_jobs' \in [Jobs -> JobRows \cup {None}]
      /\ \A j \in Jobs : JobInv(j)'
      /\ \A j \in Jobs : embedding_jobs[j] # None => embedding_jobs'[j] # None
      /\ \A j \in Jobs : embedding_jobs[j] = None =>
           (embedding_jobs'[j] # None <=> j[1] \in S /\ j[2] = g)
  <2>1. \A c \in claims : c.job[1] \in S => embedding_jobs[c.job] # None
    BY <1>1, <1>3 DEF WorkStored
  <2> HIDE DEF S
  <2> QED
    BY <1>1, <1>2, <2>1, EnqueueKeeps
<1>5. \A input : RevisionOf(input)' = RevisionOf(input) /\ ItemOf(input)' = ItemOf(input)
  BY <1>2 DEF RevisionOf, ItemOf
<1>6. TypeInv' /\ StoreInv'
  BY <1>1, <1>2, <1>4 DEF TypeInv, StoreInv
<1>7. WorkStored'
  <2>1. ASSUME NEW j \in Jobs, ItemOf(j[1])' = None
        PROVE  embedding_jobs'[j] = None /\ embedding_representations'[j] = None
    <3> HIDE DEF S
    <3> QED
      BY <1>1, <1>2, <1>3, <1>4, <1>5, <2>1 DEF WorkStored
  <2>2. ASSUME NEW c \in claims, embedding_jobs'[c.job] = None
        PROVE  ItemOf(c.job[1])' = None
    <3>1. c.job \in Jobs
      BY <1>1 DEF TypeInv, Claims
    <3> HIDE DEF S
    <3> QED
      BY <1>1, <1>4, <1>5, <2>2, <3>1 DEF WorkStored
  <2> QED
    BY <1>2, <2>1, <2>2 DEF WorkStored
<1>8. IntentInv'
  <2>1. SUFFICES ASSUME NEW k \in Items, Intended(k)', NEW input \in CurrentInputs(k)'
                 PROVE  embedding_jobs'[<<input, g>>] # None
    BY <1>2 DEF IntentInv
  <2>2. active_revision[k] # None /\ input \in CurrentInputs(k)
    BY <1>2, <2>1 DEF Intended, CurrentInputs
  <2>3. input \in Inputs
    BY <1>1, <2>2, ServedInputs
  <2>4. <<input, g>> \in Jobs
    BY <2>3, JobTypes
  <2>5. CASE k \in withdrawn
    <3>1. selected = g /\ Intended(k)
      BY <1>2, <2>1, <2>5 DEF Intended
    <3>2. embedding_jobs[<<input, g>>] # None
      BY <1>1, <2>2, <3>1, ConstantTypes DEF IntentInv
    <3> HIDE DEF S
    <3> QED
      BY <1>4, <2>4, <3>2
  <2>6. CASE k \notin withdrawn
    <3>1. input \in S
      BY <2>2, <2>6 DEF Served
    <3> HIDE DEF S
    <3> QED
      BY <1>4, <2>4, <3>1
  <2> QED
    BY <2>5, <2>6
<1> QED
  BY <1>4, <1>6, <1>7, <1>8 DEF JobsInv

-----------------------------------------------------------------------------
(* Forgetting, purging, and steps of others                                *)

\* A purge takes an item, its inputs, vectors and jobs together.
LEMMA PurgeKeeps ==
  ASSUME JobsInv, NEW i \in Items, PurgeItem(i)
  PROVE  JobsInv'
<1> DEFINE gone == {r \in Revisions : item_of[r] = i}
<1>1. TypeInv /\ StoreInv /\ WorkStored /\ IntentInv /\ \A j \in Jobs : JobInv(j)
  BY DEF JobsInv
<1>2. /\ i \in deleted
      /\ item_of' = [r \in Revisions |-> IF r \in gone THEN None ELSE item_of[r]]
      /\ source_revisions' =
           [r \in Revisions |-> IF r \in gone THEN None ELSE source_revisions[r]]
      /\ extraction_sets' =
           [x \in Sets |-> IF extraction_sets[x] \in gone THEN None ELSE extraction_sets[x]]
      /\ active_extraction_sets' =
           [r \in Revisions |-> IF r \in gone THEN None ELSE active_extraction_sets[r]]
      /\ embedding_jobs' = [j \in Jobs |-> IF ItemOf(j[1]) = i THEN None ELSE embedding_jobs[j]]
      /\ embedding_representations' =
           [j \in Jobs |-> IF ItemOf(j[1]) = i THEN None ELSE embedding_representations[j]]
      /\ UNCHANGED <<now, active_revision, deleted, withdrawn, owner_active, selected, skipped,
                     claims>>
  BY DEF PurgeItem, EraseItem, authority, choice
<1>3. \A r \in gone : r \in Revisions /\ item_of[r] = i /\ r # None
  BY ConstantTypes
<1>4. i # None /\ active_revision[i] = None
  BY <1>1, <1>2, ConstantTypes DEF StoreInv
<1>5. None \notin gone /\ \A r \in Revisions : r \in gone <=> item_of[r] = i
  BY <1>3
<1> HIDE DEF gone
<1>6. \A input \in Inputs : ItemOf(input)' = IF ItemOf(input) = i THEN None ELSE ItemOf(input)
  <2>1. SUFFICES ASSUME NEW input \in Inputs
                 PROVE  ItemOf(input)' = IF ItemOf(input) = i THEN None ELSE ItemOf(input)
    OBVIOUS
  <2>2. CASE input \in Revisions
    BY <1>2, <1>4, <1>5, <2>2, ConstantTypes DEF ItemOf, RevisionOf
  <2>3. CASE input \notin Revisions
    <3>1. input[1] \in Sets /\ extraction_sets[input[1]] \in Revisions \cup {None}
      BY <1>1, <2>1, <2>3, PassageTypes DEF Inputs, TypeInv
    <3> QED
      BY <1>2, <1>4, <1>5, <2>3, <3>1, ConstantTypes DEF ItemOf, RevisionOf
  <2> QED
    BY <2>2, <2>3
<1>7. /\ embedding_jobs' \in [Jobs -> JobRows \cup {None}]
      /\ embedding_representations' \in [Jobs -> Vectors \cup {None}]
  BY <1>1, <1>2 DEF TypeInv
<1>8. TypeInv'
  BY <1>1, <1>2, <1>7 DEF TypeInv
<1>9. StoreInv'
  <2>1. \A k \in Items : active_revision'[k] # None =>
          item_of'[active_revision'[k]] = k /\ k \notin deleted'
    BY <1>1, <1>2, <1>4, <1>5 DEF StoreInv, TypeInv
  <2>2. \A r \in Revisions : source_revisions'[r] # None => active_extraction_sets'[r] # None
    BY <1>1, <1>2 DEF StoreInv
  <2>3. ASSUME NEW r \in Revisions, active_extraction_sets'[r] # None
        PROVE  /\ extraction_sets'[active_extraction_sets'[r]] = r
               /\ source_revisions'[r] = SourceOf[active_extraction_sets'[r]]
    <3>1. r \notin gone /\ active_extraction_sets'[r] = active_extraction_sets[r]
          /\ active_extraction_sets[r] \in Sets /\ source_revisions'[r] = source_revisions[r]
      BY <1>1, <1>2, <2>3 DEF TypeInv
    <3> QED
      BY <1>1, <1>2, <2>3, <3>1 DEF StoreInv
  <2>4. \A x \in Sets : extraction_sets'[x] # None => item_of'[extraction_sets'[x]] # None
    BY <1>1, <1>2 DEF StoreInv, TypeInv
  <2>5. \A r \in Revisions :
          item_of'[r] = None => source_revisions'[r] = None /\ active_extraction_sets'[r] = None
    BY <1>1, <1>2 DEF StoreInv
  <2> QED
    BY <2>1, <2>2, <2>3, <2>4, <2>5 DEF StoreInv
<1>10. WorkStored'
  <2>1. \A j \in Jobs : ItemOf(j[1])' = None =>
          embedding_jobs'[j] = None /\ embedding_representations'[j] = None
    BY <1>1, <1>2, <1>6, JobTypes DEF WorkStored
  <2>2. ASSUME NEW c \in claims, embedding_jobs'[c.job] = None
        PROVE  ItemOf(c.job[1])' = None
    <3>1. c.job \in Jobs /\ c.job[1] \in Inputs
      BY <1>1, JobTypes DEF TypeInv, Claims
    <3> QED
      BY <1>1, <1>2, <1>6, <2>2, <3>1 DEF WorkStored
  <2> QED
    BY <1>2, <2>1, <2>2 DEF WorkStored
<1>11. ASSUME NEW j \in Jobs
       PROVE  JobInv(j)'
  <2>1. Mine(j)' = Mine(j) /\ now \in Nat
    BY <1>1, <1>2 DEF Mine, TypeInv
  <2>2. CASE ItemOf(j[1]) = i
    BY <1>1, <1>2, <2>1, <2>2, JobPurged
  <2>3. CASE ItemOf(j[1]) # i
    BY <1>1, <1>2, <2>1, <2>3, JobKept
  <2> QED
    BY <2>2, <2>3
<1>12. IntentInv'
  <2>1. SUFFICES ASSUME selected # None, NEW k \in Items, Intended(k)',
                        NEW input \in CurrentInputs(k)'
                 PROVE  embedding_jobs'[<<input, selected>>] # None
    BY <1>2 DEF IntentInv
  <2>2. Intended(k) /\ k # i /\ active_revision[k] # None
    BY <1>2, <1>4, <2>1 DEF Intended
  <2>3. active_revision[k] \in Revisions /\ active_revision[k] \notin gone
    BY <1>1, <1>5, <2>2 DEF TypeInv, StoreInv
  <2>4. input \in CurrentInputs(k)
    BY <1>2, <2>1, <2>3 DEF CurrentInputs
  <2>5. input \in Inputs /\ ItemOf(input) = k
    BY <1>1, <2>2, <2>4, ServedInputs
  <2>6. <<input, selected>> \in Jobs /\ <<input, selected>>[1] = input
    BY <1>1, <2>1, <2>5, JobTypes DEF TypeInv
  <2> QED
    BY <1>1, <1>2, <2>1, <2>2, <2>4, <2>5, <2>6 DEF IntentInv
<1> QED
  BY <1>8, <1>9, <1>10, <1>11, <1>12 DEF JobsInv

\* A forget, the operators and the clock touch no job.
LEMMA QuietKeeps ==
  ASSUME JobsInv, UNCHANGED <<item_of, documents, choice, work>>,
         now' \in Nat, now <= now',
         active_revision' \in [Items -> Revisions \cup {None}],
         deleted' \subseteq Items, withdrawn' \subseteq Items, owner_active' \in BOOLEAN,
         \A i \in Items : active_revision'[i] \in {active_revision[i], None},
         \A i \in Items : active_revision'[i] # None /\ i \in deleted' => i \in deleted,
         withdrawn \subseteq withdrawn' \/ "restore" \in Interventions
  PROVE  JobsInv'
<1>1. TypeInv /\ StoreInv /\ WorkStored /\ IntentInv /\ \A j \in Jobs : JobInv(j)
  BY DEF JobsInv
<1>2. UNCHANGED <<item_of, source_revisions, extraction_sets, active_extraction_sets, selected,
                  skipped, embedding_jobs, embedding_representations, claims>>
  BY DEF documents, choice, work
<1>3. TypeInv'
  BY <1>1, <1>2 DEF TypeInv
<1>4. StoreInv'
  BY <1>1, <1>2 DEF StoreInv
<1>5. WorkStored'
  BY <1>1, <1>2 DEF WorkStored, ItemOf, RevisionOf
<1>6. ASSUME NEW j \in Jobs
      PROVE  JobInv(j)'
  <2>1. Mine(j)' = Mine(j)
    BY <1>2 DEF Mine
  <2> QED
    BY <1>1, <1>2, <2>1, JobKept
<1>7. IntentInv'
  <2>1. SUFFICES ASSUME selected # None, NEW k \in Items, Intended(k)',
                        NEW input \in CurrentInputs(k)'
                 PROVE  embedding_jobs[<<input, selected>>] # None
    BY <1>2 DEF IntentInv
  <2>2. active_revision'[k] = active_revision[k] /\ Intended(k)
    BY <1>2, <2>1 DEF Intended
  <2>3. input \in CurrentInputs(k)
    BY <1>2, <2>1, <2>2 DEF CurrentInputs
  <2> QED
    BY <1>1, <2>1, <2>2, <2>3 DEF IntentInv
<1> QED
  BY <1>3, <1>4, <1>5, <1>6, <1>7 DEF JobsInv

-----------------------------------------------------------------------------
(* What workers do                                                         *)

\* A worker's call creates and deletes no job and concerns no other table.
LEMMA WorkersKeep ==
  ASSUME JobsInv, UNCHANGED <<now, memory, documents, authority, choice>>,
         embedding_jobs' \in [Jobs -> JobRows \cup {None}],
         embedding_representations' \in [Jobs -> Vectors \cup {None}], claims' \subseteq Claims,
         \A j \in Jobs : embedding_jobs[j] = None <=> embedding_jobs'[j] = None,
         \A c \in claims' : embedding_jobs[c.job] # None \/ \E d \in claims : c.job = d.job,
         \A j \in Jobs : JobInv(j)'
  PROVE  JobsInv'
<1>1. TypeInv /\ StoreInv /\ WorkStored /\ IntentInv /\ \A j \in Jobs : JobInv(j)
  BY DEF JobsInv
<1>2. UNCHANGED <<active_revision, item_of, deleted, source_revisions, extraction_sets,
                  active_extraction_sets, withdrawn, owner_active, selected, skipped>>
  BY DEF memory, documents, authority, choice
<1>3. TypeInv' /\ StoreInv'
  BY <1>1, <1>2 DEF TypeInv, StoreInv
<1>4. \A input : ItemOf(input)' = ItemOf(input)
  BY <1>2 DEF ItemOf, RevisionOf
<1>5. WorkStored'
  <2>1. ASSUME NEW j \in Jobs, ItemOf(j[1])' = None
        PROVE  embedding_jobs'[j] = None /\ embedding_representations'[j] = None
    <3>1. embedding_jobs'[j] = None
      BY <1>1, <1>4, <2>1 DEF WorkStored
    <3> QED
      BY <3>1 DEF JobInv, Published
  <2>2. ASSUME NEW c \in claims', embedding_jobs'[c.job] = None
        PROVE  ItemOf(c.job[1])' = None
    <3>1. c.job \in Jobs
      BY DEF Claims
    <3> QED
      BY <1>1, <1>4, <2>2, <3>1 DEF WorkStored
  <2> QED
    BY <2>1, <2>2 DEF WorkStored
<1>6. IntentInv'
  <2>1. SUFFICES ASSUME selected # None, NEW k \in Items, Intended(k)',
                        NEW input \in CurrentInputs(k)'
                 PROVE  embedding_jobs'[<<input, selected>>] # None
    BY <1>2 DEF IntentInv
  <2>2. Intended(k) /\ active_revision[k] # None /\ input \in CurrentInputs(k)
    BY <1>2, <2>1 DEF Intended, CurrentInputs
  <2>3. <<input, selected>> \in Jobs
    BY <1>1, <2>1, <2>2, ServedInputs, JobTypes DEF TypeInv
  <2> QED
    BY <1>1, <2>1, <2>2, <2>3 DEF IntentInv
<1> QED
  BY <1>3, <1>5, <1>6 DEF JobsInv

\* A claim leases jobs that nobody holds, or whose lease ran out, under the next attempt.
LEMMA ClaimKeeps ==
  ASSUME JobsInv, NEW failed, NEW stale, NEW leased, NEW length \in Leases,
         \A j \in failed : j \in Jobs /\ Exhausted(j),
         \A j \in stale : j \in Jobs /\ Claimable(j) /\ ~Current(j),
         \A j \in leased : j \in Jobs /\ Ready(j),
         ClaimJobs(failed, stale, leased, length)
  PROVE  JobsInv'
<1>1. TypeInv /\ \A j \in Jobs : JobInv(j)
  BY DEF JobsInv
<1>2. /\ embedding_jobs' = [j \in Jobs |->
           IF j \in failed THEN Close(j, "failed")
           ELSE IF j \in stale THEN Close(j, "stopped_stale")
           ELSE IF j \in leased THEN Lease(j, length)
           ELSE embedding_jobs[j]]
      /\ claims' = claims \cup {NewClaim(j, length) : j \in leased}
      /\ UNCHANGED <<now, memory, documents, authority, choice, embedding_representations>>
  BY DEF ClaimJobs, NewClaim
<1>3. /\ \A j \in failed : Claimable(j) /\ j \in Jobs
      /\ \A j \in stale : Claimable(j) /\ ~Current(j) /\ j \in Jobs
      /\ \A j \in leased : Claimable(j) /\ Current(j) /\ j \in Jobs
  BY DEF Exhausted, Ready
<1>4. \A j \in Jobs : Claimable(j) =>
        embedding_jobs[j] \in JobRows /\ embedding_jobs[j] # None
        /\ embedding_jobs[j].status # "complete"
  BY <1>1 DEF Claimable, TypeInv
<1>5. now \in Nat /\ \A j \in Jobs : Ready(j) => embedding_jobs[j].attempt < MaxAttempts
  BY <1>1 DEF TypeInv, Ready
<1>6. \A j \in leased : j \notin failed /\ j \notin stale
  <2>1. ASSUME NEW j \in leased, j \in failed
        PROVE  FALSE
    <3>1. /\ embedding_jobs[j].attempt < MaxAttempts /\ now < embedding_jobs[j].deadline_at
          /\ \/ embedding_jobs[j].deadline_at <= now
             \/ embedding_jobs[j].attempt >= MaxAttempts
          /\ embedding_jobs[j] \in JobRows
      BY <1>3, <1>4, <2>1 DEF Ready, Exhausted
    <3>2. embedding_jobs[j].attempt \in Nat /\ embedding_jobs[j].deadline_at \in Nat
      BY <3>1, ConstantTypes DEF JobRows
    <3> QED
      BY <1>5, <3>1, <3>2, ConstantTypes
  <2> QED
    BY <1>3, <2>1
<1>7. \A j \in Jobs :
        \/ embedding_jobs'[j] = embedding_jobs[j] /\ j \notin failed \cup stale \cup leased
        \/ /\ j \in failed \cup stale /\ j \notin leased
           /\ \E status \in Terminal \ {"complete"} : embedding_jobs'[j] = Close(j, status)
        \/ j \in leased /\ embedding_jobs'[j] = Lease(j, length)
  BY <1>2, <1>6 DEF Terminal
<1>8. \A j \in leased : NewClaim(j, length) \in Claims /\ NewClaim(j, length).job = j
  <2>1. SUFFICES ASSUME NEW j \in leased
                 PROVE  NewClaim(j, length) \in Claims /\ NewClaim(j, length).job = j
    OBVIOUS
  <2>2. j \in Jobs /\ embedding_jobs[j] \in JobRows /\ embedding_jobs[j].attempt < MaxAttempts
    BY <1>3, <1>4, <1>5
  <2>3. embedding_jobs[j].attempt + 1 \in 1..MaxAttempts /\ now + length \in Nat
    BY <1>5, <2>2, ConstantTypes DEF JobRows
  <2> QED
    BY <1>5, <2>2, <2>3 DEF NewClaim, Claims
<1> HIDE DEF Close, Lease, NewClaim
<1>9. \A j \in Jobs : embedding_jobs'[j] \in JobRows \cup {None}
                      /\ (embedding_jobs[j] = None <=> embedding_jobs'[j] = None)
  <2>1. SUFFICES ASSUME NEW j \in Jobs
                 PROVE  embedding_jobs'[j] \in JobRows \cup {None}
                        /\ (embedding_jobs[j] = None <=> embedding_jobs'[j] = None)
    OBVIOUS
  <2>2. CASE embedding_jobs'[j] = embedding_jobs[j]
    BY <1>1, <2>2 DEF TypeInv
  <2>3. CASE j \in failed \cup stale
             /\ \E status \in Terminal \ {"complete"} : embedding_jobs'[j] = Close(j, status)
    BY <1>3, <1>4, <2>3, CloseRow, NoneIsNoRow
  <2>4. CASE j \in leased /\ embedding_jobs'[j] = Lease(j, length)
    BY <1>3, <1>4, <1>5, <2>4, LeaseRow, NoneIsNoRow
  <2> QED
    BY <1>7, <2>2, <2>3, <2>4
<1>10. ASSUME NEW j \in Jobs
       PROVE  JobInv(j)'
  <2>1. j \notin leased => Mine(j)' = Mine(j)
    BY <1>2, <1>8 DEF Mine
  <2>2. j \in leased => Mine(j)' = Mine(j) \cup {NewClaim(j, length)}
    BY <1>2, <1>8 DEF Mine
  <2>3. CASE embedding_jobs'[j] = embedding_jobs[j] /\ j \notin failed \cup stale \cup leased
    BY <1>1, <1>2, <1>5, <2>1, <2>3, JobKept
  <2>4. CASE j \in failed \cup stale /\ j \notin leased
             /\ \E status \in Terminal \ {"complete"} : embedding_jobs'[j] = Close(j, status)
    <3>1. PICK status \in Terminal \ {"complete"} : embedding_jobs'[j] = Close(j, status)
      BY <2>4
    <3>2. embedding_jobs[j] # None /\ embedding_jobs[j].status # "complete"
      BY <1>3, <1>4, <2>4
    <3> QED
      BY <1>1, <1>2, <2>1, <2>4, <3>1, <3>2, JobClosed
  <2>5. CASE j \in leased /\ embedding_jobs'[j] = Lease(j, length)
    BY <1>1, <1>2, <2>2, <2>5, JobLeased
  <2> QED
    BY <1>7, <2>3, <2>4, <2>5
<1>11. embedding_jobs' \in [Jobs -> JobRows \cup {None}]
  <2>1. DOMAIN embedding_jobs' = Jobs /\ embedding_jobs' = [j \in Jobs |-> embedding_jobs'[j]]
    BY <1>2
  <2> QED
    BY <1>9, <2>1
<1>12. /\ claims' \subseteq Claims
       /\ \A c \in claims' : embedding_jobs[c.job] # None \/ \E d \in claims : c.job = d.job
  BY <1>1, <1>2, <1>3, <1>4, <1>8 DEF TypeInv
<1>13. embedding_representations' \in [Jobs -> Vectors \cup {None}]
  BY <1>1, <1>2 DEF TypeInv
<1> QED
  BY <1>2, <1>9, <1>10, <1>11, <1>12, <1>13, WorkersKeep

\* An answer that changes the row of its job only.
LEMMA AnswerKeeps ==
  ASSUME JobsInv, NEW j \in Jobs, embedding_jobs[j] # None, NEW row \in JobRows,
         embedding_jobs' = [embedding_jobs EXCEPT ![j] = row],
         embedding_representations' \in [Jobs -> Vectors \cup {None}], claims' \subseteq Claims,
         \A k \in Jobs \ {j} : embedding_representations'[k] = embedding_representations[k],
         \A k \in Jobs \ {j} : Mine(k)' = Mine(k),
         \A c \in claims' : \E d \in claims : c.job = d.job,
         UNCHANGED <<now, memory, documents, authority, choice>>,
         JobInv(j)'
  PROVE  JobsInv'
<1>1. TypeInv /\ \A k \in Jobs : JobInv(k)
  BY DEF JobsInv
<1>2. /\ embedding_jobs' \in [Jobs -> JobRows \cup {None}]
      /\ embedding_jobs'[j] = row /\ row # None
      /\ \A k \in Jobs \ {j} : embedding_jobs'[k] = embedding_jobs[k]
  BY <1>1, NoneIsNoRow DEF TypeInv
<1>3. now \in Nat
  BY <1>1 DEF TypeInv
<1>4. ASSUME NEW k \in Jobs \ {j}
      PROVE  JobInv(k)'
  BY <1>1, <1>2, <1>3, JobKept
<1>5. \A k \in Jobs : JobInv(k)'
  BY <1>4
<1>6. \A k \in Jobs : embedding_jobs[k] = None <=> embedding_jobs'[k] = None
  BY <1>2
<1> QED
  BY <1>2, <1>5, <1>6, WorkersKeep

\* A completion publishes only under the lease it was claimed with.
LEMMA CompleteKeeps ==
  ASSUME JobsInv, NEW c \in claims, Complete(c)
  PROVE  JobsInv'
<1> DEFINE j == c.job
           row == embedding_jobs[j]
           vectors == [embedding_representations EXCEPT ![j] =
                         IF @ = None THEN [attempt |-> c.attempt, at |-> now] ELSE @]
<1>1. TypeInv /\ JobInv(j) /\ c \in Claims /\ j \in Jobs
  BY DEF JobsInv, TypeInv, Claims
<1>2. /\ UNCHANGED <<now, memory, documents, authority, choice, claims>>
      /\ \A k \in Jobs : Mine(k)' = Mine(k)
  BY DEF Complete, Mine
<1>3. \/ /\ Fence(c) /\ now < row.deadline_at /\ Current(j)
         /\ embedding_jobs' = [embedding_jobs EXCEPT ![j] = Close(j, "complete")]
         /\ embedding_representations' = vectors
      \/ /\ row # None /\ row.status # "complete"
         /\ \E status \in {"stopped_stale", "failed"} :
              embedding_jobs' = [embedding_jobs EXCEPT ![j] = Close(j, status)]
         /\ UNCHANGED embedding_representations
  <2>1. Fence(c) => row # None /\ row.status = "leased"
    BY DEF Fence
  <2>2. Fence(c) /\ row.deadline_at > now => now < row.deadline_at
    <3>1. Fence(c) => row.deadline_at \in Nat /\ now \in Nat
      BY <1>1, <2>1 DEF TypeInv, JobRows
    <3> QED
      BY <3>1
  <2> QED
    BY <2>1, <2>2 DEF Complete, Terminal
<1>4. claims' \subseteq Claims /\ \A d \in claims' : \E e \in claims : d.job = e.job
  BY <1>1, <1>2 DEF TypeInv
<1>5. ASSUME NEW status \in {"stopped_stale", "failed"}, row # None, row.status # "complete",
             embedding_jobs' = [embedding_jobs EXCEPT ![j] = Close(j, status)],
             UNCHANGED embedding_representations
      PROVE  JobsInv'
  <2>1. status \in Terminal \ {"complete"} /\ row \in JobRows
    BY <1>1, <1>5 DEF Terminal, TypeInv
  <2>2. Close(j, status) \in JobRows
    BY <1>1, <2>1, CloseRow
  <2>3. embedding_jobs'[j] = Close(j, status)
    BY <1>1, <1>5 DEF TypeInv
  <2>4. JobInv(j)'
    BY <1>1, <1>2, <1>5, <2>1, <2>3, JobClosed
  <2>5. /\ embedding_representations' \in [Jobs -> Vectors \cup {None}]
        /\ embedding_representations' = embedding_representations
    BY <1>1, <1>5 DEF TypeInv
  <2> HIDE DEF j
  <2> QED
    BY <1>1, <1>2, <1>4, <1>5, <2>2, <2>4, <2>5, AnswerKeeps
<1>6. ASSUME Fence(c), now < row.deadline_at,
             embedding_jobs' = [embedding_jobs EXCEPT ![j] = Close(j, "complete")],
             embedding_representations' = vectors
      PROVE  JobsInv'
  <2>1. row # None /\ row \in JobRows
    BY <1>1, <1>6 DEF Fence, TypeInv
  <2>2. Close(j, "complete") \in JobRows /\ embedding_jobs'[j] = Close(j, "complete")
    BY <1>1, <1>6, <2>1, CloseRow DEF Terminal, TypeInv
  <2>3. [attempt |-> c.attempt, at |-> now] \in Vectors
    BY <1>1 DEF Vectors, Claims, TypeInv
  <2>4. /\ embedding_representations' \in [Jobs -> Vectors \cup {None}]
        /\ embedding_representations'[j] =
             IF embedding_representations[j] = None THEN [attempt |-> c.attempt, at |-> now]
             ELSE embedding_representations[j]
        /\ \A k \in Jobs \ {j} : embedding_representations'[k] = embedding_representations[k]
    <3> DEFINE v == [attempt |-> c.attempt, at |-> now]
    <3> HIDE DEF v
    <3>1. v \in Vectors
      BY <2>3 DEF v
    <3>2. embedding_representations' = [embedding_representations EXCEPT ![j] =
            IF embedding_representations[j] = None THEN v ELSE embedding_representations[j]]
      BY <1>6 DEF v
    <3>3. /\ embedding_representations' \in [Jobs -> Vectors \cup {None}]
          /\ embedding_representations'[j] =
               IF embedding_representations[j] = None THEN v ELSE embedding_representations[j]
          /\ \A k \in Jobs \ {j} : embedding_representations'[k] = embedding_representations[k]
      BY <1>1, <3>1, <3>2 DEF TypeInv
    <3> QED
      BY <3>3 DEF v
  <2>5. JobInv(j)'
    BY <1>1, <1>2, <1>6, <2>2, <2>4, JobPublished
  <2> HIDE DEF j
  <2> QED
    BY <1>1, <1>2, <1>4, <1>6, <2>1, <2>2, <2>4, <2>5, AnswerKeeps
<1> QED
  BY <1>3, <1>5, <1>6

\* A reported failure ends the attempt of its own lease.
LEMMA FailKeeps ==
  ASSUME JobsInv, NEW c \in claims, Fail(c)
  PROVE  JobsInv'
<1> DEFINE j == c.job
           ended == [c EXCEPT !.until = now]
<1>1. TypeInv /\ JobInv(j) /\ c \in Claims /\ j \in Jobs /\ now \in Nat
  BY DEF JobsInv, TypeInv, Claims
<1>2. /\ Fence(c)
      /\ embedding_jobs' = [embedding_jobs EXCEPT ![j] = FailedRow(c)]
      /\ claims' = (claims \ {c}) \cup {ended}
      /\ UNCHANGED <<now, memory, documents, authority, choice, embedding_representations>>
  BY DEF Fail, FailedRow
<1>3. embedding_jobs[j] # None /\ embedding_jobs[j] \in JobRows
  BY <1>1, <1>2 DEF Fence, TypeInv
<1>4. FailedRow(c) \in JobRows /\ embedding_jobs'[j] = FailedRow(c)
  BY <1>1, <1>2, <1>3, FailRow DEF TypeInv
<1>5. ended \in Claims /\ ended.job = j
  BY <1>1 DEF Claims
<1> HIDE DEF FailedRow
<1>6. Mine(j)' = (Mine(j) \ {c}) \cup {ended}
  <2> HIDE DEF ended
  <2> QED
    BY <1>2, <1>5 DEF Mine
<1>7. \A k \in Jobs \ {j} : Mine(k)' = Mine(k)
  <2> HIDE DEF ended
  <2> QED
    BY <1>2, <1>5 DEF Mine
<1>8. claims' \subseteq Claims /\ \A d \in claims' : \E e \in claims : d.job = e.job
  <2> HIDE DEF ended
  <2> QED
    BY <1>1, <1>2, <1>5 DEF TypeInv
<1>9. JobInv(j)'
  BY <1>1, <1>2, <1>4, <1>6, JobFailed
<1>10. embedding_representations' \in [Jobs -> Vectors \cup {None}]
  BY <1>1, <1>2 DEF TypeInv
<1> HIDE DEF j, ended
<1> QED
  BY <1>1, <1>2, <1>3, <1>4, <1>7, <1>8, <1>9, <1>10, AnswerKeeps

\* A job whose input is not served any more is cancelled.
LEMMA CancelKeeps ==
  ASSUME JobsInv, NEW c \in claims, Cancel(c)
  PROVE  JobsInv'
<1> DEFINE j == c.job
<1>1. TypeInv /\ JobInv(j) /\ c \in Claims /\ j \in Jobs
  BY DEF JobsInv, TypeInv, Claims
<1>2. /\ Fence(c)
      /\ embedding_jobs' = [embedding_jobs EXCEPT ![j] = Close(j, "cancelled")]
      /\ UNCHANGED <<now, memory, documents, authority, choice, embedding_representations, claims>>
      /\ \A k \in Jobs : Mine(k)' = Mine(k)
  BY DEF Cancel, Mine
<1>3. /\ embedding_jobs[j] # None /\ embedding_jobs[j] \in JobRows
      /\ embedding_jobs[j].status = "leased"
  BY <1>1, <1>2 DEF Fence, TypeInv
<1>4. Close(j, "cancelled") \in JobRows /\ embedding_jobs'[j] = Close(j, "cancelled")
  BY <1>1, <1>2, <1>3, CloseRow DEF Terminal, TypeInv
<1>5. JobInv(j)'
  BY <1>1, <1>2, <1>3, <1>4, JobClosed DEF Terminal
<1>6. /\ claims' \subseteq Claims /\ \A d \in claims' : \E e \in claims : d.job = e.job
      /\ embedding_representations' \in [Jobs -> Vectors \cup {None}]
  BY <1>1, <1>2 DEF TypeInv
<1> HIDE DEF j
<1> QED
  BY <1>1, <1>2, <1>3, <1>4, <1>5, <1>6, AnswerKeeps

-----------------------------------------------------------------------------
(* The invariant                                                           *)

\* There are no jobs at first.
LEMMA JobsStart == Init => JobsInv
<1> SUFFICES ASSUME Init PROVE JobsInv
  OBVIOUS
<1>1. /\ active_revision = [i \in Items |-> None] /\ item_of = [r \in Revisions |-> None]
      /\ embedding_jobs = [j \in Jobs |-> None]
      /\ embedding_representations = [j \in Jobs |-> None]
      /\ claims = {} /\ selected = None
  BY DEF Init
<1>2. TypeInv /\ StoreInv
  BY DEF Init, TypeInv, StoreInv
<1>3. WorkStored /\ IntentInv
  BY <1>1 DEF WorkStored, IntentInv
<1>4. \A j \in Jobs : Mine(j) = {}
  BY <1>1 DEF Mine
<1>5. \A j \in Jobs : JobInv(j)
  BY <1>1, <1>4 DEF JobInv, Published, Sequenced, Fenced
<1> QED
  BY <1>2, <1>3, <1>5 DEF JobsInv

\* Every step of the tables and the workers keeps the invariant.
LEMMA JobsStep ==
  ASSUME JobsInv, [Next]_vars
  PROVE  JobsInv'
<1>1. TypeInv
  BY DEF JobsInv
<1>2. now \in Nat /\ None \in Revisions \cup {None}
  BY <1>1 DEF TypeInv
<1>3. ASSUME NEW i \in Items, ForgetItem(i)
      PROVE  JobsInv'
  <2>1. /\ UNCHANGED <<item_of, documents, choice, work, now, withdrawn, owner_active>>
        /\ active_revision' = [active_revision EXCEPT ![i] = None]
        /\ deleted' = deleted \cup {i}
    BY <1>3 DEF ForgetItem, authority
  <2>2. /\ active_revision' \in [Items -> Revisions \cup {None}]
        /\ \A k \in Items : active_revision'[k] \in {active_revision[k], None}
        /\ \A k \in Items : active_revision'[k] # None /\ k \in deleted' => k \in deleted
    BY <1>1, <2>1 DEF TypeInv
  <2> QED
    BY <1>1, <2>1, <2>2, QuietKeeps DEF TypeInv
<1>4. ASSUME NEW i \in Items, WithdrawCollection(i)
      PROVE  JobsInv'
  BY <1>1, <1>4, QuietKeeps DEF WithdrawCollection, memory, TypeInv
<1>5. ASSUME NEW i \in Items, RestoreCollection(i)
      PROVE  JobsInv'
  BY <1>1, <1>5, QuietKeeps DEF RestoreCollection, memory, TypeInv
<1>6. CASE SwitchOwner
  BY <1>1, <1>6, QuietKeeps DEF SwitchOwner, memory, TypeInv
<1>7. CASE Tick
  BY <1>1, <1>7, QuietKeeps DEF Tick, memory, authority, TypeInv
<1>8. CASE UNCHANGED vars
  BY <1>1, <1>8, QuietKeeps DEF vars, memory, authority, TypeInv
<1>9. CASE Claim
  <2>1. PICK failed \in Batches({j \in Jobs : Exhausted(j)}), length \in Leases :
          \E stale \in Batches({j \in Jobs \ failed : Claimable(j) /\ ~Current(j)}) :
            \E leased \in Batches({j \in Jobs : Ready(j)}) :
              ClaimJobs(failed, stale, leased, length)
    BY <1>9 DEF Claim
  <2>2. PICK stale \in Batches({j \in Jobs \ failed : Claimable(j) /\ ~Current(j)}),
             leased \in Batches({j \in Jobs : Ready(j)}) :
               ClaimJobs(failed, stale, leased, length)
    BY <2>1
  <2>3. /\ \A j \in failed : j \in Jobs /\ Exhausted(j)
        /\ \A j \in stale : j \in Jobs /\ Claimable(j) /\ ~Current(j)
        /\ \A j \in leased : j \in Jobs /\ Ready(j)
    BY DEF Batches
  <2> QED
    BY <2>2, <2>3, ClaimKeeps
<1> QED
  BY <1>3, <1>4, <1>5, <1>6, <1>7, <1>8, <1>9, WriteKeeps, ActivateKeeps, SelectKeeps,
     PurgeKeeps, CompleteKeeps, FailKeeps, CancelKeeps DEF Next

\* What is true of the embedding tables in every state.
THEOREM JobsAreKept == Spec => []JobsInv
<1>1. JobsInv /\ [Next]_vars => JobsInv'
  BY JobsStep
<1> QED
  BY <1>1, JobsStart, PTL DEF Spec

-----------------------------------------------------------------------------
(* Theorems                                                                *)

\* Rows are typed, and carry a lease exactly while they are leased.
THEOREM JobsTypeCorrect == Spec => []JobsTypeOK
<1>1. JobsInv => JobsTypeOK
  BY DEF JobsInv, TypeInv, StoreInv, JobInv, Fenced, JobsTypeOK
<1> QED
  BY <1>1, JobsAreKept, PTL

\* A worker that was overtaken, or answers late or twice, publishes nothing.
THEOREM LastLeasePublishes == Spec => []PublishedByLastLease
<1>1. JobsInv => PublishedByLastLease
  BY DEF JobsInv, JobInv, Published, PublishedByLastLease, Mine
<1> QED
  BY <1>1, JobsAreKept, PTL

\* The leases of a job follow one another: its content is with one worker at most.
THEOREM LeasesExclude == Spec => []OneWorkerAtATime
<1>1. JobsInv => OneWorkerAtATime
  <2> SUFFICES ASSUME JobsInv, NEW c \in claims
               PROVE  /\ c.attempt <= MaxAttempts
                      /\ embedding_jobs[c.job] # None =>
                           c.from < embedding_jobs[c.job].deadline_at
                      /\ \A d \in claims : c.job = d.job /\ c # d =>
                           \/ c.attempt < d.attempt /\ c.until <= d.from
                           \/ d.attempt < c.attempt /\ d.until <= c.from
    BY DEF OneWorkerAtATime
  <2>1. c \in Claims /\ c.job \in Jobs /\ c \in Mine(c.job)
    BY DEF JobsInv, TypeInv, Claims, Mine
  <2>2. Sequenced(c.job)
    BY <2>1 DEF JobsInv, JobInv
  <2>3. c.attempt <= MaxAttempts
    BY <2>1, ConstantTypes DEF Claims
  <2>4. \A d \in claims : d.job = c.job => d \in Mine(c.job)
    BY DEF Mine
  <2> QED
    BY <2>1, <2>2, <2>3, <2>4 DEF Sequenced, InOrder
<1> QED
  BY <1>1, JobsAreKept, PTL

\* Sources, passages, jobs and vectors exist only for stored revisions.
THEOREM PurgeTakesWorkAlong == Spec => []NothingOutlivesItem
<1>1. JobsInv => NothingOutlivesItem
  BY DEF JobsInv, StoreInv, WorkStored, NothingOutlivesItem
<1> QED
  BY <1>1, JobsAreKept, PTL

\* Whatever is served has a job under the selected generation.
THEOREM IntentIsDurable == Spec => []NoLostIntent
<1>1. JobsInv => NoLostIntent
  BY DEF JobsInv, IntentInv, NoLostIntent, Intended, Eligible
<1> QED
  BY <1>1, JobsAreKept, PTL

\* Ready means that every eligible memory can be ranked whole, pending that a worker
\* is still to come or found the input stale.
THEOREM ReadinessIsHonest == Spec => []ReadinessHonest
<1>1. ASSUME JobsInv, Readiness = "ready", NEW i \in Eligible
      PROVE  LET x == active_extraction_sets[active_revision[i]] IN
             Searched(i) = IF x = None THEN {active_revision[i]} ELSE PassagesOf(x)
  <2>1. i \in Items /\ active_revision[i] # None /\ TypeInv /\ StoreInv
    BY <1>1 DEF Eligible, JobsInv
  <2>2. selected # None /\ \A j \in CurrentJobs : Embedded(j[1])
    BY <1>1 DEF Readiness
  <2>3. selected \in Generations
    BY <2>1, <2>2 DEF TypeInv
  <2>4. ASSUME NEW input \in CurrentInputs(i)
        PROVE  Embedded(input)
    <3>1. <<input, selected>> \in Jobs
      BY <2>1, <2>3, ServedInputs, JobTypes
    <3>2. <<input, selected>> \in CurrentJobs
      BY <3>1 DEF CurrentJobs
    <3> QED
      BY <2>2, <3>2
  <2> QED
    BY <2>4 DEF CurrentInputs, Searched
<1>2. ASSUME JobsInv, Readiness = "pending", Eligible \cap skipped = {}
      PROVE  \E j \in CurrentJobs :
               embedding_jobs[j] # None
               /\ (Open(j) \/ embedding_jobs[j].status = "stopped_stale")
  <2>1. TypeInv /\ StoreInv /\ IntentInv /\ \A j \in Jobs : JobInv(j)
    BY <1>2 DEF JobsInv
  <2>2. selected # None
    BY <1>2 DEF Readiness
  <2>3. ~\E i \in Eligible : /\ source_revisions[active_revision[i]] # None
                             /\ active_extraction_sets[active_revision[i]] = None
    BY <2>1 DEF StoreInv, Eligible, TypeInv
  <2>4. /\ WithStatus({"failed", "cancelled"}) = {}
        /\ \/ WithStatus({"pending", "leased", "retry"}) # {}
           \/ \E j \in CurrentJobs : ~Embedded(j[1])
    BY <1>2, <2>2, <2>3 DEF Readiness
  <2>5. CASE WithStatus({"pending", "leased", "retry"}) # {}
    BY <2>5 DEF WithStatus, Open, Terminal
  <2>6. CASE \E j \in CurrentJobs : ~Embedded(j[1])
    <3>1. PICK j \in CurrentJobs : ~Embedded(j[1])
      BY <2>6
    <3>2. PICK i \in Eligible : j[1] \in CurrentInputs(i) /\ j[2] = selected
      BY DEF CurrentJobs
    <3>3. j \in Jobs /\ j = <<j[1], selected>>
      BY <3>2, JobTypes DEF CurrentJobs
    <3>4. Intended(i) /\ i \in Items
      BY <1>2 DEF Eligible, Intended
    <3>5. embedding_jobs[j] # None
      BY <2>1, <2>2, <3>2, <3>3, <3>4 DEF IntentInv
    <3>6. embedding_representations[j] = None
      BY <3>1, <3>3 DEF Embedded
    <3>7. embedding_jobs[j].status # "complete"
      BY <2>1, <3>3, <3>5, <3>6 DEF JobInv, Published
    <3>8. embedding_jobs[j].status \notin {"failed", "cancelled"}
      BY <2>4, <3>5 DEF WithStatus
    <3> QED
      BY <3>5, <3>7, <3>8 DEF Open, Terminal
  <2> QED
    BY <2>4, <2>5, <2>6
<1>3. JobsInv => ReadinessHonest
  BY <1>1, <1>2 DEF ReadinessHonest
<1> QED
  BY <1>3, JobsAreKept, PTL

\* A vector appears only for what is served, selected and allowed at that instant.
THEOREM PublishesTheCurrent == Spec => PublishedWhileCurrent
<1> DEFINE A == \A j \in Jobs :
                  embedding_representations[j] = None /\ embedding_representations'[j] # None =>
                    /\ selected = j[2] /\ owner_active
                    /\ \E i \in Eligible \ deleted : j[1] \in CurrentInputs(i)
<1>1. JobsInv /\ [Next]_vars => [A]_vars
  <2> SUFFICES ASSUME JobsInv, Next, NEW j \in Jobs,
                      embedding_representations[j] = None, embedding_representations'[j] # None
               PROVE  /\ selected = j[2] /\ owner_active
                      /\ \E i \in Eligible \ deleted : j[1] \in CurrentInputs(i)
    OBVIOUS
  <2>1. TypeInv
    BY DEF JobsInv
  <2>2. PICK c \in claims : Complete(c)
    <3>1. ASSUME NEW i \in Items, PurgeItem(i)
          PROVE  FALSE
      BY <3>1 DEF PurgeItem, EraseItem
    <3> QED
      BY <3>1 DEF Next, WriteRevision, StoreRevision, ForgetItem, ActivateExtraction,
         StoreExtraction, SelectGeneration, ChooseGeneration, Claim, ClaimJobs, Fail, Cancel,
         WithdrawCollection, RestoreCollection, SwitchOwner, Tick, work
  <2>3. Current(j)
    BY <2>1, <2>2 DEF Complete, TypeInv
  <2>4. j[1] \in Inputs /\ ItemOf(j[1]) \in Items /\ RevisionOf(j[1]) # None
    BY <2>1, <2>3, JobTypes, InputTypes, ConstantTypes DEF Current
  <2>5. ItemOf(j[1]) \in Eligible \ deleted
    BY <2>3, <2>4 DEF Current, Eligible
  <2> QED
    BY <2>3, <2>5 DEF Current
<1> QED
  BY <1>1, JobsAreKept, PTL DEF Spec, PublishedWhileCurrent

-----------------------------------------------------------------------------
(* Transactions                                                            *)

Holds(t) == transaction[t].stage \in {"locked", "asked"}

\* One transaction has the tenant row, and what its triggers asked for is what they
\* would ask for at this instant: nobody changed what they read.
TransactionsInv ==
  /\ transaction \in [Transactions -> [stage : {"none", "upserted", "locked", "asked"},
                                       call : Calls \cup {None}, asked : SUBSET Jobs]]
  /\ \A t \in Transactions : transaction[t].stage # "none" => transaction[t].call \in Calls
  /\ \A t, u \in Transactions : Holds(t) /\ Holds(u) => t = u
  /\ \A t \in Transactions :
       transaction[t].stage = "asked" => transaction[t].asked = JobsFor(transaction[t].call)

\* What triggers ask for depends on what is selected, served and withdrawn only.
LEMMA AskingIsStable ==
  ASSUME UNCHANGED <<selected, active_revision, active_extraction_sets, withdrawn>>
  PROVE  \A call : JobsFor(call)' = JobsFor(call)
<1>1. \A i \in Items : Served(i)' = Served(i)
  BY DEF Served, CurrentInputs
<1> QED
  BY <1>1 DEF JobsFor

\* A transaction that moves leaves the others, and the tables, alone.
LEMMA TransactionMoves ==
  ASSUME TransactionsInv, NEW t \in Transactions, UNCHANGED vars, NEW x,
         x \in [stage : {"none", "upserted", "locked", "asked"},
                call : Calls \cup {None}, asked : SUBSET Jobs],
         transaction' = [transaction EXCEPT ![t] = x],
         x.stage # "none" => x.call \in Calls,
         x.stage \in {"locked", "asked"} => \A u \in Transactions : Holds(u) => u = t,
         x.stage = "asked" => x.asked = JobsFor(x.call)
  PROVE  TransactionsInv'
<1>1. \A call : JobsFor(call)' = JobsFor(call)
  BY AskingIsStable DEF vars, memory, documents, authority, choice
<1>2. /\ transaction'[t] = x
      /\ \A u \in Transactions : u # t => transaction'[u] = transaction[u]
  BY DEF TransactionsInv
<1>3. transaction' \in [Transactions -> [stage : {"none", "upserted", "locked", "asked"},
                                         call : Calls \cup {None}, asked : SUBSET Jobs]]
  BY DEF TransactionsInv
<1>4. \A u \in Transactions : transaction'[u].stage # "none" => transaction'[u].call \in Calls
  BY <1>2 DEF TransactionsInv
<1>5. \A u, v \in Transactions : Holds(u)' /\ Holds(v)' => u = v
  BY <1>2 DEF TransactionsInv, Holds
<1>6. \A u \in Transactions :
        transaction'[u].stage = "asked" => transaction'[u].asked = JobsFor(transaction'[u].call)
  BY <1>2 DEF TransactionsInv
<1> QED
  BY <1>1, <1>3, <1>4, <1>5, <1>6 DEF TransactionsInv

\* The steps before the commit, and the rollback.
LEMMA PreparationKeeps ==
  ASSUME TransactionsInv, NEW t \in Transactions,
         \/ \E call \in Calls : UpsertGeneration(t, call) \/ TakeTenantRow(t, call)
         \/ Ask(t) \/ Rollback(t)
  PROVE  TransactionsInv' /\ UNCHANGED vars
<1> DEFINE y == transaction[t]
           Kinds == [stage : {"none", "upserted", "locked", "asked"},
                     call : Calls \cup {None}, asked : SUBSET Jobs]
<1>1. y \in Kinds /\ transaction \in [Transactions -> Kinds]
  BY DEF TransactionsInv
<1>2. ASSUME NEW call \in Calls, UpsertGeneration(t, call) PROVE TransactionsInv' /\ UNCHANGED vars
  <2>1. transaction' = [transaction EXCEPT ![t] = [y EXCEPT !.stage = "upserted", !.call = call]]
    BY <1>1, <1>2 DEF UpsertGeneration
  <2>2. [y EXCEPT !.stage = "upserted", !.call = call] \in Kinds
    BY <1>1
  <2> QED
    BY <1>1, <1>2, <2>1, <2>2, TransactionMoves DEF UpsertGeneration
<1>3. ASSUME NEW call \in Calls, TakeTenantRow(t, call) PROVE TransactionsInv' /\ UNCHANGED vars
  <2>1. transaction' = [transaction EXCEPT ![t] = [y EXCEPT !.stage = "locked", !.call = call]]
    BY <1>1, <1>3 DEF TakeTenantRow
  <2>2. [y EXCEPT !.stage = "locked", !.call = call] \in Kinds
    BY <1>1
  <2>3. \A u \in Transactions : ~Holds(u)
    BY <1>3 DEF TakeTenantRow, RowFree, Holds
  <2> QED
    BY <1>1, <1>3, <2>1, <2>2, <2>3, TransactionMoves DEF TakeTenantRow
<1>4. ASSUME Ask(t) PROVE TransactionsInv' /\ UNCHANGED vars
  <2> DEFINE x == [y EXCEPT !.stage = "asked", !.asked = JobsFor(y.call)]
  <2>1. transaction' = [transaction EXCEPT ![t] = x]
    BY <1>1, <1>4 DEF Ask
  <2>2. JobsFor(y.call) \in SUBSET Jobs
    BY DEF JobsFor
  <2>3. x \in Kinds /\ x.call = y.call /\ x.asked = JobsFor(x.call) /\ x.stage = "asked"
    BY <1>1, <2>2
  <2>4. y.call \in Calls /\ \A u \in Transactions : Holds(u) => u = t
    BY <1>4 DEF Ask, TransactionsInv, Holds
  <2> HIDE DEF x
  <2> QED
    BY <1>4, <2>1, <2>3, <2>4, TransactionMoves DEF Ask
<1>5. ASSUME Rollback(t) PROVE TransactionsInv' /\ UNCHANGED vars
  <2>1. NotRunning \in Kinds /\ NotRunning.stage = "none"
    BY DEF NotRunning
  <2> QED
    BY <1>5, <2>1, TransactionMoves DEF Rollback
<1> QED
  BY <1>2, <1>3, <1>4, <1>5

\* The commit inserts what the one-step operation would, and no other transaction
\* has asked for anything yet.
LEMMA CommitKeeps ==
  ASSUME TransactionsInv, NEW t \in Transactions, Commit(t)
  PROVE  TransactionsInv' /\ Next
<1> DEFINE y == transaction[t]
           call == y.call
<1>1. y.stage = "asked" /\ call \in Calls /\ y.asked = JobsFor(call)
  BY DEF TransactionsInv, Commit
<1>2. InsertJobs(JobsFor(call))
  BY <1>1 DEF Commit
<1>3. Next
  <2>1. CASE call.kind = "write" /\ StoreRevision(call.item, call.name)
    <3>1. call.item \in Items /\ call.name \in Revisions
      BY <1>1, <2>1 DEF Calls
    <3>2. JobsFor(call) = {j \in Jobs : j[1] \in {call.name} /\ j[2] = selected}
      BY <2>1 DEF JobsFor
    <3>3. WriteRevision(call.item, call.name)
      BY <1>2, <2>1, <3>2 DEF WriteRevision, Enqueue, EnqueueFor
    <3> QED
      BY <3>1, <3>3 DEF Next
  <2>2. CASE call.kind = "extract" /\ StoreExtraction(call.item, call.name)
    <3>1. call.item \in Items /\ call.name \in Sets
      BY <1>1, <2>2 DEF Calls
    <3>2. JobsFor(call) = {j \in Jobs : j[1] \in PassagesOf(call.name) /\ j[2] = selected}
      BY <2>2 DEF JobsFor
    <3>3. ActivateExtraction(call.item, call.name)
      BY <1>2, <2>2, <3>2 DEF ActivateExtraction, Enqueue, EnqueueFor
    <3> QED
      BY <3>1, <3>3 DEF Next
  <2>3. CASE call.kind = "select" /\ ChooseGeneration(call.name)
    <3>1. call.name \in Generations
      BY <1>1, <2>3 DEF Calls
    <3>2. JobsFor(call) = {j \in Jobs : /\ j[1] \in UNION {Served(i) : i \in Items \ withdrawn}
                                        /\ j[2] = call.name}
      BY <2>3 DEF JobsFor
    <3>3. SelectGeneration(call.name)
      BY <1>2, <2>3, <3>2 DEF SelectGeneration, EnqueueFor
    <3> QED
      BY <3>1, <3>3 DEF Next
  <2> QED
    BY <2>1, <2>2, <2>3 DEF Commit
<1>4. /\ transaction'[t] = NotRunning
      /\ \A u \in Transactions : u # t => transaction'[u] = transaction[u] /\ ~Holds(u)
  BY <1>1 DEF Commit, TransactionsInv, Holds
<1>5. transaction' \in [Transactions -> [stage : {"none", "upserted", "locked", "asked"},
                                         call : Calls \cup {None}, asked : SUBSET Jobs]]
  BY DEF Commit, TransactionsInv, NotRunning
<1>6. \A u \in Transactions : ~Holds(u)'
  BY <1>4 DEF Holds, NotRunning
<1>7. \A u \in Transactions : transaction'[u].stage # "none" => transaction'[u].call \in Calls
  BY <1>4 DEF TransactionsInv, NotRunning
<1> QED
  BY <1>3, <1>5, <1>6, <1>7 DEF TransactionsInv, Holds

\* Who needs the row finds that no trigger has run; who does not need it changes
\* nothing that triggers read.
LEMMA BesideKeeps ==
  ASSUME TransactionsInv, Beside
  PROVE  TransactionsInv' /\ Next
<1>1. Next
  BY DEF Beside, Next
<1>2. UNCHANGED transaction
  BY DEF Beside
<1>3. CASE RowFree
  <2>1. \A t \in Transactions : transaction[t].stage # "asked"
    BY <1>3 DEF RowFree
  <2> QED
    BY <1>1, <1>2, <2>1 DEF TransactionsInv, Holds
<1>4. CASE (\E c \in claims : Fail(c) \/ Cancel(c)) \/ Tick
  <2>1. UNCHANGED <<selected, active_revision, active_extraction_sets, withdrawn>>
    BY <1>4 DEF Fail, Cancel, Tick, memory, documents, authority, choice
  <2>2. \A call : JobsFor(call)' = JobsFor(call)
    BY <2>1, AskingIsStable
  <2> QED
    BY <1>1, <1>2, <2>2 DEF TransactionsInv, Holds
<1> QED
  BY <1>3, <1>4 DEF Beside

\* Every step is a step of EmbeddingJobs or leaves its tables alone.
LEMMA TransactionStep ==
  ASSUME TransactionsInv, [TransactionsNext]_allVars
  PROVE  TransactionsInv' /\ [Next]_vars
<1>1. CASE UNCHANGED allVars
  <2>1. UNCHANGED vars /\ UNCHANGED transaction
    BY <1>1 DEF allVars
  <2>2. \A call : JobsFor(call)' = JobsFor(call)
    BY <2>1, AskingIsStable DEF vars, memory, documents, authority, choice
  <2> QED
    BY <2>1, <2>2 DEF TransactionsInv, Holds
<1>2. CASE TransactionsNext
  <2>1. CASE Beside
    BY <2>1, BesideKeeps
  <2>2. CASE \E t \in Transactions : Commit(t)
    BY <2>2, CommitKeeps
  <2>3. ASSUME NEW t \in Transactions,
               \/ \E call \in Calls : UpsertGeneration(t, call) \/ TakeTenantRow(t, call)
               \/ Ask(t) \/ Rollback(t)
        PROVE  TransactionsInv' /\ UNCHANGED vars
    BY <2>3, PreparationKeeps
  <2> QED
    BY <1>2, <2>1, <2>2, <2>3 DEF TransactionsNext
<1> QED
  BY <1>1, <1>2

\* Nobody has begun.
LEMMA TransactionsStart == TransactionsInit => TransactionsInv
  BY DEF TransactionsInit, TransactionsInv, NotRunning, Holds

\* However the statements of writers, extractions, selections, purges and workers
\* interleave, each transaction is one step of EmbeddingJobs, or nothing.
THEOREM TransactionsImplementJobs == TransactionsSpec => TransactionsAreAtomic
<1>1. TransactionsInv /\ [TransactionsNext]_allVars => TransactionsInv' /\ [Next]_vars
  BY TransactionStep
<1>2. TransactionsInit => Init
  BY DEF TransactionsInit
<1> QED
  BY <1>1, <1>2, TransactionsStart, PTL DEF TransactionsSpec, TransactionsAreAtomic

\* No order of statements leaves served content without a job for the selected
\* generation.
THEOREM InterleavedIntentIsDurable == TransactionsSpec => []NoLostIntent
<1>1. JobsInv /\ [Next]_vars => JobsInv'
  BY JobsStep
<1>2. JobsInv => NoLostIntent
  BY DEF JobsInv, IntentInv, Intended, Eligible, NoLostIntent
<1> QED
  BY <1>1, <1>2, JobsStart, TransactionsImplementJobs, PTL DEF TransactionsAreAtomic
=============================================================================
