-------------------------- MODULE ReadSessionsProofs --------------------------
(***************************************************************************)
(* What holds of ReadSessions for any number of sessions, readers, requests  *)
(* and generations and any number of token permits: a read that is held open   *)
(* over packing and counting still answers with what is true when it commits,  *)
(* and what it released is what the audit trail says.                          *)
(***************************************************************************)
EXTENDS ReadSessions, MemoryLifecycleProofs, FiniteSetTheorems

-----------------------------------------------------------------------------
(* The inductive invariant                                                 *)

Held == {"found", "packing", "packed"}
Stages == {"idle", "arrived", "planning", "planned", "failed", "answered", "lost"} \cup Held
Codes == {"malformed", "unauthenticated", "storage_unavailable", "stale_context",
          "context_budget_unavailable", "invalid_context_budget"}
PlanRows == [status : Statuses \cup {"not_requested"}, generation : Generations \cup {None}]
Shown == SUBSET (Items \X (Revisions \cup {None}))
ReadingRows == [stage : Stages, request : Requests \cup {None}, plan : PlanRows,
                effective : PlanRows, shown : Shown, epoch : Nat,
                outcome : {"none", "released", "unavailable"},
                code : Codes \cup {"none", "ok", "unavailable"}]

TypeInv ==
  /\ reading \in [Sessions -> ReadingRows]
  /\ share \subseteq Sessions /\ workers \subseteq Sessions
  /\ DOMAIN read_audit = Sessions
  /\ generation \in Generations \cup {None} /\ readiness \in Statuses

\* The row is shared by exactly the transactions past their look-up, and a worker
\* belongs to a session that is packing or whose client hung up while it was.
HeldInv ==
  /\ share = {s \in Sessions : reading[s].stage \in Held}
  /\ \A s \in workers : reading[s].stage \in {"packing", "lost"}
  /\ IsFiniteSet(workers) /\ Cardinality(workers) <= Permits

\* What a transaction looked up is true for as long as it shares the row.
FoundHolds(x) ==
  /\ x.shown = VisibleOf(x.request)
  /\ revoked_at[x.request.credential] = None
  /\ CredentialOwner[x.request.credential] \notin inactive
  /\ x.epoch = authority_epoch
  /\ x.effective.status = "ready" =>
       readiness = "ready" /\ generation = x.effective.generation

\* Only a semantic search that needn't count tokens is tried a second time.
MayFallBack(q) == q.semantic # "none" /\ ~q.tokens /\ q.defect # "scope"

\* What is known of one session and its audit row before the answer: a row is
\* there only if an attempt committed unheard, and then no first attempt remains.
Trail(x, row) ==
  /\ x.stage # "idle" => x.request \in Requests
  /\ x.stage = "planning" => x.request.semantic # "none"
  /\ x.stage \in {"idle", "arrived", "planning"} => x.plan = NotRequested
  /\ x.plan.status = "ready" => x.request.semantic # "none"
  /\ x.stage \in Held => x.request.defect # "scope"
  /\ x.stage \in {"idle", "arrived", "planning"} \cup Held => row = None
  /\ x.stage = "planned" /\ row # None =>
       row.epoch # None /\ x.plan.status # "ready" /\ MayFallBack(x.request)
  /\ x.stage = "failed" => x.code \in Codes
  /\ x.stage = "failed" /\ row # None =>
       /\ row.epoch # None
       /\ \/ x.code = "storage_unavailable"
          \/ x.code = "unauthenticated" /\ MayFallBack(x.request)

\* The answer agrees with the audit row.
Agrees(x, row) ==
  /\ x.code = "ok" => row = [outcome |-> "released", epoch |-> x.epoch, shown |-> x.shown]
  /\ row # None /\ row.outcome = "released" =>
       \/ x.code \in {"ok", "storage_unavailable"}
       \/ x.code = "unauthenticated" /\ x.request.semantic # "none" /\ ~x.request.tokens
  /\ row # None /\ row.epoch = None => row.outcome = RejectionOutcome(x.code)

SessionInv(x, row) ==
  /\ x.stage \in Held => FoundHolds(x)
  /\ Trail(x, row)
  /\ x.stage = "answered" => Agrees(x, row)

ReadsInv ==
  /\ TypeInv
  /\ HeldInv
  /\ \A s \in Sessions : SessionInv(reading[s], read_audit[s])
-----------------------------------------------------------------------------
(* How the handler writes its own row                                      *)

\* Everybody else's row is left alone.
OthersKeep(s) == \A z \in Sessions \ {s} : reading'[z] = reading[z]

\* A handler that goes on changes its stage only.
LEMMA GoRow ==
  ASSUME TypeInv, NEW s \in Sessions, NEW stage \in Stages, Go(s, stage)
  PROVE  /\ reading' \in [Sessions -> ReadingRows] /\ OthersKeep(s)
         /\ reading'[s] = [reading[s] EXCEPT !.stage = stage]
         /\ reading'[s].stage = stage
         /\ reading'[s].request = reading[s].request /\ reading'[s].plan = reading[s].plan
         /\ reading'[s].effective = reading[s].effective /\ reading'[s].shown = reading[s].shown
         /\ reading'[s].epoch = reading[s].epoch /\ reading'[s].outcome = reading[s].outcome
         /\ reading'[s].code = reading[s].code
<1>1. reading[s] \in ReadingRows /\ DOMAIN reading = Sessions
  BY DEF TypeInv
<1>2. reading' = [reading EXCEPT ![s] = [reading[s] EXCEPT !.stage = stage]]
  BY DEF Go
<1>3. [reading[s] EXCEPT !.stage = stage] \in ReadingRows
  BY <1>1 DEF ReadingRows
<1> QED
  BY <1>1, <1>2, <1>3 DEF TypeInv, ReadingRows, OthersKeep

\* A failed attempt leaves the shared row; it falls back to a pending plan, or reports.
LEMMA FailRow ==
  ASSUME TypeInv, NEW s \in Sessions, NEW code \in Codes, Fail(s, code)
  PROVE  /\ reading' \in [Sessions -> ReadingRows] /\ OthersKeep(s)
         /\ share' = share \ {s}
         /\ reading'[s].request = reading[s].request
         /\ \/ /\ reading[s].plan.status = "ready" /\ ~reading[s].request.tokens
               /\ reading'[s].stage = "planned" /\ reading'[s].plan = Pending
            \/ /\ ~FallsBack(s, code)
               /\ reading'[s].stage = "failed" /\ reading'[s].plan = reading[s].plan
               /\ reading'[s].code = code
<1> DEFINE back == [reading[s] EXCEPT !.stage = "planned", !.plan = Pending,
                                      !.shown = {}, !.outcome = "none"]
           over == [reading[s] EXCEPT !.stage = "failed", !.shown = {},
                                      !.outcome = "none", !.code = code]
<1>1. reading[s] \in ReadingRows /\ DOMAIN reading = Sessions
  BY DEF TypeInv
<1>2. Pending \in PlanRows /\ {} \in Shown
  BY DEF Pending, PlanRows, Statuses, Shown
<1>3. /\ back \in ReadingRows /\ back.request = reading[s].request
      /\ back.stage = "planned" /\ back.plan = Pending
  BY <1>1, <1>2 DEF ReadingRows, Stages
<1>4. /\ over \in ReadingRows /\ over.request = reading[s].request
      /\ over.stage = "failed" /\ over.plan = reading[s].plan /\ over.code = code
  BY <1>1, <1>2 DEF ReadingRows, Stages
<1>5. share' = share \ {s}
  BY DEF Fail, Unshare
<1>6. reading' = [reading EXCEPT ![s] = IF FallsBack(s, code) THEN back ELSE over]
  BY DEF Fail
<1> HIDE DEF back, over
<1>7. CASE FallsBack(s, code)
  BY <1>1, <1>3, <1>5, <1>6, <1>7 DEF TypeInv, OthersKeep, FallsBack
<1>8. CASE ~FallsBack(s, code)
  BY <1>1, <1>4, <1>5, <1>6, <1>8 DEF TypeInv, OthersKeep
<1> QED
  BY <1>7, <1>8

\* What a reader may see is made of items and of revisions they serve.
LEMMA VisibleTyped ==
  ASSUME TypeOK, NEW q PROVE VisibleOf(q) \in Shown
<1>1. \A i \in Items : items[i] # None => items[i] \in ItemRows
  BY DEF TypeOK
<1>2. \A i \in Items : items[i] # None => items[i].active \in Revisions \cup {None}
  BY <1>1 DEF ItemRows
<1> QED
  BY <1>2 DEF VisibleOf, Visible, OwnItem, Shown

\* What a plan comes to under the shared row is still a plan, and still ready only
\* if its generation is.
LEMMA EffectiveTyped ==
  ASSUME TypeInv, NEW s \in Sessions
  PROVE  /\ Effective(s) \in PlanRows
         /\ Effective(s).status = "ready" =>
              readiness = "ready" /\ generation = Effective(s).generation
<1>1. reading[s].plan \in PlanRows
  BY DEF TypeInv, ReadingRows
<1>2. Pending \in PlanRows /\ Failed \in PlanRows /\ Pending.status # "ready" /\ Failed.status # "ready"
  BY DEF Pending, Failed, PlanRows, Statuses
<1> QED
  BY <1>1, <1>2 DEF Effective

\* A look-up records what it found.
LEMMA FindRow ==
  ASSUME TypeOK, TypeInv, NEW s \in Sessions, NEW stage \in Stages,
         NEW outcome \in {"released", "unavailable"}, Find(s, stage, outcome)
  PROVE  /\ reading' \in [Sessions -> ReadingRows] /\ OthersKeep(s)
         /\ share' = share \cup {s} /\ read_audit[s] = None
         /\ UNCHANGED <<now, memory, workers, read_audit, semantics>>
         /\ reading'[s].stage = stage /\ reading'[s].request = reading[s].request
         /\ reading'[s].plan = reading[s].plan
         /\ reading'[s].effective = Effective(s) /\ reading'[s].epoch = authority_epoch
         /\ reading'[s].shown = VisibleOf(reading[s].request)
<1> DEFINE shown == VisibleOf(reading[s].request)
           effective == Effective(s)
           row == [reading[s] EXCEPT !.stage = stage, !.effective = effective,
                     !.shown = shown, !.epoch = authority_epoch, !.outcome = outcome]
<1>1. reading[s] \in ReadingRows /\ DOMAIN reading = Sessions
  BY DEF TypeInv
<1>2. shown \in Shown /\ effective \in PlanRows /\ authority_epoch \in Nat
  BY VisibleTyped, EffectiveTyped DEF TypeOK
<1>3. reading' = [reading EXCEPT ![s] = row] /\ read_audit[s] = None /\ share' = share \cup {s}
  BY DEF Find, AuditKeyTaken
<1>4. UNCHANGED <<now, memory, workers, read_audit, semantics>>
  BY DEF Find
<1> HIDE DEF shown, effective
<1>5. /\ row \in ReadingRows
      /\ row.stage = stage /\ row.request = reading[s].request /\ row.plan = reading[s].plan
      /\ row.effective = effective /\ row.epoch = authority_epoch /\ row.shown = shown
  BY <1>1, <1>2 DEF ReadingRows
<1> HIDE DEF row
<1>6. reading' \in [Sessions -> ReadingRows] /\ OthersKeep(s) /\ reading'[s] = row
  BY <1>1, <1>3, <1>5 DEF TypeInv, OthersKeep
<1> QED
  BY <1>3, <1>4, <1>5, <1>6 DEF shown, effective
-----------------------------------------------------------------------------
(* The handler keeps what it knows                                         *)

\* Worker s is the only one that may come or go, and not beyond the permits.
WorkersMoved(s) ==
  /\ workers' \subseteq workers \cup {s}
  /\ s \in workers' => reading'[s].stage \in {"packing", "lost"}
  /\ IsFiniteSet(workers') /\ Cardinality(workers') <= Permits

\* A step of session s changes its own row and audit row, and shares or releases
\* the tenant row as its stage says.
RowMoved(s) ==
  /\ reading' \in [Sessions -> ReadingRows] /\ OthersKeep(s)
  /\ DOMAIN read_audit' = Sessions /\ \A z \in Sessions \ {s} : read_audit'[z] = read_audit[z]
  /\ share' = IF reading'[s].stage \in Held THEN share \cup {s} ELSE share \ {s}
  /\ SessionInv(reading'[s], read_audit'[s])

Moved(s) == RowMoved(s) /\ WorkersMoved(s) /\ UNCHANGED <<now, memory, semantics>>

\* Where nobody's worker is concerned.
LEMMA NoWorker ==
  ASSUME ReadsInv, NEW s \in Sessions, reading[s].stage \notin {"packing", "lost"},
         UNCHANGED workers
  PROVE  WorkersMoved(s)
BY DEF ReadsInv, HeldInv, WorkersMoved

\* An attempt that fails leaves no release behind that its answer doesn't admit.
LEMMA FailMoves ==
  ASSUME ReadsInv, NEW s \in Sessions, NEW code \in Codes, Fail(s, code),
         reading[s].stage \in {"arrived", "planned"} \cup Held, UNCHANGED read_audit,
         read_audit[s] # None => code \in {"storage_unavailable", "unauthenticated"}
  PROVE  RowMoved(s)
<1>1. TypeInv /\ Trail(reading[s], read_audit[s]) /\ DOMAIN read_audit = Sessions
  BY DEF ReadsInv, SessionInv, TypeInv
<1>2. /\ reading' \in [Sessions -> ReadingRows] /\ OthersKeep(s)
      /\ share' = share \ {s}
      /\ reading'[s].request = reading[s].request
      /\ \/ /\ reading[s].plan.status = "ready" /\ ~reading[s].request.tokens
            /\ reading'[s].stage = "planned" /\ reading'[s].plan = Pending
         \/ /\ ~FallsBack(s, code)
            /\ reading'[s].stage = "failed" /\ reading'[s].plan = reading[s].plan
            /\ reading'[s].code = code
  BY <1>1, FailRow
<1>3. Pending.status # "ready"
  BY DEF Pending
<1>4. Trail(reading'[s], read_audit[s])
  BY <1>1, <1>2, <1>3 DEF Trail, Held, MayFallBack
<1>5. reading'[s].stage \notin Held \cup {"answered"}
  BY <1>2 DEF Held
<1> QED
  BY <1>1, <1>2, <1>4, <1>5 DEF RowMoved, SessionInv

\* A request that is refused here has no audit row yet.
LEMMA AuthenticateMoves ==
  ASSUME ReadsInv, NEW s \in Sessions, Authenticate(s) PROVE Moved(s)
<1>1. TypeInv /\ HeldInv /\ Trail(reading[s], read_audit[s]) /\ DOMAIN read_audit = Sessions
  BY DEF ReadsInv, SessionInv, TypeInv
<1>2. /\ reading[s].stage = "arrived" /\ read_audit[s] = None
      /\ UNCHANGED <<now, memory, workers, read_audit, semantics>>
  BY <1>1 DEF Authenticate, Trail
<1>3. WorkersMoved(s)
  BY <1>2, NoWorker
<1>4. ASSUME NEW code \in Codes, Fail(s, code) PROVE RowMoved(s)
  BY <1>2, <1>4, FailMoves
<1>5. ASSUME NEW stage \in {"planned", "planning"}, Go(s, stage), UNCHANGED share,
             stage = "planning" => reading[s].request.semantic # "none"
      PROVE  RowMoved(s)
  <2>1. /\ reading' \in [Sessions -> ReadingRows] /\ OthersKeep(s)
        /\ reading'[s].stage = stage /\ reading'[s].request = reading[s].request
        /\ reading'[s].plan = reading[s].plan
    BY <1>1, <1>5, GoRow DEF Stages
  <2>2. Trail(reading'[s], read_audit[s])
    BY <1>1, <1>2, <1>5, <2>1 DEF Trail, Held, NotRequested
  <2>3. s \notin share
    BY <1>1, <1>2 DEF HeldInv, Held
  <2> QED
    BY <1>1, <1>2, <1>5, <2>1, <2>2, <2>3 DEF RowMoved, SessionInv, Held
<1>6. RowMoved(s)
  <2>1. /\ "malformed" \in Codes /\ "unauthenticated" \in Codes /\ "storage_unavailable" \in Codes
    BY DEF Codes
  <2> QED
    BY <1>4, <1>5, <2>1 DEF Authenticate
<1> QED
  BY <1>2, <1>3, <1>6 DEF Moved

\* A plan is ready only for a request that asked for semantics.
LEMMA PlanMoves ==
  ASSUME ReadsInv, NEW s \in Sessions, PlanSemantic(s) PROVE Moved(s)
<1>1. TypeInv /\ HeldInv /\ Trail(reading[s], read_audit[s]) /\ DOMAIN read_audit = Sessions
  BY DEF ReadsInv, SessionInv, TypeInv
<1>2. /\ reading[s].stage = "planning" /\ read_audit[s] = None
      /\ UNCHANGED <<now, memory, share, workers, read_audit, semantics>>
  BY <1>1 DEF PlanSemantic, Trail
<1>3. PICK plan \in {Pending, Failed, ReadyPlan} :
        reading' = [reading EXCEPT ![s].stage = "planned", ![s].plan = plan]
  <2> DEFINE chance == CASE ~ReaderCurrent(reading[s].request, now) -> {}
         [] ReaderCurrent(reading[s].request, now) /\ readiness = "pending" -> {}
         [] ReaderCurrent(reading[s].request, now) /\ readiness = "failed" -> {Failed}
         [] ReaderCurrent(reading[s].request, now) /\ readiness = "ready" ->
              IF reading[s].request.semantic = "vector" THEN ExternalPlans ELSE FixturePlans
  <2>1. chance \subseteq {Pending, Failed, ReadyPlan}
    BY <1>1 DEF TypeInv, Statuses, ExternalPlans, FixturePlans
  <2>2. \E plan \in {Pending} \cup chance :
          reading' = [reading EXCEPT ![s].stage = "planned", ![s].plan = plan]
    BY DEF PlanSemantic
  <2> QED
    BY <2>1, <2>2
<1>4. plan \in PlanRows
  BY <1>1 DEF Pending, Failed, ReadyPlan, PlanRows, Statuses, TypeInv
<1>5. /\ reading' \in [Sessions -> ReadingRows] /\ OthersKeep(s)
      /\ reading'[s].stage = "planned" /\ reading'[s].plan = plan
      /\ reading'[s].request = reading[s].request
  <2> DEFINE row == [reading[s] EXCEPT !.stage = "planned", !.plan = plan]
  <2>1. reading[s] \in ReadingRows /\ DOMAIN reading = Sessions /\ "planned" \in Stages
    BY <1>1 DEF TypeInv, Stages
  <2>2. /\ row \in ReadingRows /\ row.stage = "planned" /\ row.plan = plan
        /\ row.request = reading[s].request
    BY <1>4, <2>1 DEF ReadingRows
  <2>3. reading' = [reading EXCEPT ![s] = row]
    BY <1>3
  <2> HIDE DEF row
  <2>4. reading' \in [Sessions -> ReadingRows] /\ reading'[s] = row /\ OthersKeep(s)
    BY <1>1, <2>1, <2>2, <2>3 DEF TypeInv, OthersKeep
  <2> QED
    BY <2>2, <2>4
<1>6. Trail(reading'[s], read_audit[s])
  BY <1>1, <1>2, <1>5 DEF Trail, Held
<1>7. s \notin share
  BY <1>1, <1>2 DEF HeldInv, Held
<1>8. RowMoved(s)
  BY <1>1, <1>2, <1>5, <1>6, <1>7 DEF RowMoved, SessionInv, Held
<1> QED
  BY <1>2, <1>8, NoWorker DEF Moved

\* A look-up finds the request id free, and what it finds is true.
LEMMA LookUpMoves ==
  ASSUME TypeOK, ReadsInv, NEW s \in Sessions, LookUpItem(s) \/ LookUpMemories(s)
  PROVE  Moved(s)
<1>1. TypeInv /\ HeldInv /\ Trail(reading[s], read_audit[s]) /\ DOMAIN read_audit = Sessions
  BY DEF ReadsInv, SessionInv, TypeInv
<1>2. /\ reading[s].stage = "planned" /\ ReaderCurrent(reading[s].request, now)
      /\ reading[s].request.defect # "scope"
  BY DEF LookUpItem, LookUpMemories, MayLookUp
<1>3. PICK stage \in {"found", "packed"}, outcome \in {"released", "unavailable"} :
        Find(s, stage, outcome)
  BY DEF LookUpItem, LookUpMemories
<1>4. stage \in Stages /\ stage \in Held
  BY DEF Stages, Held
<1>5. /\ reading' \in [Sessions -> ReadingRows] /\ OthersKeep(s)
      /\ share' = share \cup {s} /\ read_audit[s] = None
      /\ UNCHANGED <<now, memory, workers, read_audit, semantics>>
      /\ reading'[s].stage = stage /\ reading'[s].request = reading[s].request
      /\ reading'[s].plan = reading[s].plan
      /\ reading'[s].effective = Effective(s) /\ reading'[s].epoch = authority_epoch
      /\ reading'[s].shown = VisibleOf(reading[s].request)
  BY <1>1, <1>3, <1>4, FindRow
<1>6. FoundHolds(reading'[s])
  BY <1>1, <1>2, <1>5, EffectiveTyped DEF FoundHolds, ReaderCurrent
<1>7. Trail(reading'[s], read_audit[s])
  BY <1>1, <1>2, <1>3, <1>5 DEF Trail, Held
<1>8. reading'[s].stage # "answered"
  BY <1>5
<1>9. RowMoved(s)
  BY <1>1, <1>4, <1>5, <1>6, <1>7, <1>8 DEF RowMoved, SessionInv
<1>10. WorkersMoved(s)
  BY <1>2, <1>5, NoWorker
<1> QED
  BY <1>5, <1>9, <1>10 DEF Moved

\* A refused look-up; behind an unheard release only storage or a revocation refuses it.
LEMMA RefusalMoves ==
  ASSUME ReadsInv, NEW s \in Sessions, RefuseLookUp(s) \/ RefuseStale(s) PROVE Moved(s)
<1>1. Trail(reading[s], read_audit[s])
  BY DEF ReadsInv, SessionInv
<1>2. reading[s].stage = "planned" /\ UNCHANGED <<now, memory, workers, read_audit, semantics>>
  BY DEF RefuseLookUp, RefuseStale, Refuse, MayLookUp
<1>3. reading[s].request \in Requests
  BY <1>1, <1>2 DEF Trail
<1>4. PICK code \in Codes : Fail(s, code) /\
        (read_audit[s] # None => code \in {"storage_unavailable", "unauthenticated"})
  BY <1>1, <1>2, <1>3, ReadersTyped
  DEF RefuseLookUp, RefuseStale, Refuse, MayLookUp, Codes, Trail, MayFallBack
<1>5. RowMoved(s)
  BY <1>2, <1>4, FailMoves
<1> QED
  BY <1>2, <1>5, NoWorker DEF Moved
\* A permit is taken only if one is free.
LEMMA StartMoves ==
  ASSUME ReadsInv, NEW s \in Sessions, StartWorker(s) PROVE Moved(s)
<1>1. /\ TypeInv /\ HeldInv /\ Trail(reading[s], read_audit[s]) /\ DOMAIN read_audit = Sessions
      /\ reading[s].stage \in Held => FoundHolds(reading[s])
  BY DEF ReadsInv, SessionInv, TypeInv
<1>2. /\ reading[s].stage = "found" /\ read_audit[s] = None
      /\ UNCHANGED <<now, memory, read_audit, semantics>>
  BY <1>1 DEF StartWorker, Trail, Held
<1>3. CASE PermitFree
  <2>1. workers' = workers \cup {s} /\ Go(s, "packing") /\ UNCHANGED share
    BY <1>3 DEF StartWorker
  <2>2. "packing" \in Stages
    BY DEF Stages, Held
  <2>3. /\ reading' \in [Sessions -> ReadingRows] /\ OthersKeep(s)
        /\ reading'[s].stage = "packing"
        /\ reading'[s].request = reading[s].request /\ reading'[s].plan = reading[s].plan
        /\ reading'[s].effective = reading[s].effective /\ reading'[s].shown = reading[s].shown
        /\ reading'[s].epoch = reading[s].epoch
    BY <1>1, <2>1, <2>2, GoRow
  <2>4. FoundHolds(reading'[s]) /\ Trail(reading'[s], read_audit[s])
    BY <1>1, <1>2, <2>3 DEF FoundHolds, Trail, Held
  <2>5. s \in share
    BY <1>1, <1>2 DEF HeldInv, Held
  <2>6. RowMoved(s)
    BY <1>1, <1>2, <2>1, <2>3, <2>4, <2>5 DEF RowMoved, SessionInv, Held
  <2>7. Cardinality(workers) \in Nat /\ Cardinality(workers) < Permits /\ IsFiniteSet(workers)
    BY <1>1, <1>3, FS_CardinalityType DEF HeldInv, PermitFree
  <2>8. IsFiniteSet(workers') /\ Cardinality(workers') <= Cardinality(workers) + 1
    BY <2>1, <2>7, FS_AddElement
  <2>9. IsFiniteSet(workers') => Cardinality(workers') \in Nat
    BY FS_CardinalityType
  <2>10. WorkersMoved(s)
    BY <2>1, <2>3, <2>7, <2>8, <2>9, ReadersTyped DEF WorkersMoved
  <2> QED
    BY <1>2, <2>6, <2>10 DEF Moved
<1>4. CASE ~PermitFree
  <2>1. Fail(s, "context_budget_unavailable") /\ UNCHANGED workers
    BY <1>4 DEF StartWorker
  <2>2. RowMoved(s)
    BY <1>2, <2>1, FailMoves DEF Held, Codes
  <2> QED
    BY <1>2, <2>1, <2>2, NoWorker DEF Moved
<1> QED
  BY <1>3, <1>4

\* A worker that ends gives its permit back, whether or not anybody waits.
LEMMA EndMoves ==
  ASSUME ReadsInv, NEW s \in Sessions, EndWorker(s) PROVE Moved(s)
<1>1. /\ TypeInv /\ HeldInv /\ Trail(reading[s], read_audit[s]) /\ DOMAIN read_audit = Sessions
      /\ reading[s].stage \in Held => FoundHolds(reading[s])
      /\ SessionInv(reading[s], read_audit[s])
  BY DEF ReadsInv, SessionInv, TypeInv
<1>2. workers' = workers \ {s} /\ s \in workers /\ UNCHANGED <<now, memory, read_audit, semantics>>
  BY DEF EndWorker, ReturnPermit
<1>3. WorkersMoved(s)
  <2>1. Cardinality(workers) \in Nat /\ Cardinality(workers) <= Permits /\ IsFiniteSet(workers)
    BY <1>1, FS_CardinalityType DEF HeldInv
  <2>2. IsFiniteSet(workers') /\ Cardinality(workers') <= Cardinality(workers)
    BY <1>2, <2>1, FS_RemoveElement
  <2>3. Cardinality(workers') \in Nat
    BY <2>2, FS_CardinalityType
  <2> QED
    BY <1>2, <2>1, <2>2, <2>3, ReadersTyped DEF WorkersMoved
<1>4. CASE reading[s].stage = "packing" /\ Go(s, "packed") /\ UNCHANGED share
  <2>1. "packed" \in Stages
    BY DEF Stages, Held
  <2>2. /\ reading' \in [Sessions -> ReadingRows] /\ OthersKeep(s)
        /\ reading'[s].stage = "packed"
        /\ reading'[s].request = reading[s].request /\ reading'[s].plan = reading[s].plan
        /\ reading'[s].effective = reading[s].effective /\ reading'[s].shown = reading[s].shown
        /\ reading'[s].epoch = reading[s].epoch
    BY <1>1, <1>4, <2>1, GoRow
  <2>3. FoundHolds(reading'[s]) /\ Trail(reading'[s], read_audit[s])
    BY <1>1, <1>4, <2>2 DEF FoundHolds, Trail, Held
  <2>4. s \in share
    BY <1>1, <1>4 DEF HeldInv, Held
  <2>5. RowMoved(s)
    BY <1>1, <1>2, <1>4, <2>2, <2>3, <2>4 DEF RowMoved, SessionInv, Held
  <2> QED
    BY <1>2, <1>3, <2>5 DEF Moved
<1>5. ASSUME NEW code \in {"context_budget_unavailable", "invalid_context_budget"},
             reading[s].stage = "packing", Fail(s, code)
      PROVE  Moved(s)
  <2>1. code \in Codes /\ read_audit[s] = None
    BY <1>1, <1>5 DEF Codes, Trail, Held
  <2>2. RowMoved(s)
    BY <1>2, <1>5, <2>1, FailMoves DEF Held
  <2> QED
    BY <1>2, <1>3, <2>2 DEF Moved
<1>6. CASE reading[s].stage = "lost" /\ UNCHANGED <<reading, share>>
  <2>1. s \notin share
    BY <1>1, <1>6 DEF HeldInv, Held
  <2>2. RowMoved(s)
    BY <1>1, <1>2, <1>6, <2>1 DEF RowMoved, OthersKeep, TypeInv, Held
  <2> QED
    BY <1>2, <1>3, <2>2 DEF Moved
<1> QED
  BY <1>4, <1>5, <1>6 DEF EndWorker

\* The commit stores the row that names what the answer shows; unheard, it leaves
\* a release behind storage_unavailable or before a second attempt.
LEMMA CommitMoves ==
  ASSUME ReadsInv, NEW s \in Sessions, CommitRead(s) PROVE Moved(s)
<1> DEFINE row == [outcome |-> reading[s].outcome, epoch |-> reading[s].epoch,
                   shown |-> reading[s].shown]
<1>1. /\ TypeInv /\ HeldInv /\ Trail(reading[s], read_audit[s]) /\ DOMAIN read_audit = Sessions
      /\ reading[s] \in ReadingRows /\ DOMAIN reading = Sessions
  BY DEF ReadsInv, SessionInv, TypeInv
<1>2. /\ reading[s].stage = "packed" /\ read_audit[s] = None
      /\ UNCHANGED <<now, memory, workers, semantics>>
  BY <1>1 DEF CommitRead, Trail, Held
<1>3. reading[s].epoch # None
  BY <1>1, NoneIsNoEpoch DEF ReadingRows
<1>4. ASSUME StoreAudit(s)
      PROVE  /\ read_audit'[s] = row /\ DOMAIN read_audit' = Sessions
             /\ \A z \in Sessions \ {s} : read_audit'[z] = read_audit[z]
  BY <1>1, <1>2, <1>4 DEF StoreAudit
<1>5. WorkersMoved(s)
  BY <1>2, NoWorker
<1>6. CASE /\ StoreAudit(s) /\ Unshare(s)
           /\ reading' = [reading EXCEPT ![s].stage = "answered", ![s].code = AnswerCode(s)]
  <2> DEFINE answer == [reading[s] EXCEPT !.stage = "answered", !.code = AnswerCode(s)]
  <2>1. AnswerCode(s) \in {"ok", "unavailable"} /\ (AnswerCode(s) = "ok" => reading[s].outcome = "released")
    BY DEF AnswerCode
  <2>2. /\ answer \in ReadingRows
        /\ answer.stage = "answered" /\ answer.code = AnswerCode(s)
        /\ answer.request = reading[s].request /\ answer.plan = reading[s].plan
        /\ answer.epoch = reading[s].epoch /\ answer.shown = reading[s].shown
    BY <1>1, <2>1 DEF ReadingRows, Stages
  <2>3. reading' = [reading EXCEPT ![s] = answer]
    BY <1>6
  <2> HIDE DEF answer
  <2>4. reading' \in [Sessions -> ReadingRows] /\ OthersKeep(s) /\ reading'[s] = answer
    BY <1>1, <2>2, <2>3 DEF TypeInv, OthersKeep
  <2>5. Trail(answer, row)
    BY <1>1, <1>2, <2>2 DEF Trail, Held
  <2>6. Agrees(answer, row)
    <3>1. answer.code = "ok" \/ row.outcome # "released"
      BY <1>1, <2>1, <2>2 DEF AnswerCode
    <3> QED
      BY <1>1, <1>2, <1>3, <2>1, <2>2, <3>1 DEF Agrees
  <2>7. share' = share \ {s}
    BY <1>6 DEF Unshare
  <2>8. RowMoved(s)
    BY <1>4, <1>6, <2>2, <2>4, <2>5, <2>6, <2>7 DEF RowMoved, SessionInv, Held
  <2> QED
    BY <1>2, <1>5, <2>8 DEF Moved
<1>7. CASE StoreAudit(s) /\ Fail(s, "storage_unavailable")
  <2>1. "storage_unavailable" \in Codes
    BY DEF Codes
  <2>2. /\ reading' \in [Sessions -> ReadingRows] /\ OthersKeep(s)
        /\ share' = share \ {s}
        /\ reading'[s].request = reading[s].request
        /\ \/ /\ reading[s].plan.status = "ready" /\ ~reading[s].request.tokens
              /\ reading'[s].stage = "planned" /\ reading'[s].plan = Pending
           \/ /\ ~FallsBack(s, "storage_unavailable")
              /\ reading'[s].stage = "failed" /\ reading'[s].plan = reading[s].plan
              /\ reading'[s].code = "storage_unavailable"
    BY <1>1, <1>7, <2>1, FailRow
  <2>3. Pending.status # "ready" /\ row.epoch # None
    BY <1>3 DEF Pending
  <2> HIDE DEF row
  <2>4. Trail(reading'[s], row)
    BY <1>1, <1>2, <2>1, <2>2, <2>3 DEF Trail, Held, MayFallBack
  <2>5. reading'[s].stage \notin Held \cup {"answered"}
    BY <2>2 DEF Held
  <2>6. RowMoved(s)
    BY <1>4, <1>7, <2>2, <2>4, <2>5 DEF RowMoved, SessionInv
  <2> QED
    BY <1>2, <1>5, <2>6 DEF Moved
<1>8. CASE UNCHANGED read_audit /\ Fail(s, "storage_unavailable")
  <2>1. RowMoved(s)
    BY <1>2, <1>8, FailMoves DEF Held, Codes
  <2> QED
    BY <1>2, <1>5, <2>1 DEF Moved
<1> QED
  BY <1>6, <1>7, <1>8 DEF CommitRead

\* A rejection names its code and nothing else, and is written once at most.
LEMMA RejectMoves ==
  ASSUME ReadsInv, NEW s \in Sessions, Reject(s) PROVE Moved(s)
<1> DEFINE row == [outcome |-> RejectionOutcome(reading[s].code), epoch |-> None, shown |-> {}]
<1>1. /\ TypeInv /\ HeldInv /\ Trail(reading[s], read_audit[s]) /\ DOMAIN read_audit = Sessions
  BY DEF ReadsInv, SessionInv, TypeInv
<1>2. /\ reading[s].stage = "failed" /\ reading[s].code \in Codes
      /\ UNCHANGED <<now, memory, share, workers, semantics>>
  BY <1>1 DEF Reject, Trail
<1>3. "answered" \in Stages /\ s \notin share
  BY <1>1, <1>2 DEF Stages, HeldInv, Held
<1>4. /\ reading' \in [Sessions -> ReadingRows] /\ OthersKeep(s)
      /\ reading'[s].stage = "answered" /\ reading'[s].code = reading[s].code
      /\ reading'[s].request = reading[s].request /\ reading'[s].plan = reading[s].plan
  BY <1>1, <1>3, GoRow DEF Reject
<1>5. \A r : Trail(reading'[s], r)
  BY <1>1, <1>2, <1>4 DEF Trail, Held
<1>6. reading[s].code # "ok" /\ RejectionOutcome(reading[s].code) # "released"
  BY <1>2 DEF Codes, RejectionOutcome
<1>7. CASE UNCHANGED read_audit
  <2>1. Agrees(reading'[s], read_audit[s])
    BY <1>1, <1>2, <1>4, <1>6 DEF Agrees, Trail, MayFallBack
  <2>2. RowMoved(s)
    BY <1>1, <1>2, <1>3, <1>4, <1>5, <1>7, <2>1 DEF RowMoved, SessionInv, Held
  <2> QED
    BY <1>2, <2>2, NoWorker DEF Moved
<1>8. CASE read_audit' = [read_audit EXCEPT ![s] = row]
  <2>1. Agrees(reading'[s], row)
    BY <1>4, <1>6 DEF Agrees
  <2> HIDE DEF row
  <2>2. RowMoved(s)
    BY <1>1, <1>2, <1>3, <1>4, <1>5, <1>8, <2>1 DEF RowMoved, SessionInv, Held
  <2> QED
    BY <1>2, <2>2, NoWorker DEF Moved
<1> QED
  BY <1>7, <1>8 DEF Reject

\* A client that hangs up ends the transaction, not the worker.
LEMMA AbandonMoves ==
  ASSUME ReadsInv, NEW s \in Sessions, Abandon(s) PROVE Moved(s)
<1> DEFINE gone == [reading[s] EXCEPT !.stage = "lost", !.code = "none"]
<1>1. /\ TypeInv /\ HeldInv /\ Trail(reading[s], read_audit[s]) /\ DOMAIN read_audit = Sessions
      /\ reading[s] \in ReadingRows /\ DOMAIN reading = Sessions
  BY DEF ReadsInv, SessionInv, TypeInv
<1>2. /\ reading[s].stage # "idle" /\ share' = share \ {s}
      /\ reading' = [reading EXCEPT ![s] = gone]
      /\ UNCHANGED <<now, memory, workers, read_audit, semantics>>
  BY DEF Abandon, Unshare
<1>3. /\ gone \in ReadingRows /\ gone.stage = "lost"
      /\ gone.request = reading[s].request /\ gone.plan = reading[s].plan
  BY <1>1 DEF ReadingRows, Stages
<1> HIDE DEF gone
<1>4. reading' \in [Sessions -> ReadingRows] /\ OthersKeep(s) /\ reading'[s] = gone
  BY <1>1, <1>2, <1>3 DEF TypeInv, OthersKeep
<1>5. Trail(gone, read_audit[s])
  BY <1>1, <1>2, <1>3 DEF Trail, Held
<1>6. RowMoved(s)
  BY <1>1, <1>2, <1>3, <1>4, <1>5 DEF RowMoved, SessionInv, Held
<1>7. WorkersMoved(s)
  BY <1>1, <1>2, <1>3, <1>4 DEF WorkersMoved, HeldInv
<1> QED
  BY <1>2, <1>6, <1>7 DEF Moved

\* A request arrives.
LEMMA SendMoves ==
  ASSUME ReadsInv, NEW s \in Sessions, NEW q \in Requests, Send(s, q) PROVE Moved(s)
<1> DEFINE sent == [reading[s] EXCEPT !.stage = "arrived", !.request = q]
<1>1. /\ TypeInv /\ HeldInv /\ Trail(reading[s], read_audit[s]) /\ DOMAIN read_audit = Sessions
      /\ reading[s] \in ReadingRows /\ DOMAIN reading = Sessions
  BY DEF ReadsInv, SessionInv, TypeInv
<1>2. /\ reading[s].stage = "idle"
      /\ reading' = [reading EXCEPT ![s] = sent]
      /\ UNCHANGED <<now, memory, share, workers, read_audit, semantics>>
  BY DEF Send
<1>3. sent \in ReadingRows /\ sent.stage = "arrived" /\ sent.request = q /\ sent.plan = reading[s].plan
  BY <1>1 DEF ReadingRows, Stages
<1> HIDE DEF sent
<1>4. reading' \in [Sessions -> ReadingRows] /\ OthersKeep(s) /\ reading'[s] = sent
  BY <1>1, <1>2, <1>3 DEF TypeInv, OthersKeep
<1>5. Trail(sent, read_audit[s])
  BY <1>1, <1>2, <1>3 DEF Trail, Held, NotRequested
<1>6. s \notin share
  BY <1>1, <1>2 DEF HeldInv, Held
<1>7. RowMoved(s)
  BY <1>1, <1>2, <1>3, <1>4, <1>5, <1>6 DEF RowMoved, SessionInv, Held
<1> QED
  BY <1>2, <1>7, NoWorker DEF Moved
\* Whatever session s does.
LEMMA HandlerMoves ==
  ASSUME TypeOK, ReadsInv, NEW s \in Sessions,
         Advance(s) \/ EndWorker(s) \/ Abandon(s) \/ \E q \in Requests : Send(s, q)
  PROVE  Moved(s)
BY SendMoves, AuthenticateMoves, PlanMoves, LookUpMoves, RefusalMoves, StartMoves, EndMoves,
   CommitMoves, RejectMoves, AbandonMoves DEF Advance, ReadItem, SearchMemories

-----------------------------------------------------------------------------
(* Every step                                                              *)

\* What was found stays true as long as what it was found in does.
LEMMA FoundKeeps ==
  ASSUME NEW x, FoundHolds(x), UNCHANGED <<memory, semantics>> PROVE FoundHolds(x)'
BY DEF FoundHolds, VisibleOf, Visible, OwnItem, OpenCollections, memory, semantics,
   authority, content

\* A session's own knowledge does not depend on anything but what it found.
LEMMA SessionKeeps ==
  ASSUME NEW x, NEW row, SessionInv(x, row), x.stage \in Held => FoundHolds(x)'
  PROVE  SessionInv(x, row)'
BY DEF SessionInv, Trail, Agrees, MayFallBack, RejectionOutcome

\* A session's step keeps the invariant for itself and for everybody else.
LEMMA MovedKeeps ==
  ASSUME ReadsInv, NEW s \in Sessions, Moved(s) PROVE ReadsInv'
<1>1. TypeInv /\ HeldInv /\ UNCHANGED <<memory, semantics>>
  BY DEF ReadsInv, Moved
<1>2. RowMoved(s) /\ WorkersMoved(s)
  BY DEF Moved
<1>3. \A z \in Sessions : z # s => reading'[z] = reading[z] /\ read_audit'[z] = read_audit[z]
  BY <1>2 DEF RowMoved, OthersKeep
<1>4. TypeInv'
  BY <1>1, <1>2 DEF TypeInv, RowMoved, WorkersMoved, semantics
<1>5. HeldInv'
  <2>1. share' = {z \in Sessions : reading'[z].stage \in Held}
    BY <1>1, <1>2, <1>3 DEF HeldInv, RowMoved
  <2>2. \A w \in workers' : reading'[w].stage \in {"packing", "lost"}
    BY <1>1, <1>2, <1>3 DEF HeldInv, TypeInv, WorkersMoved
  <2> QED
    BY <1>2, <2>1, <2>2 DEF HeldInv, WorkersMoved
<1>6. ASSUME NEW z \in Sessions PROVE SessionInv(reading[z], read_audit[z])'
  <2>1. PICK x, row : x = reading'[z] /\ row = read_audit'[z]
    OBVIOUS
  <2>2. SessionInv(x, row)
    <3>1. CASE z = s
      BY <1>2, <2>1, <3>1 DEF RowMoved
    <3>2. CASE z # s
      BY <1>3, <2>1, <3>2 DEF ReadsInv
    <3> QED
      BY <3>1, <3>2
  <2>3. x.stage \in Held => FoundHolds(x)'
    BY <1>1, <2>2, FoundKeeps DEF SessionInv
  <2>4. SessionInv(x, row)'
    BY <2>2, <2>3, SessionKeeps
  <2> QED
    BY <2>1, <2>4
<1> QED
  BY <1>4, <1>5, <1>6 DEF ReadsInv

\* Whoever else acts leaves the sessions alone, and what they found too as long as
\* they share the row.
LEMMA AroundKeeps ==
  ASSUME ReadsInv, UNCHANGED <<share, workers, reading, read_audit>>,
         generation' \in Generations \cup {None}, readiness' \in Statuses,
         \A x : share # {} /\ FoundHolds(x) => FoundHolds(x)'
  PROVE  ReadsInv'
<1>1. TypeInv /\ HeldInv
  BY DEF ReadsInv
<1>2. ASSUME NEW z \in Sessions PROVE SessionInv(reading[z], read_audit[z])'
  <2>1. PICK x, row : x = reading[z] /\ row = read_audit[z]
    OBVIOUS
  <2>2. SessionInv(x, row)
    BY <2>1 DEF ReadsInv
  <2>3. x.stage \in Held => share # {} /\ FoundHolds(x)
    BY <1>1, <2>1, <2>2 DEF HeldInv, SessionInv
  <2>4. SessionInv(x, row)'
    BY <2>2, <2>3, SessionKeeps
  <2> QED
    BY <2>1, <2>4
<1> QED
  BY <1>1, <1>2 DEF ReadsInv, TypeInv, HeldInv

\* Every step of the readers' world keeps the invariant.
LEMMA ReadsStep ==
  ASSUME TypeOK, ReadsInv, [ReadsNext]_allVars PROVE ReadsInv'
<1>1. TypeInv
  BY DEF ReadsInv
<1>2. CASE UNCHANGED allVars
  <2>1. UNCHANGED <<share, workers, reading, read_audit, memory, semantics>>
    BY <1>2 DEF allVars
  <2>2. generation' \in Generations \cup {None} /\ readiness' \in Statuses
    BY <1>1, <2>1 DEF TypeInv, semantics
  <2> QED
    BY <2>1, <2>2, AroundKeeps, FoundKeeps
<1>3. ASSUME NEW s \in Sessions,
             Advance(s) \/ EndWorker(s) \/ Abandon(s) \/ \E q \in Requests : Send(s, q)
      PROVE  ReadsInv'
  BY <1>3, HandlerMoves, MovedKeeps
<1>4. ASSUME NEW g \in Generations, SelectGeneration(g) PROVE ReadsInv'
  <2>1. share = {} /\ UNCHANGED <<share, workers, reading, read_audit>>
    BY <1>4 DEF SelectGeneration, RowFree
  <2>2. generation' \in Generations \cup {None} /\ readiness' \in Statuses
    BY <1>4 DEF SelectGeneration
  <2> QED
    BY <2>1, <2>2, AroundKeeps
<1>5. CASE SettleJobs
  <2>1. UNCHANGED <<share, workers, reading, read_audit>> /\ UNCHANGED <<memory, generation>>
    BY <1>5 DEF SettleJobs
  <2>2. generation' \in Generations \cup {None} /\ readiness' \in Statuses
    BY <1>1, <1>5 DEF SettleJobs, TypeInv
  <2>3. share # {} => readiness = "pending"
    BY <1>5 DEF SettleJobs, RowFree
  <2>4. \A x : share # {} /\ FoundHolds(x) => FoundHolds(x)'
    BY <2>1, <2>3 DEF FoundHolds, VisibleOf, Visible, OwnItem, OpenCollections, memory,
       authority, content
  <2> QED
    BY <2>1, <2>2, <2>4, AroundKeeps
<1>6. CASE Around
  <2>1. share = {} /\ UNCHANGED <<share, workers, reading, read_audit>> /\ UNCHANGED semantics
    BY <1>6 DEF Around, RowFree
  <2>2. generation' \in Generations \cup {None} /\ readiness' \in Statuses
    BY <1>1, <2>1 DEF TypeInv, semantics
  <2> QED
    BY <2>1, <2>2, AroundKeeps
<1>7. CASE Clock
  <2>1. UNCHANGED <<share, workers, reading, read_audit>> /\ UNCHANGED <<memory, semantics>>
    BY <1>7 DEF Clock, Tick, memory
  <2>2. generation' \in Generations \cup {None} /\ readiness' \in Statuses
    BY <1>1, <2>1 DEF TypeInv, semantics
  <2> QED
    BY <2>1, <2>2, AroundKeeps, FoundKeeps
<1> QED
  BY <1>2, <1>3, <1>4, <1>5, <1>6, <1>7 DEF ReadsNext

\* Nobody reads at first.
LEMMA ReadsStart == ReadsInit => ReadsInv
<1> SUFFICES ASSUME ReadsInit PROVE ReadsInv
  OBVIOUS
<1>1. Idle \in ReadingRows
  BY DEF Idle, ReadingRows, Stages, PlanRows, NotRequested, Shown
<1>2. Idle.stage = "idle" /\ Idle.plan = NotRequested /\ NotRequested.status = "not_requested"
  BY DEF Idle, NotRequested
<1>3. /\ share = {} /\ workers = {} /\ reading = [s \in Sessions |-> Idle]
      /\ read_audit = [s \in Sessions |-> None]
      /\ generation = None /\ readiness = "pending"
  BY DEF ReadsInit
<1> HIDE DEF Idle
<1>4. TypeInv
  BY <1>1, <1>3 DEF TypeInv, Statuses
<1>5. HeldInv
  BY <1>2, <1>3, FS_EmptySet, ReadersTyped DEF HeldInv, Held
<1>6. \A s \in Sessions : SessionInv(reading[s], read_audit[s])
  BY <1>2, <1>3 DEF SessionInv, Trail, Held
<1> QED
  BY <1>4, <1>5, <1>6 DEF ReadsInv

-----------------------------------------------------------------------------
(* Theorems                                                                *)

\* Readers leave the memory to its writers: whatever they do, the tables change by
\* the calls of MemoryLifecycle, so all that holds of its behaviours holds here.
THEOREM ReadersOnlyRead == ReadsSpec => Spec
<1>1. ReadsInit => Init
  BY DEF ReadsInit
<1>2. [ReadsNext]_allVars => [Next]_vars
  <2> SUFFICES ASSUME [ReadsNext]_allVars PROVE [Next]_vars
    OBVIOUS
  <2>1. CASE UNCHANGED <<now, memory>>
    BY <2>1 DEF memory, vars
  <2>2. CASE Around \/ Clock
    BY <2>2 DEF Around, Clock, Next
  <2>3. \/ UNCHANGED <<now, memory>>
        \/ Around \/ Clock
    BY DEF allVars, ReadsNext, Send, Advance, Authenticate, ReadItem, LookUpItem, Find,
       RefuseStale, Refuse, SearchMemories, PlanSemantic, LookUpMemories, StartWorker,
       RefuseLookUp, CommitRead, Reject, EndWorker, Abandon, SelectGeneration, SettleJobs
  <2> QED
    BY <2>1, <2>2, <2>3
<1> QED
  BY <1>1, <1>2, PTL DEF ReadsSpec, Spec

\* What a transaction found stays true while it shares the row, and what an attempt
\* left in the audit trail is known to its session.
THEOREM FindingsStayTrue == ReadsSpec => [](TypeOK /\ ReadsInv)
<1>1. ReadsInit => ReadsInv
  BY ReadsStart
<1>2. TypeOK /\ ReadsInv /\ [ReadsNext]_allVars => ReadsInv'
  BY ReadsStep
<1>3. ReadsSpec => []TypeOK
  BY ReadersOnlyRead, TypeCorrect, PTL
<1> QED
  BY <1>1, <1>2, <1>3, PTL DEF ReadsSpec

\* The row is shared by exactly the transactions past their look-up, and however
\* clients hang up there are never more token workers than permits.
THEOREM PermitsSuffice == ReadsSpec => []ReadsTypeOK
<1>1. ReadsInv => ReadsTypeOK
  BY DEF ReadsInv, TypeInv, HeldInv, ReadsTypeOK, ReadingRows, PlanRows, Held
<1> QED
  BY <1>1, FindingsStayTrue, PTL

\* The audit trail and the answer agree, also when a commit goes unheard and the
\* search is tried a second time.
THEOREM AnswersAreAudited == ReadsSpec => []AnswersAudited
<1>1. ReadsInv => AnswersAudited
  BY DEF ReadsInv, SessionInv, Agrees, AnswersAudited
<1> QED
  BY <1>1, FindingsStayTrue, PTL

\* Only a commit answers with content, and at that moment what was found is true.
LEMMA AnswerIsTrue ==
  ASSUME ReadsInv, [ReadsNext]_allVars, NEW s \in Sessions,
         reading[s].code = "none", reading'[s].stage = "answered",
         reading'[s].code \in {"ok", "unavailable"}
  PROVE  /\ FoundHolds(reading[s])
         /\ reading'[s].request = reading[s].request /\ reading'[s].shown = reading[s].shown
         /\ reading'[s].epoch = reading[s].epoch /\ reading'[s].effective = reading[s].effective
<1>1. TypeInv /\ DOMAIN reading = Sessions /\ SessionInv(reading[s], read_audit[s])
  BY DEF ReadsInv, TypeInv
<1>2. reading[s] \in ReadingRows
  BY <1>1 DEF TypeInv
<1>3. reading'[s] # reading[s]
  OBVIOUS
<1>4. PICK z \in Sessions : Advance(z) \/ EndWorker(z) \/ Abandon(z) \/ \E q \in Requests : Send(z, q)
  BY <1>3 DEF ReadsNext, allVars, SelectGeneration, SettleJobs, Around, Clock
<1>5. ASSUME NEW code \in Codes, Fail(z, code) PROVE FALSE
  <2>1. OthersKeep(z) /\ reading'[z].stage \in {"planned", "failed"}
    BY <1>1, <1>5, FailRow
  <2> QED
    BY <1>3, <2>1 DEF OthersKeep
<1>6. ASSUME NEW stage \in Stages, Go(z, stage) PROVE FALSE
  BY <1>1, <1>3, <1>6, GoRow DEF OthersKeep
<1>7. \A stage \in {"arrived", "planning", "planned", "packing", "packed", "answered"} :
        stage \in Stages
  BY DEF Stages, Held
<1>8. CommitRead(z) \/ EndWorker(z) \/ Abandon(z) \/ PlanSemantic(z)
      \/ LookUpItem(z) \/ LookUpMemories(z) \/ \E q \in Requests : Send(z, q)
  <2>1. ~Authenticate(z)
    BY <1>5, <1>6, <1>7 DEF Authenticate, Codes
  <2>2. ~RefuseLookUp(z) /\ ~RefuseStale(z)
    BY <1>5 DEF RefuseLookUp, RefuseStale, Refuse, Codes
  <2>3. ~StartWorker(z) /\ ~Reject(z)
    BY <1>5, <1>6, <1>7 DEF StartWorker, Reject, Codes
  <2> QED
    BY <1>4, <2>1, <2>2, <2>3 DEF Advance, ReadItem, SearchMemories
<1>9. ~(\E q \in Requests : Send(z, q)) /\ ~PlanSemantic(z) /\ ~Abandon(z)
  BY <1>1, <1>2, <1>3 DEF Send, PlanSemantic, Abandon, ReadingRows
<1>10. ~LookUpItem(z) /\ ~LookUpMemories(z)
  BY <1>1, <1>2, <1>3 DEF LookUpItem, LookUpMemories, Find, ReadingRows
<1>11. ~EndWorker(z)
  BY <1>3, <1>5, <1>6, <1>7 DEF EndWorker, Codes
<1>12. CommitRead(z)
  BY <1>8, <1>9, <1>10, <1>11
<1>13. /\ reading[z].stage = "packed"
       /\ reading' = [reading EXCEPT ![z].stage = "answered", ![z].code = AnswerCode(z)]
  BY <1>5, <1>12 DEF CommitRead, Codes
<1> QED
  BY <1>1, <1>2, <1>3, <1>13 DEF SessionInv, Held, ReadingRows

\* Whatever was decided before the row was shared, an answer is true at its commit.
THEOREM AnswersAreTrueAtCommit == ReadsSpec => TrueAtCommit
<1>1. ReadsInv /\ [ReadsNext]_allVars =>
        [\A s \in Sessions :
           LET q == reading'[s].request IN
           reading[s].code = "none" /\ reading'[s].stage = "answered"
             /\ reading'[s].code \in {"ok", "unavailable"} =>
             /\ reading'[s].shown = VisibleOf(q)
             /\ revoked_at[q.credential] = None /\ CredentialOwner[q.credential] \notin inactive
             /\ reading'[s].epoch = authority_epoch
             /\ reading'[s].effective.status = "ready" =>
                  readiness = "ready" /\ generation = reading'[s].effective.generation]_allVars
  BY AnswerIsTrue DEF FoundHolds
<1> QED
  BY <1>1, FindingsStayTrue, PTL DEF ReadsSpec, TrueAtCommit
=============================================================================
