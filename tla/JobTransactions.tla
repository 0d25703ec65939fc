--------------------------- MODULE JobTransactions ---------------------------
(***************************************************************************)
(* The transactions in which jobs are asked for, statement by statement.     *)
(* Each is READ COMMITTED: a trigger reads what others had committed when it  *)
(* ran, and what it inserts becomes visible at the commit.  Writers take the  *)
(* tenant row first, the trigger of a selection only after its own row is      *)
(* written.  The row alone keeps a revision that is written while a generation  *)
(* is selected from being left without a job.                               *)
(***************************************************************************)
EXTENDS EmbeddingJobs

CONSTANT Transactions

VARIABLE transaction  \* t -> its progress, its call, and the jobs its trigger inserted

allVars == <<vars, transaction>>

Calls ==
  [kind : {"write"}, item : Items, name : Revisions]
    \cup [kind : {"extract"}, item : Items, name : Sets]
    \cup [kind : {"select"}, item : {None}, name : Generations]

NotRunning == [stage |-> "none", call |-> None, asked |-> {}]

TransactionsInit == Init /\ transaction = [t \in Transactions |-> NotRunning]

-----------------------------------------------------------------------------
(* Faults.                                                                 *)

RowFreeAlways == TRUE

SelectWithoutRow(t, call) ==
  /\ \/ call.kind = "select" /\ transaction[t].stage = "upserted" /\ transaction[t].call = call
     \/ /\ transaction[t] = NotRunning
        /\ \A u \in Transactions : transaction[u].stage \notin {"locked", "asked"}
        /\ \/ call.kind = "write" /\ Writable(call.item, call.name)
           \/ call.kind = "extract" /\ Extractable(call.item, call.name)
  /\ transaction' = [transaction EXCEPT ![t].stage = "locked", ![t].call = call]
  /\ UNCHANGED vars

-----------------------------------------------------------------------------
(* The steps of a transaction.                                             *)

\* No transaction has tenant_authority's row FOR UPDATE.
RowFree == \A t \in Transactions : transaction[t].stage \notin {"locked", "asked"}

\* The upsert keeps the application's row of active_embedding_generations until the
\* transaction ends: a second selection waits for it before its trigger runs.
UpsertGeneration(t, call) ==
  /\ transaction[t] = NotRunning
  /\ call.kind = "select" /\ selections < SelectionLimit
  /\ \A u \in Transactions : transaction[u].stage # "none" => transaction[u].call.kind # "select"
  /\ transaction' = [transaction EXCEPT ![t].stage = "upserted", ![t].call = call]
  /\ UNCHANGED vars

Permitted(call) ==
  /\ call.kind = "write" => Writable(call.item, call.name)
  /\ call.kind = "extract" => Extractable(call.item, call.name)

\* The conditions of a call are checked under the row; a call they refuse ends here.
TakeTenantRow(t, call) ==
  /\ IF call.kind = "select" THEN transaction[t].stage = "upserted" /\ transaction[t].call = call
                             ELSE transaction[t] = NotRunning
  /\ RowFree /\ Permitted(call)
  /\ transaction' = [transaction EXCEPT ![t].stage = "locked", ![t].call = call]
  /\ UNCHANGED vars

\* What the triggers insert: the selection that others see is the committed one, a
\* selection under way sees its own.
JobsFor(call) ==
  {j \in Jobs :
     \/ call.kind = "write" /\ j[1] \in {call.name} /\ j[2] = selected
     \/ call.kind = "extract" /\ j[1] \in PassagesOf(call.name) /\ j[2] = selected
     \/ /\ call.kind = "select" /\ j[2] = call.name
        /\ j[1] \in UNION {Served(i) : i \in Items \ withdrawn}}

Ask(t) ==
  /\ transaction[t].stage = "locked"
  /\ transaction' = [transaction EXCEPT ![t].stage = "asked",
                                        ![t].asked = JobsFor(transaction[t].call)]
  /\ UNCHANGED vars

\* A job's times are taken at the commit here, the code takes them a moment earlier.
Commit(t) ==
  LET call == transaction[t].call IN
  /\ transaction[t].stage = "asked"
  /\ \/ call.kind = "write" /\ StoreRevision(call.item, call.name)
     \/ call.kind = "extract" /\ StoreExtraction(call.item, call.name)
     \/ call.kind = "select" /\ ChooseGeneration(call.name)
  /\ InsertJobs(transaction[t].asked)
  /\ transaction' = [transaction EXCEPT ![t] = NotRunning]

\* A timeout, a statement that fails, a lost connection.
Rollback(t) ==
  /\ transaction[t].stage # "none"
  /\ transaction' = [transaction EXCEPT ![t] = NotRunning]
  /\ UNCHANGED vars

\* Everything else that takes the tenant row, shared or not, does so in one step when
\* it is free; failing or cancelling a job locks the job only.
Beside ==
  /\ \/ /\ RowFree
        /\ \/ \E i \in Items : \/ ForgetItem(i) \/ PurgeItem(i)
                               \/ WithdrawCollection(i) \/ RestoreCollection(i)
           \/ SwitchOwner \/ Claim \/ \E c \in claims : Complete(c)
     \/ \E c \in claims : Fail(c) \/ Cancel(c)
     \/ Tick
  /\ UNCHANGED transaction

TransactionsNext ==
  \/ \E t \in Transactions :
       \/ \E call \in Calls : UpsertGeneration(t, call) \/ TakeTenantRow(t, call)
       \/ Ask(t) \/ Commit(t) \/ Rollback(t)
  \/ Beside

TransactionsSpec == TransactionsInit /\ [][TransactionsNext]_allVars

-----------------------------------------------------------------------------
(* What a transaction amounts to.                                          *)

\* Each transaction takes effect as one step of EmbeddingJobs or not at all, and
\* with it whatever holds of those steps holds of interleaved transactions.
TransactionsAreAtomic == Init /\ [][Next]_vars
=============================================================================
