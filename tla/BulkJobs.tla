------------------------------ MODULE BulkJobs ------------------------------
(***************************************************************************)
(* Bulk jobs (domain/bulk): the rows of an immutable input file, executed  *)
(* under one credit hold.  A delivery reads the job without a lock, fetches*)
(* the file, turns it into rows in a transaction of its own, and executes  *)
(* in a further one that holds the job row; a failure rolls that back and  *)
(* is recorded in another transaction.  Between the transactions requests  *)
(* and a second delivery of the same job come in.                          *)
(***************************************************************************)
EXTENDS Integers, FiniteSets, Sequences, Functions, JobState

CONSTANTS
  BulkIds,              \* BulkJob rows
  BulkWorkers,          \* worker processes
  BulkIdle,             \* the worker has no delivery
  BulkCommitted,        \* no transaction holds the job
  BulkInput,            \* the file: per row its digest, and complete or not
  BulkTarget,           \* sample_size of a dry run, else all rows
  BulkEstimate,         \* estimated_cost in quanta
  BulkMaximum,          \* min(maximum_cost, authorized_cost)
  BulkRowCosts,         \* what an attempt may really cost
  BulkRowAttempts,      \* max_row_attempts
  BulkMaxMsgs,          \* bound: deliveries of one job
  BulkMaxFaults         \* bound: workers or deliveries lost

\* The CHECK constraints of bulk_jobs, and validate_row_capacity.
ASSUME BulkNumbers ==
  /\ BulkTarget \in Nat \ {0} /\ BulkRowAttempts \in Nat \ {0}
  /\ BulkEstimate \in Nat /\ BulkMaximum \in Nat
  /\ BulkRowCosts \subseteq Nat
  /\ BulkMaxMsgs \in Nat /\ BulkMaxFaults \in Nat

VARIABLES
  bulkJobs,             \* BulkJob rows, as the transaction that holds them sees them
  bulkRows,             \* BulkRow rows of a job, empty before they are materialised
  bulkHolds,            \* the credit hold: its state and what was charged
  bulkBefore,           \* what is committed while a run holds the job
  bulkWorker,           \* per worker, the delivery and how far it is
  bulkMsgs, bulkRetried, bulkFaults

bulkVars == <<bulkJobs, bulkRows, bulkHolds, bulkBefore, bulkWorker, bulkMsgs, bulkRetried,
              bulkFaults>>

NoBulkJob ==
  [state |-> "NONE", pause |-> FALSE, kill |-> FALSE, actual |-> 0, held |-> 0, processed |-> 0]

\* The columns of a row of the file.
BulkRowStates ==
  {"QUALITY_BLOCKED", "INVALID", "DUPLICATE", "WAITING_REVIEW", "APPROVED", "RETRYABLE_FAILED",
   "FINAL_FAILED", "CANCELLED", "READY", "QUEUED", "PROCESSING"}

BulkRowRecords ==
  [state : BulkRowStates, attempt : Nat, passed : BOOLEAN, blocked : BOOLEAN, approved : BOOLEAN,
   cost : Nat]

BulkJobRecords ==
  [state : JobStates \cup {"NONE"}, pause : BOOLEAN, kill : BOOLEAN, actual : Nat, held : Nat,
   processed : Nat]

BulkTables == {<<>>} \cup [1..BulkTarget -> BulkRowRecords]

\* How far a delivery may be.
BulkPlaces == {"fetch", "prepare", "executing", "failing"}

ASSUME BulkNames ==
  /\ BulkIdle \notin [job : BulkIds, at : BulkPlaces]
  /\ BulkCommitted \notin [job : BulkJobRecords, rows : BulkTables]

BulkInit ==
  /\ bulkJobs = [b \in BulkIds |-> NoBulkJob]
  /\ bulkRows = [b \in BulkIds |-> <<>>]
  /\ bulkHolds = [b \in BulkIds |-> [state |-> "NONE", charged |-> 0]]
  /\ bulkBefore = [b \in BulkIds |-> BulkCommitted]
  /\ bulkWorker = [w \in BulkWorkers |-> BulkIdle]
  /\ bulkMsgs = [b \in BulkIds |-> 0]
  /\ bulkRetried = {}
  /\ bulkFaults = 0

\* FOR UPDATE waits for the run that holds the job row.
BulkUnlocked(b) == bulkBefore[b] = BulkCommitted

\* What a reader without a lock finds.
CommittedJob(b) == IF BulkUnlocked(b) THEN bulkJobs[b] ELSE bulkBefore[b].job
CommittedRows(b) == IF BulkUnlocked(b) THEN bulkRows[b] ELSE bulkBefore[b].rows

BulkFault == bulkFaults < BulkMaxFaults /\ bulkFaults' = bulkFaults + 1

-----------------------------------------------------------------------------
(* Rows.                                                                   *)

\* Quanta are spread evenly, the remainder over the first rows.
RowEstimate(i) ==
  (BulkEstimate \div BulkTarget) + (IF i <= BulkEstimate % BulkTarget THEN 1 ELSE 0)

MaterializedState(i) ==
  IF ~BulkInput[i].complete THEN "INVALID"
  ELSE IF \E k \in 1..(i - 1) : BulkInput[k].digest = BulkInput[i].digest THEN "DUPLICATE"
  ELSE "READY"

\* passed is quality_passed, blocked is hard_blocked, approved is approved_at.
MaterializedRow(i) ==
  [state |-> MaterializedState(i), attempt |-> 0, passed |-> FALSE, blocked |-> FALSE,
   approved |-> FALSE, cost |-> 0]

PROCESSED_ROW_STATES ==
  {"QUALITY_BLOCKED", "INVALID", "DUPLICATE", "WAITING_REVIEW", "APPROVED", "RETRYABLE_FAILED",
   "FINAL_FAILED", "CANCELLED"}

RETRYABLE_ROW_STATES == {"RETRYABLE_FAILED", "QUALITY_BLOCKED"}

RefreshProgress(job, rows) ==
  [job EXCEPT !.processed =
     Cardinality({i \in DOMAIN rows : rows[i].state \in PROCESSED_ROW_STATES})]

RowsTo(rows, from, to) ==
  [i \in DOMAIN rows |-> IF rows[i].state \in from THEN [rows[i] EXCEPT !.state = to] ELSE rows[i]]

-----------------------------------------------------------------------------
(* Requests.                                                               *)

EnqueueBulkJob(b) ==
  \/ /\ bulkMsgs[b] < BulkMaxMsgs
     /\ bulkMsgs' = [bulkMsgs EXCEPT ![b] = @ + 1]
     /\ UNCHANGED bulkFaults
  \/ BulkFault /\ UNCHANGED bulkMsgs

CreateBulkJob(b) ==
  /\ bulkJobs[b] = NoBulkJob
  /\ bulkJobs' = [bulkJobs EXCEPT ![b].state = "QUEUED"]
  /\ bulkHolds' = [bulkHolds EXCEPT ![b].state = "HELD"]
  /\ EnqueueBulkJob(b)
  /\ UNCHANGED <<bulkRows, bulkBefore, bulkWorker, bulkRetried>>

Commandable(b) ==
  /\ bulkJobs[b] # NoBulkJob
  /\ BulkUnlocked(b)
  /\ bulkJobs[b].state \notin TERMINAL_JOB_STATES

PauseBulkJob(b) ==
  /\ Commandable(b)
  /\ bulkJobs' = [bulkJobs EXCEPT ![b].pause = TRUE]
  /\ UNCHANGED <<bulkRows, bulkHolds, bulkBefore, bulkWorker, bulkMsgs, bulkRetried, bulkFaults>>

ResumeBulkJob(b) ==
  /\ Commandable(b) /\ ~bulkJobs[b].kill
  /\ bulkJobs' = [bulkJobs EXCEPT ![b].pause = FALSE]
  /\ EnqueueBulkJob(b)
  /\ UNCHANGED <<bulkRows, bulkHolds, bulkBefore, bulkWorker, bulkRetried>>

CancelBulkJob(b) ==
  /\ Commandable(b)
  /\ \/ bulkJobs[b].state = "CANCEL_REQUESTED" /\ UNCHANGED bulkJobs
     \/ /\ EnsureJobTransition(bulkJobs[b].state, "CANCEL_REQUESTED")
        /\ bulkJobs' = [bulkJobs EXCEPT ![b].state = "CANCEL_REQUESTED", ![b].pause = TRUE]
  /\ EnqueueBulkJob(b)
  /\ UNCHANGED <<bulkRows, bulkHolds, bulkBefore, bulkWorker, bulkRetried>>

RowMayRetry(row) ==
  /\ row.state # "APPROVED" /\ ~row.approved
  /\ row.state \in RETRYABLE_ROW_STATES
  /\ ~row.blocked
  /\ row.attempt < BulkRowAttempts

\* The progress counters are not refreshed.  A repeated command finds its row and
\* is enqueued again.
RetryRows(b) ==
  \/ \E i \in DOMAIN bulkRows[b], regenerate \in BOOLEAN :
       /\ Commandable(b) /\ ~bulkJobs[b].pause /\ ~bulkJobs[b].kill
       /\ RowMayRetry(bulkRows[b][i])
       /\ bulkRows' = [bulkRows EXCEPT ![b][i].state = "QUEUED",
                                       ![b][i].passed = @ /\ ~regenerate]
       /\ bulkRetried' = bulkRetried \cup {b}
       /\ EnqueueBulkJob(b)
       /\ UNCHANGED <<bulkJobs, bulkHolds, bulkBefore, bulkWorker>>
  \/ /\ b \in bulkRetried /\ BulkUnlocked(b)
     /\ EnqueueBulkJob(b)
     /\ UNCHANGED <<bulkJobs, bulkRows, bulkHolds, bulkBefore, bulkWorker, bulkRetried>>

\* The approval request of the row's exact content was approved by then.  The
\* state of the job does not matter.
ApproveRows(b) ==
  \E i \in DOMAIN bulkRows[b] :
    /\ BulkUnlocked(b)
    /\ bulkRows[b][i].passed /\ ~bulkRows[b][i].blocked
    /\ bulkRows' = [bulkRows EXCEPT ![b][i].state = "APPROVED", ![b][i].approved = TRUE]
    /\ bulkJobs' = [bulkJobs EXCEPT ![b] = RefreshProgress(@, bulkRows'[b])]
    /\ UNCHANGED <<bulkHolds, bulkBefore, bulkWorker, bulkMsgs, bulkRetried, bulkFaults>>

-----------------------------------------------------------------------------
(* The end of a job.                                                       *)

\* The counters say that every row has a result, no row's cost is held, and the
\* budget was kept; otherwise the transaction fails.
ValidateBulkSuccess(job) ==
  /\ job.processed = BulkTarget
  /\ job.held = 0
  /\ job.actual <= BulkMaximum

\* What becomes of the hold; the event names job and state, so that a second
\* settlement repeats the first.  A later delivery of a success that is not valid
\* fails twice, changes nothing and is acknowledged.
SettledBulkHold(b, job) ==
  IF job.state \notin TERMINAL_JOB_STATES \/ bulkHolds[b].state # "HELD" THEN bulkHolds[b]
  ELSE IF job.state # "SUCCEEDED" THEN [state |-> "RELEASED", charged |-> 0]
  ELSE IF ValidateBulkSuccess(job) THEN [state |-> "FINALIZED", charged |-> job.actual]
  ELSE bulkHolds[b]

\* Deviation: a failure overtakes a request to cancel.
FailsAnyway(state) == state \notin TERMINAL_JOB_STATES

\* _fail_job ends the job in these states and else only notes the error.
FailsFrom(state) == state \in {"QUEUED", "WAITING_INPUT", "VALIDATING"}

\* The counters are refreshed before the rows are written (the session does not
\* flush by itself), here and when a job is cancelled.
FailedJob(job, rows) ==
  IF FailsFrom(job.state)
  THEN RefreshProgress([job EXCEPT !.state = "FINAL_FAILED"], rows)
  ELSE job

FailedRows(job, rows) ==
  IF FailsFrom(job.state) THEN RowsTo(rows, {"READY", "QUEUED", "PROCESSING"}, "FINAL_FAILED")
  ELSE rows

-----------------------------------------------------------------------------
(* One delivery.                                                           *)

At(b, place) == [job |-> b, at |-> place]

\* A worker takes a delivery and asks, without a lock, what to materialise.
BudgetReached(job) == job.actual + job.held >= BulkMaximum

RunBegins(w, b) ==
  LET job == CommittedJob(b)
      asks == /\ job.state \in {"QUEUED", "VALIDATING", "WAITING_INPUT"}
              /\ ~job.pause /\ ~job.kill /\ ~BudgetReached(job)
  IN  /\ bulkWorker[w] = BulkIdle
      /\ bulkMsgs[b] > 0
      /\ bulkMsgs' = [bulkMsgs EXCEPT ![b] = @ - 1]
      /\ bulkWorker' = [bulkWorker EXCEPT ![w] = At(b, IF asks THEN "fetch" ELSE "prepare")]
      /\ UNCHANGED <<bulkJobs, bulkRows, bulkHolds, bulkBefore, bulkRetried, bulkFaults>>

\* The file and its hashes are those of the job, or the run fails.
MaterializeRows(w, b) ==
  LET job == bulkJobs[b]
      skips == job.state \in TERMINAL_JOB_STATES \cup {"CANCEL_REQUESTED"} \/ job.pause \/ job.kill
      refused == job.state \notin {"QUEUED", "VALIDATING", "WAITING_INPUT"}
  IN  /\ bulkWorker[w] = At(b, "fetch")
      /\ BulkUnlocked(b)
      /\ \/ /\ skips
            /\ bulkWorker' = [bulkWorker EXCEPT ![w] = At(b, "prepare")]
            /\ UNCHANGED <<bulkJobs, bulkRows>>
         \/ /\ ~skips /\ refused
            /\ bulkWorker' = [bulkWorker EXCEPT ![w] = At(b, "failing")]
            /\ UNCHANGED <<bulkJobs, bulkRows>>
         \/ /\ ~skips /\ ~refused
            /\ bulkRows' = [bulkRows EXCEPT ![b] =
                 IF @ = <<>> THEN [i \in 1..BulkTarget |-> MaterializedRow(i)] ELSE @]
            /\ bulkJobs' = [bulkJobs EXCEPT ![b] = RefreshProgress(@, bulkRows'[b])]
            /\ bulkWorker' = [bulkWorker EXCEPT ![w] = At(b, "prepare")]
      /\ UNCHANGED <<bulkHolds, bulkBefore, bulkMsgs, bulkRetried, bulkFaults>>

\* The input is no CSV, its object cannot be read, or its rows do not match.
MaterializeRaises(w, b) ==
  /\ bulkWorker[w] = At(b, "fetch")
  /\ bulkWorker' = [bulkWorker EXCEPT ![w] = At(b, "failing")]
  /\ UNCHANGED <<bulkJobs, bulkRows, bulkHolds, bulkBefore, bulkMsgs, bulkRetried, bulkFaults>>

\* The delivery is done: it is acknowledged, or the worker is lost before.
BulkDone(w, b) ==
  /\ bulkWorker' = [bulkWorker EXCEPT ![w] = BulkIdle]
  /\ \/ UNCHANGED <<bulkMsgs, bulkFaults>>
     \/ BulkFault /\ bulkMsgs' = [bulkMsgs EXCEPT ![b] = @ + 1]

PreparedState(state) ==
  IF state \in {"WAITING_INPUT", "RETRYABLE_FAILED", "QUEUED"} THEN "VALIDATING" ELSE state

BulkReady(b) ==
  /\ bulkJobs[b].state \notin TERMINAL_JOB_STATES \cup {"CANCEL_REQUESTED"}
  /\ ~BudgetReached(bulkJobs[b]) /\ ~bulkJobs[b].kill /\ ~bulkJobs[b].pause
  /\ Len(bulkRows[b]) = BulkTarget

\* The job is over, to be cancelled, out of budget, paused or without rows.
PreparedJob(b) ==
  LET job == bulkJobs[b]
  IN  IF job.state \in TERMINAL_JOB_STATES THEN job
      ELSE IF job.state = "CANCEL_REQUESTED"
           THEN RefreshProgress([job EXCEPT !.state = "CANCELLED"], bulkRows[b])
      ELSE IF BudgetReached(job) THEN [job EXCEPT !.kill = TRUE, !.pause = TRUE]
      ELSE IF job.kill \/ job.pause \/ job.state \notin {"QUEUED", "VALIDATING"} THEN job
      ELSE [job EXCEPT !.state = "WAITING_INPUT"]

PrepareNotReady(w, b) ==
  /\ bulkWorker[w] = At(b, "prepare")
  /\ BulkUnlocked(b) /\ ~BulkReady(b)
  /\ bulkRows' = IF bulkJobs[b].state = "CANCEL_REQUESTED"
                 THEN [bulkRows EXCEPT ![b] = RowsTo(@, {"READY", "QUEUED"}, "CANCELLED")]
                 ELSE bulkRows
  /\ bulkJobs' = [bulkJobs EXCEPT ![b] = PreparedJob(b)]
  /\ bulkHolds' = [bulkHolds EXCEPT ![b] = SettledBulkHold(b, bulkJobs'[b])]
  /\ BulkDone(w, b)
  /\ UNCHANGED <<bulkBefore, bulkRetried>>

\* No executor is configured: the job fails in the same transaction.
PrepareUnavailable(w, b) ==
  LET job == [bulkJobs[b] EXCEPT !.state = PreparedState(@)]
  IN  /\ bulkWorker[w] = At(b, "prepare")
      /\ BulkUnlocked(b) /\ BulkReady(b)
      /\ bulkRows' = [bulkRows EXCEPT ![b] = FailedRows(job, @)]
      /\ bulkJobs' = [bulkJobs EXCEPT ![b] = FailedJob(job, bulkRows[b])]
      /\ bulkHolds' = [bulkHolds EXCEPT ![b] = SettledBulkHold(b, bulkJobs'[b])]
      /\ BulkDone(w, b)
      /\ UNCHANGED <<bulkBefore, bulkRetried>>

\* The run holds the job from here until it commits or rolls back.
PrepareExecutes(w, b) ==
  /\ bulkWorker[w] = At(b, "prepare")
  /\ BulkUnlocked(b) /\ BulkReady(b)
  /\ bulkBefore' = [bulkBefore EXCEPT ![b] = [job |-> bulkJobs[b], rows |-> bulkRows[b]]]
  /\ bulkJobs' = [bulkJobs EXCEPT ![b].state = PreparedState(@)]
  /\ bulkWorker' = [bulkWorker EXCEPT ![w] = At(b, "executing")]
  /\ UNCHANGED <<bulkRows, bulkHolds, bulkMsgs, bulkRetried, bulkFaults>>

\* The executor asks before every row.
GateOpen(job) == ~job.pause /\ ~job.kill

AuthorizeNextRow(w, b) ==
  \E i \in DOMAIN bulkRows[b] :
    LET job == bulkJobs[b]
        exceeds == job.actual + job.held + RowEstimate(i) > BulkMaximum
    IN  /\ bulkWorker[w] = At(b, "executing")
        /\ GateOpen(job)
        /\ \/ /\ exceeds
              /\ bulkJobs' = [bulkJobs EXCEPT ![b].kill = TRUE, ![b].pause = TRUE]
              /\ UNCHANGED bulkRows
           \/ /\ ~exceeds
              /\ bulkRows[b][i].state \in {"READY", "QUEUED"}
              /\ bulkJobs' = [bulkJobs EXCEPT ![b].held = @ + RowEstimate(i)]
              /\ bulkRows' = [bulkRows EXCEPT ![b][i].state = "PROCESSING"]
        /\ UNCHANGED <<bulkHolds, bulkBefore, bulkWorker, bulkMsgs, bulkRetried, bulkFaults>>

\* What the executor may report of a row: its outcome, a quality or spam check failed,
\* a hard block, and whether its approval request was approved already.
RowOutcomes ==
  [outcome : {"SUCCEEDED"}, passed : {TRUE}, clean : {TRUE}, blocked : {FALSE}, approved : BOOLEAN]
    \cup [outcome : {"SUCCEEDED"}, passed : {TRUE}, clean : {FALSE}, blocked : BOOLEAN,
          approved : {FALSE}]
    \cup [outcome : {"RETRYABLE_FAILED", "FINAL_FAILED"}, passed : {FALSE}, clean : {TRUE},
          blocked : {FALSE}, approved : {FALSE}]

RecordedState(o) ==
  IF o.blocked \/ (o.outcome = "SUCCEEDED" /\ ~(o.passed /\ o.clean)) THEN "QUALITY_BLOCKED"
  ELSE IF o.outcome # "SUCCEEDED" THEN o.outcome
  ELSE IF o.approved THEN "APPROVED" ELSE "WAITING_REVIEW"

RecordedRow(row, o, cost) ==
  [state |-> RecordedState(o), attempt |-> row.attempt + 1, passed |-> o.passed,
   blocked |-> o.blocked, approved |-> RecordedState(o) = "APPROVED", cost |-> row.cost + cost]

\* Deviation: an attempt gives back what all rows in progress hold.
HeldAfterAttempt(job, i) == 0

HeldAfter(job, i) == IF job.held > RowEstimate(i) THEN job.held - RowEstimate(i) ELSE 0

\* The executor's contract: it records a row whose gate opened (BulkJobExecutor).
\* record_row_attempt itself asks only for the approval and the limit.
RowWasAuthorized(row) == row.state = "PROCESSING"

RecordRowAttempt(w, b) ==
  \E i \in DOMAIN bulkRows[b], o \in RowOutcomes, cost \in BulkRowCosts :
    LET job == [bulkJobs[b] EXCEPT !.actual = @ + cost, !.held = HeldAfter(bulkJobs[b], i)]
        killed == BudgetReached(job)
    IN  /\ bulkWorker[w] = At(b, "executing")
        /\ RowWasAuthorized(bulkRows[b][i]) /\ ~bulkRows[b][i].approved
        /\ bulkRows[b][i].attempt < BulkRowAttempts
        /\ bulkRows' = [bulkRows EXCEPT ![b][i] = RecordedRow(@, o, cost)]
        /\ bulkJobs' = [bulkJobs EXCEPT ![b] =
             RefreshProgress([job EXCEPT !.kill = @ \/ killed, !.pause = @ \/ killed], bulkRows'[b])]
        /\ UNCHANGED <<bulkHolds, bulkBefore, bulkWorker, bulkMsgs, bulkRetried, bulkFaults>>

\* The executor returned with the job in `state'; nothing recorded is VALIDATING.
\* A paused or killed job is committed as it is.  Rows may still be in progress.
ExecutorReturns(w, b) ==
  \E state \in {bulkJobs[b].state, "SUCCEEDED", "WAITING_REVIEW", "RETRYABLE_FAILED"} :
    LET job == [bulkJobs[b] EXCEPT !.state = state]
        stops == job.pause \/ job.kill
        ended == IF stops \/ state # "VALIDATING" THEN job ELSE FailedJob(job, bulkRows[b])
    IN  /\ bulkWorker[w] = At(b, "executing")
        /\ ~stops /\ state = "SUCCEEDED" => ValidateBulkSuccess(job)
        /\ bulkJobs' = [bulkJobs EXCEPT ![b] = ended]
        /\ bulkRows' = IF stops \/ state # "VALIDATING" THEN bulkRows
                       ELSE [bulkRows EXCEPT ![b] = FailedRows(job, @)]
        /\ bulkHolds' = IF stops THEN bulkHolds
                        ELSE [bulkHolds EXCEPT ![b] = SettledBulkHold(b, ended)]
        /\ bulkBefore' = [bulkBefore EXCEPT ![b] = BulkCommitted]
        /\ BulkDone(w, b)
        /\ UNCHANGED bulkRetried

\* The executor or _validate_success raised: everything since the beginning of
\* the transaction is undone.
ExecutorRaises(w, b) ==
  /\ bulkWorker[w] = At(b, "executing")
  /\ bulkJobs' = [bulkJobs EXCEPT ![b] = bulkBefore[b].job]
  /\ bulkRows' = [bulkRows EXCEPT ![b] = bulkBefore[b].rows]
  /\ bulkBefore' = [bulkBefore EXCEPT ![b] = BulkCommitted]
  /\ bulkWorker' = [bulkWorker EXCEPT ![w] = At(b, "failing")]
  /\ UNCHANGED <<bulkHolds, bulkMsgs, bulkRetried, bulkFaults>>

PersistBulkFailure(w, b) ==
  /\ bulkWorker[w] = At(b, "failing")
  /\ BulkUnlocked(b)
  /\ bulkRows' = [bulkRows EXCEPT ![b] = FailedRows(bulkJobs[b], @)]
  /\ bulkJobs' = [bulkJobs EXCEPT ![b] = FailedJob(@, bulkRows[b])]
  /\ bulkHolds' = [bulkHolds EXCEPT ![b] = SettledBulkHold(b, bulkJobs'[b])]
  /\ BulkDone(w, b)
  /\ UNCHANGED <<bulkBefore, bulkRetried>>

\* The worker is lost in between; what it held is rolled back.
BulkWorkerLost(w, b) ==
  /\ bulkWorker[w] # BulkIdle /\ bulkWorker[w].job = b
  /\ BulkFault
  /\ bulkMsgs' = [bulkMsgs EXCEPT ![b] = @ + 1]
  /\ bulkWorker' = [bulkWorker EXCEPT ![w] = BulkIdle]
  /\ IF bulkWorker[w].at = "executing"
     THEN /\ bulkJobs' = [bulkJobs EXCEPT ![b] = bulkBefore[b].job]
          /\ bulkRows' = [bulkRows EXCEPT ![b] = bulkBefore[b].rows]
          /\ bulkBefore' = [bulkBefore EXCEPT ![b] = BulkCommitted]
     ELSE UNCHANGED <<bulkJobs, bulkRows, bulkBefore>>
  /\ UNCHANGED <<bulkHolds, bulkRetried>>

-----------------------------------------------------------------------------
BulkRequest(b) ==
  \/ CreateBulkJob(b) \/ PauseBulkJob(b) \/ ResumeBulkJob(b) \/ CancelBulkJob(b)
  \/ RetryRows(b) \/ ApproveRows(b)

BulkRun(w, b) ==
  \/ RunBegins(w, b) \/ MaterializeRows(w, b) \/ MaterializeRaises(w, b)
  \/ PrepareNotReady(w, b) \/ PrepareUnavailable(w, b) \/ PrepareExecutes(w, b)
  \/ AuthorizeNextRow(w, b) \/ RecordRowAttempt(w, b)
  \/ ExecutorReturns(w, b) \/ ExecutorRaises(w, b) \/ PersistBulkFailure(w, b)
  \/ BulkWorkerLost(w, b)

BulkNext == \E b \in BulkIds : BulkRequest(b) \/ \E w \in BulkWorkers : BulkRun(w, b)

BulkSpec == BulkInit /\ [][BulkNext]_bulkVars

-----------------------------------------------------------------------------
(* Properties.                                                             *)

\* Rows have their columns' types; what is held for rows in progress never
\* drives the commitment past the budget (authorize_next_row), and no row is
\* started that its policy would not let end (retry_rows, record_row_attempt).
BulkTypeOK ==
  /\ \A b \in BulkIds :
       /\ bulkJobs[b].state \in JobStates \cup {"NONE"}
       /\ bulkJobs[b].held \in 0..BulkMaximum
       /\ bulkJobs[b].processed \in 0..BulkTarget
       /\ bulkHolds[b].state \in {"NONE", "HELD", "FINALIZED", "RELEASED"}
       /\ \A i \in DOMAIN bulkRows[b] :
            /\ bulkRows[b][i].state \in BulkRowStates
            /\ bulkRows[b][i].attempt \in 0..BulkRowAttempts
            /\ bulkRows[b][i].state = "PROCESSING" => bulkRows[b][i].attempt < BulkRowAttempts
  /\ bulkMsgs \in [BulkIds -> Nat]

\* A job that is over has closed its hold in the way its end calls for, but for
\* a success whose cost reached the budget: the kill switch returns before the
\* settlement (_run_job).
BulkHoldFollowsJob ==
  \A b \in BulkIds :
    LET job == CommittedJob(b)
    IN  IF job.state = "NONE" THEN bulkHolds[b].state = "NONE"
        ELSE IF job.state \notin TERMINAL_JOB_STATES THEN bulkHolds[b].state = "HELD"
        ELSE IF job.state = "SUCCEEDED" THEN bulkHolds[b].state = "FINALIZED" \/ job.kill
        ELSE bulkHolds[b].state = "RELEASED"

RowCosts(rows) == SumFunction([i \in DOMAIN rows |-> rows[i].cost])

\* What is charged is the cost of the rows that were attempted, within the
\* budget, and every row of the file that could be executed was
\* (_validate_success, record_row_attempt): rollbacks and repeated deliveries
\* leave no cost behind and lose none.
ChargedForRows ==
  \A b \in BulkIds :
    /\ CommittedJob(b).actual = RowCosts(CommittedRows(b))
    /\ bulkHolds[b].state = "FINALIZED" =>
         /\ bulkHolds[b].charged <= BulkMaximum
         /\ bulkHolds[b].charged = RowCosts(CommittedRows(b))
         /\ \A i \in 1..BulkTarget :
              MaterializedState(i) = "READY" => CommittedRows(b)[i].attempt > 0

\* The estimates of the rows in progress.
RowHeld(i, row) == IF row.state = "PROCESSING" THEN RowEstimate(i) ELSE 0
Reserved(rows) == SumFunction([i \in DOMAIN rows |-> RowHeld(i, rows[i])])

\* What is held covers the rows in progress, whichever run left them so, and a
\* hold is settled with nothing held (authorize_next_row, record_row_attempt,
\* _validate_success): after a kill switch, an approval of a row in progress or a
\* rollback the budget still counts a row that may be executed.  It may count
\* more: a failed job keeps the estimates of its rows.
RunningRowsAreHeld ==
  \A b \in BulkIds :
    /\ bulkJobs[b].held >= Reserved(bulkRows[b])
    /\ CommittedJob(b).held >= Reserved(CommittedRows(b))
    /\ bulkHolds[b].state = "FINALIZED" => CommittedJob(b).held = 0

\* Rows repeat no row of the file (materialize_csv_snapshot): of equal rows at
\* most one is ever executed, whichever delivery inserted them.
RepeatedRowsNotExecuted ==
  \A b \in BulkIds : \A i, k \in DOMAIN bulkRows[b] :
    (i # k /\ BulkInput[i].digest = BulkInput[k].digest) =>
      bulkRows[b][i].attempt = 0 \/ bulkRows[b][k].attempt = 0

\* A job that waits for a worker has a delivery or a worker at it, unless one
\* was lost for good.
NoBulkJobForgotten ==
  \A b \in BulkIds :
    /\ \/ bulkJobs[b].state = "CANCEL_REQUESTED"
       \/ bulkJobs[b].state \in {"QUEUED", "WAITING_INPUT", "VALIDATING"} /\ ~bulkJobs[b].pause
    => \/ bulkMsgs[b] > 0 \/ bulkFaults > 0
       \/ \E w \in BulkWorkers : bulkWorker[w] # BulkIdle /\ bulkWorker[w].job = b

\* Approved rows are kept: neither a retry, nor the cancellation or the failure
\* of the job, nor a rollback changes one.
ApprovedRowsKept ==
  \A b \in BulkIds : \A i \in DOMAIN CommittedRows(b) :
    CommittedRows(b)[i].approved => CommittedRows(b)'[i] = CommittedRows(b)[i]

\* A job asked to stop is cancelled and nothing else, also when a run that began
\* before the request fails after it, and a job that is over stays as it ended.
BulkEndIsFinal ==
  \A b \in BulkIds :
    LET from == CommittedJob(b).state  to == CommittedJob(b)'.state
    IN  /\ from \in TERMINAL_JOB_STATES => to = from
        /\ from = "CANCEL_REQUESTED" => to \in {from, "CANCELLED"}

\* What bulk jobs promise: the charge is the cost of the rows that ran, no repeated
\* row runs, what is held covers the rows in progress, and a job that waits has a
\* message (domain/bulk/tasks.py, service.py).
BulkPromise ==
  /\ BulkTypeOK
  /\ BulkHoldFollowsJob
  /\ ChargedForRows
  /\ RunningRowsAreHeld
  /\ RepeatedRowsNotExecuted
  /\ NoBulkJobForgotten

\* What bulk jobs keep: approved rows and the way a job ended, through retries,
\* rollbacks and failures recorded late (retry_rows, _fail_job, finalize_cancellation).
BulkKeeps == [][ApprovedRowsKept /\ BulkEndIsFinal]_bulkVars

=============================================================================
