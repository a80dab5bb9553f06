------------------------------ MODULE MediaJobs ------------------------------
(***************************************************************************)
(* Media operation jobs (domain/media): image work that a Celery worker    *)
(* hands to an external executor against one provider connection with a    *)
(* daily quota, a circuit breaker and a budget hold per job.               *)
(*                                                                         *)
(* A run is one transaction that holds the job row.  When it fails it is   *)
(* rolled back, and a second transaction records the failure; between the  *)
(* two nothing is locked (`failing').  The task has no automatic retry:    *)
(* a failure that may be retried is enqueued again by the run itself.      *)
(***************************************************************************)
EXTENDS Integers, FiniteSets, Sequences, JobState

CONSTANTS
  MediaJobIds,          \* MediaOperationJob rows
  MediaWorkers,         \* worker processes
  NoFailure,            \* the worker has no failure to record
  CommandKeys,          \* idempotency keys of cancel and retry commands
  MediaMaxAttempts,     \* MediaOperationJob.max_attempts
  DailyQuota,           \* MediaProviderConnection.daily_quota
  FailureThreshold,     \* circuit_breaker.failure_threshold
  BudgetLimit,          \* MediaOperationJob.budget_limit
  ActualCosts,          \* what the executor reports
  MediaMaxDeliveries,   \* bound: deliveries of one job in the broker
  MediaMaxDays,         \* bound: quota days
  MediaMaxCrashes,      \* bound: workers lost
  MediaMaxLost          \* bound: deliveries lost, by a fault in the transaction
                        \* that records a failure or before the enqueue

VARIABLES
  mediaJobs,            \* MediaOperationJob rows, with the state of their hold
  provider,             \* the MediaProviderConnection row
  mediaCommands,        \* MediaJobCommand rows
  mediaMsgs,            \* deliveries of media.process_operation per job
  failing,              \* per worker, the failure it has yet to record
  mediaCalls,           \* per job, the executor was called
  mediaCrashes, mediaLost

mediaVars == <<mediaJobs, provider, mediaCommands, mediaMsgs, failing, mediaCalls,
               mediaCrashes, mediaLost>>

\* hold is the credit hold behind budget_reservation_ref; released is
\* provider_quota_released; day is the quota day the unit was taken from.
NoMediaJob ==
  [state |-> "NONE", attempt |-> 0, hold |-> "NONE", released |-> FALSE, day |-> 0]

\* due: quota_reset_at has passed; open: circuit_open_until lies ahead.
NewProvider ==
  [remaining |-> DailyQuota, due |-> FALSE, day |-> 0, failures |-> 0, open |-> FALSE]

MediaJobsInit ==
  /\ mediaJobs = [j \in MediaJobIds |-> NoMediaJob]
  /\ provider = NewProvider
  /\ mediaCommands = {}
  /\ mediaMsgs = [j \in MediaJobIds |-> 0]
  /\ failing = [w \in MediaWorkers |-> NoFailure]
  /\ mediaCalls = [j \in MediaJobIds |-> FALSE]
  /\ mediaCrashes = 0 /\ mediaLost = 0

-----------------------------------------------------------------------------
(* Requests.                                                               *)

\* The response's background task enqueues the job after the commit.
EnqueueMediaOperation(j) ==
  \/ /\ mediaMsgs[j] < MediaMaxDeliveries
     /\ mediaMsgs' = [mediaMsgs EXCEPT ![j] = @ + 1]
     /\ UNCHANGED mediaLost
  \/ /\ mediaLost < MediaMaxLost
     /\ mediaLost' = mediaLost + 1
     /\ UNCHANGED mediaMsgs

\* The quota as a request finds it, after the daily reset.
Today ==
  IF provider.due
  THEN [provider EXCEPT !.remaining = DailyQuota, !.due = FALSE, !.day = @ + 1]
  ELSE provider

CreateOperationJob(j) ==
  /\ mediaJobs[j] = NoMediaJob
  /\ ~provider.open
  /\ Today.remaining > 0
  /\ provider' = [Today EXCEPT !.remaining = @ - 1]
  /\ mediaJobs' = [mediaJobs EXCEPT ![j] =
                     [NoMediaJob EXCEPT !.state = "QUEUED", !.hold = "HELD",
                                        !.day = Today.day]]
  /\ EnqueueMediaOperation(j)
  /\ UNCHANGED <<mediaCommands, failing, mediaCalls, mediaCrashes>>

Commanded(row, kind) ==
  IF kind = "CANCEL"
  THEN /\ row.state \notin TERMINAL_JOB_STATES
       /\ row.state = "CANCEL_REQUESTED" \/ EnsureJobTransition(row.state, "CANCEL_REQUESTED")
  ELSE row.state = "RETRYABLE_FAILED" /\ row.attempt < MediaMaxAttempts

CommandTarget(kind) == IF kind = "CANCEL" THEN "CANCEL_REQUESTED" ELSE "QUEUED"

\* A repeated command changes nothing but is enqueued again.
CommandOperationJob(j, kind, key) ==
  /\ mediaJobs[j] # NoMediaJob
  /\ \/ /\ <<j, kind, key>> \in mediaCommands
        /\ UNCHANGED <<mediaJobs, mediaCommands>>
     \/ /\ <<j, kind, key>> \notin mediaCommands
        /\ Commanded(mediaJobs[j], kind)
        /\ mediaJobs' = [mediaJobs EXCEPT ![j].state = CommandTarget(kind)]
        /\ mediaCommands' = mediaCommands \cup {<<j, kind, key>>}
  /\ EnqueueMediaOperation(j)
  /\ UNCHANGED <<provider, failing, mediaCalls, mediaCrashes>>

-----------------------------------------------------------------------------
(* What a transaction does to the job row and the connection row.          *)

SetFailure(row, retryable) ==
  LET from == IF row.state = "QUEUED" THEN "VALIDATING" ELSE row.state
  IN  CASE row.state \in TERMINAL_JOB_STATES -> row
        [] row.state = "CANCEL_REQUESTED" -> [row EXCEPT !.state = "CANCELLED"]
        [] /\ retryable /\ row.attempt < MediaMaxAttempts
           /\ EnsureJobTransition(from, "RETRYABLE_FAILED")
             -> [row EXCEPT !.state = "RETRYABLE_FAILED"]
        [] OTHER -> [row EXCEPT !.state = "FINAL_FAILED"]

MediaPipeline ==
  <<"QUEUED", "VALIDATING", "RESEARCHING", "PLANNING", "GENERATING", "VERIFYING",
    "OPTIMIZING", "CREATING_MEDIA">>

\* The job may be executed once more.
Advances(row) ==
  /\ row.state \notin TERMINAL_JOB_STATES \cup {"CANCEL_REQUESTED"}
  /\ \A i \in 2..Len(MediaPipeline) :
       EnsureJobTransition(MediaPipeline[i - 1], MediaPipeline[i])
  /\ row.attempt < MediaMaxAttempts

AdvanceToMedia(row) ==
  CASE row.state \in TERMINAL_JOB_STATES -> row
    [] row.state = "CANCEL_REQUESTED" -> [row EXCEPT !.state = "CANCELLED"]
    [] Advances(row) -> [row EXCEPT !.state = "CREATING_MEDIA", !.attempt = @ + 1]
    [] OTHER -> SetFailure([row EXCEPT !.state = "CREATING_MEDIA"], FALSE)

\* Deviation: provider_quota_released is not looked at.
RestoresQuotaAgain(row) == row.attempt = 0

RestoresQuota(row) == row.attempt = 0 /\ ~row.released

RestoredRow(row) ==
  [row EXCEPT !.released = @ \/ RestoresQuota(row)]

RestoreProviderQuota(row) ==
  IF ~RestoresQuota(row) THEN provider
  ELSE [provider EXCEPT !.remaining =
          IF @ + 1 < DailyQuota THEN @ + 1 ELSE DailyQuota]

\* Failures beyond the threshold are not told apart.
UpdateProviderOutcome(succeeded) ==
  IF succeeded THEN [provider EXCEPT !.failures = 0, !.open = FALSE]
  ELSE [provider EXCEPT !.failures = IF @ = FailureThreshold THEN @ ELSE @ + 1,
                        !.open = @ \/ provider.failures + 1 >= FailureThreshold]

\* Cost, result version and evidence are all there; only the cost has values.
ValidateSuccess(cost) == cost <= BudgetLimit

\* The event names job and state, so that a repetition finds its own settlement.
SettleTerminal(row) ==
  CASE row.state = "SUCCEEDED" -> [row EXCEPT !.hold = "FINALIZED"]
    [] row.state \in TERMINAL_JOB_STATES \ {"SUCCEEDED"} -> [row EXCEPT !.hold = "RELEASED"]
    [] OTHER -> row

-----------------------------------------------------------------------------
(* Worker runs.  A delivery leaves the broker when a run begins; a worker  *)
(* lost before the acknowledgement puts it back.                           *)

\* The delivery is acknowledged after `more' new ones were sent.
AcknowledgeMedia(j, more) ==
  \/ /\ mediaMsgs' = [mediaMsgs EXCEPT ![j] = @ - 1 + more]
     /\ UNCHANGED mediaCrashes
  \/ /\ mediaCrashes < MediaMaxCrashes
     /\ mediaCrashes' = mediaCrashes + 1
     /\ \E sent \in 0..more : mediaMsgs' = [mediaMsgs EXCEPT ![j] = @ + sent]

Idle(w) == failing[w] = NoFailure

\* The job is over, cancelled or out of attempts: nothing is executed.
RunNothingToDo(j) ==
  LET row == AdvanceToMedia(mediaJobs[j])
      unused == row.state = "CANCELLED" /\ row.attempt = 0
  IN  /\ mediaMsgs[j] > 0
      /\ ~Advances(mediaJobs[j])
      /\ mediaJobs' = [mediaJobs EXCEPT ![j] =
                         SettleTerminal(IF unused THEN RestoredRow(row) ELSE row)]
      /\ provider' = IF unused THEN RestoreProviderQuota(row) ELSE provider
      /\ AcknowledgeMedia(j, 0)
      /\ UNCHANGED <<mediaCommands, failing, mediaCalls, mediaLost>>

\* The executor recorded a terminal state and everything committed with it.
RunExecuted(j) ==
  \E state \in {"SUCCEEDED", "FINAL_FAILED"}, cost \in ActualCosts :
    /\ mediaMsgs[j] > 0
    /\ Advances(mediaJobs[j])
    /\ ValidateSuccess(cost)
    /\ mediaJobs' = [mediaJobs EXCEPT ![j] =
                       SettleTerminal([AdvanceToMedia(@) EXCEPT !.state = state])]
    /\ provider' = UpdateProviderOutcome(state = "SUCCEEDED")
    /\ mediaCalls' = [mediaCalls EXCEPT ![j] = TRUE]
    /\ AcknowledgeMedia(j, 0)
    /\ UNCHANGED <<mediaCommands, failing, mediaLost>>

RunFailure(j, attempted, retryable) ==
  [job |-> j, attempted |-> attempted, retryable |-> retryable]

\* The executor or a check of its result raised: everything is rolled back.
\* Over budget, incomplete evidence and refused requests are not retryable; no
\* terminal state, unavailable services and other exceptions are.
RunRolledBack(w, j) ==
  \E retryable \in BOOLEAN :
    /\ Idle(w)
    /\ mediaMsgs[j] > 0
    /\ Advances(mediaJobs[j])
    /\ failing' = [failing EXCEPT ![w] = RunFailure(j, TRUE, retryable)]
    /\ mediaCalls' = [mediaCalls EXCEPT ![j] = TRUE]
    /\ mediaMsgs' = [mediaMsgs EXCEPT ![j] = @ - 1]
    /\ UNCHANGED <<mediaJobs, provider, mediaCommands, mediaCrashes, mediaLost>>

\* An exception before the executor was called (the database).
RunFailsEarly(w, j) ==
  /\ Idle(w)
  /\ mediaMsgs[j] > 0
  /\ failing' = [failing EXCEPT ![w] = RunFailure(j, FALSE, TRUE)]
  /\ mediaMsgs' = [mediaMsgs EXCEPT ![j] = @ - 1]
  /\ UNCHANGED <<mediaJobs, provider, mediaCommands, mediaCalls, mediaCrashes, mediaLost>>

\* This worker has no executor configured.
RunUnavailable(w, j) ==
  /\ Idle(w)
  /\ mediaMsgs[j] > 0
  /\ failing' = [failing EXCEPT ![w] = RunFailure(j, FALSE, FALSE)]
  /\ mediaMsgs' = [mediaMsgs EXCEPT ![j] = @ - 1]
  /\ UNCHANGED <<mediaJobs, provider, mediaCommands, mediaCalls, mediaCrashes, mediaLost>>

FailedRow(row, f) ==
  SetFailure(IF f.attempted /\ row.state \notin TERMINAL_JOB_STATES
             THEN AdvanceToMedia(row) ELSE row,
             f.retryable)

\* The second transaction, and the enqueue after it.
PersistOperationFailure(w) ==
  LET f == failing[w]
      row == FailedRow(mediaJobs[f.job], f)
      again == IF row.state = "RETRYABLE_FAILED" THEN 1 ELSE 0
  IN  /\ ~Idle(w)
      /\ mediaJobs' = [mediaJobs EXCEPT ![f.job] =
                         SettleTerminal(IF f.attempted THEN row ELSE RestoredRow(row))]
      /\ provider' = IF f.attempted THEN UpdateProviderOutcome(FALSE)
                                    ELSE RestoreProviderQuota(row)
      /\ failing' = [failing EXCEPT ![w] = NoFailure]
      /\ \/ /\ mediaMsgs' = [mediaMsgs EXCEPT ![f.job] = @ + again]
            /\ UNCHANGED mediaCrashes
         \/ /\ mediaCrashes < MediaMaxCrashes
            /\ mediaCrashes' = mediaCrashes + 1
            /\ \E sent \in 0..again :
                 mediaMsgs' = [mediaMsgs EXCEPT ![f.job] = @ + 1 + sent]
      /\ UNCHANGED <<mediaCommands, mediaCalls, mediaLost>>

\* The second transaction fails as well: the task ends with an exception, which
\* acknowledges the delivery.
PersistFails(w) ==
  /\ ~Idle(w)
  /\ mediaLost < MediaMaxLost
  /\ mediaLost' = mediaLost + 1
  /\ failing' = [failing EXCEPT ![w] = NoFailure]
  /\ UNCHANGED <<mediaJobs, provider, mediaCommands, mediaMsgs, mediaCalls, mediaCrashes>>

\* The worker is lost between the two transactions.
MediaWorkerLost(w) ==
  /\ ~Idle(w)
  /\ mediaCrashes < MediaMaxCrashes
  /\ mediaCrashes' = mediaCrashes + 1
  /\ mediaMsgs' = [mediaMsgs EXCEPT ![failing[w].job] = @ + 1]
  /\ failing' = [failing EXCEPT ![w] = NoFailure]
  /\ UNCHANGED <<mediaJobs, provider, mediaCommands, mediaCalls, mediaLost>>

-----------------------------------------------------------------------------
(* Time.                                                                   *)

QuotaDayPasses ==
  /\ ~provider.due /\ provider.day < MediaMaxDays
  /\ provider.remaining < DailyQuota
  /\ provider' = [provider EXCEPT !.due = TRUE]
  /\ UNCHANGED <<mediaJobs, mediaCommands, mediaMsgs, failing, mediaCalls, mediaCrashes, mediaLost>>

CooldownPasses ==
  /\ provider.open
  /\ provider' = [provider EXCEPT !.open = FALSE]
  /\ UNCHANGED <<mediaJobs, mediaCommands, mediaMsgs, failing, mediaCalls, mediaCrashes, mediaLost>>

-----------------------------------------------------------------------------
RunOperation(j) ==
  \/ RunNothingToDo(j)
  \/ RunExecuted(j)
  \/ \E w \in MediaWorkers :
       RunRolledBack(w, j) \/ RunFailsEarly(w, j) \/ RunUnavailable(w, j)

MediaRequest(j) ==
  \/ CreateOperationJob(j)
  \/ \E kind \in {"CANCEL", "RETRY"}, key \in CommandKeys : CommandOperationJob(j, kind, key)

MediaJobsNext ==
  \/ \E j \in MediaJobIds : MediaRequest(j) \/ RunOperation(j)
  \/ \E w \in MediaWorkers :
       PersistOperationFailure(w) \/ PersistFails(w) \/ MediaWorkerLost(w)
  \/ QuotaDayPasses
  \/ CooldownPasses

-----------------------------------------------------------------------------
(* Properties.                                                             *)

\* Every row has its columns' types; no job is attempted more often than
\* max_attempts although two workers may record failures of the same job
\* (_advance_to_media), and the connection never offers more than its daily
\* quota although units come back after the reset (_restore_provider_quota).
MediaJobsTypeOK ==
  /\ mediaJobs \in [MediaJobIds ->
       [state : JobStates \cup {"NONE"}, attempt : 0..MediaMaxAttempts,
        hold : {"NONE", "HELD", "FINALIZED", "RELEASED"}, released : BOOLEAN,
        day : 0..MediaMaxDays]]
  /\ provider \in [remaining : 0..DailyQuota, due : BOOLEAN, day : 0..MediaMaxDays,
                   failures : 0..FailureThreshold, open : BOOLEAN]
  /\ mediaCommands \subseteq MediaJobIds \X {"CANCEL", "RETRY"} \X CommandKeys
  /\ mediaMsgs \in [MediaJobIds -> Nat]
  /\ failing \in [MediaWorkers -> {NoFailure} \cup
       [job : MediaJobIds, attempted : BOOLEAN, retryable : BOOLEAN]]

\* The hold of a job is open exactly as long as the job is, and closed in the
\* way its end calls for, whichever transaction ends it (_settle_terminal).
HoldFollowsMediaJob ==
  \A j \in MediaJobIds :
    LET row == mediaJobs[j]
    IN  row.state # "NONE" =>
          row.hold = CASE row.state = "SUCCEEDED" -> "FINALIZED"
                       [] row.state \in TERMINAL_JOB_STATES \ {"SUCCEEDED"} -> "RELEASED"
                       [] OTHER -> "HELD"

UnitsOutOn(day) ==
  Cardinality({j \in MediaJobIds : mediaJobs[j].state # "NONE" /\ mediaJobs[j].day = day
                                    /\ ~mediaJobs[j].released})

\* The connection never offers fewer units than the day's jobs leave over, and
\* on the first day exactly those: no path returns a unit twice
\* (_restore_provider_quota).
ProviderQuotaAccounted ==
  /\ provider.remaining >= DailyQuota - UnitsOutOn(provider.day)
  /\ provider.day = 0 => provider.remaining = DailyQuota - UnitsOutOn(0)

\* A job that ended without ever reaching the executor has returned its unit.
UnusedUnitReturned ==
  \A j \in MediaJobIds :
    (mediaJobs[j].state \in TERMINAL_JOB_STATES /\ ~mediaCalls[j]) => mediaJobs[j].released

\* A job that is not over has a delivery or a worker that is recording its
\* failure, unless one was lost for good: the task has no retry of its own
\* (enqueue_media_operation in _run_operation).
NoMediaJobForgotten ==
  \A j \in MediaJobIds :
    mediaJobs[j].state \in {"QUEUED", "RETRYABLE_FAILED", "CANCEL_REQUESTED"} =>
      \/ mediaMsgs[j] > 0
      \/ \E w \in MediaWorkers : ~Idle(w) /\ failing[w].job = j
      \/ mediaLost > 0

\* Commands, late deliveries and late failures never bring back a job that is
\* over, and a job asked to stop is cancelled and nothing else, also when a run
\* that began before the request fails after it (_set_failure, _advance_to_media).
MediaEndIsFinal ==
  \A j \in MediaJobIds :
    /\ mediaJobs[j].state \in TERMINAL_JOB_STATES =>
         mediaJobs'[j].state = mediaJobs[j].state
    /\ mediaJobs[j].state = "CANCEL_REQUESTED" =>
         mediaJobs'[j].state \in {"CANCEL_REQUESTED", "CANCELLED"}

\* What media operations promise: each ends once, with its hold closed as its end
\* calls for, its unit of the provider's quota given back at most once, and a
\* message as long as it waits (domain/media/tasks.py).
MediaJobPromise ==
  [][ /\ ( /\ MediaJobsTypeOK
           /\ HoldFollowsMediaJob
           /\ ProviderQuotaAccounted
           /\ UnusedUnitReturned
           /\ NoMediaJobForgotten )'
      /\ MediaEndIsFinal ]_mediaVars

=============================================================================
