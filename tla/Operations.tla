----------------------------- MODULE Operations -----------------------------
(***************************************************************************)
(* Backup runs, recovery exercises and release assessments (domain/        *)
(* operations).  Each is executed in one transaction that holds its row;   *)
(* an error rolls it back and is recorded in a second one, which another   *)
(* delivery of the same work can come before.  The retries that are left   *)
(* travel in the message.                                                  *)
(***************************************************************************)
EXTENDS Integers

CONSTANTS
  OpMaxRetries,         \* max_retries of the tasks (3 in the code)
  OpSlots,              \* bound: messages of a job at a time
  OpMaxManual           \* bound: retries asked for by an operator

VARIABLES
  opJobs,               \* BackupRun, RecoveryExercise, GAAssessment: state, failure code, evidence
  opMail,               \* messages of a job: queued, or held by a worker that met an error
  opLost,               \* whether a message of a job was never sent
  opManual              \* retries asked for so far

opVars == <<opJobs, opMail, opLost, opManual>>

OpKinds == {"backup", "recovery", "ga"}
NoOperation == [state |-> "NONE", failure |-> "none", evidence |-> "none"]
NoMessage == [state |-> "none", retries |-> 0]
QueuedMessage == [state |-> "queued", retries |-> 0]

\* The backup may already be over.
OpInit(backup) ==
  /\ opJobs = [k \in OpKinds |-> IF k = "backup" THEN backup ELSE NoOperation]
  /\ opMail = [k \in OpKinds |-> [s \in OpSlots |-> NoMessage]]
  /\ opLost = [k \in OpKinds |-> FALSE]
  /\ opManual = 0

OpRuns(k) == opJobs[k].state \in {"QUEUED", "RETRYING"}

\* A message sent after the response: it reaches the queue, or its process is lost.
OpEnqueue(k) ==
  \/ \E s \in OpSlots :
       /\ opMail[k][s] = NoMessage /\ opMail' = [opMail EXCEPT ![k][s] = QueuedMessage]
       /\ UNCHANGED opLost
  \/ opLost' = [opLost EXCEPT ![k] = TRUE] /\ UNCHANGED opMail

-----------------------------------------------------------------------------
(* Requests.                                                               *)

CreateOperation(k) ==
  /\ opJobs[k] = NoOperation
  /\ opJobs' = [opJobs EXCEPT ![k].state = "QUEUED"]
  /\ OpEnqueue(k) /\ UNCHANGED opManual

CreateBackupRun == CreateOperation("backup")

\* A backup that was verified; its run may have failed all the same, when the
\* restore point was too old.
BackupIsVerified == opJobs["backup"].evidence \in {"passed", "late"}

CreateRecoveryExercise == BackupIsVerified /\ CreateOperation("recovery")

CreateGaAssessment == CreateOperation("ga")

\* Only what failed with its retries used up, and has no evidence yet.
RetriesExhausted(k) ==
  opJobs[k].state = "FAILED" /\ opJobs[k].failure = "exhausted" /\ opJobs[k].evidence = "none"

RetryOperation(k) ==
  /\ RetriesExhausted(k) /\ opManual < OpMaxManual
  /\ opJobs' = [opJobs EXCEPT ![k].state = "RETRYING", ![k].failure = "none"]
  /\ opManual' = opManual + 1 /\ OpEnqueue(k)

RetryBackup == RetryOperation("backup")
RetryRecovery == RetryOperation("recovery")
RetryGaAssessment == RetryOperation("ga")

-----------------------------------------------------------------------------
(* The workers.  The evidence found decides how the work ends.             *)

OpEnd(k, evidence) ==
  [state |-> IF evidence = "passed" THEN (IF k = "ga" THEN "PASSED" ELSE "SUCCEEDED")
             ELSE (IF k = "ga" THEN "BLOCKED" ELSE "FAILED"),
   failure |-> IF evidence = "passed" \/ k = "ga" THEN "none" ELSE "evidence",
   evidence |-> evidence]

\* The message is acknowledged after the commit; a worker lost in between, or
\* before it, leaves the message to another.
OpAcknowledges(k, s) == opMail' \in {opMail, [opMail EXCEPT ![k][s] = NoMessage]}

ExecuteOperation(k, s, evidence) ==
  /\ opMail[k][s].state = "queued" /\ OpRuns(k)
  /\ opJobs' = [opJobs EXCEPT ![k] = OpEnd(k, evidence)]
  /\ OpAcknowledges(k, s) /\ UNCHANGED <<opLost, opManual>>

\* Verified in time, verified with an old restore point, or not verified.
ExecuteBackup(s) == \E evidence \in {"passed", "late", "refuted"} :
  ExecuteOperation("backup", s, evidence)

\* The objectives were met and the integrity checks passed, or not.
ExecuteRecovery(s) == \E evidence \in {"passed", "refuted"} :
  ExecuteOperation("recovery", s, evidence)

\* evaluate_ga_evidence: every gate is there, fresh and passed, or not.
ExecuteGaAssessment(s) == \E evidence \in {"passed", "refuted"} :
  ExecuteOperation("ga", s, evidence)

\* fail_backup, fail_recovery, fail_ga_assessment: nothing is configured.
OpRuntimeUnavailable(k, s) ==
  /\ opMail[k][s].state = "queued" /\ OpRuns(k)
  /\ opJobs' = [opJobs EXCEPT ![k].state = "FAILED", ![k].failure = "permanent"]
  /\ OpAcknowledges(k, s) /\ UNCHANGED <<opLost, opManual>>

OpReturns(k, s) ==
  /\ opMail[k][s].state = "queued" /\ ~OpRuns(k)
  /\ opMail' = [opMail EXCEPT ![k][s] = NoMessage]
  /\ UNCHANGED <<opJobs, opLost, opManual>>

\* The execution failed and was rolled back; or the worker is lost with it.
OpErrs(k, s, error) ==
  /\ opMail[k][s].state = "queued" /\ OpRuns(k)
  /\ opMail' = [opMail EXCEPT ![k][s].state = error]
  /\ UNCHANGED <<opJobs, opLost, opManual>>

OpWorkerLost(k, s) ==
  /\ opMail[k][s].state \in {"retryable", "permanent"}
  /\ opMail' = [opMail EXCEPT ![k][s].state = "queued"]
  /\ UNCHANGED <<opJobs, opLost, opManual>>

\* Deviation: an error is recorded over whatever happened since.
RecordsAlways(k) == opJobs[k].state # "NONE"

RecordsError(k) == OpRuns(k)

WillRetry(k, s) == opMail[k][s].state = "retryable" /\ opMail[k][s].retries < OpMaxRetries

\* task.retry sends the message again, or gives up when its retries are used up.
TaskRetry(k, s) ==
  IF opMail[k][s].retries < OpMaxRetries
  THEN [state |-> "queued", retries |-> opMail[k][s].retries + 1] ELSE NoMessage

\* record_*_attempt_error, and task.retry: the message comes back with one
\* retry less, or the worker is lost before it does that.
RecordAttemptError(k, s) ==
  /\ opMail[k][s].state \in {"retryable", "permanent"} /\ RecordsError(k)
  /\ IF WillRetry(k, s)
     THEN /\ opJobs' = [opJobs EXCEPT ![k].state = "RETRYING", ![k].failure = "transient"]
          /\ opMail' \in {[opMail EXCEPT ![k][s] = TaskRetry(k, s)],
                          [opMail EXCEPT ![k][s].state = "queued"]}
     ELSE /\ opJobs' = [opJobs EXCEPT ![k].state = "FAILED", ![k].failure =
                IF opMail[k][s].state = "retryable" THEN "exhausted" ELSE "permanent"]
          /\ opMail' \in {[opMail EXCEPT ![k][s] = NoMessage],
                          [opMail EXCEPT ![k][s].state = "queued"]}
  /\ UNCHANGED <<opLost, opManual>>

ErrorNotRecorded(k, s) ==
  /\ opMail[k][s].state \in {"retryable", "permanent"} /\ ~RecordsError(k)
  /\ opMail' = [opMail EXCEPT ![k][s] = NoMessage]
  /\ UNCHANGED <<opJobs, opLost, opManual>>

\* The broker delivers a message that is being worked on to another worker.
OpRedelivered(k, s, t) ==
  /\ opMail[k][s].state # "none" /\ opMail[k][t] = NoMessage
  /\ opMail' = [opMail EXCEPT ![k][t] = [opMail[k][s] EXCEPT !.state = "queued"]]
  /\ UNCHANGED <<opJobs, opLost, opManual>>

-----------------------------------------------------------------------------
OpRequest == CreateBackupRun \/ CreateRecoveryExercise \/ CreateGaAssessment
OpRetryRequest == RetryBackup \/ RetryRecovery \/ RetryGaAssessment

RunBackup(s) == ExecuteBackup(s) \/ OpRuntimeUnavailable("backup", s)
RunRecovery(s) == ExecuteRecovery(s) \/ OpRuntimeUnavailable("recovery", s)
RunGa(s) == ExecuteGaAssessment(s) \/ OpRuntimeUnavailable("ga", s)

OpDelivery(k, s) ==
  \/ OpReturns(k, s) \/ OpWorkerLost(k, s) \/ RecordAttemptError(k, s) \/ ErrorNotRecorded(k, s)
  \/ \E error \in {"retryable", "permanent"} : OpErrs(k, s, error)
  \/ \E t \in OpSlots : OpRedelivered(k, s, t)

BackupNext == \E s \in OpSlots : RunBackup(s) \/ OpDelivery("backup", s)
RecoveryNext == \E s \in OpSlots : RunRecovery(s) \/ OpDelivery("recovery", s)
GaNext == \E s \in OpSlots : RunGa(s) \/ OpDelivery("ga", s)
OpNext == OpRequest \/ OpRetryRequest \/ BackupNext \/ RecoveryNext \/ GaNext

OpSpec ==
  /\ \E backup \in {NoOperation} \cup {OpEnd("backup", e) : e \in {"passed", "late", "refuted"}} :
       OpInit(backup)
  /\ [][OpNext]_opVars

-----------------------------------------------------------------------------
(* Properties.                                                             *)

\* Evidence settles an operation for good: no retry, no late error of another
\* delivery and no repeated message changes how it ended.
EvidenceIsFinal ==
  \A k \in OpKinds : opJobs[k].evidence # "none" => opJobs'[k] = opJobs[k]

\* A recovery exercise is only made of a backup that was verified.
ExercisedBackupVerified ==
  opJobs["recovery"].state # "NONE" => opJobs["backup"].evidence \in {"passed", "late"}

\* What is queued or waits for its retry has a message, unless the process that
\* should have sent it was lost.
NoOperationForgotten ==
  \A k \in OpKinds : OpRuns(k) => opLost[k] \/ \E s \in OpSlots : opMail[k][s] # NoMessage

\* Only work whose retries were used up is taken up again by an operator: what
\* failed for a permanent reason or on its evidence stays failed.
PermanentStaysFailed ==
  \A k \in OpKinds :
    opJobs[k].state = "FAILED" /\ opJobs[k].failure # "exhausted" => opJobs'[k] = opJobs[k]

\* What operations promise: evidence and permanent failures stay, exercises use verified
\* backups, and what waits has a message (domain/operations).
OperationsPromise ==
  [][ /\ ( /\ ExercisedBackupVerified
           /\ NoOperationForgotten )'
      /\ EvidenceIsFinal
      /\ PermanentStaysFailed ]_opVars

=============================================================================
