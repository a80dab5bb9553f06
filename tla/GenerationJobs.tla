--------------------------- MODULE GenerationJobs ---------------------------
(***************************************************************************)
(* Generation jobs (domain/generation): a job is a frozen plan of steps.   *)
(* Each delivery claims and executes one step in one transaction that      *)
(* holds the job row, settles the budget hold when the job has reached an  *)
(* end, and sends the next delivery.  The task is not retried: an          *)
(* exception rolls the transaction back and ends the chain of deliveries.  *)
(***************************************************************************)
EXTENDS Integers, FiniteSets, Sequences, JobState

CONSTANTS
  GenJobs,              \* GenerationJob rows
  GenSections,          \* sections of the frozen outline, at least one
  GenKeys,              \* idempotency keys of cancel and retry commands
  GenMaxAttempts,       \* retry.max_attempts of the generation policy
  GenBudget,            \* what the credit hold reserves
  GenMaxRuns,           \* bound: model runs of one job
  GenMaxMsgs,           \* bound: deliveries of one job
  GenMaxCrashes,        \* bound: workers lost before the acknowledgement
  GenMaxLost            \* bound: deliveries lost before the enqueue

ASSUME GenNumbers ==
  /\ GenSections \in Nat \ {0}
  /\ GenMaxAttempts \in Nat /\ GenBudget \in Nat
  /\ GenMaxRuns \in Nat /\ GenMaxMsgs \in Nat /\ GenMaxCrashes \in Nat /\ GenMaxLost \in Nat

VARIABLES
  genJobs,              \* GenerationJob rows
  genSteps,             \* GenerationJobStep states in the order of their ordinals
  genHolds,             \* the credit hold behind budget_reservation_ref
  genRuns,              \* number of ModelRun rows, each of cost 1
  genResults,           \* ContentVersion rows written by the job
  genMsgs, genCommands, genCrashes, genLost

genVars == <<genJobs, genSteps, genHolds, genRuns, genResults, genMsgs, genCommands,
             genCrashes, genLost>>

\* evidence is result["billing_settlement"]; NoEvidence until the job is settled.
NoEvidence == [event |-> "none", cost |-> 0]

NoGenJob == [state |-> "NONE", attempt |-> 0, evidence |-> NoEvidence]

\* event is the terminal_event_id the hold was closed with.
OpenHold == [state |-> "HELD", event |-> "none", charged |-> 0]

PlanGenerationSteps ==
  <<"VALIDATE_INPUT", "RESEARCH", "PLAN_OUTLINE">>
    \o [i \in 1..GenSections |-> "GENERATE_SECTION"]
    \o <<"VERIFY_CLAIMS", "VERIFY_POLICY", "OPTIMIZE", "PREPARE_REVIEW">>

StepOrdinals == DOMAIN PlanGenerationSteps

GenInit ==
  /\ genJobs = [j \in GenJobs |-> NoGenJob]
  /\ genSteps = [j \in GenJobs |-> [i \in StepOrdinals |-> "PENDING"]]
  /\ genHolds = [j \in GenJobs |-> [OpenHold EXCEPT !.state = "NONE"]]
  /\ genRuns = [j \in GenJobs |-> 0]
  /\ genResults = [j \in GenJobs |-> 0]
  /\ genMsgs = [j \in GenJobs |-> 0]
  /\ genCommands = {}
  /\ genCrashes = 0 /\ genLost = 0

StepJobState(kind) ==
  CASE kind = "VALIDATE_INPUT" -> "VALIDATING"
    [] kind = "RESEARCH" -> "RESEARCHING"
    [] kind = "PLAN_OUTLINE" -> "PLANNING"
    [] kind = "GENERATE_SECTION" -> "GENERATING"
    [] kind \in {"VERIFY_CLAIMS", "VERIFY_POLICY"} -> "VERIFYING"
    [] kind \in {"OPTIMIZE", "PREPARE_REVIEW"} -> "OPTIMIZING"

-----------------------------------------------------------------------------
(* Requests.                                                               *)

\* After the commit the response's background task enqueues the job.
EnqueueGenerationJob(j) ==
  \/ /\ genMsgs[j] < GenMaxMsgs
     /\ genMsgs' = [genMsgs EXCEPT ![j] = @ + 1]
     /\ UNCHANGED genLost
  \/ /\ genLost < GenMaxLost
     /\ genLost' = genLost + 1
     /\ UNCHANGED genMsgs

\* The input boundary admits the request; the budget hold is taken with it.
CreateGenJob(j) ==
  /\ genJobs[j] = NoGenJob
  /\ genJobs' = [genJobs EXCEPT ![j].state = "QUEUED"]
  /\ genHolds' = [genHolds EXCEPT ![j] = OpenHold]
  /\ EnqueueGenerationJob(j)
  /\ UNCHANGED <<genSteps, genRuns, genResults, genCommands, genCrashes>>

\* Every job is created QUEUED, so that CREATED -> CANCELLED never applies.
\* A second cancel finds CANCEL_REQUESTED and records no command.
CancelGenJob(j, key) ==
  LET state == genJobs[j].state
      repeated == <<j, "CANCEL", key>> \in genCommands \/ state = "CANCEL_REQUESTED"
  IN  /\ genJobs[j] # NoGenJob
      /\ \/ repeated /\ UNCHANGED <<genJobs, genCommands>>
         \/ /\ ~repeated
            /\ state \notin TERMINAL_JOB_STATES
            /\ EnsureJobTransition(state, "CANCEL_REQUESTED")
            /\ genJobs' = [genJobs EXCEPT ![j].state = "CANCEL_REQUESTED"]
            /\ genCommands' = genCommands \cup {<<j, "CANCEL", key>>}
      /\ IF genJobs'[j].state = "CANCEL_REQUESTED"
         THEN EnqueueGenerationJob(j)
         ELSE UNCHANGED <<genMsgs, genLost>>
      /\ UNCHANGED <<genSteps, genHolds, genRuns, genResults, genCrashes>>

RetryingSteps(steps) ==
  [i \in StepOrdinals |-> IF steps[i] \in {"FAILED", "CANCELLED"} THEN "RETRYING" ELSE steps[i]]

\* A repeated retry changes nothing but is enqueued again.
RetryGenJob(j, key) ==
  LET repeated == <<j, "RETRY", key>> \in genCommands
  IN  /\ genJobs[j] # NoGenJob
      /\ \/ repeated /\ UNCHANGED <<genJobs, genSteps, genCommands>>
         \/ /\ ~repeated
            /\ EnsureJobTransition(genJobs[j].state, "QUEUED")
            /\ genJobs[j].attempt < GenMaxAttempts
            /\ genJobs' = [genJobs EXCEPT ![j].state = "QUEUED", ![j].attempt = @ + 1]
            /\ genSteps' = [genSteps EXCEPT ![j] = RetryingSteps(@)]
            /\ genCommands' = genCommands \cup {<<j, "RETRY", key>>}
      /\ EnqueueGenerationJob(j)
      /\ UNCHANGED <<genHolds, genRuns, genResults, genCrashes>>

-----------------------------------------------------------------------------
(* Claiming and ending a step.                                             *)

ClaimableSteps(j) == {i \in StepOrdinals : genSteps[j][i] \in {"PENDING", "RETRYING"}}

\* The step the ORDER BY ordinal LIMIT 1 finds.
NextStep(j) == CHOOSE i \in ClaimableSteps(j) : \A k \in ClaimableSteps(j) : i <= k

\* claim_next_step looks for a step.
LooksForStep(j) ==
  /\ genJobs[j].state \notin TERMINAL_JOB_STATES \cup {"CANCEL_REQUESTED"}
  /\ ClaimableSteps(j) # {}

\* The job may go on to the state of its next step.
StepAllowed(j) ==
  LET target == StepJobState(PlanGenerationSteps[NextStep(j)])
  IN  target = genJobs[j].state \/ EnsureJobTransition(genJobs[j].state, target)

Claimed(j) == LooksForStep(j) /\ StepAllowed(j)

FailedStepState(current, retryable) ==
  LET allowed == ALLOWED_JOB_TRANSITIONS[current]
  IN  CASE retryable /\ "RETRYABLE_FAILED" \in allowed -> "RETRYABLE_FAILED"
        [] ~retryable /\ allowed \cap {"FINAL_FAILED", "RETRYABLE_FAILED"} # {} -> "FINAL_FAILED"
        [] "QUALITY_BLOCKED" \in allowed -> "QUALITY_BLOCKED"
        [] OTHER -> current

GenSuccessStates == {"WAITING_REVIEW", "SUCCEEDED"}
GenFailureStates == {"FINAL_FAILED", "CANCELLED", "EXPIRED"}

\* Deviation: the event names the state the job is in now.
EventOfState(job) == IF job.state \in GenSuccessStates THEN "success" ELSE job.state

\* The event a settlement of the job uses: the stored one if there is one.
TerminalEvent(job) ==
  IF job.evidence # NoEvidence THEN job.evidence.event
  ELSE IF job.state \in GenSuccessStates THEN "success" ELSE job.state

\* What the hold becomes: settle charges, release returns, and both repeat
\* themselves when the hold was closed with the same event.
ClosedHold(hold, event, cost) ==
  IF hold.state # "HELD" THEN hold
  ELSE IF event = "success"
       THEN [state |-> "FINALIZED", event |-> event, charged |-> cost]
       ELSE [state |-> "RELEASED", event |-> event, charged |-> 0]

\* No AppError: the stored evidence agrees with the model runs, the hold is open
\* or was closed with this event, and the cost is within what it reserves.
MaySettleGen(job, hold, cost) ==
  /\ job.evidence # NoEvidence => job.evidence.cost = cost
  /\ hold.state = "HELD" \/ hold.event = TerminalEvent(job)
  /\ TerminalEvent(job) = "success" => cost <= GenBudget

\* settle_generation_terminal, for the job and runs as the transaction leaves them.
SettleGenerationTerminal(j, job, runs) ==
  IF job.state \notin GenSuccessStates \cup GenFailureStates
  THEN /\ genJobs' = [genJobs EXCEPT ![j] = job]
       /\ UNCHANGED genHolds
  ELSE /\ MaySettleGen(job, genHolds[j], runs)
       /\ genHolds' = [genHolds EXCEPT ![j] = ClosedHold(@, TerminalEvent(job), runs)]
       /\ genJobs' = [genJobs EXCEPT ![j] =
                        [job EXCEPT !.evidence = [event |-> TerminalEvent(job), cost |-> runs]]]

-----------------------------------------------------------------------------
(* One delivery.                                                           *)

\* The delivery is acknowledged after `more' new ones were sent, or comes back.
AcknowledgeGen(j, more) ==
  \/ /\ genMsgs' = [genMsgs EXCEPT ![j] = @ - 1 + more]
     /\ UNCHANGED genCrashes
  \/ /\ genCrashes < GenMaxCrashes
     /\ genCrashes' = genCrashes + 1
     /\ \E sent \in 0..more : genMsgs' = [genMsgs EXCEPT ![j] = @ + sent]

\* No step is claimed: the job is cancelled or over, or waits for a person.
RunWithoutStep(j) ==
  LET cancels == genJobs[j].state = "CANCEL_REQUESTED"
      job == IF cancels THEN [genJobs[j] EXCEPT !.state = "CANCELLED"] ELSE genJobs[j]
  IN  /\ genMsgs[j] > 0
      /\ ~LooksForStep(j)
      /\ genSteps' = [genSteps EXCEPT ![j] =
           [i \in StepOrdinals |->
              IF cancels /\ i \in ClaimableSteps(j) THEN "CANCELLED" ELSE @[i]]]
      /\ SettleGenerationTerminal(j, job, genRuns[j])
      /\ AcknowledgeGen(j, 0)
      /\ UNCHANGED <<genRuns, genResults, genCommands, genLost>>

\* The step ends as `step' and the job goes to `state', with `spent' model runs.
RunStep(j, step, state, spent, results, more) ==
  LET job == [genJobs[j] EXCEPT !.state = state]
  IN  /\ genMsgs[j] > 0
      /\ Claimed(j)
      /\ genRuns[j] + spent <= GenMaxRuns
      /\ genSteps' = [genSteps EXCEPT ![j][NextStep(j)] = step]
      /\ genRuns' = [genRuns EXCEPT ![j] = @ + spent]
      /\ genResults' = [genResults EXCEPT ![j] = @ + results]
      /\ SettleGenerationTerminal(j, job, genRuns[j] + spent)
      /\ AcknowledgeGen(j, more)
      /\ UNCHANGED <<genCommands, genLost>>

NextKind(j) == PlanGenerationSteps[NextStep(j)]

RunValidateInput(j) ==
  /\ LooksForStep(j) /\ NextKind(j) = "VALIDATE_INPUT"
  /\ RunStep(j, "SUCCEEDED", "VALIDATING", 0, 0, 1)

\* The executor completed the step.
RunCompleted(j) ==
  \E spent \in 0..1 :
    /\ LooksForStep(j) /\ NextKind(j) \notin {"VALIDATE_INPUT", "PREPARE_REVIEW"}
    /\ RunStep(j, "SUCCEEDED", StepJobState(NextKind(j)), spent, 0, 1)

\* The executor's last step calls finalize_for_review.
FinalizeForReview(j) ==
  /\ LooksForStep(j) /\ NextKind(j) = "PREPARE_REVIEW"
  /\ EnsureJobTransition(StepJobState("PREPARE_REVIEW"), "WAITING_REVIEW")
  /\ RunStep(j, "SUCCEEDED", "WAITING_REVIEW", 0, 1, 0)

\* The executor failed the step, or there is none (never retryable).
RunFailed(j) ==
  \E retryable \in BOOLEAN, spent \in 0..1 :
    /\ LooksForStep(j) /\ NextKind(j) # "VALIDATE_INPUT"
    /\ LET state == FailedStepState(StepJobState(NextKind(j)), retryable)
       IN  RunStep(j, "FAILED", state, spent, 0,
                   IF state \in {"RETRYABLE_FAILED", "FINAL_FAILED"} THEN 0 ELSE 1)

\* The step may not be claimed, the executor raised, or the settlement was
\* refused: everything is rolled back and the delivery is not repeated.
RunRaised(j) ==
  /\ genMsgs[j] > 0
  /\ LooksForStep(j)
  /\ genMsgs' = [genMsgs EXCEPT ![j] = @ - 1]
  /\ genLost' = IF StepAllowed(j) THEN genLost + 1 ELSE genLost
  /\ StepAllowed(j) => genLost < GenMaxLost
  /\ UNCHANGED <<genJobs, genSteps, genHolds, genRuns, genResults, genCommands, genCrashes>>

-----------------------------------------------------------------------------
RunJob(j) ==
  \/ RunWithoutStep(j) \/ RunValidateInput(j) \/ RunCompleted(j)
  \/ FinalizeForReview(j) \/ RunFailed(j) \/ RunRaised(j)

GenRequest(j) ==
  \/ CreateGenJob(j)
  \/ \E key \in GenKeys : CancelGenJob(j, key) \/ RetryGenJob(j, key)

GenNext == \E j \in GenJobs : GenRequest(j) \/ RunJob(j)

GenSpec == GenInit /\ [][GenNext]_genVars

-----------------------------------------------------------------------------
(* Properties.                                                             *)

GenStepStates == {"PENDING", "SUCCEEDED", "FAILED", "RETRYING", "CANCELLED"}

\* Rows have their columns' types; the attempts stay within the frozen policy
\* although a command may be repeated (_command), and what is charged within
\* what the hold reserves.
GenTypeOK ==
  /\ genJobs \in [GenJobs ->
       [state : JobStates \cup {"NONE"}, attempt : 0..GenMaxAttempts,
        evidence : [event : {"none", "success"} \cup GenFailureStates, cost : 0..GenMaxRuns]]]
  /\ genSteps \in [GenJobs -> [StepOrdinals -> GenStepStates]]
  /\ genHolds \in [GenJobs -> [state : {"NONE", "HELD", "FINALIZED", "RELEASED"},
                               event : {"none", "success"} \cup GenFailureStates,
                               charged : 0..GenBudget]]
  /\ genRuns \in [GenJobs -> 0..GenMaxRuns]
  /\ genResults \in [GenJobs -> 0..1]
  /\ genMsgs \in [GenJobs -> Nat]
  /\ genCommands \subseteq GenJobs \X {"CANCEL", "RETRY"} \X GenKeys

\* The customer pays exactly for the drafts that were delivered: the hold is
\* charged when, and only when, the job wrote a content version, also when the
\* job is cancelled afterwards, and every job that is over has closed its hold
\* (settle_generation_terminal, finalize_for_review).
DraftsAreCharged ==
  \A j \in GenJobs :
    /\ (genHolds[j].state = "FINALIZED") <=> (genResults[j] = 1)
    /\ genJobs[j].state \in TERMINAL_JOB_STATES => genHolds[j].state \in {"FINALIZED", "RELEASED"}

\* The stored evidence of a settlement stays what the hold was closed with and
\* what the model runs sum to, whatever is delivered or commanded afterwards:
\* no later delivery meets GENERATION_BILLING_SETTLEMENT_CONFLICT.
SettlementRepeats ==
  \A j \in GenJobs : genJobs[j].evidence # NoEvidence =>
    /\ genJobs[j].evidence.event = genHolds[j].event
    /\ MaySettleGen(genJobs[j], genHolds[j], genRuns[j])

\* A job in the middle of its plan has a delivery to carry it on, unless one was
\* lost for good or the job was retried: nothing else runs it.
NoGenerationForgotten ==
  \A j \in GenJobs :
    /\ genJobs[j].state \notin {"NONE", "WAITING_REVIEW", "QUALITY_BLOCKED", "RETRYABLE_FAILED"}
                               \cup TERMINAL_JOB_STATES
    /\ genMsgs[j] = 0
    => genLost > 0 \/ (genJobs[j].state = "QUEUED" /\ genJobs[j].attempt > 0)

\* Steps succeed in the order of the plan, each at most once, and no step of a
\* job that was asked to stop begins (claim_next_step).
PlanIsFollowed ==
  \A j \in GenJobs : \A i \in StepOrdinals :
    /\ genSteps[j][i] = "SUCCEEDED" => genSteps'[j][i] = "SUCCEEDED"
    /\ genSteps'[j][i] = "SUCCEEDED" => \A k \in 1..(i - 1) : genSteps'[j][k] = "SUCCEEDED"
    /\ (genSteps[j][i] # genSteps'[j][i] /\ genSteps'[j][i] \in {"SUCCEEDED", "FAILED"}) =>
         genJobs[j].state # "CANCEL_REQUESTED"

\* What generation promises: its steps follow the plan, a draft is paid for once and
\* nothing else is, and a job on its way has a message (domain/generation/tasks.py).
GenerationPromise ==
  [][ /\ ( /\ GenTypeOK
           /\ DraftsAreCharged
           /\ SettlementRepeats
           /\ NoGenerationForgotten )'
      /\ PlanIsFollowed ]_genVars

=============================================================================
