------------------------------ MODULE JobState ------------------------------
(***************************************************************************)
(* The job states every domain shares, and the table that                  *)
(* domain/jobs/state.py calls the authoritative state machine.             *)
(***************************************************************************)
ALLOWED_JOB_TRANSITIONS ==
  [ CREATED            |-> {"QUEUED", "CANCELLED"},
    QUEUED             |-> {"VALIDATING", "CANCEL_REQUESTED"},
    VALIDATING         |-> {"WAITING_INPUT", "RESEARCHING", "FINAL_FAILED",
                            "CANCEL_REQUESTED"},
    WAITING_INPUT      |-> {"QUEUED", "CANCEL_REQUESTED", "EXPIRED"},
    RESEARCHING        |-> {"PLANNING", "RETRYABLE_FAILED", "FINAL_FAILED",
                            "CANCEL_REQUESTED"},
    PLANNING           |-> {"GENERATING", "WAITING_REVIEW", "RETRYABLE_FAILED",
                            "CANCEL_REQUESTED"},
    GENERATING         |-> {"VERIFYING", "PARTIAL", "RETRYABLE_FAILED",
                            "CANCEL_REQUESTED"},
    VERIFYING          |-> {"OPTIMIZING", "QUALITY_BLOCKED", "RETRYABLE_FAILED",
                            "CANCEL_REQUESTED"},
    OPTIMIZING         |-> {"CREATING_MEDIA", "WAITING_REVIEW",
                            "QUALITY_BLOCKED", "CANCEL_REQUESTED"},
    CREATING_MEDIA     |-> {"WAITING_REVIEW", "PARTIAL", "RETRYABLE_FAILED",
                            "CANCEL_REQUESTED"},
    QUALITY_BLOCKED    |-> {"QUEUED", "WAITING_REVIEW", "CANCEL_REQUESTED",
                            "EXPIRED"},
    WAITING_REVIEW     |-> {"APPROVED", "REVISION_REQUESTED",
                            "CANCEL_REQUESTED", "EXPIRED"},
    REVISION_REQUESTED |-> {"QUEUED", "CANCEL_REQUESTED", "EXPIRED"},
    APPROVED           |-> {"SCHEDULED", "PUBLISHING", "SUCCEEDED"},
    SCHEDULED          |-> {"PUBLISHING", "CANCEL_REQUESTED", "EXPIRED"},
    PUBLISHING         |-> {"SUCCEEDED", "PARTIAL", "RETRYABLE_FAILED",
                            "FINAL_FAILED"},
    PARTIAL            |-> {"QUEUED", "WAITING_REVIEW", "FINAL_FAILED"},
    RETRYABLE_FAILED   |-> {"QUEUED", "FINAL_FAILED", "CANCEL_REQUESTED"},
    CANCEL_REQUESTED   |-> {"CANCELLED", "PARTIAL"},
    SUCCEEDED          |-> {},
    FINAL_FAILED       |-> {},
    CANCELLED          |-> {},
    EXPIRED            |-> {} ]

JobStates == DOMAIN ALLOWED_JOB_TRANSITIONS

TERMINAL_JOB_STATES == {"SUCCEEDED", "FINAL_FAILED", "CANCELLED", "EXPIRED"}

EnsureJobTransition(current, target) ==
  target \in ALLOWED_JOB_TRANSITIONS[current]

=============================================================================
