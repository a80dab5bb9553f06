SPECIFICATION Spec
CONSTANTS
  Jobs = {j1, j2}
  Creators = {j1}
  NoJob = NoJob
  NoRun = NoRun
  Operations = {"UPDATE", "DELETE", "ROLLBACK", "RECONCILE"}
  Visibilities = {"SCHEDULED"}
  ConditionalWrites = TRUE
  SearchedStates = {"draft", "scheduled", "published"}
  LossyEnqueue = TRUE
  MaxAttempts = 2
  MaxRetries = 0
  QuotaLimit = 2
  MaxCrashes = 0
  MaxFaults = 0
  MaxEdits = 1
PROPERTIES EditsAreSeen CancelReachesRemote
CHECK_DEADLOCK FALSE
