SPECIFICATION Spec
CONSTANTS
  Jobs = {j1}
  Creators = {j1}
  NoJob = NoJob
  NoRun = NoRun
  Operations = {}
  Visibilities = {"PUBLISH", "SCHEDULED"}
  ConditionalWrites = FALSE
  SearchedStates = {"published"}
  LossyEnqueue = FALSE
  MaxAttempts = 2
  MaxRetries = 2
  QuotaLimit = 1
  MaxCrashes = 0
  MaxFaults = 1
  MaxEdits = 0
INVARIANT OneRemotePost
CHECK_DEADLOCK FALSE
