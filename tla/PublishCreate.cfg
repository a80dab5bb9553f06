SPECIFICATION FairSpec
CONSTANTS
  Jobs = {j1}
  Creators = {j1}
  NoJob = NoJob
  NoRun = NoRun
  Operations = {}
  Visibilities = {"PUBLISH", "SCHEDULED"}
  ConditionalWrites = FALSE
  SearchedStates = {"draft", "scheduled", "published"}
  LossyEnqueue = FALSE
  MaxAttempts = 2
  MaxRetries = 2
  QuotaLimit = 1
  MaxCrashes = 1
  MaxFaults = 1
  MaxEdits = 1
INVARIANTS OneRemotePost JobsAccountedFor RowsAgree
PROPERTIES FinalStaysFinal JobsSettle
CHECK_DEADLOCK FALSE
