SPECIFICATION Spec
CONSTANTS
  GenJobs = {g1}
  GenSections = 2
  GenKeys = {k1, k2}
  GenMaxAttempts = 2
  GenBudget = 1
  GenMaxRuns = 2
  GenMaxMsgs = 2
  GenMaxCrashes = 1
  GenMaxLost = 1
  BulkIds = {b1}
  BulkWorkers = {w1, w2}
  BulkIdle = BulkIdle
  BulkCommitted = BulkCommitted
  BulkInput <- MCBulkInput
  BulkTarget = 3
  BulkEstimate = 2
  BulkMaximum = 3
  BulkRowCosts = {1}
  BulkRowAttempts = 2
  BulkMaxMsgs = 1
  BulkMaxFaults = 1
  RpJobs = {r1}
  RpCounts <- MCRpCounts
  RpReserved = 2
  RpReviewed <- MCRpReviewed
  RpKeys = {k1, k2}
  RpDeliveryKeys = {d1}
  RpMaxMsgs = 2
  RpMaxAttempts = 3
  RpMaxFaults = 1
SYMMETRY Symmetry
INVARIANT
  BulkPromise
PROPERTIES
  BulkKeeps
  GenerationPromise
  RepurposePromise
CHECK_DEADLOCK FALSE
