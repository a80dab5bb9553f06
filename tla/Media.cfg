SPECIFICATION Spec
CONSTANTS
  MediaJobIds = {m1, m2}
  MediaWorkers = {w1, w2}
  NoFailure = NoFailure
  CommandKeys = {k1}
  MediaMaxAttempts = 2
  DailyQuota = 2
  FailureThreshold = 1
  BudgetLimit = 1
  ActualCosts = {1, 2}
  MediaMaxDeliveries = 1
  MediaMaxDays = 1
  MediaMaxCrashes = 1
  MediaMaxLost = 1
  Assets = {a1}
  NoReading = NoReading
  MaxRevisions = 2
  MaxReferences = 1
  LibraryMaxCrashes = 2
SYMMETRY Symmetry
PROPERTIES
  MediaJobPromise
  LibraryPromise
CHECK_DEADLOCK FALSE
