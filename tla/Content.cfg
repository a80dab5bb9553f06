SPECIFICATION Spec
CONSTANTS
  QEditors = {"e1"}
  QPeople = {"p1", "p2"}
  QTexts = {"a"}
  QMaxVersions = 3
  QMaxContexts = 2
  QMaxRequests = 2
  QMaxAssessments = 2
  QHard = {"hard"}
  QSoft = {"soft"}
  QQuorum <- Quorum
  BrPeople = {"p1", "p2"}
  BrQuorum <- Quorum
  BrApprovers <- Approvers
  BrMaxVersions = 2
  ClClients = {"c1", "c2"}
  ClMaxEntries = 3
  ClMaxSlot = 4
  ClSpacing = 1
  ClDay = 2
  ClMaxPerDay = 1
  SpClients = {c1, c2}
  SpRefs = {"x", "y"}
  SpAmounts = {1, 2}
  SpLimits = {2, 3}
  TpNodes = {"a", "a1", "b", "b1"}
  TpClients = {c1, c2}
  KwJobs = {"j1", "j2"}
  KwOrder <- KeywordOrder
  KwInput <- KeywordInput
  KwRelated = {"r", "s"}
  KwKinds = {"provider", "csv", "bare"}
  KwQuota = 2
  KwMaxFailures = 2
  KwMaxAttempts = 2
  KwMaxCandidates = 3
  KwMaxMessages = 1
  KwMaxDays = 1
  KaWorkers = {"a", "b"}
  KsContents = {"c1", "c2"}
  KsMaxAttempts = 2
  KsMaxJobs = 3
  RsClients = {"c1", "c2"}
  RsArtifacts = {"a", "b"}
  RsMaxApprovals = 2
  RsMaxCrashes = 1
INVARIANTS
  PlanningPromise
  CampaignPromise
  KnowledgePromise
  ResearchPromise
PROPERTIES
  ApprovalPromise
  KeywordPromise
CHECK_DEADLOCK FALSE
