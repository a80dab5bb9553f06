SPECIFICATION Spec
CONSTANTS
  IMaxSessions = 2
  IMaxGeneration = 2
  IMaxFailures = 2
  IMaxVerifications = 3
  IMaxResets = 2
  IMaxFactors = 2
  IMaxStep = 2
  MPeople = {p1, p2}
  MCreator = p1
  MInvited = {p2}
  MMaxInvitations = 2
  PvSteps = {1, 2}
  PvHolds = {1, 2}
  PvPeople = {p1, p2}
  PvMaxMessages = 2
  PvMaxDownloads = 2
  PvMaxPolicies = 2
  CpEvidence = {e1, e2}
  CoMaxRows = 4
  InMaxEvents = 4
  InNotices = {n1}
  OpMaxRetries = 2
  OpSlots = {1, 2}
  OpMaxManual = 2
  AnSyncs = {s1, s2}
  AnReports = {r1}
  AnFacts = {f1, f2}
  AnFormats = {"PDF", "CSV"}
  AnHashes = {"h1", "h2"}
  AnClients = {c1, c2, c3}
  AnCompared = {"x", "y"}
  AnOthers = {"p", "q"}
  AnMaxMessages = 2
  AnMaxAttempts = 2
  CnJobs = {1, 2}
  CnMaxAttempts = 2
  CnMaxRetries = 2
  NvPackages = {k1, k2}
  NvUrls = {"a", "b"}
  NvPeople = {p1, p2}
  NvItems = {"content", "links"}
  NvMaxApprovals = 2
INVARIANTS
  ConnectionPromise
PROPERTIES
  AccountPromise
  MembershipPromise
  PrivacyPromise
  CompliancePromise
  OperationsPromise
  AnalyticsPromise
CHECK_DEADLOCK FALSE
