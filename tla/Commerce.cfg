SPECIFICATION Spec
CONSTANTS
  WhEndpoints = {e1}
  WhEvents = {v1, v2}
  WhHashes = {h1}
  WhMaxAttempts = 2
  WhReplayLimit = 1
  WhThreshold = 2
  WhMaxMsgs = 2
  WhMaxLost = 1
  AkKeys = {ak1, ak2, ak3, ak4}
  PayCommands = {c1, c2}
  PayBodies = {b1, b2}
  PayEvents = {pe1, pe2}
  PayCallers = {q1, q2}
  PayMaxMsgs = 2
  PayMaxLost = 2
  AgClients = {cl1}
  AgUsers = {u1, u2}
  AgInvitations = {i1, i2}
  AgScopes = {"review", "report"}
  AgForbidden = {"billing"}
  AgRequests = {pr1, pr2}
  AgMaxMsgs = 2
  AgMaxLost = 1
  AdOperators = {o1, o2, o3, o4}
  AdRequests = {sr1}
  AdScopes = {"logs", "content"}
  AdContent = "content"
  AdCommands = {ac1}
  AdRequired = 2
  AdNotices = {n1, n2}
  AdMaxAttempts = 2
  AdMaxMsgs = 2
  AdMaxLost = 1
INVARIANTS
  WebhookPromise
  AdminPromise
PROPERTIES
  PaymentPromise
  AgencyPromise
  MessagesSettle
CHECK_DEADLOCK FALSE
