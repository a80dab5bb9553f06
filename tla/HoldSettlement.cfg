SPECIFICATION FairSpec
CONSTANTS
  h1 = h1
  h2 = h2
  done = done
  cancelled = cancelled
  Holds = {h1, h2}
  Maximum <- MCMaximum
  Workers = {w1, w2, w3}
  Events = {done, cancelled}
  Requests <- MCRequests
  StartFunds = 1
  StartHeld = 3
  NoWorker = NoWorker
  NoRequest = NoRequest
INVARIANTS
  SettledAtMostOnce
  BooksBalance
  UsageIsCharged
  SettlementInv
PROPERTIES
  ImplementsLifecycle
  TransactionsEnd
