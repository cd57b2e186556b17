SPECIFICATION FairSpec
CONSTANTS
  Orders = {o1}
  MarketIDs = {m1}
  ShutMarkets = {}
  OrderProcs = {p1}
  MarketProcs = {q1}
  RelayProcs = {p1}
  o1 = o1
  m1 = m1
  p1 = p1
  q1 = q1
  NoProc = NoProc
  BatchSize = 2
  MaxFaults = 2
  HandlerErrors = FALSE
CHECK_DEADLOCK FALSE
INVARIANTS
  PublishedIsInLog
  CommittedIsProcessed
  NothingIsLost
PROPERTIES
  ImplementsFairLifecycle
