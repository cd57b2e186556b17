SPECIFICATION StreamFairSpec
CONSTANTS
  Orders = {o1}
  MarketIDs = {m1}
  ShutMarkets = {}
  OrderProcs = {p1}
  MarketProcs = {q1}
  RelayProcs = {q1}
  o1 = o1
  m1 = m1
  p1 = p1
  q1 = q1
  NoProc = NoProc
  BatchSize = 2
  MaxFaults = 1
  HandlerErrors = FALSE
  Streams = {s1}
  s1 = s1
  AnOrder = o1
  Watched <- WatchAnOrder
  NoOffset = NoOffset
CONSTRAINT SomeoneWatches
CHECK_DEADLOCK FALSE
INVARIANTS
  StreamTypeOK
  StatusesSentOnceInOrder
  NoLostWakeup
PROPERTIES
  StreamsCatchUp
  RejectedStreamsEnd
