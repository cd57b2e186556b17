SPECIFICATION Spec
CONSTANTS
  Orders = {o1}
  MarketIDs = {m1, m2}
  ShutMarkets = {m2}
  OrderProcs = {p1, p2}
  MarketProcs = {q1, q2}
  RelayProcs = {p1, q1}
  o1 = o1
  m1 = m1
  m2 = m2
  p1 = p1
  p2 = p2
  q1 = q1
  q2 = q2
  NoProc = NoProc
  BatchSize = 2
  MaxFaults = 1
  HandlerErrors = TRUE
CHECK_DEADLOCK FALSE
INVARIANTS
  EachStepOnce
  StatusAgreesWithReservation
  RepeatedOnlyByFaults
  ShutMarketsRejected
PROPERTIES
  DecisionsAreFinal
  ImplementsLifecycle
