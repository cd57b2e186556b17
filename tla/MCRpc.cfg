SPECIFICATION Spec
CONSTANTS
  UnitLimit = 32
  NanoLimit = 16
  NanosPerUnit = 7
  Texts <- TheTexts
  Uuids <- TheUuids
  Names <- TheNames
  Secrets <- TheSecrets
  Titles <- TheTitles
  UuidOf <- TheUuidOf
  Absent = Absent
  Before <- Earlier
  DefaultPageSize = 2
  MaxPageSize = 3
  NoToken = ""
  Calls = {1, 2}
  Attempts <- AttemptsOfCalls
  Users <- TheUsers
  NewId <- DrawnId
  QuotaLimit = 1
  Markets <- TheMarkets
  InitialUsers <- SomeUsers
  InitialSessions <- SomeSessions
  InitialOrders <- SomeOrders
CONSTRAINT OnlyMeetings
CHECK_DEADLOCK FALSE
INVARIANTS
  TypeOK
  AnswersMeetTheirRules
  AnswersBelongToTheCaller
  InternalIsNoOutcome
  FailuresAreLogged
  NoPayloadIsSkipped
  AnswersTellTheEffect
  OrdersWithinQuota
  StreamsKeepUp
  PriceIsKept
PROPERTY
  ImplementsLifecycle
