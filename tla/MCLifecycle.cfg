SPECIFICATION FairSpec
CONSTANTS
  Unary = {u1}
  Streams = {s1}
  u1 = u1
  s1 = s1
CHECK_DEADLOCK FALSE
INVARIANTS
  TypeOK
  OnlyKnownRemains
  CallsWhileClosing
PROPERTIES
  ShutdownCompletes
