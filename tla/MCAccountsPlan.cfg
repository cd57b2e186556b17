SPECIFICATION FairSpec
CONSTANTS
  Users = {u1}
  Logins = {l1}
  Requests = {r1}
  u1 = u1
  l1 = l1
  r1 = r1
  SessionTTL = 1
  MaxDelay = 0
  MaxTime = 1
CHECK_DEADLOCK FALSE
PROPERTIES
  PlanCanBeChanged
