SPECIFICATION Spec
CONSTANTS
  Users = {u1}
  Logins = {l1, l2}
  Requests = {r1}
  u1 = u1
  l1 = l1
  l2 = l2
  r1 = r1
  SessionTTL = 2
  MaxDelay = 1
  MaxTime = 4
CHECK_DEADLOCK FALSE
SYMMETRY Symmetry
INVARIANTS
  PlanWasRecent
