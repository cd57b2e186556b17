SPECIFICATION Spec
CONSTANTS
  Calls = {c1, c2, c3, c4}
  Plans = {free, pro}
  LimitedPlans = {free}
  free = free
  pro = pro
  c1 = c1
  c2 = c2
  c3 = c3
  c4 = c4
  Limit = 2
  Window = 3
  MaxDelay = 1
  MaxTime = 6
  MaxErrors = 1
CHECK_DEADLOCK FALSE
SYMMETRY Symmetry
INVARIANTS
  WindowHoldsLimit
  RetryAfterIsEnough
PROPERTIES
  RefusedWhenFull
