SPECIFICATION FairSpec
CONSTANTS
  r1 = r1
  r2 = r2
  r3 = r3
  relay1 = relay1
  relay2 = relay2
  Rows = {r1, r2, r3}
  Refused = {r3}
  Relays = {relay1, relay2}
  BatchSize = 2
CHECK_DEADLOCK FALSE
INVARIANTS
  PublishedWasSent
PROPERTIES
  NoneIsOvertaken
  EveryRowGetsOut
