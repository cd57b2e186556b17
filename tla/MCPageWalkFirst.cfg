SPECIFICATION FairSpec
CONSTANTS
  Before <- Less
  Ids <- FourIds
  ZeroId = 0
  NoToken = NoToken
  DefaultPageSize = 2
  MaxPageSize = 3
  PageSizes <- Sizes
CHECK_DEADLOCK FALSE
INVARIANTS
  FirstPageIsServed
