SPECIFICATION FairSpec
CONSTANTS
  Configurations <- AllConfigurations
  Limit = 2
  MaxPages = 3
  Attempts = 3
  Backoff = 2
  MaxDelay = 3
  RetryAfters = {0, 9, NotANumber}
  NoHeader = NoHeader
  NotANumber = NotANumber
  StatusCodes = {200, 401, 404, 429, 503}
  TransportFails = TRUE
  Tokens = {1, 2, 8, 9}
  ForeignLinks = {9}
  MalformedLinks = {8}
INVARIANTS
  TypeOK
  
  RetryBudget
  BoundedPatience
  HonestServerAccepted
  NothingSkipped
PROPERTIES
  ImplementsFeed
  IterationEnds
