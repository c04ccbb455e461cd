SPECIFICATION Spec
CONSTANTS
  Configurations <- HonestConfigurations
  Limit = 2
  MaxPages = 2
  Attempts = 2
  Backoff = 2
  MaxDelay = 3
  RetryAfters = {0, 9}
  NoHeader = NoHeader
  NotANumber = NotANumber
  StatusCodes = {200, 503}
  TransportFails = FALSE
  Tokens = {1, 2, 8, 9}
  ForeignLinks = {9}
  MalformedLinks = {8}
INVARIANT
  AllPagesRead
