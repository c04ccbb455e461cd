SPECIFICATION FairSpec
CONSTANTS
  Runs = {r1, r2}
  Faults <- SomeFaults
  None = None
  NoRow = NoRow
  Configurations <- Servers
  Limit = 1
  MaxPages = 3
  Attempts = 1
  Backoff = 1
  MaxDelay = 1
  RetryAfters = {}
  NoHeader = NoHeader
  NotANumber = NotANumber
  StatusCodes = {200, 503}
  TransportFails = FALSE
  Tokens = {9}
  ForeignLinks = {}
  MalformedLinks = {9}
  Items <- ItemNumbers
  Tables <- SomeTables
INVARIANTS
  EveryItemCounted
  EvidenceMatchesTable
  CompletedIsWhole
PROPERTY
  EverySlotReleased
