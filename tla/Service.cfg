SPECIFICATION FairSpec
CONSTANTS
  Checks = {c1, c2}
  PoolSize = 1
  MaxTroubles = 1
  MaxChanges = 1
  None = None
INVARIANTS
  TypeOK
  ReportIsWitnessed
  ConnectionsReturned
  LeftOpen
PROPERTY
  EveryCheckAnswers
