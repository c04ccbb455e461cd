SPECIFICATION FairSpec
CONSTANTS
  Checks = {c1}
  PoolSize = 1
  MaxTroubles = 1
  MaxChanges = 0
  None = None
PROPERTY
  SilentRedisIsAnswered
