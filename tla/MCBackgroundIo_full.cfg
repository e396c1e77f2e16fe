SPECIFICATION FairSpec
CONSTANTS
  Reqs = {r1, r2, r3}
  Kinds = {"short", "read", "write"}
  IoThreads = 2
  BgThreads = 2
  PoolSize = 1
  MaxChunks = 1
PROPERTY EveryRequestAnswered
CHECK_DEADLOCK FALSE
