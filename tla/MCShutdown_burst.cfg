SPECIFICATION SFairSpec
CONSTANTS
  Reqs = {1, 2, 3}
  Kinds = {"short", "read", "write", "stream"}
  IoThreads = 2
  BgThreads = 1
  PoolSize = 2
  MaxChunks = 1
CONSTRAINT Numbered
INVARIANTS STypeOK ReadsLeaveThePool NeverStuck OrderlyEnd
PROPERTY EndsIfRoom
CHECK_DEADLOCK FALSE
