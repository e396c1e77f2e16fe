SPECIFICATION FairSpec
INVARIANTS
  TypeOK
  InUseIffHeld
  OnlyTheReleaseIsLate
  CounterAccurate
PROPERTIES PrimaryClosedLast ImplementsLease StreamsComeBack
CONSTANTS
  Reqs = {r1, r2}
  NoReq = NoReq
  Handles = {h1}
  NoHandle = NoHandle
  MaxStreamsPerHandle = 3
  MaxStreams = 2
  MaxChunks = 2
  AwaitReplies = TRUE
