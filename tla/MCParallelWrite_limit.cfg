SPECIFICATION Spec
SYMMETRY Symmetry
INVARIANT LimitAcrossClients
CONSTANTS
  Reqs = {r1, r2}
  NoReq = NoReq
  Handles = {h1, h2}
  NoHandle = NoHandle
  MaxStreamsPerHandle = 2
  MaxStreams = 3
  MaxChunks = 1
  AwaitReplies = TRUE
