SPECIFICATION Spec
SYMMETRY Symmetry
INVARIANT ContextOutlivesUse
CONSTANTS
  Reqs = {r1, r2}
  NoReq = NoReq
  Handles = {h1}
  NoHandle = NoHandle
  MaxStreamsPerHandle = 2
  MaxStreams = 2
  MaxChunks = 1
  AwaitReplies = TRUE
