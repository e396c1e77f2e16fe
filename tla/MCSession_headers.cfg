SPECIFICATION MCSpec
CONSTANTS
  Kinds = {"buffered", "streamed"}
  MaxReqs = 2
  MaxParts = 2
  Names = {"op"}
  Values <- SomeValues
  MaxPairs = 0
INVARIANT HeadersOnly
CHECK_DEADLOCK FALSE
