SPECIFICATION MCSpec
CONSTANTS
  Kinds = {"buffered", "streamed"}
  MaxReqs = 3
  MaxParts = 2
  Names = {"op", "a"}
  Values <- SomeValues
  MaxPairs = 2
INVARIANTS
  TypesOK
  RepliesInOrder
  OnlyStreamedOvertake
  HandlerGetsTheForm
PROPERTY Ends
CHECK_DEADLOCK FALSE
