SPECIFICATION MCSpec
CONSTANTS
  MaxSize = 3
  MaxChanges = 2
  Buffer = 2
  Absent = Absent
  Writers = {w1, w2}
  StreamCount = 1
  Kinds = {"auto", "index", "plain"}
  Offsets = {1}
  MaxBytes = 3
  MaxPosition = 3
  ChunkBytes = 2
  NoOffset = NoOffset
  NoStream = NoStream
INVARIANTS
  TypesOK
  ReplyIsTheRange
  OnlyLargeReadsLoseTickets
  LandsAtItsOffset
  WritesABeginning
PROPERTY EveryReadEnds
SYMMETRY Symmetry
CHECK_DEADLOCK FALSE
