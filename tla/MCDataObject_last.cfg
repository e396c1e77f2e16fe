SPECIFICATION MCSpec
CONSTANTS
  MaxSize = 3
  MaxChanges = 2
  Buffer = 2
  Absent = Absent
  Writers = {w1, w2}
  StreamCount = 1
  Kinds = {"plain"}
  Offsets = {1}
  MaxBytes = 3
  MaxPosition = 4
  ChunkBytes = 2
  NoOffset = NoOffset
  NoStream = NoStream
INVARIANT OkMeansWritten
SYMMETRY Symmetry
CHECK_DEADLOCK FALSE
