SPECIFICATION MCSpec
CONSTANTS
  Slots = {r1, r2}
  Ops <- All
  Requested <- Tickets
  NotGiven = NotGiven
  NoNumber = NoNumber
  IntMax = 2
  SecondsMax = 4
  LongMax = 6
  MaxBearers = 3
  Unread = Unread
  MaxRows = 4
  QueryIntMax = 7
  MaxRowCount = 2
SYMMETRY Symmetry
INVARIANTS
  TypesOK
  AnswersTellWhatWasDone
  KindOnTheWay
  TicketAsAsked
  StatWasTrue
  PagesCoverTheRows
CHECK_DEADLOCK FALSE
