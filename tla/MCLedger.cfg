SPECIFICATION Spec
CONSTANTS
  t1 = t1
  t2 = t2
  Tasks <- MCTasks
  Last = 3
  MaxStarts = 3
  Late = 1
  Buffer = 1
  Window = 2
  PageSize = 1
  Null = Null
  Unit = 4
  DayLength = 2
  LatestTTL = 2
  HistoryTTL = 4
  Month = 4
  Week = 2
SYMMETRY Symmetry
INVARIANTS
  TypeOK
  NothingLeftBehind
  FlagTells
CHECK_DEADLOCK FALSE
