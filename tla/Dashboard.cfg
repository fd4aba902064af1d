SPECIFICATION FairSpec
CONSTANTS
  Absent = Absent
  Task = {t1, t2}
  Filters <- ListFilters
  FeedSize = 2
  MaxMoves = 3
  MaxTurns = 1
  MaxDrops = 1
  MaxErrors = 1
CHECK_DEADLOCK FALSE
INVARIANTS
  DashTypeOK
PROPERTIES
  PollsInOrder
  ViewCatchesUp
