SPECIFICATION Spec
CONSTANTS
  Absent = Absent
  Task = {t1}
  Filters <- ListFilters
  FeedSize = 3
  MaxMoves = 3
  MaxTurns = 0
  MaxDrops = 0
  MaxErrors = 0
CHECK_DEADLOCK FALSE
PROPERTIES
  RowsFollowEvents
