\* More old rows than one run takes
SPECIFICATION DailySpec
CONSTANTS
  Rows = {x1, x2}
  Limit = 1
  Age = 0
  LastDay = 1
CHECK_DEADLOCK FALSE
PROPERTY OldRowsArchived
