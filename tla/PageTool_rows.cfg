SPECIFICATION PageSpec
CONSTANTS
  Fetches = {"f1", "f2"}
  Backends = {"jina", "serper"}
  WebPages <- SixPages
  Cut = 2
  LongLineDates = 2
  FetchTries = 2
INVARIANTS
  TimestampedRowsKept
CHECK_DEADLOCK FALSE
