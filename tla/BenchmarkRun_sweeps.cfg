SPECIFICATION BenchmarkSpec
CONSTANTS
  Tasks = {t1, t2}
  MaxAttempts = 2
  MaxConcurrent = 1
  MaxRuns = 3
  MaxRollouts = 2
INVARIANTS
  ResumedSweepsGenuine
CHECK_DEADLOCK FALSE
