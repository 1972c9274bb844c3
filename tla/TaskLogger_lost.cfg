SPECIFICATION LoggerSpec
CONSTANTS
  t1 = t1
  t2 = t2
  Tasks <- TwoTasks
  Modes <- BackgroundOnly
  QueueMax = 1
  FlushSteps = 0
  Absent = Absent
  Torn = Torn
  MaxSteps = 1
  MaxStarts = 1
  MaxFaults = 0
INVARIANTS
  EveryTaskTraced
CHECK_DEADLOCK FALSE
