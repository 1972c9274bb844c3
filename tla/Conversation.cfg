SPECIFICATION RecordSpec
CONSTANTS
  MaxTurns = 3
  MaxRollbacks = 1
  CallCounts <- OneOrTwoCalls
  SystemPrompt = TRUE
  EarlyStopPrompt = TRUE
  FinalResponsePrompt = TRUE
  FormatStrategy = "rollback"
  RefusalKeywords = TRUE
  DirectAnswers = TRUE
  AsksFinalResponse = TRUE
  HidesResultsOnly = FALSE
  AggregateRejected = TRUE
  Preflight = TRUE
  MinTokens = FALSE
  OrchestratorRollbacks = TRUE
  t1 = t1
  t2 = t2
  Tasks <- TwoTasks
  Modes <- BothModes
  QueueMax = 1
  FlushSteps = 1
  Absent = Absent
  Torn = Torn
  MaxSteps = 1
  MaxStarts = 3
  MaxFaults = 1
  KeepChoices <- AnyKept
  ResultsAsUser = TRUE
  KeepRecent = 2
  MaxEntries = 9
INVARIANTS
  StageTableRespected
  PromptsReadable
  ReadersAgree
  FinishedIsOnDisk
PROPERTIES
  PartialOutlived
  CallsReturn
CHECK_DEADLOCK FALSE
