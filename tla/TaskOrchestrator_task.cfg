SPECIFICATION MCSpec
CONSTANTS
  MaxTurns = 4
  MaxRollbacks = 1
  CallCounts <- OneOrTwoCalls
  SystemPrompt = TRUE
  EarlyStopPrompt = TRUE
  FinalResponsePrompt = TRUE
  FormatStrategy = "rollback"
  RefusalKeywords = TRUE
  DirectAnswers = FALSE
  AsksFinalResponse = TRUE
  HidesResultsOnly = FALSE
  AggregateRejected = FALSE
  Preflight = TRUE
  MinTokens = FALSE
  OrchestratorRollbacks = FALSE
  LoopLimit = 14
  ModelErrors <- AllModelErrors
  Callers = {c1, c2}
  MaxRetries = 3
  RetryWait = 1
  MaxTokens = 2
  Rooms = {0, 3}
  ScalePercent = 110
  Waits = {0, 4}
  ExitAfter = 2
INVARIANTS
  ExitJustified
  SleepsEndInTime
  LoopInStep
  TurnBudget
  TaskAlwaysVisible
PROPERTIES
  TruncatedGrows
  EverythingEnds
  ImplementsTaskLoop
