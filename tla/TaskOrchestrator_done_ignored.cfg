SPECIFICATION TaskSpec
CONSTANTS
  MaxTurns = 4
  MaxRollbacks = 1
  CallCounts <- OneOrTwoCalls
  SystemPrompt = TRUE
  EarlyStopPrompt = TRUE
  FinalResponsePrompt = TRUE
  FormatStrategy = "reprompt"
  RefusalKeywords = TRUE
  DirectAnswers = FALSE
  AsksFinalResponse = TRUE
  HidesResultsOnly = FALSE
  AggregateRejected = FALSE
  Preflight = TRUE
  MinTokens = TRUE
  OrchestratorRollbacks = FALSE
  LoopLimit = 4
  ModelErrors <- AllModelErrors
INVARIANTS
  DoneStopsTheLoop
