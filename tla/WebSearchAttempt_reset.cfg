SPECIFICATION AttemptSpec
CONSTANTS
  Queries = {q1, q2}
  MaxTurns = 4
  MaxAssistantRollbacks = 1
  SemanticBudget = 1
  MaxToolCalls = 4
  MinTurnsBetween = 1
  CompressEvery = 2
  RecentMessages = 2
  SafetyMargin = 3
INVARIANTS
  ResetReopensTask
CHECK_DEADLOCK FALSE
