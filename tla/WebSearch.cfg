SPECIFICATION WebSpec
CONSTANTS
  Queries = {q1, q2}
  MaxTurns = 3
  MaxAssistantRollbacks = 1
  SemanticBudget = 1
  MaxToolCalls = 3
  MinTurnsBetween = 1
  CompressEvery = 2
  RecentMessages = 2
  SafetyMargin = 1
  Answers = {a1, a2}
  MaxAttempts = 3
  NoBoxCap = 2
  MaxReanswers = 1
  Storms <- SomeStorms
  DuplicateThreshold = 2
  ToolErrorThreshold = 1
  LateTurn = 2
  Instances = {q1}
  MaxTrials = 2
  MaxWideLaunches = 3
  JudgeTimes = 2
  JudgeRetries = 2
  JudgeRooms <- SomeRooms
  MaxSearchAttempts = 3
  Rows = {r1}
  LastDay = 3
  Questions = {"q1"}
  Repetitions = 2
  Rollouts <- SomeRollouts
  MaxTraces = 2
  MaxDeaths = 1
INVARIANTS
  TaskSurvives
  AttemptBounded
  BudgetsAnswered
  PlainSweepReproducesRun
  ProvenanceTrue
  TrialsAddUp
  EachModeItsBudget
  VerdictsReachSummary
  SearchAccounted
  OutcomeUnknown
  SubmittedAsSaid
  NotebooksScreened
PROPERTIES
  AttemptEnds
CHECK_DEADLOCK FALSE
