SPECIFICATION MCSpec
CONSTANTS
  search = search
  python = python
  a = a
  b = b
  bad = bad
  Tools <- TwoTools
  UnknownTool = UnknownTool
  Args <- ThreeArgs
  ValidArgs = {a, b}
  NoLimit = NoLimit
  None = None
  MaxPerStep = 1
  MaxPerTask = 2
  MaxPerTool <- MixedBudgets
  MaxConsecutive <- OneOrAnyRepeats
  MaxBatch = 2
  MaxRequests = 3
  Tasks = {t1, t2}
  MaxAttempts = 2
  MaxConcurrent = 1
  MaxRuns = 3
  MaxRollouts = 2
  plain = plain
  dated = dated
  Calls = {"search", "page"}
  ProcessOf <- TwoProcesses
  ChannelOf <- BothChannels
  Boundaries = {2, 3}
  Texts = {plain, dated}
  Mentions <- DaysNamed
  StatedDates <- DayOrSpan
  MaxUnits <- TwoCardsOnePage
  KnowableDays = {2}
  ListingSize = 2
  SuspicionBudget <- BudgetsAroundTheCap
  HardCap = 1
  JudgeEnabled = TRUE
  Extractions = {"e1", "e2", "e3"}
  RunnerOf <- TwoRunners
  Keys = {"k1", "k2"}
  PageSize = 2
  MaxTries = 2
  Free = Free
  Fetches = {"f1", "f2"}
  Backends = {"jina", "serper"}
  WebPages <- SixPages
  Cut = 2
  LongLineDates = 2
  FetchTries = 2
  Documents <- TwoDocuments
  Strategies = {"single", "recursive"}
  MaxInput = 6
  Question = 1
  ReduceWords = 1
  AnchorWords = 1
  OverlapCells = 2
  MaxDepth = 1
  Noise = 0
  Tables <- FourLines
  MinBody = 2
  MaxProbe = 3
  TableRoom = 4
  HeaderSize = 1
  SandboxTries = 2
  NoSandbox = NoSandbox
  MaxSessions = 2
  MaxSandboxes = 4
INVARIANTS
  LimitsRespected
  EveryTaskReportedOnce
  ResumedTasksGenuine
  NothingLateShown
  NothingForgotten
  NothingLateGiven
  EveryFactAccounted
  RowsKeptWhole
  OnlyOwnSandboxRuns
PROPERTIES
  ExhaustionFinal
  FinalStaysFinal
CHECK_DEADLOCK FALSE
