SPECIFICATION EvaluationSpec
CONSTANTS
  Items = {t1, t2}
  Judges = {j1, j2}
  MaxLaunches = 2
  DsqaRows = {r1, r2}
  GraderWorkers = 2
  GraderRetries = 2
  Grades <- TwoGrades
  MaxVersions = 2
  MaxPasses = 2
SYMMETRY Symmetry
INVARIANTS
  JudgedOnce
  RatingsFounded
CHECK_DEADLOCK FALSE
