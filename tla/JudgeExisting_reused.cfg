SPECIFICATION JudgeSpec
CONSTANTS
  Items = {t1}
  Judges = {j1}
  MaxLaunches = 2
INVARIANT VerdictsMatchAnswers
CHECK_DEADLOCK FALSE
