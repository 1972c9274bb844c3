SPECIFICATION ExtractionSpec
CONSTANTS
  Documents <- TwoDocuments
  Strategies = {"single", "recursive"}
  MaxInput = 6
  Question = 1
  ReduceWords = 1
  AnchorWords = 1
  OverlapCells = 2
  MaxDepth = 1
  Noise = 0
INVARIANTS
  FindingsKept
CHECK_DEADLOCK FALSE
