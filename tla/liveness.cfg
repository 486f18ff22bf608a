SPECIFICATION MCSpec
CONSTANTS
  NumOps = 3
  x = x
  y = y
  Local = {x, y}
  MaxSuccessors = 2
INVARIANTS PendingCoverChanges LeastSolution LiveOnSomePath
PROPERTY AnalysisEnds
CHECK_DEADLOCK FALSE
