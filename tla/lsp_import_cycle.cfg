SPECIFICATION Spec
CONSTANTS
  a = a
  b = b
  c = c
  Doc = {a, b}
  Imports <- Cycle
  OnDisk = {}
  CanClose = FALSE
  CanBreak = FALSE
  MaxText = 2
  MaxWritten = 4
  MaxVersion = 2
  None = None
INVARIANTS WorkerSurvives
CHECK_DEADLOCK FALSE
