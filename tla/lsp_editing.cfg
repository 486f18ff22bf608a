SPECIFICATION FairSpec
CONSTANTS
  a = a
  b = b
  c = c
  Doc = {a, b, c}
  Imports <- Chain
  OnDisk = {}
  CanClose = FALSE
  CanBreak = FALSE
  MaxText = 2
  MaxWritten = 6
  MaxVersion = 2
  None = None
PROPERTIES DiagnosticsNeverGoBack QueuedIsTaken EventuallyUpToDate
CHECK_DEADLOCK FALSE
