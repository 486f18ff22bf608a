SPECIFICATION Spec
CONSTANTS
  a = a
  b = b
  c = c
  Doc = {a, b}
  Imports <- OneImport
  OnDisk = {a, b}
  CanClose = TRUE
  CanBreak = TRUE
  MaxText = 3
  MaxWritten = 4
  MaxVersion = 2
  None = None
INVARIANTS TypeOK NoLostWakeup VersionNotOlder
CHECK_DEADLOCK FALSE
