SPECIFICATION FairSpec
CONSTANTS
  Target = {r1, r2, r3, r4}
  Value = {r1, r2, r3, r4}
  Temp = {t1, t2}
  MaxPairs = 4
  MaxAssign = 1
  None = None
INVARIANTS SourcesKept OneTempPerCycle
PROPERTIES CopiesAreParallel CopiesEnd
CHECK_DEADLOCK FALSE
