SPECIFICATION MCSpec
CONSTANTS
  MaxConst = 2
  Param <- MCParam
  Temps <- MCTemps
  NotOf <- MCNotOf
  MaxRounds = 5
  MaxTimes = 3
  Shapes = {"if"}
  EntryObserves = FALSE
INVARIANT SameObservations
CHECK_DEADLOCK FALSE
