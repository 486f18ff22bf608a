SPECIFICATION MCSpec
CONSTANTS
  MaxConst = 2
  Param <- MCParam
  Temps <- MCTemps
  NotOf <- MCNotOf
  MaxRounds = 5
  MaxTimes = 3
  Shapes = {"and", "nth", "switch", "sparse", "errors", "break"}
  EntryObserves = TRUE
INVARIANTS SameObservations OptimizerSucceeds FixedPointReached
CHECK_DEADLOCK FALSE
