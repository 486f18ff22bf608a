SPECIFICATION Spec
CONSTANTS
  Var = {x}
  Param = {}
  Block = {b0, b1, b2, b3}
  Entry = b0
  Labelled = {b3}
  NoReg = NoReg
  MaxOps = 1
  MaxTargets = 2
  MaxEdges = 5
SYMMETRY Interchangeable
INVARIANTS
  TypeOK SingleAssignment CacheIsLive UsesAreDefined
  PhisMatchPredecessors OnlyCompletePhisTried NoTrivialPhiLeft
  NoAlgorithmFault WarnedWhenUnassigned
CHECK_DEADLOCK FALSE
