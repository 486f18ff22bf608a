SPECIFICATION FairExecSpec
CONSTANTS
  Var = {x}
  Param = {}
  Block = {b0, b1, b2}
  Entry = b0
  Labelled = {b2}
  NoReg = NoReg
  MaxOps = 2
  MaxTargets = 2
  MaxEdges = 9
INVARIANT ReadsAreCurrent
PROPERTY CallsReturn
CHECK_DEADLOCK FALSE
