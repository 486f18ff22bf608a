SPECIFICATION MCSpec
CONSTANTS
  Reg <- MCReg
  Param <- MCParam
  Key = {"x", "y", "any"}
  NumBlocks = 4
  MaxSplits = 3
INVARIANTS
  UsesKeepTheirValues
  GroupsDoNotInterfere
CHECK_DEADLOCK FALSE
