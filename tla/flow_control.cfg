SPECIFICATION FlowSpec
CONSTANTS
  User = {"x"}
  Temps <- TwoTemps
  Var = {"x", "t1", "t2"}
  Param = {}
  Block = {0, 1, 2, 3, 4, 5, 6, 7, 8, 9}
  Entry = 0
  Labelled = {9}
  MaxBlocks = 8
  MaxStatements = 3
  Statements = {"assign", "use", "return", "break", "continue", "if",
                "ifelse", "ternary", "switch", "while", "range", "reversed",
                "indexed", "tuple",
                "else"}
  NoReg = NoReg
  MaxOps = 60
  MaxTargets = 3
  MaxEdges = 40
INVARIANTS
  BlocksWellFormed LabelsAreFound
  ReadsAreCurrent CountersAreCurrent UsesAreDominated
  LoopHeadersAreJumpedTo
PROPERTY ImplementsBraunSSA
