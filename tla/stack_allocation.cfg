SPECIFICATION MCSpec
CONSTANTS
  Local = {1, 2}
  NumBlocks = 4
  MaxStatements = 3
  MaxInBlock = 2
INVARIANTS OperandsAreKept LocalsAreHandedOver AllocationSucceeds
CHECK_DEADLOCK FALSE
