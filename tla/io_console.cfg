SPECIFICATION FairSpec
CONSTANTS
  Depth = 2
  Retries = 4
  Sessions <- ConsolesAndLoads
  Batch = 2
  MaxBytes = 10
  FixedReads = 2
  MaxReads = 3
  QuietGoal = 2
  LineMax = 4
  Capture = 1
  MaxKeys = 4
  MaxOuts = 2
  MaxIns = 2
  Faults <- NoFaults
INVARIANT TypeOK
INVARIANT InputInOrder
INVARIANT OutputInOrder
INVARIANT LeavesNothing
INVARIANT StartsWithImage
PROPERTY LoadEnds
PROPERTY RequestAnswered
PROPERTY HostLeaves
CHECK_DEADLOCK FALSE
