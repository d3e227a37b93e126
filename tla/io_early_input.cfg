SPECIFICATION Spec
CONSTANTS
  Depth = 2
  Retries = 4
  Sessions <- TextRunner
  Batch = 2
  MaxBytes = 10
  FixedReads = 2
  MaxReads = 3
  QuietGoal = 2
  LineMax = 4
  Capture = 1
  MaxKeys = 4
  MaxOuts = 2
  MaxIns = 2
  Faults <- NoFaults
CHECK_DEADLOCK FALSE
INVARIANT ForwardedInOrder
