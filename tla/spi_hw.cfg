SPECIFICATION Spec
CONSTANTS
  MaxRetries = 10
  Sessions = 3
INVARIANT TypeOK
INVARIANT RepliesMatch
CHECK_DEADLOCK FALSE
