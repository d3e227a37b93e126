SPECIFICATION FairSpec
CONSTANTS
  Depth = 1
  Retries = 4
  Halves = 5
  Sessions = 3
  KillAnywhere = FALSE
INVARIANT TypeOK
INVARIANT StartsLoaded
INVARIANT HandledOnce
INVARIANT ResultsMatch
PROPERTY Finishes
CHECK_DEADLOCK FALSE
