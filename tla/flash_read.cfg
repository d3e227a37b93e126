SPECIFICATION Spec
CONSTANTS
  Contents <- SomeContents
  StartWait = 3
  MaxDelay = 5
  X = X
INVARIANT TypeOK
INVARIANT LedRight
