SPECIFICATION Spec
CONSTANTS
  FifoDepth = 2
  FrameTime = 5
  MaxSent = 0
  MaxArrivals = 4
  Variants <- CometOnly
  RxGap = 3
  UartGap = 2
  UartCalls <- ReaderOnly
  Collisions = TRUE
INVARIANT ReceivesInOrder
