SPECIFICATION FairSpec
CONSTANTS
  FifoDepth = 2
  FrameTime = 14
  MaxSent = 4
  MaxArrivals = 5
  Variants <- BothUarts
  RxGap = 3
  UartGap = 2
  UartCalls <- AllUart
  Collisions = FALSE
INVARIANT TypeOK
INVARIANT ReceivesInOrder
INVARIANT SendsInOrder
PROPERTY EverythingSent
