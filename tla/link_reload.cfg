SPECIFICATION BoundedSpec
CONSTANTS
  Depth = 3
  MaxPackets = 8
  MaxWords = 2
  AddrSpace = 8
  Xfer = 6
  CpuGap = 3
  MaxSessions = 2
  Calls <- AllCalls
  NoPacket = NoPacket
  NoWrite = NoWrite
INVARIANT TypeOK
INVARIANT InitNotLost
INVARIANT StartsLoaded
INVARIANT NoPortClash
INVARIANT WordsAccounted
INVARIANT NoTornRead
PROPERTY ImplementsQueue
PROPERTY ImplementsLoader
