SPECIFICATION ReloadSpec
CONSTANTS
  Depth = 8
  MaxPackets = 10
  MaxWords = 1
  AddrSpace = 8
  Xfer = 6
  CpuGap = 3
  MaxSessions = 2
  Calls <- InputOnly
  NoPacket = NoPacket
  NoWrite = NoWrite
INVARIANT FreshOnly
