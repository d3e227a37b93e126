SPECIFICATION FairSpec
CONSTANTS
  Width = 4
  Half = 8
  RamTop = 12
  MmioTop = 14
  SpCell = 3
  SvcSpan = 8
  MaxVector = 2
  NumRegs = 3
  BankSize = 4
  DeviceWords = {5, 9}
  Images <- SomeImages
  Codings <- SomeCodings
  ResetEdges = 5
  MaxInstructions = 6
  None = None
INVARIANT TypeOK
INVARIANT AnswersAwaited
INVARIANT NoCollision
INVARIANT StackInRam
PROPERTY ImplementsMachine
PROPERTY InstructionEnds
