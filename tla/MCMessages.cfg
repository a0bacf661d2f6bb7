SPECIFICATION MessagesSpec
CONSTANTS
  Base = 2
  Width <- MCWidth
  HeadSize = 2
  MaxSend = 7
  Wrap = 8
  BufferSize = 9
  Nodes <- MCNodes
  Player = {3, 23}
  Value <- MCValue
  Incoming <- MCIncoming
  MaxBody = 4
  MaxValues = 3
  MaxPackages = 3
  MaxRuns = 2
  MaxLeft = 1
INVARIANTS
  MessagesTypeOK
  SentAsAdded
  ReadAsAdded
  ArgumentsAsReceived
