SPECIFICATION FairEpollSpec
CONSTANTS
  Capacity = 4
  Byte = {x}
  Uninit = Uninit
  MaxMessage = 2
  Chunk <- MCChunk
  KernelOut = 2
  KernelIn = 2
  RecvSpace = {1, 2}
CHECK_DEADLOCK FALSE
INVARIANTS
  EpollTypeOK
  SendLockExact
  OnlyLostPeersDropped
PROPERTIES
  OutputDrainsUnsplit
  InputHeardUnsplit
