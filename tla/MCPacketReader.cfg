SPECIFICATION ReaderSpec
CONSTANTS
  Capacity = 8
  Base = 3
  Byte <- MCByte
  Uninit = Uninit
  MinLen = 2
  MaxLen = 4
  Lengths = {2, 3, 4}
  Fill = {0, 2}
  Chunk <- MCPacket
  MaxPackets = 4
CHECK_DEADLOCK FALSE
INVARIANTS
  ReaderTypeOK
  FramesAligned
  OnlyIllegalDroppedUnlessStraddled
