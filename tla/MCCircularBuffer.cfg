SPECIFICATION Spec
CONSTANTS
  Capacity = 6
  Byte = {x, y}
  Uninit = Uninit
  MaxChunk = 3
  Chunk <- MCChunk
INVARIANTS
  RegionsApart
PROPERTY
  ImplementsFifo
