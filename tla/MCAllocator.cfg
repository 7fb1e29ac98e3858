CONSTANTS
  t1 = t1 t2 = t2 b1 = b1 b2 = b2 b3 = b3 b4 = b4 b5 = b5
  Nil = Nil Data = Data
  Thread = {t1, t2}
  Block = {b1, b2, b3, b4, b5}
  Size = {48, 512, 600}
  Align = {8, 24, 64}
  SlabBlocks = 3
  Failures = {"refill"}
SPECIFICATION Spec
SYMMETRY Addresses
INVARIANTS
  ListsSound
  FreeBlocksListed
  RoomEnough
  ReturnsZeroed
PROPERTIES
  SlabsKept
