CONSTANTS
  t1 = t1 t2 = t2 outer = outer inner = inner plain = plain v1 = v1
  Thread = {t1, t2}
  Literal = {outer, inner, plain}
  Global = {plain}
  Var = {v1}
  OwnerOf <- MCOwnerOf
  Captures <- MCCaptures
  Cell = {c1, c2, c3}
  c1 = c1 c2 = c2 c3 = c3
  Allocator = {arena}
  arena = arena
  Nil = Nil
  Latch = 3
  MaxHeld = 3
  Holder = {k1}
  k1 = k1
  FirstRoom = 1
  MaxItems = 2
SPECIFICATION MCSpec
CHECK_DEADLOCK FALSE
SYMMETRY Cells
INVARIANTS
  HeapCountsExact
  DisposedOnce
  CopiesUseAllocator
  ItemsOutliveFrames
  KeysDistinct
