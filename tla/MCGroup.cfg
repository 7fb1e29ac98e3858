CONSTANTS
  h1 = h1 h2 = h2 h3 = h3 h4 = h4 c1 = c1 e1 = e1 a1 = a1 a2 = a2 a3 = a3 ac = ac v1 = v1
  Nil = Nil
  Heap = {h1, h2, h3, h4}
  Cell = {}
  Slot = {a1, a2}
  SlotOwner <- MCOwner
  OwnerSlot <- MCOwnerSlot
  InPlace = {h4}
  Trivial = {h3}
  Zeroed = {}
  GroupState = {}
  Uses = {}
  MaxHeld = 1
SPECIFICATION Spec
CHECK_DEADLOCK FALSE
INVARIANTS
  TypeOK
  MemoryFreedWithGroup
  LiveCountExact
PROPERTIES
  NoResurrection
  ImplementsOwnership
