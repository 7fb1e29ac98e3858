CONSTANTS
  h1 = h1 h2 = h2 h3 = h3 h4 = h4 c1 = c1 e1 = e1 a1 = a1 a2 = a2 a3 = a3 ac = ac v1 = v1
  Nil = Nil
  Heap = {h1, h2}
  Cell = {c1}
  Slot = {a1, a2, v1, ac}
  SlotOwner <- MCOwner
  OwnerSlot <- MCOwnerSlot
  InPlace = {}
  Trivial = {}
  Zeroed = {c1}
  GroupState = {}
  Uses = {}
  MaxHeld = 2
SPECIFICATION FairSpec
CHECK_DEADLOCK FALSE
INVARIANTS
  RefcountExact
  NoForgottenObject
  NoDanglingReference
  PointersValid
  DeallocNotReentered
  CacheFresh
PROPERTIES
  LastReleaseDisposes
  EmbeddedOutlivesOtherReferences
  ImplementsOwnership
