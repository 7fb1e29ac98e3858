CONSTANTS
  o1 = o1 o2 = o2 x1 = x1 x2 = x2 x3 = x3
  Nil = Nil
  Obj = {o1, o2}
  Exc = {x1, x2, x3}
  CatchLimit = 6
  MaxScopes = 6
  MaxHeld = 1
SPECIFICATION Spec
SYMMETRY Blocks
INVARIANTS
  ExceptionsKept
  CatchStackMatches
  ObjectsRetained
  MetadataFresh
