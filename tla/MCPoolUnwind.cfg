CONSTANTS
  o1 = o1 o2 = o2
  Obj = {o1, o2}
  FirstObjects = 1
  FirstMarkers = 1
  Failures = {"object", "marker"}
  Unwinds = TRUE
  MaxPending = 3
  MaxDepth = 4
  MaxMarkers = 4
SPECIFICATION Spec
CHECK_DEADLOCK FALSE
INVARIANTS
  OuterPoolsKept
  TypeOK
PROPERTIES
  ImplementsPoolStack
  PopReleasesAll
