CONSTANTS
  o1 = o1 o2 = o2
  Obj = {o1, o2}
  FirstObjects = 1
  FirstMarkers = 1
  Failures = {"token"}
  Unwinds = FALSE
  MaxPending = 4
  MaxDepth = 5
  MaxMarkers = 4
SPECIFICATION Spec
PROPERTIES
  PopReleasesAll
