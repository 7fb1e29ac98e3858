CONSTANTS
  O = O VO = VO V = V W = W A = A B = B i1 = i1 i2 = i2 i3 = i3 i4 = i4
  Nil = Nil
  Class <- MCClass
  Name <- MCName
  Super <- MCSuper
  Ivars <- MCIvars
  Word = 2
  HeaderSize = 4
  MaxOffset = 1000
  Image = {i1, i2, i3, i4}
  Classes <- MCClasses
  Aliases <- MCAliases
  Selectors <- MCSelectors
  NameOf <- MCNameOf
  NameHash <- MCNameHash
  MapSize = 8
  SelName <- MCSelName
  SelBucket <- MCSelBucket
  Builtins <- MCBuiltins
  Static = {"releasing"}
  StaticName <- MCStaticName
  Dealloc = "dealloc"
  TagSel = "tag"
  Methods <- MCMethods
  MetaHash <- MCMetaHash
  MetaSize = 16
  ObjectName = "Object"
  ValueName = "ValueObject"
  TagSlot <- MCTagSlot
  TagSlots = 3
  Failures = {"region", "entry", "frozen", "slots", "values", "merged", "dtable", "offsets"}
  MaxFailures = 1
  MaxAliases = 1
  Object = {0, 1, 2, 3, 4, 5, 6}
  TableOf <- MCTableOf
  Forward <- MCForward
  ForwardSel = "forward"
  Hops = 3
SPECIFICATION Spec
CHECK_DEADLOCK FALSE
INVARIANTS
  ClassesFound
  SelectorsLive
  MessagesFindNearest
  ReflectionAgrees
  ForwardingReaches
  LayoutSound
  StrongOffsetsRight
  TaggedSlotsExclusive
