SPECIFICATION Spec
CONSTANTS
  r = r
  x = x
  y = y
  z = z
  hier = hier
  comp = comp
  typedef = typedef
  NullId = NullId
  AnyRef = AnyRef
  NodeId <- MCNodeId
  RefType <- MCRefType
  SubTypes <- MCSubTypes
  MaxRefs = 8
  Hierarchical = hier
  StackLimit = 4
  Visits <- MCVisits
INVARIANTS
  TypeOK
  EmittedBelowRoot
  NothingMissed
  OncePerWay
  OverflowOnlyInCircle
PROPERTIES
  EndsUnlessInCircle
CHECK_DEADLOCK FALSE
