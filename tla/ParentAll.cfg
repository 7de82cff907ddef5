SPECIFICATION Spec
CONSTANTS
  r = r
  a = a
  b = b
  c = c
  hier = hier
  sub = sub
  typedef = typedef
  NullId = NullId
  AnyRef = AnyRef
  NodeId <- MCNodeId
  RefType <- MCRefType
  SubTypes <- MCSubTypes
  MaxRefs = 1
  Hierarchical = hier
  MaxPathLength = 5
  MaxUses = 2
  Instances <- MCInstances
INVARIANTS
  TypeOK
  OwnedOnce
  BrowsesLiveNode
  StepsUp
  WholeWay
PROPERTIES
  PathEnds
CHECK_DEADLOCK FALSE
