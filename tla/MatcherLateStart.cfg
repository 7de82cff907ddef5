SPECIFICATION Spec
CONSTANTS
  a = a
  b = b
  v = v
  T = T
  hier = hier
  comp = comp
  typedef = typedef
  NullId = NullId
  AnyRef = AnyRef
  NoId = NoId
  NodeId <- MCNodeId
  RefType <- MCRefType
  SubTypes <- MCSubTypes
  MaxRefs = 8
  Inputs <- MCLateStart
INVARIANT ColumnsLinked
CHECK_DEADLOCK FALSE
