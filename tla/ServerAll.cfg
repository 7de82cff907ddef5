SPECIFICATION ServerSpec
CONSTANTS
  f = f
  g = g
  a = a
  b = b
  v = v
  T = T
  S = S
  x = x
  hier = hier
  comp = comp
  sub = sub
  typedef = typedef
  obj = obj
  types = types
  other = other
  NullId = NullId
  AnyRef = AnyRef
  NoId = NoId
  NoText = NoText
  RootName = "root"
  NodeId <- MCNodeId
  RefType <- MCRefType
  SubTypes <- MCSubTypes
  Name <- MCName
  Label <- MCLabel
  RelName <- MCRelName
  ReferenceTypes <- MCReferenceTypes
  Meaning <- MCMeaning
  MaxRefs = 16
  ObjectsFolder = f
  ObjectTypesFolder = g
  Hierarchical = hier
  StackLimit = 8
  Queries <- MCNoQueries
  Calls <- MCCalls
  NotString = NotString
INVARIANTS
  ServerTypeOK
  FailsOnlyIfUnconnected
  TablesComplete
  StartsFromSource
  Answers
  EndsOnlyFor
  LosesNoRow
  RepliesAsAsked
PROPERTIES
  CallEnds
CHECK_DEADLOCK FALSE
