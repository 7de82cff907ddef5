SPECIFICATION Spec
CONSTANTS
  u = u
  v = v
  w = w
  i = i
  j = j
  Uri = {u, v, w}
  BaseUri = BaseUri
  Name = {i, j}
  Class <- MCClass
  Nodesets <- MCNodesets
  Capacity = 3
INVARIANTS
  TypeOK
  OneNumberOneNamespace
  EndsAreWritten
  CrashesOnlyIfFull
PROPERTIES
  ExportEnds
CHECK_DEADLOCK FALSE
