SPECIFICATION Spec
CONSTANTS
  h1 = h1
  h2 = h2
  h3 = h3
  q1 = q1
  q2 = q2
  Request <- MCRequest
  Query <- MCQuery
  NoQuery = NoQuery
  NoReply = NoReply
  Pending = Pending
  Broken = Broken
  TimeoutReply = TimeoutReply
  ErrorReply = ErrorReply
  Users = "patient"
  MaxFailures = 1
INVARIANTS
  NeverCrashes
PROPERTIES
  KeepsPromise
CHECK_DEADLOCK FALSE
