SPECIFICATION Spec
CONSTANTS
  h1 = h1
  h2 = h2
  h3 = h3
  q1 = q1
  q2 = q2
  Request <- MCRequest
  Query <- MCQuery
  NoQuery = NoQuery
  NoReply = NoReply
  Pending = Pending
  Broken = Broken
  TimeoutReply = TimeoutReply
  ErrorReply = ErrorReply
  Users = "one"
  MaxFailures = 0
INVARIANT AnswersOwnQuery
CHECK_DEADLOCK FALSE
