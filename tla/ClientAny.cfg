SPECIFICATION Spec
CONSTANTS
  h1 = h1
  h2 = h2
  h3 = h3
  q1 = q1
  q2 = q2
  Request <- MCRequestPair
  Query <- MCQuery
  NoQuery = NoQuery
  NoReply = NoReply
  Pending = Pending
  Broken = Broken
  TimeoutReply = TimeoutReply
  ErrorReply = ErrorReply
  Users = "any"
  MaxFailures = 1
INVARIANTS
  TypeOK
  AnswerOfEarlier
  AnswerOnItsWay
PROPERTIES
  EveryRequestReplied
  StoredQueriesAreTaken
CHECK_DEADLOCK FALSE
