SPECIFICATION NodeSpec
CONSTANTS
  Conn = {k1, k2}
  NoConn = NoConn
  MaxInbox = 2
  Request = {r1, r2}
  Deletes = {r2}
  NoRequest = NoRequest
  Open = Open
  Closed = Closed
  MaxBreaks = 2
  IssueTask = {t1}
  Renewal = Renewal
  MaxEdits = 3
  MaxIssues = 2
  MaxStreams = 2
  MaxErrors = 1
  MaxAges = 1
  Build = {b1, b2}
  AnyBuild = AnyBuild
  Missing = Missing
  Partial = Partial
INVARIANTS
  OnlineIsBacked
  SessionsHaveOwner
  OwnAnswers
  RowIsTrue
  PairMatches
  KeepsBinary
  BuildAsAsked
PROPERTIES
  DepartedGoesOffline
  FreshReconnectIsReachable
  EveryRequestEnds
  PendingIsSettled
CHECK_DEADLOCK FALSE
