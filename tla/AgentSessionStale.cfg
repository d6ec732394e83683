CONSTANTS
  Conn = {k1, k2}
  NoConn = NoConn
  MaxInbox = 1
SPECIFICATION FairSessionSpec
PROPERTY ReconnectedStaysReachable
CHECK_DEADLOCK FALSE
