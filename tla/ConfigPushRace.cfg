CONSTANTS
  Conn = {k1}
  NoConn = NoConn
  MaxInbox = 1
  Core = {"sing-box"}
  Config = {a, b, e}
  EmptyConfig = e
  NoConfig = NoConfig
  Blank = Blank
  Pusher = {"scheduler", "admin"}
  EditKind = {"config"}
  MayFail = FALSE
  HubMayStop = FALSE
  MaxQueue = 1
  MaxEdits = 1
  MaxPushes = 1
SPECIFICATION PushSpec
INVARIANT EditIsPending
CHECK_DEADLOCK FALSE
