CONSTANTS
  Conn = {k1, k2}
  NoConn = NoConn
  MaxInbox = 1
  Core = {"sing-box"}
  Config = {a, b, e}
  EmptyConfig = e
  NoConfig = NoConfig
  Blank = Blank
  Pusher = {"scheduler", "admin"}
  EditKind = {"config"}
  MayFail = FALSE
  HubMayStop = TRUE
  MaxQueue = 1
  MaxEdits = 1
  MaxPushes = 2
SPECIFICATION PushSpec
SYMMETRY PushSymmetry
INVARIANT RecordExact
CHECK_DEADLOCK FALSE
