CONSTANTS
  Conn = {k1}
  NoConn = NoConn
  MaxInbox = 1
  Core = {"sing-box", "mihomo"}
  Config = {a, e}
  EmptyConfig = e
  NoConfig = NoConfig
  Blank = Blank
  Pusher = {"scheduler", "admin"}
  EditKind = {"config", "binding", "delete", "move"}
  MayFail = TRUE
  HubMayStop = TRUE
  MaxQueue = 1
  MaxEdits = 1
  MaxPushes = 1
SPECIFICATION FairPushSpec
INVARIANT SnapshotWasAccepted
PROPERTIES
  ImplementsDelivery
  OrphanCoreStops
CHECK_DEADLOCK FALSE
