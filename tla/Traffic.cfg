CONSTANTS
  Node = {n1}
  Scheduler = scheduler
  Pusher = {scheduler, admin}
  Limit = 2
  Resets = TRUE
  Chunk = {1}
  MaxEntries = 1
  MaxBytes = 2
  MaxErrors = 1
  MaxEdits = 0
  MaxPeriods = 1
  Flow = {c1}
  Payer = {alice}
  NoPayer = nobody
  MaxCarried = 2
  MaxReports = 1
  MaxFailures = 1
  TableAgent = {a1}
  Job = {j1, j2, j3}
  MaxRoom = 1
SPECIFICATION TrafficSpec
INVARIANT ReportsAreExact
PROPERTIES
  LimitIsEnforced
  RevocationIsPushed
  EverythingIsReported
  TableIsServed
CHECK_DEADLOCK FALSE
