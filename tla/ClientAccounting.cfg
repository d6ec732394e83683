CONSTANTS
  Node = {n1, n2}
  Scheduler = scheduler
  Pusher = {scheduler}
  Limit = 1
  Resets = TRUE
  Chunk = {1}
  MaxEntries = 2
  MaxBytes = 1
  MaxErrors = 1
  MaxEdits = 1
  MaxPeriods = 0
SPECIFICATION ClientSpec
SYMMETRY NodeSymmetry
INVARIANT AccountingExact
PROPERTY ClosedStaysClosed
