CONSTANTS
  Node = {n1}
  Scheduler = scheduler
  Pusher = {scheduler, admin}
  Limit = 0
  Resets = FALSE
  Chunk = {1}
  MaxEntries = 1
  MaxBytes = 1
  MaxErrors = 0
  MaxEdits = 0
  MaxPeriods = 0
SPECIFICATION TriedClientSpec
PROPERTY OnHoldIsActivated
