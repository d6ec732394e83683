CONSTANTS
  RateKey = {u1, u2}
  RateRequest = {d1, d2}
  Limit = 3
  Minute = 4
  MaxLate = 0
  MaxAge = 6
  MaxBuckets = 1
SPECIFICATION RateSpec
INVARIANT NotShutOut
CHECK_DEADLOCK FALSE
