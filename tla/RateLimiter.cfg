SPECIFICATION LimiterSpec
CONSTANTS
  Keys = {k1, k2}
  max_requests = 2
  window_seconds = 3
  MaxTime = 7
  MaxAdvance = 4
INVARIANTS
  LimiterConsistent
  WindowBound
PROPERTY RefusalIsEarned
