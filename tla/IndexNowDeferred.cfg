SPECIFICATION IndexNowSpec
CONSTANTS
  Urls = {u1, u2}
  Reports = {p1, p2}
  Phases = 3
  Window = 3
  MaxClock = 9
  MaxId = 3
  MaxBatch = 2
  Punctual = TRUE
PROPERTY DeferredIsSent
CHECK_DEADLOCK FALSE
