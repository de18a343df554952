SPECIFICATION FairSpec
CONSTANTS
  h1 = h1
  h2 = h2
  Threads = {h1, h2}
  Requests = 2
  Retries = 1
  Window = 3
  RateLimit = 2
  LowPause = 0
  HighPause = 1
  Threshold = 3
  Recovery = 2
  BackoffBase = 1
  BackoffMax = 1
  Jitter = 0
INVARIANTS
  TypeOK
  OpenIffFailing
PROPERTIES
  RateHolds
  OneRequestSpills
  RequestEnds
CHECK_DEADLOCK FALSE
