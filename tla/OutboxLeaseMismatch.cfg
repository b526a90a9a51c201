\* Timely system, batches of one, no faults: the store's lease is shorter
\* than the PublishTimeout that validateConfig compared with another duration.
CONSTANTS
  Events <- OneEvent
  Workers = {w1, w2}
  Tokens = {1, 2, 3}
  NoToken = 0
  NoEvent = NoEvent
  CreatedAt <- OneCreation
  MaxRetries <- OneRetries
  BatchSize = 1
  Lease = 1
  PublishTimeout = 2
  RelayLease = 3
  BackoffBase = 0
  BackoffMax = 0
  MaxDelay = 0
  MaxInt = 1
  MaxShift = 0
  Skew <- NoSkew
  SkewBound = 0
  MaxFaults = 0
  Timely = TRUE
  StatementTime = 0
SPECIFICATION Spec
INVARIANT NoConcurrentDispatch
