\* Timely system; a batch of two takes longer than the lease.
CONSTANTS
  Events <- TwoEvents
  Workers = {w1, w2}
  Tokens = {t1, t2, t3}
  NoToken = NoToken
  NoEvent = NoEvent
  CreatedAt <- CreationOrder
  MaxRetries <- FewRetries
  BatchSize = 2
  Lease = 3
  PublishTimeout = 2
  RelayLease = 3
  BackoffBase = 0
  BackoffMax = 0
  MaxDelay = 0
  MaxInt = 1
  MaxShift = 0
  Skew <- NoSkew
  SkewBound = 0
  MaxFaults = 0
  Timely = TRUE
  StatementTime = 0
SYMMETRY Symmetric
SPECIFICATION Spec
INVARIANT NoConcurrentDispatch
