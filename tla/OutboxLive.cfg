\* Timely system whose statements take time, one fault, two rows in one batch,
\* one worker's clock behind; a lease of exactly a batch's publishes and
\* statements.
CONSTANTS
  Events <- TwoEvents
  Workers = {w1, w2}
  Tokens = {1, 2}
  NoToken = 0
  NoEvent = NoEvent
  CreatedAt <- CreationOrder
  MaxRetries <- FewRetries
  BatchSize = 2
  Lease = 4
  PublishTimeout = 1
  RelayLease = 2
  BackoffBase = 0
  BackoffMax = 0
  MaxDelay = 0
  MaxInt = 1
  MaxShift = 0
  Skew <- Lagging
  SkewBound = 1
  MaxFaults = 1
  Timely = TRUE
  StatementTime = 1
SPECIFICATION FairSpec
INVARIANT
  NoConcurrentDispatch
PROPERTIES
  ImplementsLifecycle
  EventuallySettled
  ShutdownCompletes
