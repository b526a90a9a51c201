\* Three slow workers whose clocks are behind compete for one row; retries and
\* one fault.
CONSTANTS
  Events <- OneEvent
  Workers = {w1, w2, w3}
  Tokens = {t1, t2, t3, t4}
  NoToken = NoToken
  NoEvent = NoEvent
  CreatedAt <- OneCreation
  MaxRetries <- OneRetries
  BatchSize = 1
  Lease = 2
  PublishTimeout = 1
  RelayLease = 2
  BackoffBase = 2
  BackoffMax = 3
  MaxDelay = 1
  MaxInt = 7
  MaxShift = 1
  Skew <- AllLate
  SkewBound = 2
  MaxFaults = 1
  Timely = FALSE
  StatementTime = 0
SYMMETRY Symmetric
SPECIFICATION Spec
INVARIANTS
  TypeOK
  LeaseExclusive
  LeaseInv
  BackoffBounded
PROPERTIES
  TerminalAbsorbing
  LeaseRespected
  DispatchHoldsLease
