\* Four events, one goroutine, a queue of one, every policy.
CONSTANTS
  Tasks = {e1, e2, e3, e4}
  Goroutines = {g1}
  NoTask = NoTask
  QueueSize = 1
  Policies <- AllPolicies
SPECIFICATION FairSpec
INVARIANTS
  AuditTypeOK
  AcceptedAccountedFor
  WrittenOnce
  CloseDrains
PROPERTIES
  CallsReturn
  AcceptedSettles
\* Every event is recorded at most once, and Close ends the recorder.
CHECK_DEADLOCK FALSE
