\* One call with a transaction and one without, four orders, one crash.
CONSTANTS
  Calls = {r1, direct}
  WithTx = {r1}
  Orders <- SomeOrders
  MaxRetries <- OneTry
  MaxCrashes = 1
SPECIFICATION Spec
INVARIANTS
  InvoiceTypeOK
  IssuedTogether
  ErrorLeavesNothing
  EffectsAudited
  RoundingBounded
\* Every call ends once.
CHECK_DEADLOCK FALSE
