\* Three recipients and a blank one; half seconds, a tolerance of two seconds
\* and three clocks of the verifier.
CONSTANTS
  TicksPerSecond = 2
  Tolerance = 4
  MaxDuration = 20
  Secret = "shared"
  Kinds <- AllKinds
  Recipients <- OneBlank
  Blank = {" "}
  Endpoint = "endpoint"
  Setups <- WebhookSetups
  PartnerRequests <- SignedByPartner
  Skews <- ThreeSkews
  MaxTries = 2
  MaxClock = 7
SPECIFICATION Spec
INVARIANTS
  SendersTypeOK
  NilMeansAccepted
  PrefixServed
  WindowKept
\* The caller stops trying.
CHECK_DEADLOCK FALSE
