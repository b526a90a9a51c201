\* Calls with a semaphore, on a renderer with one, and on a zero value.
CONSTANTS
  Calls <- Mixed
  Shared = {"default", "fixed"}
  Fixed = {"fixed"}
  Zero = {"zero"}
  DefaultRenderer = "default"
  DefaultMax = 1
  None = None
  Limit <- MixedLimit
  Renderer <- MixedRenderers
  MaxConcurrency <- MixedLimits
  Supplied <- MixedSupplied
SPECIFICATION FairSpec
INVARIANTS
  PdfTypeOK
  RendererBound
  SlotsAccounted
PROPERTIES
  CancelledReturns
\* Every call is made once.
CHECK_DEADLOCK FALSE
