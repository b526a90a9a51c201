\* Does WithMaxConcurrency bound the processes of its calls?
CONSTANTS
  Calls <- Asking
  Shared = {"default"}
  Fixed = {}
  Zero = {"zero"}
  DefaultRenderer = "default"
  DefaultMax = 1
  None = None
  Limit <- DefaultLimit
  Renderer <- AskingRenderers
  MaxConcurrency <- AskingLimits
  Supplied <- AskingSupplied
SPECIFICATION Spec
INVARIANT LimitKept
CHECK_DEADLOCK FALSE
