CONSTANTS
  Reqs = {r1, r2}
  DeleteStatuses = {"OK", "NETWORK_ERROR"}
  MaxHandlers = 1
  OnEmptySet = {TRUE}
SPECIFICATION Spec
\* A client that makes no more calls leaves the provider idle.
CHECK_DEADLOCK FALSE
INVARIANTS
  EraseRepliesOnce
  NoCallbackAfterDelete
PROPERTIES
  EraseCompletes
  ImplementsEraseSpec
