CONSTANTS
  MaxToolCalls = 1
  MaxRequests = 1
CHECK_DEADLOCK FALSE
SPECIFICATION Spec
INVARIANT OneThreadInSession
