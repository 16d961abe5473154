CONSTANTS
  Setups <- Served
  Leads <- Requests
SPECIFICATION Spec
INVARIANTS TypeOK Gated ReachesKernel
PROPERTIES KeepsPromise
CHECK_DEADLOCK FALSE
