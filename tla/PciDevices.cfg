SPECIFICATION Spec
CONSTANTS
  Machines <- All
INVARIANT RegisteredMeansInstalled
INVARIANT OneVgaActive
INVARIANT VgaReachable
CHECK_DEADLOCK FALSE
