SPECIFICATION Spec
CONSTANTS
  Machines <- MCMachines
  BridgeAlign = 4
  IsaAlias = 4
INVARIANTS BarsReachable NothingOverlaps
PROPERTIES EveryRoundAsksLess
CHECK_DEADLOCK FALSE
