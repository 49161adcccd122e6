SPECIFICATION FairSpec
CONSTANTS
  Machines <- MCMachines
  MaxBus = 9
  MaxDepth = 5
  MaxFailures = 1
  MaxRequests = 3
INVARIANTS RoutingUnambiguous NumbersNest EverythingFound
PROPERTIES EnumerationEnds
CHECK_DEADLOCK FALSE
