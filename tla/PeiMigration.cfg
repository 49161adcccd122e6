SPECIFICATION Spec
CONSTANTS
  Machines <- MCMachines
  FvInfoGuid = 4
  MinimumInitialMemory = 1
  DxeCodePages = 2
  PeiCodePages = 4
  MaxAddress = 110
  CorePages = 4
  MaxPpis = 2
  MaxLoads = 2
INVARIANT PointersFollow
INVARIANT ClaimsDisjoint
INVARIANT ResourcesPartition
CHECK_DEADLOCK FALSE
