SPECIFICATION Spec
CONSTANTS
  TempTop = 3
  PhysicalBegin = 5
  PhysicalEnd = 9
  StackPages = 1
  HobsPerPage = 4
  RuntimePages = 2
  Requests <- MCRequests
  MaxOther = 2
  MaxFreed = 2
INVARIANTS HobsDisjoint Accounted
PROPERTY ImplementsPageStore
