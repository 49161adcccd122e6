SPECIFICATION FairSpec
CONSTANTS
  File <- MCFile
  Fv <- MCFv
  Ppi <- MCPpi
  Delayed <- MCDelayed
  DELAYED_DISPATCH_MAX_ENTRIES = 1
  BootFv = "Boot"
  SecPpis = {}
  MemoryDiscovered = "mem"
  FilesOf <- MCFilesOf
  AprioriFile <- MCAprioriFile
  Contains <- MCContains
  NoFv = "none"
  Depex <- MCDepex
  NeedsToLoad <- MCNeedsToLoad
  NeedsToVerify <- MCNeedsToVerify
  Does <- MCDoes
  Shadowing = TRUE
INVARIANTS NobodyLeftBehind AprioriDispatched
PROPERTY Terminates
