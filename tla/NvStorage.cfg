SPECIFICATION NvSpec
CONSTANTS
  PageSize = 2
  EraseSize = 2
  BlockSize = 4
  FvbOffset = 4
  FvbSize = 8
  Size = 12
  PollTries = 6
  MaxDelay = 2
  Windows <- DelayWindows
  Contents <- OldContents
  Outside <- Around
  Data <- Written
  Lists <- EraseLists
  Reads <- SomeReads
  MaxCalls = 2
  MaxFaults = 1
  MaxCrashes = 1
  FdBlockSize = 4
  FdBlocks = 1
  Images <- FdImages
INVARIANT CleanCallIsExact
INVARIANT OthersUntouched
INVARIANT PublishedIsValid
CHECK_DEADLOCK FALSE
