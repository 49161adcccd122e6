SPECIFICATION Spec
CONSTANTS
  BlockBytes = 2
  CardKinds = {"emmc", "mmc", "sd1", "sdhc", "sdio"}
  LastBlock = 2
  MaxBlock = 2
  RetryCount = 2
  ReadyTries = 2
  SettleTries = 2
  MaxFaults = 2
INVARIANT CleanCallMovesAll
INVARIANT StreamsAreStopped
PROPERTY CallsReturn
CHECK_DEADLOCK FALSE
