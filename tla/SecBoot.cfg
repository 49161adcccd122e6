SPECIFICATION Spec
CONSTANTS
  NoHart = NoHart
  BadHart = BadHart
  MaxHartBits = 6
  Harts = {0, 1, 2, 3}
  BootHart = 1
  MaxStops = 1
  Configs <- MCConfigs
INVARIANT ScratchAgrees PreparedBeforeUse HandOffComplete
PROPERTY BootsUp
CHECK_DEADLOCK FALSE
