SPECIFICATION ClockSpec
CONSTANTS
  Request <- MCRequest
  Group = {"G"}
  NoGroup = "none"
  GroupOf <- MCGroupOf
  DelayOf <- MCDelayOf
  DELAYED_DISPATCH_MAX_ENTRIES = 2
  PcdDelayedDispatchMaxDelayUs = 2
  PcdDelayedDispatchCompletionTimeoutUs = 2
  COUNT_MODULUS = 4
  MaxTime = 4
  LastRequest = 2
  MaxDepth = 3
  CrystalClock = 4
  DefaultTickDuration = 15
  LastTick = 14
  TrapDepth = 3
INVARIANTS EntryStays NobodySkipped TimeAddsUp
