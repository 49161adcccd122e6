SPECIFICATION Spec
CONSTANTS
  Ppi <- MCPpi
  Notify <- MCNotify
  GuidOf <- MCGuidOf
  IsPpi <- MCIsPpi
  LevelOf <- MCLevelOf
  PpiLists <- MCPpiLists
  NotifyLists <- MCNotifyLists
  MaxPpis = 3
  MaxNotifies = 2
  MaxReinstalls = 1
  Empty = Empty
INVARIANTS CallbacksUpToDate SignalledOnce DispatchComplete
PROPERTY ImplementsPromise
