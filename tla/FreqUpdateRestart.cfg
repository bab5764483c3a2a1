SPECIFICATION Spec
CONSTANTS
  U64 = 65536
  max_stalls_per_cycle = 65
  min_stalls_per_cycle = 10
  max_ipc = 45
  min_ipc = 10
  Delay = 2
  Limits <- MCLimits
  Increments <- MCIncrements
  MaxSkew = 2
  MaxTime = 5
INVARIANTS EveryDeltaIsOfInterval
