SPECIFICATION Spec
CONSTANTS
  U64 = 65536
  max_stalls_per_cycle = 65
  min_stalls_per_cycle = 10
  max_ipc = 45
  min_ipc = 10
  MaxCount = 30
  MaxFreqs = {1800, 3501}
  MinFreqs = {800, 1799, 1800}
INVARIANTS StallsCloseToExact IpcCloseToExact ThresholdsReachLimits
PROPERTIES ReactsTheRightWay
CHECK_DEADLOCK FALSE
