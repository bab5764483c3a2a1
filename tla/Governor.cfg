SPECIFICATION Spec
CONSTANTS
  Policies = {p0, p1, p2}
  First = p0
  EventCount = 2
  MaxRingbufferCount = 2
  MapExhaustible = TRUE
  StopAfterFailedStart = FALSE
INVARIANTS TypeOK RegisteredBuffersOpen FlagTellsOfDebugfs NothingLeftBehind RunningHasEvents MapIsFirsts ReleasesOnlyLive
