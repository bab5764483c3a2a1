SPECIFICATION Spec
CONSTANTS
  Policies = {p0, p1}
  First = p0
  EventCount = 2
  MaxRingbufferCount = 2
  MapExhaustible = FALSE
  StopAfterFailedStart = TRUE
INVARIANTS ReleasesAllocatedEvents
