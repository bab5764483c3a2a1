SPECIFICATION Spec
CONSTANTS
  Names = {"cycles", "ll-write-miss", "single", "full", "long", "unknown", "wide", "absent"}
  CpuIds <- MCCpuIds
  EventsMap <- MCEventsMap
  Portable <- MCPortable
  Number <- MCNumber
  MaxPairs = 3
  NULL = NULL
  NoTable = NoTable
INVARIANTS MapFitsCpu
