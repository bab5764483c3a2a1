SPECIFICATION FairSpec
CONSTANTS
  Size = 3
  Readers = {r1, r2}
  MaxBatch = 4
  MaxEntries = 7
INVARIANTS TypeOK OutputIsNewestEntries NoSelfDeadlock NewestStayInBuffer
PROPERTIES ImplementsLossyLog NoEntryTwice ReadReturns
