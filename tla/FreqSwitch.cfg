SPECIFICATION FairSpec
CONSTANTS
  RelatedCpus = {c0, c1}
  PolicyCpu = c0
  OtherCpus = {c2}
  Freqs = {lo, mid, hi}
  MaxFreq = hi
INVARIANTS TypeOK NoMissedUpdate FlagNotStuck OneUpdateAhead NoSelfDeadlock ResourcesAlive
PROPERTIES ImplementsMailbox NoSwitchWhileStopped RequestReachesDriver StopReturns
