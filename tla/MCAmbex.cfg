CONSTANTS
  MaxDisk = 3
  MaxFast = 2
  SigBuffer = 1
  Drain = 2
  Usages = {49, 90}
  Inconsistent <- Clash
SPECIFICATION FairSpec
INVARIANTS NothingMissed
PROPERTIES DeliversAsPromised EventuallyApplied
