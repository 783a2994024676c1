\* Two workers fetch three chunks out of order under two slots, with retries.
CONSTANTS
  Total = 3
  ProbeLen = 1
  PullChunk = 1
  PullWorkers = 2
  Worker = {w1, w2}
  MaxAttempts = 2
  ProbeAttempts = 1
  MaxRangeParts = 2
  Buffer = {1, 2, 3}
  Shared = 0
SPECIFICATION FairSpec
PROPERTIES
  CloseReleasesEverything
  CancelStopsWorkers
  ReaderFinishes
