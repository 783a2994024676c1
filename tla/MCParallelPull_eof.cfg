\* Three one-byte chunks, two workers, no retry: every interleaving of
\* dispatch, workers, Read, Close, drainer and cancellation.
CONSTANTS
  Total = 3
  ProbeLen = 1
  PullChunk = 1
  PullWorkers = 2
  Worker = {w1, w2}
  MaxAttempts = 1
  ProbeAttempts = 1
  MaxRangeParts = 2
  Buffer = {1, 2, 3}
  Shared = 0
SPECIFICATION Spec
INVARIANTS
  EOFOnlyAtEnd
