\* Three chunks of one, two and one bytes, two workers, a retry, short parts:
\* every interleaving of dispatch, workers, Read, Close, drainer,
\* cancellation and another pull that shares the buffer pool.
CONSTANTS
  Total = 4
  ProbeLen = 1
  PullChunk = 2
  PullWorkers = 2
  Worker = {w1, w2}
  MaxAttempts = 2
  ProbeAttempts = 1
  MaxRangeParts = 2
  Buffer = {1, 2, 3}
  Shared = 1
SPECIFICATION Spec
SYMMETRY WorkerSymmetry
INVARIANTS
  SlotAccounting
  BodiesAndBuffersBounded
  BuffersHaveOneOwner
  AwaitedChunkIsComing
PROPERTIES
  ImplementsStream
