\* One chunk answered in several parts, three attempts: each part draws on
\* the whole budget.
CONSTANTS
  Total = 4
  ProbeLen = 1
  PullChunk = 3
  PullWorkers = 2
  Worker = {w1, w2}
  MaxAttempts = 3
  ProbeAttempts = 1
  MaxRangeParts = 2
  Buffer = {1, 2, 3}
  Shared = 0
SPECIFICATION Spec
INVARIANTS
  RetriesWithinBudget
