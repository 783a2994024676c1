\* Close between advance and readCurrent of a Read under way.
CONSTANTS
  Window = 2
  BlobSizes = {2}
  MaxRangeParts = 2
SPECIFICATION Spec
INVARIANT NeverNilReader
