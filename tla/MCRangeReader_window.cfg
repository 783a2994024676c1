\* A window of four bytes over blobs that end inside, at and after it.
CONSTANTS
  Window = 4
  BlobSizes = {2, 4, 5}
  MaxRangeParts = 3
\* A Read that panicked and a finished Close leave no step to take.
CHECK_DEADLOCK FALSE
SPECIFICATION FairSpec
INVARIANTS
  TypeOK
  EOFMeansWindow
PROPERTIES
  ImplementsReads
  ReadReturns
  CloseReleasesBodies
