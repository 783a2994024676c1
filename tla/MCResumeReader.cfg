\* A blob of three bytes, at most two resumes after the opening request.
CONSTANTS
  Blob = 3
  MaxAttempts = 3
  FirstAttempts = {1, 2}
SPECIFICATION FairSpec
INVARIANTS
  EOFMeansComplete
  OneBudget
PROPERTIES
  ImplementsReads
  ReadReturns
  CloseReleasesBodies
