\* Every opening call with four attempts, at most two hops a request, delays
\* that overflow their four bits at the third try; a blob of two bytes.
CONSTANTS
  Op <- AllOps
  Size = 2
  MaxAttempts = 4
  MaxRedirects = 2
  InitialDelay = 2
  MaxDelay = 3
  Width = 4
  Wish = {0, 5}
SPECIFICATION FairSpec
\* A call returns and a reader is closed.
CHECK_DEADLOCK FALSE
INVARIANTS
  OneBudget
  BackoffIsExponential
  EOFMeansVerified
  BodiesAccounted
  AnswersAreTrue
  ErrorsTellWhatHappened
PROPERTIES
  CallReturns
