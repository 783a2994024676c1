\* Nothing or three bytes, in one PUT, or in chunks of two, or of three where
\* the registry states a minimum.
CONSTANTS
  Sizes = {0, 3}
  ChunkSizes = {0, 2}
  MinChunks = {0, 3}
  MaxAttempts = 2
  MaxHops = 1
\* Push ends.
CHECK_DEADLOCK FALSE
SPECIFICATION FairSpec
INVARIANTS
  SessionsHoldPrefixes
  OKMeansStored
  ProgressIsBacked
  NoSessionForgotten
  ReaderGivenBack
  SourceErrorIsTrueAndFinal
PROPERTIES
  SeekNeedsOwnership
  PushReturns
