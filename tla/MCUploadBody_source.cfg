\* Sources that are short, exact, long, failing, idle or demand-driven, and
\* Close anywhere.  The body stops for good once it is closed and released.
CONSTANTS
  Expected = 3
  Sources <- AllSources
  RequireEOF = TRUE
  BufferSize = 2
  BufferCount = 2
  MaxEmptyReads = 2
SPECIFICATION FairSpec
CHECK_DEADLOCK FALSE
INVARIANTS
  SentInOrder
  BuffersHaveOneHolder
  ReleasedMeansQuiet
  WireIsSettled
  ValidMeansExact
PROPERTIES
  CloseReleases
  DemandIsServed
