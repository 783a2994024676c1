\* A source that returns io.EOF together with its last byte.
CONSTANTS
  Expected = 3
  Sources <- EOFWithLastByte
  RequireEOF = TRUE
  BufferSize = 2
  BufferCount = 2
  MaxEmptyReads = 2
SPECIFICATION FairSpec
CHECK_DEADLOCK FALSE
PROPERTY WriteEndsInRelease
