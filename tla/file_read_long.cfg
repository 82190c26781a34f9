SPECIFICATION FileSpec
CONSTANTS
  HeaderChunk = 3
  BodyChunk = 4
  PlainMax = 6
  MaxFile = 12
  DoHeader = 2
  Lengths <- MCLengths
INVARIANT LongFilesReadable
CHECK_DEADLOCK FALSE
