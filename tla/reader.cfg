SPECIFICATION MCSpec
CONSTANTS
  MaxExchanges = 5
  MaxSessions = 2
  HeaderChunk = 3
  BodyChunk = 4
  PlainMax = 6
  MaxFile = 12
  DoHeader = 2
  Lengths <- MCLengths
  Reads = 2
  Exchanges = 4
INVARIANTS
  CacheTracksChip
  ExactFile
  PlainFilesReadable
  ReadKeepsToItsTag
  ReadLeavesNothing
  LossSurfacesInTime
PROPERTIES
  OneLossHarmless
  Terminates
  SessionEnds
CHECK_DEADLOCK FALSE
