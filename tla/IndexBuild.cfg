SPECIFICATION BuildSpec
CONSTANTS
  Base = 4
  Newline = 0
  NumShards = 4
  OffsetsPerShard = 16
  MaxLineId = 3
  NumThreads = 3
  BufferSize = 1
  LineIdMod = 8
  LongestLines = {0, 1, 2, 3, 4, 5, 6, 7, 8, 9, 10, 11, 12, 13, 14, 15, 16, 17, 18}
  Renders = 2
  SizeMod = 32
  Texts <- MCTexts
  Documents <- MCDocuments
INVARIANTS
  BuildTypeOK
  Conserved
  Filled
  BarCounts
  IndexExact
PROPERTIES
  BuildEnds
