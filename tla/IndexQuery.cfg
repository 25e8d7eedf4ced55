SPECIFICATION MCSpec
CONSTANTS
  Byte = {1, 2, 3}
  Newline = 3
  SizeMod = 32
  Contents <- MCContents
  Base = 4
  NumShards = 4
  OffsetsPerShard = 16
  MaxLineId = 6
  MaxText = 5
  MaxWords = 3
  MaxQuery = 4
INVARIANTS
  TypeOK
  LinesFound
  AnswerExact
  TruncatedIndexSound
