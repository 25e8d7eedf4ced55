SPECIFICATION Spec
CONSTANTS
  Base = 4
  Newline = 3
  NumShards = 4
  OffsetsPerShard = 16
  MaxLineId = 6
  Builder = {b1, b2}
  Searcher = {}
  NoBuilder = NoBuilder
  Modes = {"db"}
  Tables <- ShortWords
  Uploads = {}
  Queries <- OneQuery
  MaxFaults = 0
INVARIANTS
  BuildSurvives
