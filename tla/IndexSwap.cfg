SPECIFICATION Spec
CONSTANTS
  Base = 4
  Newline = 3
  NumShards = 4
  OffsetsPerShard = 16
  MaxLineId = 6
  Builder = {b1, b2}
  Searcher = {s1}
  NoBuilder = NoBuilder
  Modes = {"db", "linear"}
  Tables <- MCTables
  Uploads <- MCUploads
  Queries <- OneQuery
  MaxFaults = 1
INVARIANTS
  TypeOK
  PromotesItsOwn
  SettledIndex
  QuietSearchExact
PROPERTIES
  FailedBuildKeepsIndex
