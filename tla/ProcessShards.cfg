SPECIFICATION Spec
CONSTANTS
  NumShards = 4
  OffsetsPerShard = 2
  MaxLineId = 2
  NumThreads = 3
  Fillings <- MCFillings
INVARIANTS
  TypeOK
  NoLostWakeup
  LookupExact
PROPERTIES
  WritesSequentially
  Finishes
