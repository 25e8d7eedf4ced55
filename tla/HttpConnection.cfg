SPECIFICATION Spec
CONSTANTS
  Scripts <- MCScripts
  KeepAliveMax = 3
  MaxPayload = 1
  RangeMaxCount = 4
  Lengths = {0, 3}
INVARIANTS
  TypeOK
  FramingKept
  AnswersInOrder
  CloseAnnounced
  RangesSatisfied
PROPERTIES
  NobodyWaitsForever
