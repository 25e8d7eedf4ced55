SPECIFICATION Spec
CONSTANTS
  Pusher = {p1, p2}
  BatchLengths = {0, 1, 3}
  MaxPushes = 2
  ChunkCapacity = 2
  ElementSize = 2
  PageSize = 2
  Nobody = Nobody
  Zero = Zero
  NoAccess = NoAccess
INVARIANTS
  TypeOK
  WithinMapping
PROPERTY
  ImplementsLog
