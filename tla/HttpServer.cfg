SPECIFICATION Spec
CONSTANTS
  Job = {1, 2, 3}
  NoJob = NoJob
  Builds = {1, 2}
  NoConn = NoConn
  BaseThreads = 1
  MaxThreads = 2
  MaxFailures = 1
  KeepAliveMax = 2
  MaxRequests = 3
  MaxFiles = 4
  BuildFiles = 1
  SearchFiles = 2
INVARIANTS
  TypeOK
  NoStrandedJob
  ThreadsBounded
  DescriptorsAccounted
  ReturnsServed
PROPERTIES
  FirstRequestAnswered
  ListenReturns
