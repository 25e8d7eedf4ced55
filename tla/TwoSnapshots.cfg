SPECIFICATION Spec
CONSTANTS
  Newline = 3
  PageBytes = 4
  PageIds = 2
  Tables <- MCTables
INVARIANTS
  FetchExact
