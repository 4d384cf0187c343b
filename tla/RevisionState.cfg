CONSTANTS
  p1 = p1
  p2 = p2
  status = status
  items = items
  Pids <- MCPids
  Components <- MCComponents
  MaxRevision = 3
  MaxStates = 1
SPECIFICATION Spec
INVARIANTS
  NothingStranded
  NoLostMark
PROPERTIES
  RevisionsOnlyGrow
