\* Once the bounds are used up the game may have nothing left to do.
CHECK_DEADLOCK FALSE
CONSTANTS
  p1 = p1
  status = status
  items = items
  Pids <- OnePlayer
  Components <- MCComponents
  MaxRevision = 3
  MaxStates = 2
  MaxSnapshots = 2
  MaxJobs = 1
  Budget = 1
  Intents <- Camp
  MaxChanges = 3
  MaxLogins = 1
  MaxCrashes = 0
  MaxDrains = 0
  MaxStops = 0
  MaxAppendFailures = 1
  MaxWriteFailures = 0
SYMMETRY Symmetry
SPECIFICATION Spec
INVARIANTS
  DatabaseIsOneCut
  FenceIsTruthful
  NewerMakesUp
