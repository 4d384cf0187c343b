\* Once the bounds are used up the game may have nothing left to do.
CHECK_DEADLOCK FALSE
CONSTANTS
  p1 = p1
  status = status
  items = items
  Pids <- OnePlayer
  Components <- MCComponents
  MaxRevision = 2
  MaxStates = 2
  MaxSnapshots = 2
  MaxJobs = 2
  Budget = 1
  Intents <- AllTerminal
  MaxChanges = 1
  MaxLogins = 1
  MaxCrashes = 1
  MaxDrains = 1
  MaxStops = 0
  MaxAppendFailures = 0
  MaxWriteFailures = 0
SYMMETRY Symmetry
SPECIFICATION Spec
INVARIANTS
  FencesInv
  ReleasedIsRecoverable
PROPERTIES
  TargetRowIsStill
