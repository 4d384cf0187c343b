\* Once the bounds are used up the game may have nothing left to do.
CHECK_DEADLOCK FALSE
CONSTANTS
  p1 = p1
  status = status
  items = items
  Pids <- OnePlayer
  Components <- MCComponents
  MaxRevision = 2
  MaxStates = 2
  MaxSnapshots = 2
  MaxJobs = 1
  Budget = 1
  Intents <- CampOrSync
  MaxChanges = 1
  MaxLogins = 1
  MaxCrashes = 0
  MaxDrains = 0
  MaxStops = 1
  MaxAppendFailures = 0
  MaxWriteFailures = 1
SPECIFICATION FairSpec
INVARIANTS
  SavedIsDurable
PROPERTIES
  AdmittedIsSaved
  StopsWithoutLoss
