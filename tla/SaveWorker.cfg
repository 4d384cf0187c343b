\* The system may stop: a shut-down worker does nothing more.
CHECK_DEADLOCK FALSE
CONSTANTS
  player = player
  locker = locker
  Owners <- MCOwners
  Players <- MCPlayers
  Captures <- MCCaptures
  MaxJobs = 2
  MaxBytes = 3
  MaxClock = 5
SPECIFICATION FairSpec
INVARIANTS
  IInv
  BytesExact
  PendingIsExact
PROPERTIES
  WritesInOrder
  ImplementsWriter
  StopEnds
  EveryJobLeaves
