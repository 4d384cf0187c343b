\* A server that has shut down does nothing more.
CHECK_DEADLOCK FALSE
CONSTANTS
  Loader = loader
  Game = game
  writer = writer
  Threads <- MCThreads
  Sessions = {s1}
  PoolSize = 1
  MaxConnections = 2
  MaxPending = 2
  MaxRequests = 3
SPECIFICATION FairSpec
INVARIANTS
  PipelineInv
  ClosedIsCancelled
  LentToOne
  Accounted
  LentIsUsable
PROPERTIES
  ImplementsPool
  EveryLoadEnds
  ShutdownEnds
