\* Once the work ids are used up and nothing fails, only time passes.
CONSTANTS
  modifiers = modifiers
  tasks = tasks
  Registry <- MCRegistry
  Catalog = tasks
  Priority <- MCPriority
  Zones = 3
  Budget = 2
  MaxWorks = 2
  MaxFailures = 1
  MaxRestarts = 1
SPECIFICATION FairSpec
INVARIANTS
  StateFileLoads
  SchedulerInv
  EachZoneOnce
  ForgottenIsDelivered
  CatalogIsWhole
PROPERTIES
  RunEnds
