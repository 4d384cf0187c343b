\* Once every revision is used the server may have nothing left to do.
CHECK_DEADLOCK FALSE
CONSTANTS
  Pids <- MCPids
  Mortals <- MCMortals
  Leavings <- MCLongLeavings
  MaxRevision <- MCMaxRevision
  MaxRecords = 3
  Quota = 3
  MaxCrashes = 1
SPECIFICATION Spec
INVARIANT JournaledUntilDurable
