\* Once every revision is used the server may have nothing left to do.
CHECK_DEADLOCK FALSE
CONSTANTS
  Pids <- MCPids
  Mortals <- MCMortals
  Leavings <- MCCleanLeavings
  MaxRevision <- MCMaxRevision
  MaxRecords = 2
  Quota = 2
  MaxCrashes = 1
SPECIFICATION Spec
INVARIANTS
  JournalInv
PROPERTIES
  ReplayRecovers
