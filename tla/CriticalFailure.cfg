\* Once the bounds are used up nothing may be left to do.
CHECK_DEADLOCK FALSE
CONSTANTS
  move = move
  award = award
  item = item
  player = player
  Ids <- MCIds
  Keys <- MCKeys
  Commands <- OneCommand
  Retained <- MCRetained
  MaxOperations = 2
  MaxResults = 2
  MaxCompleted = 1
  MaxJobs = 2
  MaxSubmits = 1
  MaxLosses = 1
  MaxRestarts = 0
SPECIFICATION Spec
INVARIANT FailureRollsBack
