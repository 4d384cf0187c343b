\* Once the bounds are used up nothing may be left to do.
CHECK_DEADLOCK FALSE
CONSTANTS
  move = move
  award = award
  item = item
  player = player
  Ids <- MCIds
  Keys <- MCKeys
  Commands <- MCCommands
  Retained <- MCRetained
  MaxOperations = 2
  MaxResults = 2
  MaxCompleted = 1
  MaxJobs = 2
  MaxSubmits = 2
  MaxLosses = 2
  MaxRestarts = 1
SPECIFICATION FairSpec
INVARIANTS
  EffectOnce
  AnswerIsTrue
  TableInv
PROPERTIES
  AcceptedIsAnswered
  AcceptanceOrder
