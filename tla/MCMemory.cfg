SPECIFICATION HeartSpec
CONSTANTS
  MaxNodes = 3
  MaxEvents = 3
  PmiNeighbors = 2
  TargetRoots = 1
  MaxCrashes = 1
  Event = {1, 2, 3}
  StateSlot = {"home"}
  AmountSlot = {"spent"}
  Speech <- Speeches
  Dated <- Dates
  MaxLosses = 1
  MaxLog = 4
  MaxMessages = 3
  MaxTurns = 2
  MaxDepth = 2
CHECK_DEADLOCK FALSE
INVARIANTS
  MemorySound
  ContextResolves
  FactsFollowLog
  AnswersGrounded
