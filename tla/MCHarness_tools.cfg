SPECIFICATION StopSpec
CONSTANTS
  Kind = {"action"}
  MaxBatch = 2
  MaxRounds = 2
  NoLimit = NoLimit
  MaxToolTurns = 3
  MaxActions = 1
  EnforcePlans = FALSE
  PlanLength = {}
  MaxContinuations = 1
  MaxGuidance = 0
  MaxRuns = 2
  MaxCuts = 1
  NoPlan = NoPlan
  NoJournal = NoJournal
  NoCheckpoint = NoCheckpoint
CHECK_DEADLOCK FALSE
INVARIANTS
  ResultsTruthful
  BudgetHolds
PROPERTIES
  StopEnds
