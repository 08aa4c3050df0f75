SPECIFICATION AnswerSpec
CONSTANTS
  Kind = {"action", "missing"}
  MaxBatch = 2
  MaxRounds = NoLimit
  NoLimit = NoLimit
  MaxToolTurns = 1
  MaxActions = 1
  EnforcePlans = TRUE
  PlanLength = {2}
  MaxContinuations = 1
  MaxGuidance = 1
  MaxRuns = 1
  MaxCuts = 0
  NoPlan = NoPlan
  NoJournal = NoJournal
  NoCheckpoint = NoCheckpoint
CHECK_DEADLOCK FALSE
INVARIANTS
  CheckpointsValid
  StopHonoured
  GuidanceHeard
PROPERTIES
  RunEnds
