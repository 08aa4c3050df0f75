SPECIFICATION ServicesSpec
CONSTANTS
  MaxFailures <- DefaultFailures
  Cooldown <- DefaultCooldown
  Never = Never
  MaxTasks = 2
  Unlimited = {2}
  Thread = {t1, t2}
  Blob = {small, large}
  Large = {large}
  NoRow = NoRow
  MaxSeals = 4
  MaxCrashes = 3
  MaxRuns = 3
  MaxRecords = 1
  MaxCrash = 2
  MaxErrors = 2
CHECK_DEADLOCK FALSE
INVARIANTS
  ModelAdmitted
  ProbesReported
  OneVerdict
  BlobsSound
  NothingTwice
  NothingDropped
PROPERTIES
  RefusalEnds
  CancelStops
  PromptComesBack
