SPECIFICATION FairSpec
CONSTANTS
  Me = 1
  Peer = {2}
  Thread = {t1, t2}
  At = {1}
  MaxSeq <- TwoEach
  MaxBatch = 2
  MaxRedact = 1
  MaxLearned = 1
  MaxCrash = 1
  NoThread = NoThread
  NoProjection = NoProjection
INVARIANTS
  CurrentMeansComplete
PROPERTIES
  InstallsExtend
  DiagnosticsNoticeRedaction
  StaleIsCaughtUp
