SPECIFICATION FairSpec
CONSTANTS
  Turns = {t1, t2}
  Manuals = {m1}
  None = None
  KeepRecentUsers = 1
  TailBudget = 3
  TriggerTokens = 6
  Outputs <- AllOutputs
  QueryImage <- OneImage
  Speech = TRUE
  MaxAttempts = 1
  MaxBatches = 2
  MaxStops = 1
  MaxGens = 1
INVARIANTS
  NothingClearedReturns
  TailSound
  OpenCallsStaged
PROPERTIES
  ConcurrentRowsSurvive
  JobsEnd
CHECK_DEADLOCK FALSE
