SPECIFICATION Spec
CONSTANTS
  Turns = {t1, t2}
  Manuals = {m1}
  None = None
  KeepRecentUsers = 1
  TailBudget = 4
  TriggerTokens = 6
  Outputs <- SmallOutputs
  QueryImage <- NoImage
  Speech = TRUE
  MaxAttempts = 1
  MaxBatches = 1
  MaxStops = 1
  MaxGens = 0
INVARIANT StoppedCallsAnswered
CHECK_DEADLOCK FALSE
