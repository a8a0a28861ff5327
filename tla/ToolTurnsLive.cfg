SPECIFICATION FairSpec
CONSTANTS
  Turns = {t1, t2}
  NoTurn = NoTurn
  BundleSize = 2
  Faults = {"speech", "send", "execute"}
  MaxBatches = 1
  MaxCopies = 2
  MaxCancels = 2
PROPERTIES
  TurnsEnd
CHECK_DEADLOCK FALSE
