SPECIFICATION Spec
CONSTANTS
  Turns = {t1, t2}
  NoTurn = NoTurn
  BundleSize = 2
  Faults = {}
  MaxBatches = 2
  MaxCopies = 1
  MaxCancels = 1
SYMMETRY Symmetry
PROPERTIES
  ModelSeesPairedCalls
CHECK_DEADLOCK FALSE
