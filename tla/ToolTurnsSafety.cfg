SPECIFICATION Spec
CONSTANTS
  Turns = {t1, t2}
  NoTurn = NoTurn
  BundleSize = 2
  Faults = {"speech", "send", "execute"}
  MaxBatches = 2
  MaxCopies = 1
  MaxCancels = 1
SYMMETRY Symmetry
INVARIANTS
  LockMatchesGenerator
  StorageSound
  OwnOutputUnlessOrphaned
PROPERTIES
  SingleResultKept
  KeepsLedger
CHECK_DEADLOCK FALSE
