SPECIFICATION Spec
CONSTANTS
  Revisions = {r1, r2}
  Events = {1, 2, 3}
  Checkpoints = {k1}
  PageSize = 1
  MaxPages = 2
  Chats = {"x", "y"}
  MaxRows = 3
  MinBatch = 2
  MaxBatch = 2
  MaxChats = 1
  MaxPerCycle = 1
  MaxFaults = 2
  MaxDeletions = 1
  Memories = {m1, m2}
  Others = {o1}
  Spaces = {s1, s2}
  MaxStops = 1
INVARIANTS
  TranscriptIsWhole
  SemanticizedOnce
  
PROPERTIES
  ParentWriteIsInert
  AllSemanticized
CHECK_DEADLOCK FALSE
