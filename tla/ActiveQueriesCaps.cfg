SPECIFICATION Spec
CONSTANTS
  Users = {u1, u2}
  Tasks = {t1, t2, t3, t4}
  Convs = {}
  Turns = {r1}
  NoRef = NoRef
  MaxPerUser = 2
  MaxGlobal = 3
  Grace = 1
  MaxTime = 1
  MaxStops = 1
  MaxEndings = 1
SYMMETRY Symmetry
INVARIANTS
  WithinCaps
  ExecutingIsTracked
CHECK_DEADLOCK FALSE
