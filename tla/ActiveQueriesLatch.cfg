SPECIFICATION Spec
CONSTANTS
  Users = {u1}
  Tasks = {t1, t2}
  Convs = {c1}
  Turns = {r1, r2}
  NoRef = NoRef
  MaxPerUser = 2
  MaxGlobal = 2
  Grace = 1
  MaxTime = 2
  MaxStops = 2
  MaxEndings = 1
SYMMETRY Symmetry
INVARIANTS
  TrackedNotLatched
  SwallowsMatchStops
PROPERTIES
  StopHonoured
CHECK_DEADLOCK FALSE
