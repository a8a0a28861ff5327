SPECIFICATION MCSpec
CONSTANTS
  r1 = r1
  q1 = q1
  q2 = q2
  k1 = k1
  s1 = s1
  Conns = {c1, c2}
  Overriding = {c2}
  Queries = {q1, q2}
  Settings = {s1}
  Compactions = {k1}
  Refs = {r1, None}
  AsksFor <- MCAsksFor
  None = None
  Deferred = Deferred
  Global = Global
  Locks = {l1, l2, l3}
  MaxSessions = 3
  MaxTasks = 2
  MaxGlobal = 1
PROPERTY EndsOnlyWithLastConnection
CHECK_DEADLOCK FALSE
