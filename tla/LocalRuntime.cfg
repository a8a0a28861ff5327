SPECIFICATION Spec
CONSTANTS
  Shells = {s1}
  Callers = {c1, c2}
  MaxPrinted = 4
  PendingCap = 2
  AggregatedCap = 3
  Calls = {k1}
  Passes = {1, 2, 3}
  MaxClients = 2
  MaxProcs = 2
  MaxIds = 3
  Keys = {"A", "B"}
INVARIANTS
  SessionTellsTruth
  ToolsOfEnabledServer
PROPERTIES
  GoneStaysGone
  AnswerIsOwn
  RequestsEnd
CHECK_DEADLOCK FALSE
